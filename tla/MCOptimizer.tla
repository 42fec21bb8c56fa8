---------------------------- MODULE MCOptimizer -----------------------------
(* An instance of Optimizer for TLC: three funds, a portfolio of three     *)
(* percents, a percent of 24 units, solver points on quarter percents.     *)
EXTENDS Optimizer, TLC

CONSTANTS f1, f2, f3

(* Free, narrow, from a percent stored a hair below or above, pinned to a  *)
(* percent, fractional, high, and crossed bounds.                          *)
MCBounds == {<<0, 72>>, <<0, 24>>, <<23, 48>>, <<25, 48>>, <<24, 24>>,
             <<12, 36>>, <<48, 72>>, <<24, 0>>}

(* Whole percents: a free fund and one that must have exactly a percent.   *)
MCPinned == {<<0, 72>>, <<24, 24>>}

MCSymmetry == Permutations(Fund)
=============================================================================
