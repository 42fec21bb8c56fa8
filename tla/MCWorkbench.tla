---------------------------- MODULE MCWorkbench ----------------------------
(* Instances of Workbench for TLC: the files of a session, over days 1..3. *)
EXTENDS Workbench, TLC

Advancing == {1}

(* Files that start together and grow, or have gaps, or start anywhere.    *)
MCFiles == {{2, 3}, {1, 2}, {1, 3}}

(* Nothing tells one allocation, or one cap, from another.                 *)
Renamings == Permutations(Weights) \cup Permutations(Cap)
=============================================================================
