---------------------------- MODULE Enumerations ----------------------------
(***************************************************************************)
(* Finite sets of integers written as sequences: what sorted() returns,    *)
(* and the positions a list comprehension keeps.  An element stands at the *)
(* place its rank gives it, so that what stands where can be reasoned      *)
(* about as well as computed.                                              *)
(***************************************************************************)
EXTENDS Integers, Sequences, FiniteSets

(* The elements of S that come before x.                                   *)
Below(S, x) == {y \in S : y < x}

(* S in ascending order.                                                   *)
InOrder(S) ==
    [k \in 1 .. Cardinality(S) |->
        CHOOSE x \in S : Cardinality(Below(S, x)) = k - 1]
=============================================================================
