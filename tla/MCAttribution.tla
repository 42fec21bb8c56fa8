--------------------------- MODULE MCAttribution ---------------------------
(* Instances of Attribution for TLC: the files of a session, over days     *)
(* 1 .. 5.                                                                 *)
EXTENDS Attribution

Advancing == {1}

(* Files that start together and grow, or have gaps, or start anywhere.    *)
MCFiles == {{2, 3}, {2, 4, 5}, {1, 2, 3, 4}, {4, 5}}
=============================================================================
