--------------------------- MODULE MCHistoryStore ---------------------------
(* Instances of HistoryStore for TLC. *)
EXTENDS HistoryStore, TLC

CONSTANTS s1, s2, f1, f2

MCJobs ==
    {[portfolio |-> 1, source |-> "engine", metrics |-> FALSE],
     [portfolio |-> 1, source |-> "user_committed", metrics |-> TRUE]}

=============================================================================
