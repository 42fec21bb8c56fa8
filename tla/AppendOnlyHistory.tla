------------------------- MODULE AppendOnlyHistory -------------------------
(***************************************************************************)
(* What store/history.py promises the rest of the program: the committed   *)
(* history is a log that only grows, and one call of save_snapshot() adds  *)
(* one complete record to it in one indivisible step.  There is no update  *)
(* and no delete.                                                          *)
(***************************************************************************)
EXTENDS Sequences

CONSTANT Record      \* the complete records a caller may ask to have saved

VARIABLE log         \* the committed history, oldest row first

Init == log = << >>

(***************************************************************************)
(* save_snapshot() as its callers see it: the record is added whole, or    *)
(* the call raises and nothing has happened (a stuttering step).           *)
(***************************************************************************)
Save(r) == log' = Append(log, r)

Next == \E r \in Record : Save(r)

Spec == Init /\ [][Next]_log
=============================================================================
