--------------------------- MODULE HistoryQueries ---------------------------
(***************************************************************************)
(* The queries of store/history.py over the committed rows, and the scan   *)
(* of engine/perf.py that picks the weights in force on a day.             *)
(*                                                                         *)
(* Rows are ordered by effective date and, within a date, by created_at:   *)
(* the WALL CLOCK at the time of the save, not the row id.  The order of   *)
(* rows that agree on both is the database's choice, so a query is the set *)
(* of the answers it may give.                                             *)
(***************************************************************************)
EXTENDS Integers, Sequences, SequencesExt

CONSTANTS
    Portfolio,    \* portfolio codes
    Date,         \* effective dates, as day numbers
    Weights,      \* weight vectors
    ClockSteps,   \* by how much the wall clock may move between two saves
    MaxRows       \* bound on the number of saves

Source == {"user_committed", "seed", "engine", "candidate_preview"}

CommittedSource == {"user_committed", "seed", "engine"}

ASSUME QueriesAssumption ==
    /\ Date \subseteq Int
    /\ ClockSteps \subseteq Int
    /\ MaxRows \in Nat

VARIABLES
    rows,     \* the table "snapshots" with the weights of each row, by id
    clock     \* datetime.now(timezone.utc) at the last save

queryVars == <<rows, clock>>

Row == [portfolio : Portfolio, effective : Date, source : Source,
        created : Int, weights : Weights]

QueriesTypeOK == rows \in Seq(Row) /\ clock \in Int

----------------------------------------------------------------------------
(* The WHERE clause every query shares.                                    *)
Committed(p) ==
    {i \in DOMAIN rows : /\ rows[i].portfolio = p
                         /\ rows[i].source \in CommittedSource}

(* Mutant: the row saved last comes first, whatever its date.              *)
NewerByClock(i, k) == rows[i].created > rows[k].created

(* Row i comes strictly before row k in ... date DESC, created_at DESC.    *)
Newer(i, k) ==
    \/ rows[i].effective > rows[k].effective
    \/ /\ rows[i].effective = rows[k].effective
       /\ rows[i].created > rows[k].created

(* get_current(): LIMIT 1; no answer is NotFoundError.                     *)
Current(p) ==
    {i \in Committed(p) : \A k \in Committed(p) : ~Newer(k, i)}

(* Mutant: LIMIT 2 and the first row instead of the second.                *)
PreviousOffByOne(p) ==
    {i \in Committed(p) : \A k \in Committed(p) : ~Newer(k, i)}

(* get_previous(): LIMIT 2, the second row; none is NotFoundError.         *)
Previous(p) ==
    {k \in Committed(p) :
        \E i \in Current(p) \ {k} :
            \A m \in Committed(p) \ {i, k} : ~Newer(m, k)}

(* list_history(): newest first, LIMIT n.                                  *)
Listings(p, n) ==
    {SubSeq(q, 1, IF n < Len(q) THEN n ELSE Len(q)) :
        q \in {q \in SetToSeqs(Committed(p)) :
                 \A a, b \in DOMAIN q : a < b => ~Newer(q[b], q[a])}}

(* Mutant: the newest correction of a date comes first.                    *)
OlderNewestFirst(i, k) ==
    \/ rows[i].effective < rows[k].effective
    \/ /\ rows[i].effective = rows[k].effective
       /\ rows[i].created > rows[k].created

(* Row i comes strictly before row k in ... date ASC, created_at ASC.      *)
Older(i, k) ==
    \/ rows[i].effective < rows[k].effective
    \/ /\ rows[i].effective = rows[k].effective
       /\ rows[i].created < rows[k].created

(* chained_timeline(): every committed row, oldest first.                  *)
Timelines(p) ==
    {q \in SetToSeqs(Committed(p)) :
        \A a, b \in DOMAIN q : a < b => ~Older(q[b], q[a])}

(* Mutant: the current weights are applied to the whole history.           *)
ActiveStatic(q, d) == IF q = << >> THEN {} ELSE {Last(q)}

(***************************************************************************)
(* portfolio_returns(): the last segment of timeline q whose effective     *)
(* date is not after day d, as a set; empty when d precedes them all.      *)
(* Python's sort is stable, so the order of equal dates is the timeline's. *)
(***************************************************************************)
Active(q, d) ==
    LET inForce == {a \in DOMAIN q : rows[q[a]].effective =< d}
    IN  {q[a] : a \in {a \in inForce : \A b \in inForce : b =< a}}

----------------------------------------------------------------------------
QueriesInit == rows = << >> /\ clock = 0

(* Mutant: the effective date is stored one day late.                      *)
SaveNextDay(p, e, src, w) ==
    /\ Len(rows) < MaxRows
    /\ \E step \in ClockSteps : clock' = clock + step
    /\ rows' = Append(rows, [portfolio |-> p, effective |-> e + 1,
                             source |-> src, created |-> clock',
                             weights |-> w])

(* save_snapshot() as the queries see it: created_at is _now_iso().        *)
Save(p, e, src, w) ==
    /\ Len(rows) < MaxRows
    /\ \E step \in ClockSteps : clock' = clock + step
    /\ rows' = Append(rows, [portfolio |-> p, effective |-> e,
                             source |-> src, created |-> clock',
                             weights |-> w])

QueriesNext ==
    \E p \in Portfolio, e \in Date, src \in Source, w \in Weights :
        Save(p, e, src, w)

QueriesSpec == QueriesInit /\ [][QueriesNext]_queryVars

----------------------------------------------------------------------------
(* Properties.                                                             *)

(* get_current() has one answer: the row with the latest effective date,   *)
(* and among corrections of that date the one that was saved last.         *)
LatestCorrectionIsCurrent ==
    \A p \in Portfolio : \A i \in Current(p) : \A k \in Committed(p) :
        \/ rows[k].effective < rows[i].effective
        \/ rows[k].effective = rows[i].effective /\ k =< i

(* The weights in force on a day are those of the last correction of the   *)
(* latest effective date not after it; no weights before the first date.   *)
DaysFollowLatestCorrection ==
    \A p \in Portfolio : \A q \in Timelines(p) : \A d \in Date :
        LET inForce == {i \in Committed(p) : rows[i].effective =< d}
        IN  Active(q, d) =
              {i \in inForce : \A k \in inForce :
                  \/ rows[k].effective < rows[i].effective
                  \/ rows[k].effective = rows[i].effective /\ k =< i}

(* The four queries tell one story: the timeline read backwards is the     *)
(* listing, it starts with get_current() and goes on with get_previous().  *)
QueriesAgree ==
    \A p \in Portfolio : \A q \in Timelines(p) :
        /\ Listings(p, 2) = {SubSeq(Reverse(q), 1, IF Len(q) < 2 THEN Len(q) ELSE 2)}
        /\ Current(p) = IF q = << >> THEN {} ELSE {Last(q)}
        /\ Previous(p) = IF Len(q) < 2 THEN {} ELSE {q[Len(q) - 1]}

(* A new row, a backdated one too, leaves the days before its effective    *)
(* date and the other portfolios with the weights they had; a preview      *)
(* leaves every day with them.                                             *)
EarlierDaysKeepTheirWeights ==
    [][\A p \in Portfolio, d \in Date :
         LET new == rows'[Len(rows')]
             Answers == {Active(q, d) : q \in Timelines(p)}
         IN  \/ new.portfolio # p
             \/ d < new.effective
             \/ new.source = "candidate_preview"
             => Answers' = Answers
      ]_queryVars
=============================================================================
