------------------------- MODULE HistoryStoreProofs -------------------------
(***************************************************************************)
(* Theorems about HistoryStore, for every set of sessions, funds, codes    *)
(* and requested saves.                                                    *)
(***************************************************************************)
EXTENDS HistoryStore, SequenceTheorems, TLAPS

----------------------------------------------------------------------------
(* The operators the actions are built from.                               *)

(* An assignment outside of the domain of a sequence changes nothing.      *)
LEMMA ExceptOutside ==
    ASSUME NEW S, NEW seq \in Seq(S), NEW i, i \notin 1 .. Len(seq), NEW e
    PROVE  [seq EXCEPT ![i] = e] = seq
<1>1. DOMAIN seq = 1 .. Len(seq) /\ seq \in [1 .. Len(seq) -> S]
  BY LenProperties
<1>2. seq = [k \in 1 .. Len(seq) |-> seq[k]]
  BY <1>1
<1>3. [seq EXCEPT ![i] = e] =
        [k \in 1 .. Len(seq) |-> IF k = i THEN e ELSE seq[k]]
  BY <1>1
<1>4. \A k \in 1 .. Len(seq) : k # i
  OBVIOUS
<1>5. QED
  BY <1>2, <1>3, <1>4

(* Adding a row, a weight, the metrics or a benchmark keeps the database   *)
(* well formed (the INSERT statements of save_snapshot, save_benchmark).   *)
LEMMA DatabaseOperations ==
    ASSUME NEW db \in Database
    PROVE  /\ \A j \in Job : AddRow(db, j) \in Database
           /\ \A i \in Nat, f \in Isin : AddWeight(db, i, f) \in Database
           /\ \A i \in Nat : AddMetrics(db, i) \in Database
           /\ AddBenchmark(db) \in Database
<1>1. \A j \in Job : AddRow(db, j) \in Database
  <2> SUFFICES ASSUME NEW j \in Job
               PROVE  AddRow(db, j) \in Database
    OBVIOUS
  <2>1. NewRow(j) \in Row
    BY DEF NewRow, Row
  <2>2. Append(db.snapshots, NewRow(j)) \in Seq(Row)
    BY <2>1 DEF Database
  <2>3. QED
    BY <2>2 DEF Database, AddRow
<1>2. ASSUME NEW i \in Nat, NEW r,
             i \in 1 .. Len(db.snapshots) => r \in Row
      PROVE  [db.snapshots EXCEPT ![i] = r] \in Seq(Row)
  <2>1. db.snapshots \in Seq(Row)
    BY DEF Database
  <2>2. CASE i \in 1 .. Len(db.snapshots)
    BY <1>2, <2>1, <2>2, ExceptSeq
  <2>3. CASE i \notin 1 .. Len(db.snapshots)
    BY <2>1, <2>3, ExceptOutside
  <2>4. QED
    BY <2>2, <2>3
<1>3. \A i \in Nat, f \in Isin : AddWeight(db, i, f) \in Database
  <2> SUFFICES ASSUME NEW i \in Nat, NEW f \in Isin
               PROVE  AddWeight(db, i, f) \in Database
    OBVIOUS
  <2> DEFINE old == db.snapshots[i]
             new == WithWeight(old, f)
  <2>1. db.snapshots \in Seq(Row) /\ db.benchmarks \in Nat
    BY DEF Database
  <2>2. [db.snapshots EXCEPT ![i] = new] \in Seq(Row)
    <3>1. i \in 1 .. Len(db.snapshots) => old \in Row
      BY <2>1
    <3>2. old \in Row => new \in Row
      BY DEF Row, WithWeight
    <3>3. QED
      BY <1>2, <3>1, <3>2
  <2>3. AddWeight(db, i, f) =
          [db EXCEPT !.snapshots = [db.snapshots EXCEPT ![i] = new]]
    BY DEF AddWeight, SetRow
  <2>4. QED
    BY <2>1, <2>2, <2>3 DEF Database
<1>4. \A i \in Nat : AddMetrics(db, i) \in Database
  <2> SUFFICES ASSUME NEW i \in Nat
               PROVE  AddMetrics(db, i) \in Database
    OBVIOUS
  <2> DEFINE old == db.snapshots[i]
             new == WithMetrics(old)
  <2>1. db.snapshots \in Seq(Row) /\ db.benchmarks \in Nat
    BY DEF Database
  <2>2. [db.snapshots EXCEPT ![i] = new] \in Seq(Row)
    <3>1. i \in 1 .. Len(db.snapshots) => old \in Row
      BY <2>1
    <3>2. old \in Row => new \in Row
      BY DEF Row, WithMetrics
    <3>3. QED
      BY <1>2, <3>1, <3>2
  <2>3. AddMetrics(db, i) =
          [db EXCEPT !.snapshots = [db.snapshots EXCEPT ![i] = new]]
    BY DEF AddMetrics, SetRow
  <2>4. QED
    BY <2>1, <2>2, <2>3 DEF Database
<1>5. AddBenchmark(db) \in Database
  BY DEF Database, AddBenchmark
<1>6. QED
  BY <1>1, <1>3, <1>4, <1>5

(* What the updates make of a row given by its fields.                     *)
LEMMA RowUpdates ==
    ASSUME NEW j \in Job, NEW w \in SUBSET Isin, NEW m \in BOOLEAN,
           NEW f \in Isin, NEW r,
           r = [job |-> j, weights |-> w, metrics |-> m]
    PROVE  /\ WithWeight(r, f) =
                [job |-> j, weights |-> w \cup {f}, metrics |-> m]
           /\ WithMetrics(r) =
                [job |-> j, weights |-> w, metrics |-> TRUE]
<1>1. r \in Row /\ r.job = j /\ r.weights = w /\ r.metrics = m
  BY DEF Row
<1>2. /\ WithWeight(r, f) \in Row
      /\ WithWeight(r, f).job = j
      /\ WithWeight(r, f).weights = w \cup {f}
      /\ WithWeight(r, f).metrics = m
  BY <1>1 DEF Row, WithWeight
<1>3. /\ WithMetrics(r) \in Row
      /\ WithMetrics(r).job = j
      /\ WithMetrics(r).weights = w
      /\ WithMetrics(r).metrics = TRUE
  BY <1>1 DEF Row, WithMetrics
<1>4. QED
  BY <1>2, <1>3 DEF Row

(* Filling in the last row of a log touches that row alone.                *)
LEMMA LastRow ==
    ASSUME NEW db \in Database, NEW log \in Seq(Row), NEW r \in Row,
           db.snapshots = Append(log, r)
    PROVE  /\ db.snapshots[Len(log) + 1] = r
           /\ \A f \in Isin :
                AddWeight(db, Len(log) + 1, f).snapshots =
                  Append(log, WithWeight(r, f))
           /\ AddMetrics(db, Len(log) + 1).snapshots =
                Append(log, WithMetrics(r))
<1>1. db.snapshots[Len(log) + 1] = r
  OBVIOUS
<1>2. ASSUME NEW q \in Row
      PROVE  [db.snapshots EXCEPT ![Len(log) + 1] = q] = Append(log, q)
  <2> DEFINE k == Len(log) + 1
             s == [db.snapshots EXCEPT ![k] = q]
             t == Append(log, q)
  <2>1. /\ db.snapshots \in Seq(Row)
        /\ Len(db.snapshots) = k
        /\ k \in 1 .. Len(db.snapshots)
        /\ \A i \in 1 .. Len(log) : db.snapshots[i] = log[i]
    BY DEF Database
  <2>2. /\ s \in Seq(Row)
        /\ Len(s) = k
        /\ \A i \in 1 .. k : s[i] = IF i = k THEN q ELSE db.snapshots[i]
    <3> HIDE DEF k
    <3>1. s \in Seq(Row)
      BY <2>1, ExceptSeq
    <3>2. Len(s) = Len(db.snapshots)
      BY <2>1, ExceptSeq
    <3>3. \A i \in 1 .. k : s[i] = IF i = k THEN q ELSE db.snapshots[i]
      <4>1. DOMAIN db.snapshots = 1 .. k
        BY <2>1, LenProperties
      <4>2. QED
        BY <4>1
    <3>4. QED
      BY <2>1, <3>1, <3>2, <3>3
  <2>3. /\ t \in Seq(Row)
        /\ Len(t) = k
        /\ \A i \in 1 .. k : t[i] = IF i = k THEN q ELSE log[i]
    OBVIOUS
  <2>4. \A i \in 1 .. Len(s) : s[i] = t[i]
    BY <2>1, <2>2, <2>3
  <2> HIDE DEF s, t
  <2>5. s = t
    BY <2>2, <2>3, <2>4, SeqEqual
  <2>6. QED
    BY <2>5 DEF s, t
<1>3. ASSUME NEW f \in Isin
      PROVE  AddWeight(db, Len(log) + 1, f).snapshots =
               Append(log, WithWeight(r, f))
  <2> DEFINE q == WithWeight(r, f)
  <2>1. q \in Row
    BY DEF Row, WithWeight
  <2>2. AddWeight(db, Len(log) + 1, f).snapshots =
          [db.snapshots EXCEPT ![Len(log) + 1] = q]
    BY <1>1 DEF AddWeight, SetRow, Database
  <2>3. QED
    BY <1>2, <2>1, <2>2
<1>4. AddMetrics(db, Len(log) + 1).snapshots =
        Append(log, WithMetrics(r))
  <2> DEFINE q == WithMetrics(r)
  <2>1. q \in Row
    BY DEF Row, WithMetrics
  <2>2. AddMetrics(db, Len(log) + 1).snapshots =
          [db.snapshots EXCEPT ![Len(log) + 1] = q]
    BY <1>1 DEF AddMetrics, SetRow, Database
  <2>3. QED
    BY <1>2, <2>1, <2>2
<1>5. QED
  BY <1>1, <1>3, <1>4
----------------------------------------------------------------------------
(* Type correctness.                                                       *)

(* A thread that waits for the lock or holds it has a call in progress,    *)
(* made by the seeding loop for one of its codes or from the tabs.         *)
JobsPresent ==
    \A s \in Session :
        pc[s] \in Critical \cup {"wait"} =>
            job[s] \in Job /\ seedAt[s] \in 0 .. NumCodes

(* Outside of seed_defaults() and of save_snapshot() no code is seeded.    *)
SeedingEnds ==
    \A s \in Session :
        pc[s] \in {"idle", "body", "hydrate", "bench"} => seedAt[s] = 0

TypeInv == TypeOK /\ JobsPresent /\ SeedingEnds

(* Every step, and every stuttering step, keeps the type invariant.       *)
LEMMA TypeInvStep == TypeInv /\ [Next]_vars => TypeInv'
<1> SUFFICES ASSUME TypeInv, [Next]_vars
             PROVE  TypeInv'
  OBVIOUS
<1> USE ConstantsAssumption
    DEF TypeInv, TypeOK, JobsPresent, SeedingEnds, Label, Critical
<1>1. ASSUME NEW s \in Session, RunWithFiles(s)
      PROVE  TypeInv'
  BY <1>1 DEF RunWithFiles, Goto
<1>2. ASSUME NEW s \in Session, RunWithoutFiles(s)
      PROVE  TypeInv'
  BY <1>2 DEF RunWithoutFiles, Goto
<1>3. ASSUME NEW s \in Session, EndRun(s)
      PROVE  TypeInv'
  BY <1>3 DEF EndRun, Leave, Goto
<1>4. ASSUME NEW s \in Session, SeedSkip(s)
      PROVE  TypeInv'
  BY <1>4 DEF SeedSkip, Portfolio
<1>5. ASSUME NEW s \in Session, SeedStart(s)
      PROVE  TypeInv'
  <2>1. SeedJob(seedAt[s]) \in Job /\ seedAt[s] \in 0 .. NumCodes
    BY <1>5 DEF SeedStart, SeedJob, Job, Source, Portfolio
  <2>2. QED
    BY <1>5, <2>1 DEF SeedStart, Goto
<1>6. ASSUME NEW s \in Session, SeedDone(s)
      PROVE  TypeInv'
  BY <1>6 DEF SeedDone, Goto
<1>7. ASSUME NEW s \in Session, RequestSave(s)
      PROVE  TypeInv'
  BY <1>7 DEF RequestSave, Goto
<1>8. ASSUME NEW s \in Session, AcquireLock(s)
      PROVE  TypeInv'
  BY <1>8 DEF AcquireLock, Goto
<1>9. ASSUME NEW s \in Session, InsertSnapshot(s)
      PROVE  TypeInv'
  <2>1. job[s] \in Job
    BY <1>9 DEF InsertSnapshot
  <2>2. view' \in Database
    BY <1>9, <2>1, DatabaseOperations DEF InsertSnapshot, Execute
  <2>3. Len(view.snapshots) + 1 \in Nat
    BY DEF Database
  <2>4. QED
    BY <1>9, <2>2, <2>3 DEF InsertSnapshot, Goto, Execute
<1>10. ASSUME NEW s \in Session, InsertWeight(s)
      PROVE  TypeInv'
  <2>1. PICK f \in Isin : view' = AddWeight(view, sid[s], f)
    BY <1>10 DEF InsertWeight, Execute
  <2>2. view' \in Database
    BY <2>1, DatabaseOperations
  <2>3. disk' \in {disk, view'} /\ inTxn' \in BOOLEAN
    BY <1>10 DEF InsertWeight, Execute
  <2>4. \E l \in {"weights", "metrics", "commit"} : pc' = [pc EXCEPT ![s] = l]
    BY <1>10 DEF InsertWeight, Goto
  <2>5. /\ pc[s] = "weights"
        /\ UNCHANGED <<lock, job, sid, seedAt, data, seen, acked>>
    BY <1>10 DEF InsertWeight
  <2>6. QED
    BY <2>2, <2>3, <2>4, <2>5
<1>11. ASSUME NEW s \in Session, InsertMetrics(s)
      PROVE  TypeInv'
  <2>1. view' \in Database
    BY <1>11, DatabaseOperations DEF InsertMetrics, Execute
  <2>2. QED
    BY <1>11, <2>1 DEF InsertMetrics, Goto, Execute
<1>12. ASSUME NEW s \in Session, Commit(s)
      PROVE  TypeInv'
  <2>1. acked' \in [snapshots : SUBSET Nat, benchmarks : Nat]
    BY <1>12 DEF Commit
  <2>2. /\ disk' = view /\ view' = view /\ inTxn' = FALSE /\ lock' = NoOne
        /\ job' = [job EXCEPT ![s] = NoOne]
        /\ UNCHANGED <<sid, data, seen>>
    BY <1>12 DEF Commit, CommitTxn, AfterSave
  <2>3. pc[s] = "commit"
    BY <1>12 DEF Commit
  <2>4. CASE seedAt[s] = 0
    <3>1. pc' = [pc EXCEPT ![s] = "body"] /\ seedAt' = seedAt
      BY <1>12, <2>4 DEF Commit, AfterSave, Goto
    <3>2. QED
      BY <2>1, <2>2, <2>3, <2>4, <3>1
  <2>5. CASE seedAt[s] # 0
    <3>1. /\ pc' = [pc EXCEPT ![s] = "seed"]
          /\ seedAt' = [seedAt EXCEPT ![s] = seedAt[s] + 1]
      BY <1>12, <2>5 DEF Commit, AfterSave, Goto
    <3>2. seedAt[s] + 1 \in 0 .. NumCodes + 1
      BY <2>3
    <3>3. QED
      BY <2>1, <2>2, <2>3, <3>1, <3>2
  <2>6. QED
    BY <2>4, <2>5
<1>13. ASSUME NEW s \in Session, Rollback(s)
      PROVE  TypeInv'
  <2>1. /\ disk' = disk /\ view' = disk /\ inTxn' = FALSE /\ lock' = NoOne
        /\ job' = [job EXCEPT ![s] = NoOne]
        /\ UNCHANGED <<sid, acked>>
    BY <1>13 DEF Rollback, RollbackTxn, AfterFailure
  <2>2. CASE seedAt[s] = 0
    <3>1. /\ pc' = [pc EXCEPT ![s] = "idle"]
          /\ data' = [data EXCEPT ![s] = FALSE]
          /\ seen' = [seen EXCEPT ![s] = {}]
          /\ seedAt' = seedAt
      BY <1>13, <2>2 DEF Rollback, AfterFailure, Leave, Goto
    <3>2. {} \in SUBSET SUBSET Isin
      OBVIOUS
    <3>3. QED
      BY <2>1, <2>2, <3>1, <3>2
  <2>3. CASE seedAt[s] # 0
    <3>1. /\ pc' = [pc EXCEPT ![s] = "body"]
          /\ seedAt' = [seedAt EXCEPT ![s] = 0]
          /\ UNCHANGED <<data, seen>>
      BY <1>13, <2>3 DEF Rollback, AfterFailure, Goto
    <3>2. 0 \in 0 .. NumCodes + 1
      OBVIOUS
    <3>3. QED
      BY <2>1, <3>1, <3>2
  <2>4. QED
    BY <2>2, <2>3
<1>14. ASSUME NEW s \in Session, StatementFails(s)
      PROVE  TypeInv'
  BY <1>14 DEF StatementFails, Goto
<1>15. ASSUME NEW s \in Session, ReadRow(s)
      PROVE  TypeInv'
  <2>1. \A p \in Portfolio : CommittedIds(view, p) \subseteq Nat
    BY LenProperties DEF CommittedIds, Database
  <2>2. sid' \in [Session -> Nat]
    BY <1>15, <2>1 DEF ReadRow
  <2>3. QED
    BY <1>15, <2>2 DEF ReadRow, Goto
<1>16. ASSUME NEW s \in Session, Hydrate(s)
      PROVE  TypeInv'
  <2>1. sid[s] \in DOMAIN view.snapshots =>
          view.snapshots[sid[s]].weights \in SUBSET Isin
    <3> SUFFICES ASSUME sid[s] \in DOMAIN view.snapshots
                 PROVE  view.snapshots[sid[s]].weights \in SUBSET Isin
      OBVIOUS
    <3>1. view.snapshots \in Seq(Row)
      BY DEF Database
    <3>2. view.snapshots[sid[s]] \in Row
      BY <3>1, LenProperties, ElementOfSeq
    <3>3. QED
      BY <3>2 DEF Row
  <2>2. seen' \in [Session -> SUBSET SUBSET Isin]
    BY <1>16, <2>1 DEF Hydrate
  <2>3. QED
    BY <1>16, <2>2 DEF Hydrate, Goto
<1>17. ASSUME NEW s \in Session, InsertBenchmark(s)
      PROVE  TypeInv'
  <2>1. view' \in Database
    BY <1>17, DatabaseOperations DEF InsertBenchmark, Execute
  <2>2. QED
    BY <1>17, <2>1 DEF InsertBenchmark, Goto, Execute
<1>18. ASSUME NEW s \in Session, CommitBenchmark(s)
      PROVE  TypeInv'
  <2>1. acked' \in [snapshots : SUBSET Nat, benchmarks : Nat]
    BY <1>18 DEF CommitBenchmark
  <2>2. QED
    BY <1>18, <2>1 DEF CommitBenchmark, Goto, CommitTxn, Leave
<1>19. ASSUME NEW s \in Session, BenchmarkFails(s)
      PROVE  TypeInv'
  BY <1>19 DEF BenchmarkFails, Goto, Leave
<1>20. CASE Crash
  <2>1. 0 \in 0 .. NumCodes + 1 /\ {} \in SUBSET SUBSET Isin
    OBVIOUS
  <2>2. /\ disk' = disk /\ view' = disk /\ inTxn' = FALSE /\ lock' = NoOne
        /\ acked' = acked
    BY <1>20 DEF Crash, RollbackTxn
  <2>3. /\ pc' \in [Session -> Label] /\ job' \in [Session -> Job \cup {NoOne}]
        /\ sid' \in [Session -> Nat] /\ data' \in [Session -> BOOLEAN]
    BY <1>20 DEF Crash
  <2>4. /\ seedAt' \in [Session -> 0 .. NumCodes + 1]
        /\ seen' \in [Session -> SUBSET SUBSET Isin]
    BY <1>20, <2>1 DEF Crash
  <2>5. \A s \in Session : pc'[s] = "idle" /\ seedAt'[s] = 0
    BY <1>20 DEF Crash
  <2>6. QED
    BY <2>2, <2>3, <2>4, <2>5
<1>21. CASE UNCHANGED vars
  BY <1>21 DEF vars
<1>22. QED
  BY <1>1, <1>2, <1>3, <1>4, <1>5, <1>6, <1>7, <1>8, <1>9, <1>10, <1>11, <1>12, <1>13, <1>14, <1>15, <1>16, <1>17, <1>18, <1>19, <1>20, <1>21
     DEF Next, SessionStep, SaveStep

(* The process starts in a well-typed state.                               *)
LEMMA TypeInvInit == Init => TypeInv
<1> SUFFICES ASSUME Init
             PROVE  TypeInv
  OBVIOUS
<1>1. EmptyDatabase \in Database
  BY DEF EmptyDatabase, Database
<1>2. 0 \in 0 .. NumCodes + 1 /\ {} \in SUBSET SUBSET Isin
  BY ConstantsAssumption
<1>3. acked \in [snapshots : SUBSET Nat, benchmarks : Nat]
  BY DEF Init
<1>4. /\ seedAt \in [Session -> 0 .. NumCodes + 1]
      /\ seen \in [Session -> SUBSET SUBSET Isin]
  BY <1>2 DEF Init
<1>5. TypeOK
  BY <1>1, <1>3, <1>4 DEF Init, TypeOK, Label, Critical
<1>6. \A s \in Session : pc[s] = "idle" /\ seedAt[s] = 0
  BY DEF Init
<1>7. QED
  BY <1>5, <1>6 DEF TypeInv, JobsPresent, SeedingEnds, Critical

(* Every variable keeps its type, whatever the sessions do and wherever    *)
(* the process stops (history.py, benchmark.py:26-30, app.py:49-119).      *)
THEOREM TypeCorrect == Spec => []TypeOK
<1>1. Init => TypeInv
  BY TypeInvInit
<1>2. TypeInv /\ [Next]_vars => TypeInv'
  BY TypeInvStep
<1>3. TypeInv => TypeOK
  BY DEF TypeInv
<1>4. QED
  BY <1>1, <1>2, <1>3, PTL DEF Spec
----------------------------------------------------------------------------
(* Atomicity, when no other session can save a benchmark meanwhile.        *)

(***************************************************************************)
(* The assumption the code needs and does not enforce: save_benchmark()    *)
(* commits the shared connection without _WRITE_LOCK, so a session that    *)
(* uses it must be the only one.                                           *)
(***************************************************************************)
SerialBenchmarks == \A b \in BenchmarkSession : Session = {b}

(* _WRITE_LOCK is held by exactly the thread inside save_snapshot().       *)
LockInv == \A s \in Session : pc[s] \in Critical <=> lock = s

(* The shared connection sees the committed history and one row of         *)
(* session s on top of it, as far as s has come.                           *)
InProgress(s) ==
    /\ inTxn
    /\ sid[s] = Len(disk.snapshots) + 1
    /\ \E w \in SUBSET Isin, m \in BOOLEAN :
         /\ view.snapshots =
              Append(disk.snapshots,
                     [job |-> job[s], weights |-> w, metrics |-> m])
         /\ pc[s] \in {"weights", "metrics"} => m = FALSE
         /\ pc[s] = "metrics" => w = Isin /\ job[s].metrics
         /\ pc[s] = "commit" => w = Isin /\ m = job[s].metrics

WriterInv ==
    /\ lock = NoOne => view.snapshots = disk.snapshots
    /\ \A s \in Session :
         /\ pc[s] = "insert" => view.snapshots = disk.snapshots
         /\ pc[s] \in {"weights", "metrics", "commit"} => InProgress(s)

BenchmarkInv ==
    \A s \in Session : pc[s] = "bench" => s \in BenchmarkSession

IInv ==
    /\ TypeInv
    /\ LockInv
    /\ WriterInv
    /\ BenchmarkInv
    /\ CommittedSnapshotsWhole

Rest == LockInv /\ WriterInv /\ BenchmarkInv

(* One step of the log of whole records.                                   *)
LogStep ==
    \/ disk'.snapshots = disk.snapshots
    \/ \E r \in Row : Whole(r) /\ disk'.snapshots = Append(disk.snapshots, r)

(* A thread that stays outside of save_snapshot() and leaves the database  *)
(* A step keeps the answer of the first query while no row is saved.       *)
LEMMA QuietStep ==
    ASSUME IInv, TypeInv', NEW s \in Session,
           UNCHANGED <<disk, view, inTxn, lock>>,
           pc[s] \notin Critical, pc'[s] \notin Critical,
           pc'[s] = "bench" => s \in BenchmarkSession,
           \A u \in Session \ {s} :
              pc'[u] = pc[u] /\ job'[u] = job[u] /\ sid'[u] = sid[u]
    PROVE  Rest' /\ LogStep
<1>1. LockInv'
  BY DEF IInv, LockInv
<1>2. BenchmarkInv'
  BY DEF IInv, BenchmarkInv
<1>3. \A u \in Session \ {s} : InProgress(u) => InProgress(u)'
  BY DEF InProgress
<1>4. WriterInv'
  BY <1>3 DEF IInv, WriterInv, Critical
<1>5. QED
  BY <1>1, <1>2, <1>4 DEF Rest, LogStep

(* The thread inside save_snapshot() is the only one there.                *)
LEMMA OnlyWriter ==
    ASSUME LockInv, NEW s \in Session, pc[s] \in Critical
    PROVE  lock = s /\ \A u \in Session \ {s} : pc[u] \notin Critical
BY DEF LockInv

(* While the one thread inside save_snapshot() moves on inside it, or      *)
(* leaves it, the lock keeps naming the thread that is inside.             *)
LEMMA WriterStep ==
    ASSUME IInv, TypeInv', NEW s \in Session, pc[s] \in Critical,
           NEW l \in Label, pc' = [pc EXCEPT ![s] = l],
           lock' = IF l \in Critical THEN s ELSE NoOne,
           l # "bench",
           l \notin Critical => view'.snapshots = disk'.snapshots,
           l = "insert" => view'.snapshots = disk'.snapshots,
           l \in {"weights", "metrics", "commit"} => InProgress(s)'
    PROVE  Rest'
<1>1. lock = s /\ \A u \in Session \ {s} : pc[u] \notin Critical
  BY OnlyWriter DEF IInv
<1>2. /\ pc'[s] = l
      /\ \A u \in Session \ {s} : pc'[u] = pc[u]
  BY DEF IInv, TypeInv, TypeOK
<1>3. LockInv'
  BY <1>1, <1>2, ConstantsAssumption DEF LockInv
<1>4. BenchmarkInv'
  BY <1>2 DEF IInv, BenchmarkInv
<1>5. WriterInv'
  BY <1>1, <1>2, ConstantsAssumption DEF WriterInv, Critical
<1>6. QED
  BY <1>3, <1>4, <1>5 DEF Rest

(* Every step keeps what the invariant says of the lock and of the thread  *)
(* that is inside, and appends at most one whole row to the log.           *)
LEMMA RestStep ==
    ASSUME SerialBenchmarks, IInv, [Next]_vars
    PROVE  Rest' /\ LogStep
<1>0. TypeInv /\ TypeInv'
  BY TypeInvStep DEF IInv
<1> USE <1>0
<1>1. ASSUME NEW s \in Session, RunWithFiles(s)
      PROVE  Rest' /\ LogStep
  BY <1>1, QuietStep DEF RunWithFiles, Goto, TypeInv, TypeOK, Critical
<1>2. ASSUME NEW s \in Session, RunWithoutFiles(s)
      PROVE  Rest' /\ LogStep
  BY <1>2, QuietStep DEF RunWithoutFiles, Goto, TypeInv, TypeOK, Critical
<1>3. ASSUME NEW s \in Session, EndRun(s)
      PROVE  Rest' /\ LogStep
  BY <1>3, QuietStep DEF EndRun, Leave, Goto, TypeInv, TypeOK, Critical
<1>4. ASSUME NEW s \in Session, SeedSkip(s)
      PROVE  Rest' /\ LogStep
  BY <1>4, QuietStep DEF SeedSkip, TypeInv, TypeOK, Critical
<1>5. ASSUME NEW s \in Session, SeedStart(s)
      PROVE  Rest' /\ LogStep
  BY <1>5, QuietStep DEF SeedStart, Goto, TypeInv, TypeOK, Critical
<1>6. ASSUME NEW s \in Session, SeedDone(s)
      PROVE  Rest' /\ LogStep
  BY <1>6, QuietStep DEF SeedDone, Goto, TypeInv, TypeOK, Critical
<1>7. ASSUME NEW s \in Session, RequestSave(s)
      PROVE  Rest' /\ LogStep
  BY <1>7, QuietStep DEF RequestSave, Goto, TypeInv, TypeOK, Critical
<1>8. ASSUME NEW s \in Session, ReadRow(s)
      PROVE  Rest' /\ LogStep
  BY <1>8, QuietStep DEF ReadRow, Goto, TypeInv, TypeOK, Critical
<1>9. ASSUME NEW s \in Session, Hydrate(s)
      PROVE  Rest' /\ LogStep
  BY <1>9, QuietStep DEF Hydrate, Goto, TypeInv, TypeOK, Critical
<1>10. ASSUME NEW s \in Session, BenchmarkFails(s)
      PROVE  Rest' /\ LogStep
  BY <1>10, QuietStep DEF BenchmarkFails, Leave, Goto, TypeInv, TypeOK, Critical
<1>11. ASSUME NEW s \in Session, AcquireLock(s)
      PROVE  Rest' /\ LogStep
  <2>1. /\ pc[s] = "wait" /\ lock = NoOne /\ lock' = s
        /\ pc' = [pc EXCEPT ![s] = "insert"]
        /\ UNCHANGED <<disk, view, inTxn, job, sid, acked>>
    BY <1>11 DEF AcquireLock, Goto
  <2>2. \A u \in Session : pc[u] \notin Critical
    BY <2>1, ConstantsAssumption DEF IInv, LockInv
  <2>3. LockInv'
    BY <2>1, <2>2 DEF LockInv, Critical, TypeInv, TypeOK
  <2>4. WriterInv'
    BY <2>1, <2>2, ConstantsAssumption
       DEF IInv, WriterInv, Critical, TypeInv, TypeOK
  <2>5. BenchmarkInv'
    BY <2>1 DEF IInv, BenchmarkInv, TypeInv, TypeOK
  <2>6. QED
    BY <2>1, <2>3, <2>4, <2>5 DEF Rest, LogStep
<1>12. ASSUME NEW s \in Session, InsertSnapshot(s)
      PROVE  Rest' /\ LogStep
  <2>1. /\ pc[s] = "insert" /\ pc' = [pc EXCEPT ![s] = "weights"]
        /\ view' = AddRow(view, job[s]) /\ inTxn' = TRUE
        /\ sid' = [sid EXCEPT ![s] = Len(view.snapshots) + 1]
        /\ UNCHANGED <<disk, lock, job, acked>>
    BY <1>12 DEF InsertSnapshot, Execute, Goto
  <2>2. view.snapshots = disk.snapshots /\ lock = s
    BY <2>1, OnlyWriter DEF IInv, WriterInv, Critical
  <2>3. view'.snapshots = Append(disk.snapshots, NewRow(job[s]))
    BY <2>1, <2>2 DEF AddRow, TypeInv, TypeOK, Database
  <2>4. InProgress(s)'
    BY <2>1, <2>2, <2>3 DEF InProgress, NewRow, TypeInv, TypeOK
  <2>5. Rest'
    BY <2>1, <2>2, <2>4, WriterStep DEF Critical, Label
  <2>6. QED
    BY <2>1, <2>5 DEF LogStep
<1>13. ASSUME NEW s \in Session, InsertWeight(s)
      PROVE  Rest' /\ LogStep
  <2>1. pc[s] = "weights"
    BY <1>13 DEF InsertWeight
  <2>2. InProgress(s) /\ lock = s
    BY <2>1, OnlyWriter DEF IInv, WriterInv, Critical
  <2>3. PICK w \in SUBSET Isin :
          view.snapshots =
            Append(disk.snapshots,
                   [job |-> job[s], weights |-> w, metrics |-> FALSE])
    BY <2>1, <2>2 DEF InProgress
  <2> DEFINE r == [job |-> job[s], weights |-> w, metrics |-> FALSE]
  <2>4. r \in Row /\ disk.snapshots \in Seq(Row) /\ view \in Database
    BY <2>1 DEF Row, TypeInv, TypeOK, JobsPresent, Database, Critical
  <2>5. sid[s] = Len(disk.snapshots) + 1 /\ inTxn
    BY <2>2 DEF InProgress
  <2>6. view.snapshots[sid[s]].weights = w
    BY <2>3, <2>4, <2>5, LastRow
  <2>7. PICK f \in Isin \ w :
          /\ Execute(AddWeight(view, sid[s], f))
          /\ Goto(s, IF w \cup {f} # Isin THEN "weights"
                     ELSE IF job[s].metrics THEN "metrics" ELSE "commit")
    BY <1>13, <2>5, <2>6 DEF InsertWeight
  <2>8. UNCHANGED <<lock, job, sid, acked, disk>> /\ inTxn' = TRUE
    BY <1>13, <2>7 DEF InsertWeight, Execute
  <2>9. view'.snapshots = Append(disk.snapshots, WithWeight(r, f))
    <3>1. view.snapshots = Append(disk.snapshots, r)
      BY <2>3
    <3>2. view' = AddWeight(view, Len(disk.snapshots) + 1, f)
      BY <2>5, <2>7 DEF Execute
    <3> HIDE DEF r
    <3>3. QED
      BY <2>4, <3>1, <3>2, LastRow
  <2>10. WithWeight(r, f) =
           [job |-> job[s], weights |-> w \cup {f}, metrics |-> FALSE]
    <3>1. job[s] \in Job
      BY <2>4 DEF Row
    <3>2. r = [job |-> job[s], weights |-> w, metrics |-> FALSE]
      OBVIOUS
    <3> HIDE DEF r
    <3>3. QED
      BY <3>1, <3>2, RowUpdates
  <2> DEFINE l == IF w \cup {f} # Isin THEN "weights"
                  ELSE IF job[s].metrics THEN "metrics" ELSE "commit"
  <2>11. job[s].metrics \in BOOLEAN
    BY <2>4 DEF Row, Job
  <2>12. pc' = [pc EXCEPT ![s] = l] /\ pc'[s] = l
    BY <2>7 DEF Goto, TypeInv, TypeOK
  <2>13. InProgress(s)'
    <3>1. view'.snapshots =
            Append(disk'.snapshots,
                   [job |-> job'[s], weights |-> w \cup {f}, metrics |-> FALSE])
      BY <2>8, <2>9, <2>10
    <3>2. w \cup {f} \in SUBSET Isin
      OBVIOUS
    <3>3. /\ pc'[s] = "metrics" => w \cup {f} = Isin /\ job'[s].metrics
          /\ pc'[s] = "commit" => w \cup {f} = Isin /\ FALSE = job'[s].metrics
      BY <2>8, <2>11, <2>12
    <3>4. QED
      BY <2>5, <2>8, <3>1, <3>2, <3>3 DEF InProgress
  <2>14. l \in {"weights", "metrics", "commit"}
    OBVIOUS
  <2>15. Rest'
    <3> HIDE DEF l
    <3>1. QED
      BY <2>1, <2>2, <2>8, <2>12, <2>13, <2>14, WriterStep DEF Critical, Label
  <2>16. QED
    BY <2>8, <2>15 DEF LogStep
<1>14. ASSUME NEW s \in Session, InsertMetrics(s)
      PROVE  Rest' /\ LogStep
  <2>1. /\ pc[s] = "metrics" /\ pc' = [pc EXCEPT ![s] = "commit"]
        /\ view' = AddMetrics(view, sid[s]) /\ inTxn' = TRUE
        /\ UNCHANGED <<disk, lock, job, sid, acked>>
    BY <1>14 DEF InsertMetrics, Execute, Goto
  <2>2. InProgress(s) /\ lock = s
    BY <2>1, OnlyWriter DEF IInv, WriterInv, Critical
  <2> DEFINE r == [job |-> job[s], weights |-> Isin, metrics |-> FALSE]
  <2>3. /\ view.snapshots = Append(disk.snapshots, r)
        /\ job[s].metrics
        /\ sid[s] = Len(disk.snapshots) + 1
    BY <2>1, <2>2 DEF InProgress
  <2>4. r \in Row /\ disk.snapshots \in Seq(Row) /\ view \in Database
    BY <2>1 DEF Row, TypeInv, TypeOK, JobsPresent, Database, Critical
  <2>5. view'.snapshots = Append(disk.snapshots, WithMetrics(r))
    <3>1. view' = AddMetrics(view, Len(disk.snapshots) + 1)
      BY <2>1, <2>3
    <3> HIDE DEF r
    <3>2. QED
      BY <2>3, <2>4, <3>1, LastRow
  <2>6. WithMetrics(r) =
          [job |-> job[s], weights |-> Isin, metrics |-> TRUE]
    <3>1. job[s] \in Job
      BY <2>4 DEF Row
    <3>2. r = [job |-> job[s], weights |-> Isin, metrics |-> FALSE]
      OBVIOUS
    <3> HIDE DEF r
    <3>3. QED
      BY <3>1, <3>2, RowUpdates, ConstantsAssumption
  <2>7. job[s].metrics = TRUE
    BY <2>3, <2>4 DEF Row, Job
  <2>8. pc'[s] = "commit"
    BY <2>1 DEF TypeInv, TypeOK
  <2>9. InProgress(s)'
    BY <2>1, <2>3, <2>5, <2>6, <2>7, <2>8 DEF InProgress
  <2>10. Rest'
    BY <2>1, <2>2, <2>9, WriterStep DEF Critical, Label
  <2>11. QED
    BY <2>1, <2>10 DEF LogStep
<1>15. ASSUME NEW s \in Session, Commit(s)
      PROVE  Rest' /\ LogStep
  <2>1. /\ pc[s] = "commit" /\ disk' = view /\ view' = view /\ lock' = NoOne
        /\ acked' = [acked EXCEPT !.snapshots = @ \cup {sid[s]}]
        /\ \E l \in {"body", "seed"} : pc' = [pc EXCEPT ![s] = l]
    BY <1>15 DEF Commit, CommitTxn, AfterSave, Goto
  <2>2. InProgress(s)
    BY <2>1 DEF IInv, WriterInv
  <2> DEFINE r == [job |-> job[s], weights |-> Isin, metrics |-> job[s].metrics]
  <2>3. /\ view.snapshots = Append(disk.snapshots, r)
        /\ sid[s] = Len(disk.snapshots) + 1
    BY <2>1, <2>2 DEF InProgress
  <2>4. r \in Row /\ Whole(r)
    BY <2>1 DEF Row, TypeInv, JobsPresent, Job, Critical, Whole
  <2>5. Rest'
    BY <2>1, WriterStep DEF Critical, Label
  <2>6. QED
    BY <2>1, <2>3, <2>4, <2>5 DEF LogStep
<1>16. ASSUME NEW s \in Session, Rollback(s)
      PROVE  Rest' /\ LogStep
  <2>1. /\ pc[s] = "rollback" /\ disk' = disk /\ view' = disk /\ lock' = NoOne
        /\ acked' = acked
        /\ \E l \in {"body", "idle"} : pc' = [pc EXCEPT ![s] = l]
    BY <1>16 DEF Rollback, RollbackTxn, AfterFailure, Leave, Goto
  <2>2. Rest'
    BY <2>1, WriterStep DEF Critical, Label
  <2>3. QED
    BY <2>1, <2>2 DEF LogStep
<1>17. ASSUME NEW s \in Session, StatementFails(s)
      PROVE  Rest' /\ LogStep
  <2>1. /\ pc[s] \in Critical /\ pc' = [pc EXCEPT ![s] = "rollback"]
        /\ UNCHANGED <<disk, view, lock, acked>>
    BY <1>17 DEF StatementFails, Goto, Critical
  <2>2. lock = s
    BY <2>1, OnlyWriter DEF IInv
  <2>3. Rest'
    BY <2>1, <2>2, WriterStep DEF Critical, Label
  <2>4. QED
    BY <2>1, <2>3 DEF LogStep
<1>18. ASSUME NEW s \in Session, InsertBenchmark(s)
      PROVE  Rest' /\ LogStep
  <2>1. /\ pc[s] = "body" /\ s \in BenchmarkSession
        /\ view' = AddBenchmark(view) /\ pc' = [pc EXCEPT ![s] = "bench"]
        /\ UNCHANGED <<disk, lock, job, sid, acked>>
    BY <1>18 DEF InsertBenchmark, Execute, Goto
  <2>2. Session = {s}
    BY <2>1 DEF SerialBenchmarks
  <2>3. view'.snapshots = view.snapshots
    BY <2>1 DEF AddBenchmark, TypeInv, TypeOK, Database
  <2>4. pc'[s] = "bench" /\ lock = NoOne /\ view.snapshots = disk.snapshots
    BY <2>1, <2>2 DEF IInv, LockInv, WriterInv, TypeInv, TypeOK, Critical
  <2>5. LockInv' /\ BenchmarkInv' /\ WriterInv'
    BY <2>1, <2>2, <2>3, <2>4, ConstantsAssumption
       DEF LockInv, BenchmarkInv, WriterInv, Critical
  <2>6. QED
    BY <2>1, <2>5 DEF Rest, LogStep
<1>19. ASSUME NEW s \in Session, CommitBenchmark(s)
      PROVE  Rest' /\ LogStep
  <2>1. /\ pc[s] = "bench" /\ disk' = view /\ view' = view
        /\ acked' = [acked EXCEPT !.benchmarks = @ + 1]
        /\ pc' = [pc EXCEPT ![s] = "idle"]
        /\ UNCHANGED <<lock, job, sid>>
    BY <1>19 DEF CommitBenchmark, CommitTxn, Leave, Goto
  <2>2. Session = {s}
    BY <2>1 DEF SerialBenchmarks, IInv, BenchmarkInv
  <2>3. pc'[s] = "idle" /\ lock = NoOne /\ view.snapshots = disk.snapshots
    BY <2>1, <2>2 DEF IInv, LockInv, WriterInv, TypeInv, TypeOK, Critical
  <2>4. LockInv' /\ BenchmarkInv' /\ WriterInv'
    BY <2>1, <2>2, <2>3, ConstantsAssumption
       DEF LockInv, BenchmarkInv, WriterInv, Critical
  <2>5. QED
    BY <2>1, <2>3, <2>4 DEF Rest, LogStep
<1>20. CASE Crash
  <2>1. /\ disk' = disk /\ view' = disk /\ lock' = NoOne /\ acked' = acked
        /\ \A s \in Session : pc'[s] = "idle"
    BY <1>20 DEF Crash, RollbackTxn
  <2>2. LockInv' /\ BenchmarkInv' /\ WriterInv'
    BY <2>1, ConstantsAssumption DEF LockInv, BenchmarkInv, WriterInv, Critical
  <2>3. QED
    BY <2>1, <2>2 DEF Rest, LogStep
<1>21. CASE UNCHANGED vars
  BY <1>21 DEF vars, IInv, Rest, LogStep, LockInv, BenchmarkInv, WriterInv,
               InProgress
<1>22. QED
  BY <1>1, <1>2, <1>3, <1>4, <1>5, <1>6, <1>7, <1>8, <1>9, <1>10, <1>11,
     <1>12, <1>13, <1>14, <1>15, <1>16, <1>17, <1>18, <1>19, <1>20, <1>21
     DEF Next, SessionStep, SaveStep

(* Every step keeps the whole invariant and only appends to the log.       *)
LEMMA IInvStep ==
    ASSUME SerialBenchmarks, IInv, [Next]_vars
    PROVE  IInv' /\ LogStep
<1>1. TypeInv /\ TypeInv' /\ Rest' /\ LogStep
  BY TypeInvStep, RestStep DEF IInv
<1>2. disk.snapshots \in Seq(Row) /\ disk'.snapshots \in Seq(Row)
  BY <1>1 DEF TypeInv, TypeOK, Database
<1>3. CommittedSnapshotsWhole'
  <2>1. CASE disk'.snapshots = disk.snapshots
    BY <2>1 DEF IInv, CommittedSnapshotsWhole
  <2>2. ASSUME NEW r \in Row, Whole(r),
               disk'.snapshots = Append(disk.snapshots, r)
        PROVE  CommittedSnapshotsWhole'
    <3>1. /\ DOMAIN disk.snapshots = 1 .. Len(disk.snapshots)
          /\ DOMAIN disk'.snapshots = 1 .. Len(disk.snapshots) + 1
      BY <1>2, <2>2, LenProperties
    <3>2. \A i \in DOMAIN disk'.snapshots :
            \/ i \in DOMAIN disk.snapshots /\ disk'.snapshots[i] = disk.snapshots[i]
            \/ disk'.snapshots[i] = r
      BY <1>2, <2>2, <3>1
    <3> QED
      BY <2>2, <3>2 DEF IInv, CommittedSnapshotsWhole
  <2> QED
    BY <1>1, <2>1, <2>2 DEF LogStep
<1>4. QED
  BY <1>1, <1>3 DEF IInv, Rest

(* The invariant holds of the empty database.                              *)
LEMMA IInvInit == Init => IInv
<1> SUFFICES ASSUME Init
             PROVE  IInv
  OBVIOUS
<1>1. TypeInv
  BY TypeInvInit
<1>2. disk.snapshots = << >> /\ view.snapshots = << >> /\ acked.snapshots = {}
  BY DEF Init, EmptyDatabase
<1>3. LockInv /\ WriterInv /\ BenchmarkInv
  BY <1>2, ConstantsAssumption
     DEF Init, LockInv, WriterInv, BenchmarkInv, Critical
<1>4. CommittedSnapshotsWhole
  BY <1>2 DEF CommittedSnapshotsWhole
<1>5. QED
  BY <1>1, <1>2, <1>3, <1>4 DEF IInv

(* The invariant holds in every reachable state.                           *)
LEMMA Invariance == SerialBenchmarks => (Spec => []IInv)
<1> SUFFICES ASSUME SerialBenchmarks
             PROVE  Spec => []IInv
  OBVIOUS
<1>1. IInv /\ [Next]_vars => IInv'
  BY IInvStep
<1>2. QED
  BY IInvInit, <1>1, PTL DEF Spec

(***************************************************************************)
(* save_snapshot() is atomic on disk (history.py:74): at every moment,     *)
(* whatever fails and wherever the process stops, the file holds complete  *)
(* snapshots only, provided benchmarks are saved by a session that is      *)
(* alone.  Without the assumption the run HistoryTornCommit refutes it.    *)
(***************************************************************************)
THEOREM Atomicity == SerialBenchmarks => (Spec => []CommittedSnapshotsWhole)
<1>1. IInv => CommittedSnapshotsWhole
  BY DEF IInv
<1>2. QED
  BY Invariance, <1>1, PTL

(***************************************************************************)
(* The committed history implements the append-only log: every step        *)
(* appends one whole record to it or leaves it alone (history.py:3-4).     *)
(***************************************************************************)
THEOREM Refinement == SerialBenchmarks => (Spec => ImplementsAppendOnlyHistory)
<1> SUFFICES ASSUME SerialBenchmarks
             PROVE  Spec => ImplementsAppendOnlyHistory
  OBVIOUS
<1>1. Init => Abstract!Init
  BY DEF Init, EmptyDatabase, Abstract!Init
<1>2. IInv /\ [Next]_vars => [Abstract!Next]_(disk.snapshots)
  <2> SUFFICES ASSUME IInv, [Next]_vars
               PROVE  [Abstract!Next]_(disk.snapshots)
    OBVIOUS
  <2>1. LogStep
    BY IInvStep
  <2>2. QED
    BY <2>1 DEF LogStep, Abstract!Next, Abstract!Save
<1>3. QED
  BY Invariance, <1>1, <1>2, PTL
     DEF Spec, ImplementsAppendOnlyHistory, Abstract!Spec

----------------------------------------------------------------------------
(* Benchmarks that were reported as saved.                                 *)

(* A benchmark in progress is one more than those reported as saved; the   *)
(* connection never sees fewer than the file holds.                        *)
CountInv ==
    /\ acked.benchmarks =< disk.benchmarks
    /\ disk.benchmarks =< view.benchmarks
    /\ \A s \in Session : pc[s] = "bench" =>
          acked.benchmarks < view.benchmarks

(* The statements of a save leave the benchmarks alone.                    *)
LEMMA BenchmarkCounts ==
    ASSUME NEW db \in Database
    PROVE  /\ \A j : AddRow(db, j).benchmarks = db.benchmarks
           /\ \A i, f : AddWeight(db, i, f).benchmarks = db.benchmarks
           /\ \A i : AddMetrics(db, i).benchmarks = db.benchmarks
           /\ AddBenchmark(db).benchmarks = db.benchmarks + 1
  BY DEF Database, AddRow, AddWeight, AddMetrics, AddBenchmark, SetRow

(* Every step keeps the count of benchmarks.                               *)
LEMMA CountInvStep ==
    ASSUME SerialBenchmarks, IInv, CountInv, [Next]_vars
    PROVE  CountInv'
<1>1. /\ TypeOK /\ TypeOK' /\ view \in Database /\ disk \in Database
      /\ view.benchmarks \in Nat /\ disk.benchmarks \in Nat
      /\ acked.benchmarks \in Nat
  BY TypeInvStep DEF IInv, TypeInv, TypeOK, Database
<1>2. ASSUME NEW s \in Session, pc[s] = "bench" \/ s \in BenchmarkSession
      PROVE  Session = {s}
  BY <1>2 DEF SerialBenchmarks, IInv, BenchmarkInv
<1>3. ASSUME UNCHANGED <<view, disk, acked>>,
             \A u \in Session : pc'[u] = "bench" => pc[u] = "bench"
      PROVE  CountInv'
  BY <1>3 DEF CountInv
<1>4. ASSUME NEW s \in Session,
             RunWithFiles(s) \/ RunWithoutFiles(s) \/ EndRun(s) \/ SeedSkip(s)
               \/ SeedStart(s) \/ SeedDone(s) \/ RequestSave(s)
               \/ AcquireLock(s) \/ StatementFails(s) \/ ReadRow(s)
               \/ Hydrate(s) \/ BenchmarkFails(s)
      PROVE  CountInv'
  <2>1. UNCHANGED <<view, disk, acked>>
    BY <1>4 DEF RunWithFiles, RunWithoutFiles, EndRun, SeedSkip, SeedStart,
       SeedDone, RequestSave, AcquireLock, StatementFails, ReadRow, Hydrate,
       BenchmarkFails
  <2>2. \/ pc' = pc
        \/ \E l \in Label \ {"bench"} : pc' = [pc EXCEPT ![s] = l]
    BY <1>4 DEF RunWithFiles, RunWithoutFiles, EndRun, SeedSkip, SeedStart,
       SeedDone, RequestSave, AcquireLock, StatementFails, ReadRow, Hydrate,
       BenchmarkFails, Leave, Goto, Label, Critical
  <2> QED
    BY <1>1, <1>3, <2>1, <2>2 DEF TypeOK
<1>5. ASSUME NEW s \in Session, NEW l \in Label \ {"bench"},
             pc' = [pc EXCEPT ![s] = l], acked'.benchmarks = acked.benchmarks,
             view'.benchmarks = view.benchmarks,
             disk'.benchmarks \in {disk.benchmarks, view.benchmarks}
      PROVE  CountInv'
  <2>1. \A u \in Session : pc'[u] = "bench" => pc[u] = "bench"
    BY <1>1, <1>5 DEF TypeOK
  <2> QED
    BY <1>1, <1>5, <2>1 DEF CountInv
<1>6. ASSUME NEW s \in Session, InsertSnapshot(s) PROVE CountInv'
  BY <1>1, <1>5, <1>6, BenchmarkCounts
     DEF InsertSnapshot, Execute, Goto, Label, Critical
<1>7. ASSUME NEW s \in Session, InsertWeight(s) PROVE CountInv'
  <2>1. PICK f \in Isin : view' = AddWeight(view, sid[s], f)
    BY <1>7 DEF InsertWeight, Execute
  <2>2. disk' \in {disk, view'} /\ acked' = acked
    BY <1>7 DEF InsertWeight, Execute
  <2>3. PICK l \in {"weights", "metrics", "commit"} :
          pc' = [pc EXCEPT ![s] = l]
    BY <1>7 DEF InsertWeight, Goto
  <2>4. view'.benchmarks = view.benchmarks
    BY <1>1, <2>1, BenchmarkCounts
  <2>5. disk'.benchmarks \in {disk.benchmarks, view.benchmarks}
    BY <2>2, <2>4
  <2>6. l \in Label \ {"bench"}
    BY DEF Label, Critical
  <2> QED
    BY <1>5, <2>2, <2>3, <2>4, <2>5, <2>6
<1>8. ASSUME NEW s \in Session, InsertMetrics(s) PROVE CountInv'
  BY <1>1, <1>5, <1>8, BenchmarkCounts
     DEF InsertMetrics, Execute, Goto, Label, Critical
<1>9. ASSUME NEW s \in Session, Commit(s) PROVE CountInv'
  <2>1. /\ view' = view /\ disk' = view
        /\ acked'.benchmarks = acked.benchmarks
    BY <1>1, <1>9 DEF Commit, CommitTxn, TypeOK
  <2>2. \E l \in {"body", "seed"} : pc' = [pc EXCEPT ![s] = l]
    BY <1>9 DEF Commit, AfterSave, Goto
  <2> QED
    BY <1>1, <1>5, <2>1, <2>2 DEF Label, Critical
<1>10. ASSUME NEW s \in Session, Rollback(s) PROVE CountInv'
  <2>1. /\ pc[s] = "rollback" /\ view' = disk /\ disk' = disk /\ acked' = acked
        /\ \E l \in {"body", "idle"} : pc' = [pc EXCEPT ![s] = l]
    BY <1>10 DEF Rollback, RollbackTxn, AfterFailure, Leave, Goto
  <2>2. \A u \in Session : pc[u] # "bench"
    BY <1>2, <2>1
  <2>3. \A u \in Session : pc'[u] # "bench"
    BY <1>1, <2>1, <2>2 DEF TypeOK
  <2> QED
    BY <1>1, <2>1, <2>3 DEF CountInv
<1>11. ASSUME NEW s \in Session, InsertBenchmark(s) PROVE CountInv'
  <2>1. /\ view' = AddBenchmark(view) /\ disk' = disk /\ acked' = acked
    BY <1>11 DEF InsertBenchmark, Execute
  <2>2. view'.benchmarks = view.benchmarks + 1
    BY <1>1, <2>1, BenchmarkCounts
  <2> QED
    BY <1>1, <2>1, <2>2 DEF CountInv
<1>12. ASSUME NEW s \in Session, CommitBenchmark(s) PROVE CountInv'
  <2>1. /\ pc[s] = "bench" /\ view' = view /\ disk' = view
        /\ acked'.benchmarks = acked.benchmarks + 1
        /\ pc' = [pc EXCEPT ![s] = "idle"]
    BY <1>1, <1>12 DEF CommitBenchmark, CommitTxn, Leave, Goto, TypeOK
  <2>2. \A u \in Session : pc'[u] # "bench"
    BY <1>1, <1>2, <2>1 DEF TypeOK
  <2> QED
    BY <1>1, <2>1, <2>2 DEF CountInv
<1>13. CASE Crash
  BY <1>1, <1>13 DEF Crash, RollbackTxn, CountInv
<1>14. CASE UNCHANGED vars
  BY <1>3, <1>14 DEF vars
<1> QED
  BY <1>4, <1>6, <1>7, <1>8, <1>9, <1>10, <1>11, <1>12, <1>13, <1>14
     DEF Next, SessionStep, SaveStep

(* Every benchmark reported as saved is on disk, provided again that the   *)
(* session that saves benchmarks is alone (benchmark.py:26-30).            *)
THEOREM BenchmarksDurable ==
    SerialBenchmarks => (Spec => []SavedBenchmarksAreDurable)
<1> SUFFICES ASSUME SerialBenchmarks PROVE Spec => []SavedBenchmarksAreDurable
  OBVIOUS
<1>1. Init => CountInv
  BY DEF Init, EmptyDatabase, CountInv
<1>2. IInv /\ CountInv /\ [Next]_vars => CountInv'
  BY CountInvStep
<1>3. CountInv => SavedBenchmarksAreDurable
  BY DEF CountInv, SavedBenchmarksAreDurable
<1> QED
  BY Invariance, <1>1, <1>2, <1>3, PTL DEF Spec
----------------------------------------------------------------------------
(* What is on disk stays there, whoever writes: no assumption on the       *)
(* sessions.                                                               *)

(* The rows of "before" are in "after", with their job and their weights.  *)
Keeps(before, after) ==
    \A i \in DOMAIN before.snapshots :
        /\ i \in DOMAIN after.snapshots
        /\ before.snapshots[i].job = after.snapshots[i].job
        /\ before.snapshots[i].weights \subseteq after.snapshots[i].weights

(* What keeps what keeps a log keeps the log.                              *)
LEMMA KeepsIsTransitive ==
    ASSUME NEW a, NEW b, NEW c, Keeps(a, b), Keeps(b, c)
    PROVE  Keeps(a, c)
  BY DEF Keeps

(* A statement adds a row or fills in a row; it takes nothing out of one.  *)
LEMMA StatementsKeep ==
    ASSUME NEW db \in Database
    PROVE  /\ \A j \in Job : Keeps(db, AddRow(db, j))
           /\ \A i, f : Keeps(db, AddWeight(db, i, f))
           /\ \A i : Keeps(db, AddMetrics(db, i))
           /\ Keeps(db, AddBenchmark(db))
<1>1. /\ db.snapshots \in Seq(Row)
      /\ DOMAIN db.snapshots = 1 .. Len(db.snapshots)
      /\ \A i \in DOMAIN db.snapshots : db.snapshots[i] \in Row
  BY LenProperties, ElementOfSeq DEF Database
<1>2. ASSUME NEW j \in Job PROVE Keeps(db, AddRow(db, j))
  <2>1. NewRow(j) \in Row
    BY <1>2 DEF NewRow, Row
  <2>2. AddRow(db, j).snapshots = Append(db.snapshots, NewRow(j))
    BY DEF AddRow, Database
  <2>3. \A i \in DOMAIN db.snapshots :
          /\ i \in DOMAIN Append(db.snapshots, NewRow(j))
          /\ Append(db.snapshots, NewRow(j))[i] = db.snapshots[i]
    BY <1>1, <2>1
  <2> QED
    BY <2>2, <2>3 DEF Keeps
<1>3. ASSUME NEW i, NEW r,
             i \in DOMAIN db.snapshots =>
                 /\ r.job = db.snapshots[i].job
                 /\ db.snapshots[i].weights \subseteq r.weights
      PROVE  Keeps(db, SetRow(db, i, r))
  <2>1. SetRow(db, i, r).snapshots = [db.snapshots EXCEPT ![i] = r]
    BY DEF SetRow, Database
  <2> QED
    BY <1>3, <2>1 DEF Keeps
<1>4. ASSUME NEW i, NEW f PROVE Keeps(db, AddWeight(db, i, f))
  <2>1. i \in DOMAIN db.snapshots =>
          /\ WithWeight(db.snapshots[i], f).job = db.snapshots[i].job
          /\ db.snapshots[i].weights
               \subseteq WithWeight(db.snapshots[i], f).weights
    BY <1>1 DEF WithWeight, Row
  <2> QED
    BY <1>3, <2>1 DEF AddWeight
<1>5. ASSUME NEW i PROVE Keeps(db, AddMetrics(db, i))
  <2>1. i \in DOMAIN db.snapshots =>
          /\ WithMetrics(db.snapshots[i]).job = db.snapshots[i].job
          /\ db.snapshots[i].weights
               \subseteq WithMetrics(db.snapshots[i]).weights
    BY <1>1 DEF WithMetrics, Row
  <2> QED
    BY <1>3, <2>1 DEF AddMetrics
<1>6. Keeps(db, AddBenchmark(db))
  BY DEF AddBenchmark, Database, Keeps
<1> QED
  BY <1>2, <1>4, <1>5, <1>6

(* The connection sees at least what is on disk.                           *)
KeepInv == Keeps(disk, view)

(***************************************************************************)
(* What a step does to the two copies: nothing; a statement, which only    *)
(* adds to the view and may be on disk at once; a commit; a rollback.      *)
(***************************************************************************)
LEMMA CopiesStep ==
    ASSUME TypeInv, [Next]_vars
    PROVE  \/ Keeps(view, view') /\ (disk' = disk \/ disk' = view')
           \/ view' = disk /\ disk' = disk
<1>1. view \in Database /\ disk \in Database
  BY DEF TypeInv, TypeOK
<1>2. Keeps(view, view)
  BY DEF Keeps
<1>3. ASSUME NEW s \in Session, InsertSnapshot(s)
      PROVE  Keeps(view, view') /\ disk' = disk
  <2>1. job[s] \in Job
    BY <1>3 DEF InsertSnapshot, TypeInv, JobsPresent, Critical
  <2> QED
    BY <1>1, <1>3, <2>1, StatementsKeep DEF InsertSnapshot, Execute
<1>4. ASSUME NEW s \in Session, InsertWeight(s)
      PROVE  Keeps(view, view') /\ (disk' = disk \/ disk' = view')
  BY <1>1, <1>4, StatementsKeep DEF InsertWeight, Execute
<1>5. ASSUME NEW s \in Session, InsertMetrics(s)
      PROVE  Keeps(view, view') /\ disk' = disk
  BY <1>1, <1>5, StatementsKeep DEF InsertMetrics, Execute
<1>6. ASSUME NEW s \in Session, InsertBenchmark(s)
      PROVE  Keeps(view, view') /\ disk' = disk
  BY <1>1, <1>6, StatementsKeep DEF InsertBenchmark, Execute
<1>7. ASSUME NEW s \in Session, Commit(s) \/ CommitBenchmark(s)
      PROVE  view' = view /\ disk' = view'
  BY <1>7 DEF Commit, CommitBenchmark, CommitTxn
<1>8. ASSUME NEW s \in Session, Rollback(s) \/ Crash
      PROVE  view' = disk /\ disk' = disk
  BY <1>8 DEF Rollback, Crash, RollbackTxn
<1>9. ASSUME NEW s \in Session,
             RunWithFiles(s) \/ RunWithoutFiles(s) \/ EndRun(s) \/ SeedSkip(s)
               \/ SeedStart(s) \/ SeedDone(s) \/ RequestSave(s)
               \/ AcquireLock(s) \/ StatementFails(s) \/ ReadRow(s)
               \/ Hydrate(s) \/ BenchmarkFails(s)
      PROVE  view' = view /\ disk' = disk
  BY <1>9 DEF RunWithFiles, RunWithoutFiles, EndRun, SeedSkip, SeedStart,
     SeedDone, RequestSave, AcquireLock, StatementFails, ReadRow, Hydrate,
     BenchmarkFails
<1>10. CASE Crash
  BY <1>10 DEF Crash, RollbackTxn
<1>11. CASE UNCHANGED vars
  BY <1>2, <1>11 DEF vars
<1> QED
  BY <1>2, <1>3, <1>4, <1>5, <1>6, <1>7, <1>8, <1>9, <1>10, <1>11
     DEF Next, SessionStep, SaveStep

(***************************************************************************)
(* No step takes a row or a weight off the disk (history.py:3-4), however  *)
(* many sessions save snapshots and benchmarks at the same time: a torn    *)
(* commit can put half a snapshot there, and cannot remove one.            *)
(***************************************************************************)
THEOREM NothingIsLost == Spec => NothingCommittedIsLost
<1> DEFINE KeepStep == Keeps(disk, disk')
<1>1. Init => TypeInv /\ KeepInv
  BY TypeInvInit DEF Init, EmptyDatabase, KeepInv, Keeps
<1>2. TypeInv /\ KeepInv /\ [Next]_vars => TypeInv' /\ KeepInv' /\ KeepStep
  <2> SUFFICES ASSUME TypeInv, KeepInv, [Next]_vars
               PROVE  TypeInv' /\ KeepInv' /\ KeepStep
    OBVIOUS
  <2>1. TypeInv'
    BY TypeInvStep
  <2>2. Keeps(disk, disk) /\ Keeps(view', view')
    BY DEF Keeps
  <2>3. CASE view' = disk /\ disk' = disk
    <3>1. Keeps(disk', view') /\ Keeps(disk, disk')
      BY <2>2, <2>3
    <3> QED
      BY <2>1, <3>1 DEF KeepInv
  <2>4. CASE Keeps(view, view') /\ (disk' = disk \/ disk' = view')
    <3>1. Keeps(disk, view')
      BY <2>4, KeepsIsTransitive DEF KeepInv
    <3>2. Keeps(disk', view') /\ Keeps(disk, disk')
      BY <2>2, <2>4, <3>1
    <3> QED
      BY <2>1, <3>2 DEF KeepInv
  <2> QED
    BY <2>3, <2>4, CopiesStep
<1>3. KeepStep =>
        \A i \in DOMAIN disk.snapshots :
          /\ i \in DOMAIN disk'.snapshots
          /\ disk.snapshots[i].job = disk'.snapshots[i].job
          /\ disk.snapshots[i].weights \subseteq disk'.snapshots[i].weights
  BY DEF Keeps
<1> QED
  BY <1>1, <1>2, <1>3, PTL DEF Spec, NothingCommittedIsLost

----------------------------------------------------------------------------
(* Durability of the returned ids, with benchmarks saved concurrently: no  *)
(* assumption on the sessions.                                             *)

(* Every step keeps the lock with the one thread inside save_snapshot().   *)
LEMMA LockStep ==
    ASSUME TypeInv, TypeInv', LockInv, [Next]_vars
    PROVE  LockInv'
<1>1. pc \in [Session -> Label]
  BY DEF TypeInv, TypeOK
<1>2. ASSUME NEW s \in Session, NEW l \in Label, pc' = [pc EXCEPT ![s] = l],
             \/ pc[s] \notin Critical /\ l \notin Critical /\ lock' = lock
             \/ pc[s] \in Critical /\ l \in Critical /\ lock' = lock
             \/ pc[s] \notin Critical /\ l \in Critical /\ lock = NoOne /\ lock' = s
             \/ pc[s] \in Critical /\ l \notin Critical /\ lock' = NoOne
      PROVE  LockInv'
  <2>1. pc'[s] = l /\ \A u \in Session \ {s} : pc'[u] = pc[u]
    BY <1>1, <1>2
  <2>2. \A u \in Session : (pc[u] \in Critical <=> lock = u) /\ u # NoOne
    BY ConstantsAssumption DEF LockInv
  <2> QED
    BY <1>2, <2>1, <2>2 DEF LockInv
<1>3. ASSUME NEW s \in Session,
             RunWithFiles(s) \/ RunWithoutFiles(s) \/ EndRun(s)
               \/ SeedStart(s) \/ SeedDone(s) \/ RequestSave(s)
               \/ ReadRow(s) \/ Hydrate(s)
               \/ InsertBenchmark(s) \/ CommitBenchmark(s) \/ BenchmarkFails(s)
      PROVE  LockInv'
  <2>1. PICK l \in {"idle", "seed", "body", "wait", "hydrate", "bench"} :
          pc' = [pc EXCEPT ![s] = l]
    BY <1>3 DEF RunWithFiles, RunWithoutFiles, EndRun, SeedStart,
       SeedDone, RequestSave, ReadRow, Hydrate, InsertBenchmark,
       CommitBenchmark, BenchmarkFails, Leave, Goto
  <2>2. pc[s] \in {"idle", "seed", "body", "hydrate", "bench"} /\ lock' = lock
    BY <1>3 DEF RunWithFiles, RunWithoutFiles, EndRun, SeedStart,
       SeedDone, RequestSave, ReadRow, Hydrate, InsertBenchmark,
       CommitBenchmark, BenchmarkFails
  <2>3. pc[s] \notin Critical /\ l \notin Critical /\ l \in Label
    BY <2>1, <2>2 DEF Critical, Label
  <2> QED
    BY <1>2, <2>1, <2>2, <2>3
<1>4. ASSUME NEW s \in Session,
             InsertSnapshot(s) \/ InsertWeight(s) \/ InsertMetrics(s)
               \/ StatementFails(s)
      PROVE  LockInv'
  <2>1. PICK l \in Critical : pc' = [pc EXCEPT ![s] = l]
    BY <1>4 DEF InsertSnapshot, InsertWeight, InsertMetrics, StatementFails,
       Goto, Critical
  <2>2. pc[s] \in Critical /\ lock' = lock /\ l \in Label
    BY <1>4 DEF InsertSnapshot, InsertWeight, InsertMetrics, StatementFails,
       Critical, Label
  <2> QED
    BY <1>2, <2>1, <2>2
<1>5. ASSUME NEW s \in Session, Commit(s) \/ Rollback(s)
      PROVE  LockInv'
  <2>1. PICK l \in {"body", "seed", "idle"} : pc' = [pc EXCEPT ![s] = l]
    BY <1>5 DEF Commit, Rollback, AfterSave, AfterFailure, Leave, Goto
  <2>2. pc[s] \in Critical /\ lock' = NoOne /\ l \in Label /\ l \notin Critical
    BY <1>5, <2>1 DEF Commit, Rollback, Critical, Label
  <2> QED
    BY <1>2, <2>1, <2>2
<1>6. ASSUME NEW s \in Session, AcquireLock(s)
      PROVE  LockInv'
  <2>1. /\ pc[s] \notin Critical /\ "insert" \in Critical
        /\ "insert" \in Label /\ lock = NoOne /\ lock' = s
        /\ pc' = [pc EXCEPT ![s] = "insert"]
    BY <1>6 DEF AcquireLock, Goto, Critical, Label
  <2> QED
    BY <1>2, <2>1
<1>7. ASSUME NEW s \in Session, SeedSkip(s)
      PROVE  LockInv'
  BY <1>7 DEF SeedSkip, LockInv
<1>8. CASE Crash
  <2>1. lock' = NoOne /\ \A s \in Session : pc'[s] = "idle"
    BY <1>8 DEF Crash
  <2> QED
    BY <2>1, ConstantsAssumption DEF LockInv, Critical
<1>9. CASE UNCHANGED vars
  BY <1>9 DEF vars, LockInv
<1> QED
  BY <1>3, <1>4, <1>5, <1>6, <1>7, <1>8, <1>9 DEF Next, SessionStep, SaveStep

(* Filling in a row of a database leaves the other rows as they are.       *)
LEMMA SetOneRow ==
    ASSUME NEW db \in Database, NEW i, NEW r
    PROVE  /\ DOMAIN SetRow(db, i, r).snapshots = DOMAIN db.snapshots
           /\ \A k \in DOMAIN db.snapshots : k # i =>
                SetRow(db, i, r).snapshots[k] = db.snapshots[k]
           /\ i \in DOMAIN db.snapshots => SetRow(db, i, r).snapshots[i] = r
<1>1. SetRow(db, i, r).snapshots = [db.snapshots EXCEPT ![i] = r]
  BY DEF SetRow, Database
<1> QED
  BY <1>1

(* The ids that were returned name whole rows, in the view as on disk.     *)
AckedInv ==
    \A i \in acked.snapshots :
        /\ i \in DOMAIN disk.snapshots /\ Whole(disk.snapshots[i])
        /\ i \in DOMAIN view.snapshots /\ Whole(view.snapshots[i])

(* The row the thread inside is writing: it is there, wherever a commit of *)
(* another thread has put it already, nobody was given its id, and it is   *)
(* as full as the thread has come.                                         *)
OwnRow(s) ==
    /\ sid[s] \in DOMAIN view.snapshots
    /\ sid[s] \notin acked.snapshots
    /\ pc[s] \in {"weights", "metrics"} =>
          /\ view.snapshots[sid[s]].job = job[s]
          /\ view.snapshots[sid[s]].metrics = FALSE
    /\ pc[s] = "metrics" =>
          view.snapshots[sid[s]].weights = Isin /\ job[s].metrics
    /\ pc[s] = "commit" => Whole(view.snapshots[sid[s]])

Writing == {"weights", "metrics", "commit"}

DurInv ==
    /\ TypeInv
    /\ LockInv
    /\ AckedInv
    /\ \A s \in Session : pc[s] \in Writing => OwnRow(s)

(* A step that starts, ends or fails no statement of the thread inside.    *)
LEMMA DurQuiet ==
    ASSUME DurInv, NEW s \in Session,
           pc'[s] \notin Writing,
           \A u \in Session \ {s} : pc'[u] = pc[u] /\ sid'[u] = sid[u]
                                    /\ job'[u] = job[u],
           view'.snapshots = view.snapshots,
           disk'.snapshots \in {disk.snapshots, view.snapshots},
           acked'.snapshots = acked.snapshots
    PROVE  AckedInv' /\ \A u \in Session : pc'[u] \in Writing => OwnRow(u)'
<1>1. AckedInv'
  BY DEF DurInv, AckedInv
<1>2. \A u \in Session \ {s} : OwnRow(u) => OwnRow(u)'
  BY DEF OwnRow
<1> QED
  BY <1>1, <1>2 DEF DurInv

(* A statement of the thread inside, on its own row.                       *)
LEMMA DurStatement ==
    ASSUME DurInv, NEW s \in Session, pc[s] \in {"weights", "metrics"},
           NEW r, view' = SetRow(view, sid[s], r),
           disk' \in {disk, view'},
           UNCHANGED <<job, sid, acked>>,
           pc' = [pc EXCEPT ![s] = pc'[s]],
           pc'[s] \in {"weights", "metrics"} =>
               r.job = job[s] /\ r.metrics = FALSE,
           pc'[s] = "metrics" => r.weights = Isin /\ job[s].metrics,
           pc'[s] = "commit" => Whole(r)
    PROVE  AckedInv' /\ \A u \in Session : pc'[u] \in Writing => OwnRow(u)'
<1>1. view \in Database /\ OwnRow(s) /\ AckedInv
  BY DEF DurInv, TypeInv, TypeOK, Writing
<1>2. /\ DOMAIN view'.snapshots = DOMAIN view.snapshots
      /\ view'.snapshots[sid[s]] = r
      /\ \A k \in DOMAIN view.snapshots : k # sid[s] =>
           view'.snapshots[k] = view.snapshots[k]
  BY <1>1, SetOneRow DEF OwnRow
<1>3. \A i \in acked.snapshots :
        i \in DOMAIN view'.snapshots /\ Whole(view'.snapshots[i])
  BY <1>1, <1>2 DEF AckedInv, OwnRow
<1>4. AckedInv'
  BY <1>1, <1>3 DEF AckedInv
<1>5. OwnRow(s)'
  BY <1>1, <1>2 DEF OwnRow
<1>6. \A u \in Session \ {s} : pc'[u] \notin Writing
  BY OnlyWriter DEF DurInv, TypeInv, TypeOK, Writing, Critical
<1> QED
  BY <1>4, <1>5, <1>6

(* Every step keeps the invariant of durability.                           *)
LEMMA DurInvStep ==
    ASSUME DurInv, [Next]_vars
    PROVE  DurInv'
<1> DEFINE Goal ==
      AckedInv' /\ \A u \in Session : pc'[u] \in Writing => OwnRow(u)'
<1>1. TypeInv /\ TypeInv' /\ LockInv /\ LockInv'
  BY TypeInvStep, LockStep DEF DurInv
<1>2. /\ view \in Database /\ view' \in Database
      /\ pc \in [Session -> Label] /\ sid \in [Session -> Nat]
      /\ job \in [Session -> Job \cup {NoOne}]
      /\ acked \in [snapshots : SUBSET Nat, benchmarks : Nat]
  BY <1>1 DEF TypeInv, TypeOK
<1>3. ASSUME NEW s \in Session,
             RunWithFiles(s) \/ RunWithoutFiles(s) \/ EndRun(s) \/ SeedSkip(s)
               \/ SeedStart(s) \/ SeedDone(s) \/ RequestSave(s)
               \/ AcquireLock(s) \/ StatementFails(s) \/ ReadRow(s)
               \/ Hydrate(s) \/ BenchmarkFails(s)
      PROVE  Goal
  <2>1. UNCHANGED <<view, disk, acked>>
    BY <1>3 DEF RunWithFiles, RunWithoutFiles, EndRun, SeedSkip, SeedStart,
       SeedDone, RequestSave, AcquireLock, StatementFails, ReadRow, Hydrate,
       BenchmarkFails
  <2>2. \/ pc' = pc /\ pc[s] = "seed"
        \/ \E l \in Label \ Writing : pc' = [pc EXCEPT ![s] = l]
    BY <1>3 DEF RunWithFiles, RunWithoutFiles, EndRun, SeedSkip, SeedStart,
       SeedDone, RequestSave, AcquireLock, StatementFails, ReadRow, Hydrate,
       BenchmarkFails, Leave, Goto, Label, Critical, Writing
  <2>3. \A u \in Session \ {s} : sid'[u] = sid[u] /\ job'[u] = job[u]
    BY <1>2, <1>3 DEF RunWithFiles, RunWithoutFiles, EndRun, SeedSkip, SeedStart,
       SeedDone, RequestSave, AcquireLock, StatementFails, ReadRow, Hydrate,
       BenchmarkFails
  <2>4. pc'[s] \notin Writing /\ \A u \in Session \ {s} : pc'[u] = pc[u]
    BY <1>2, <2>2 DEF Writing
  <2> QED
    BY <2>1, <2>3, <2>4, DurQuiet
<1>4. ASSUME NEW s \in Session, InsertBenchmark(s) \/ CommitBenchmark(s)
      PROVE  Goal
  <2>1. /\ pc' = [pc EXCEPT ![s] = "bench"] \/ pc' = [pc EXCEPT ![s] = "idle"]
        /\ UNCHANGED <<sid, job>>
        /\ acked'.snapshots = acked.snapshots
    BY <1>2, <1>4 DEF InsertBenchmark, CommitBenchmark, Leave, Goto
  <2>2. view'.snapshots = view.snapshots
    BY <1>2, <1>4 DEF InsertBenchmark, CommitBenchmark, Execute, CommitTxn,
       AddBenchmark, Database
  <2>3. disk'.snapshots \in {disk.snapshots, view.snapshots}
    BY <1>4 DEF InsertBenchmark, CommitBenchmark, Execute, CommitTxn
  <2>4. pc'[s] \notin Writing /\ \A u \in Session \ {s} : pc'[u] = pc[u]
    BY <1>2, <2>1 DEF Writing
  <2> QED
    BY <2>1, <2>2, <2>3, <2>4, DurQuiet
<1>5. ASSUME NEW s \in Session, InsertSnapshot(s)
      PROVE  Goal
  <2>1. /\ pc[s] = "insert" /\ pc' = [pc EXCEPT ![s] = "weights"]
        /\ view' = AddRow(view, job[s]) /\ disk' = disk
        /\ sid' = [sid EXCEPT ![s] = Len(view.snapshots) + 1]
        /\ UNCHANGED <<job, acked>>
    BY <1>5 DEF InsertSnapshot, Execute, Goto
  <2>2. job[s] \in Job /\ NewRow(job[s]) \in Row
    BY <1>1, <2>1 DEF TypeInv, JobsPresent, Critical, NewRow, Row
  <2>3. /\ view.snapshots \in Seq(Row)
        /\ view'.snapshots = Append(view.snapshots, NewRow(job[s]))
    BY <1>2, <2>1 DEF AddRow, Database
  <2>4. /\ DOMAIN view.snapshots = 1 .. Len(view.snapshots)
        /\ DOMAIN view'.snapshots = 1 .. Len(view.snapshots) + 1
        /\ view'.snapshots[Len(view.snapshots) + 1] = NewRow(job[s])
        /\ \A i \in DOMAIN view.snapshots : view'.snapshots[i] = view.snapshots[i]
        /\ Len(view.snapshots) \in Nat
    BY <2>2, <2>3, LenProperties
  <2>5. AckedInv'
    BY <2>1, <2>4 DEF DurInv, AckedInv
  <2>6. sid'[s] = Len(view.snapshots) + 1 /\ pc'[s] = "weights"
    BY <1>2, <2>1
  <2>7. Len(view.snapshots) + 1 \notin acked.snapshots
    BY <2>4 DEF DurInv, AckedInv
  <2>8. OwnRow(s)'
    BY <2>1, <2>4, <2>6, <2>7 DEF OwnRow, NewRow
  <2>9. \A u \in Session \ {s} : pc'[u] \notin Writing
    BY <1>1, <1>2, <2>1, OnlyWriter DEF Writing, Critical
  <2> QED
    BY <2>5, <2>8, <2>9
<1>6. ASSUME NEW s \in Session, InsertWeight(s)
      PROVE  Goal
  <2> DEFINE row == view.snapshots[sid[s]]
  <2>1. pc[s] = "weights" /\ UNCHANGED <<job, sid, acked>>
    BY <1>6 DEF InsertWeight
  <2>2. /\ row.job = job[s] /\ row.metrics = FALSE
        /\ row \in Row /\ job[s].metrics \in BOOLEAN
    <3>1. OwnRow(s)
      BY <2>1 DEF DurInv, Writing
    <3>2. row \in Row
      BY <1>2, <3>1, LenProperties, ElementOfSeq DEF OwnRow, Database
    <3>3. job[s] \in Job
      BY <1>1, <2>1 DEF TypeInv, JobsPresent, Critical
    <3> QED
      BY <2>1, <3>1, <3>2, <3>3 DEF OwnRow, Job
  <2>3. PICK f \in Isin :
          /\ view' = SetRow(view, sid[s], WithWeight(row, f))
          /\ disk' \in {disk, view'}
          /\ pc' = [pc EXCEPT ![s] =
                      IF row.weights \cup {f} # Isin THEN "weights"
                      ELSE IF job[s].metrics THEN "metrics" ELSE "commit"]
    BY <1>6 DEF InsertWeight, Execute, Goto, AddWeight
  <2> DEFINE r == WithWeight(row, f)
  <2>4. /\ r.job = job[s] /\ r.metrics = FALSE
        /\ r.weights = row.weights \cup {f}
    BY <2>2 DEF WithWeight, Row
  <2>5. /\ pc' = [pc EXCEPT ![s] = pc'[s]]
        /\ pc'[s] = IF row.weights \cup {f} # Isin THEN "weights"
                    ELSE IF job[s].metrics THEN "metrics" ELSE "commit"
    BY <1>2, <2>3
  <2>6. /\ pc'[s] = "metrics" => r.weights = Isin /\ job[s].metrics
        /\ pc'[s] = "commit" => Whole(r)
    BY <2>2, <2>4, <2>5 DEF Whole
  <2> HIDE DEF r, row
  <2> QED
    BY <2>1, <2>3, <2>4, <2>5, <2>6, DurStatement DEF r
<1>7. ASSUME NEW s \in Session, InsertMetrics(s)
      PROVE  Goal
  <2> DEFINE row == view.snapshots[sid[s]]
             r == WithMetrics(row)
  <2>1. /\ pc[s] = "metrics" /\ UNCHANGED <<job, sid, acked>>
        /\ view' = SetRow(view, sid[s], r) /\ disk' = disk
        /\ pc' = [pc EXCEPT ![s] = "commit"]
    BY <1>7 DEF InsertMetrics, Execute, Goto, AddMetrics
  <2>2. OwnRow(s)
    BY <2>1 DEF DurInv, Writing
  <2>3. /\ row.job = job[s] /\ row.weights = Isin /\ job[s].metrics
        /\ row \in Row /\ job[s].metrics \in BOOLEAN
    <3>1. row \in Row
      BY <1>2, <2>2, LenProperties, ElementOfSeq DEF OwnRow, Database
    <3>2. job[s] \in Job
      BY <1>1, <2>1 DEF TypeInv, JobsPresent, Critical
    <3> QED
      BY <2>1, <2>2, <3>1, <3>2 DEF OwnRow, Job
  <2>4. Whole(r)
    BY <2>3 DEF Whole, WithMetrics, Row
  <2>5. pc'[s] = "commit" /\ pc' = [pc EXCEPT ![s] = pc'[s]]
    BY <1>2, <2>1
  <2> HIDE DEF r
  <2> QED
    BY <2>1, <2>4, <2>5, DurStatement
<1>8. ASSUME NEW s \in Session, Commit(s)
      PROVE  Goal
  <2>1. /\ pc[s] = "commit" /\ view' = view /\ disk' = view
        /\ acked' = [acked EXCEPT !.snapshots = @ \cup {sid[s]}]
        /\ \E l \in {"body", "seed"} : pc' = [pc EXCEPT ![s] = l]
    BY <1>8 DEF Commit, CommitTxn, AfterSave, Goto
  <2>2. sid[s] \in DOMAIN view.snapshots /\ Whole(view.snapshots[sid[s]])
    BY <2>1 DEF DurInv, OwnRow, Writing
  <2>3. acked'.snapshots = acked.snapshots \cup {sid[s]}
    BY <1>2, <2>1
  <2>4. AckedInv'
    BY <2>1, <2>2, <2>3 DEF DurInv, AckedInv
  <2>5. \A u \in Session : pc'[u] \notin Writing
    BY <1>1, <1>2, <2>1, OnlyWriter DEF Writing, Critical
  <2> QED
    BY <2>4, <2>5
<1>9. ASSUME NEW s \in Session, Rollback(s)
      PROVE  Goal
  <2>1. /\ pc[s] = "rollback" /\ view' = disk /\ disk' = disk /\ acked' = acked
        /\ \E l \in {"body", "idle"} : pc' = [pc EXCEPT ![s] = l]
    BY <1>9 DEF Rollback, RollbackTxn, AfterFailure, Leave, Goto
  <2>2. \A u \in Session : pc'[u] \notin Writing
    BY <1>1, <1>2, <2>1, OnlyWriter DEF Writing, Critical
  <2> QED
    BY <2>1, <2>2 DEF DurInv, AckedInv
<1>10. ASSUME Crash PROVE Goal
  <2>1. /\ view' = disk /\ disk' = disk /\ acked' = acked
        /\ \A u \in Session : pc'[u] = "idle"
    BY <1>10 DEF Crash, RollbackTxn
  <2>2. AckedInv'
    BY <2>1 DEF DurInv, AckedInv
  <2>3. \A u \in Session : pc'[u] \notin Writing
    BY <2>1 DEF Writing
  <2> QED
    BY <2>2, <2>3
<1>11. ASSUME UNCHANGED vars PROVE Goal
  <2>1. AckedInv'
    BY <1>11 DEF vars, DurInv, AckedInv
  <2>2. \A u \in Session : OwnRow(u) => OwnRow(u)'
    BY <1>11 DEF vars, OwnRow
  <2> QED
    BY <1>11, <2>1, <2>2 DEF vars, DurInv
<1>12. Goal
  BY <1>3, <1>4, <1>5, <1>6, <1>7, <1>8, <1>9, <1>10, <1>11
     DEF Next, SessionStep, SaveStep
<1> QED
  BY <1>1, <1>12 DEF DurInv

(***************************************************************************)
(* The ids save_snapshot() returned stay on disk, complete, for ever       *)
(* (history.py:62-95), even when another session commits the connection    *)
(* in the middle of the save, or rolls a save of its own back.             *)
(***************************************************************************)
THEOREM Durability == Spec => []ReturnedIdsAreDurable
<1>1. Init => DurInv
  BY TypeInvInit, ConstantsAssumption
     DEF Init, DurInv, LockInv, AckedInv, Critical, Writing
<1>2. DurInv /\ [Next]_vars => DurInv'
  BY DurInvStep
<1>3. DurInv => ReturnedIdsAreDurable
  BY DEF DurInv, AckedInv, ReturnedIdsAreDurable
<1> QED
  BY <1>1, <1>2, <1>3, PTL DEF Spec

----------------------------------------------------------------------------
(* Seeding and reading, when there is one session.                         *)

(***************************************************************************)
(* The assumption again is one the code needs and does not enforce: the    *)
(* queries read through the shared connection without _WRITE_LOCK, so they *)
(* see the unfinished save of another session.                             *)
(***************************************************************************)
OneSession == \A s, u \in Session : s = u

(* A session that is alone saves its benchmarks alone.                     *)
LEMMA OneSessionIsSerial == OneSession => SerialBenchmarks
  BY ConstantsAssumption DEF OneSession, SerialBenchmarks

(* Outside of its own save a session alone sees what is on disk.           *)
LEMMA ViewIsDisk ==
    ASSUME OneSession, IInv, NEW s \in Session, pc[s] \notin Critical
    PROVE  view.snapshots = disk.snapshots
<1>1. lock \in Session \cup {NoOne}
  BY DEF IInv, TypeInv, TypeOK
<1>2. lock # s /\ \A u \in Session : u = s
  BY DEF IInv, LockInv, OneSession
<1>3. lock = NoOne
  BY <1>1, <1>2
<1> QED
  BY <1>3 DEF IInv, WriterInv

(* The row a save commits.                                                 *)
Saved(s) == [job |-> job[s], weights |-> Isin, metrics |-> job[s].metrics]

(* A committed row more: the ids selected for its portfolio gain its id.   *)
LEMMA CommittedIdsOfAppend ==
    ASSUME NEW before \in Database, NEW after, NEW r \in Row, NEW p,
           after.snapshots = Append(before.snapshots, r)
    PROVE  /\ CommittedIds(before, p) \subseteq CommittedIds(after, p)
           /\ r.job.portfolio = p /\ r.job.source \in CommittedSource
                => CommittedIds(after, p) # {}
<1>1. /\ before.snapshots \in Seq(Row)
      /\ DOMAIN before.snapshots = 1 .. Len(before.snapshots)
      /\ DOMAIN after.snapshots = 1 .. Len(before.snapshots) + 1
      /\ after.snapshots[Len(before.snapshots) + 1] = r
      /\ \A i \in DOMAIN before.snapshots :
            i \in DOMAIN after.snapshots
            /\ after.snapshots[i] = before.snapshots[i]
      /\ Len(before.snapshots) + 1 \in DOMAIN after.snapshots
  BY LenProperties DEF Database
<1>2. CommittedIds(before, p) \subseteq CommittedIds(after, p)
  BY <1>1 DEF CommittedIds
<1>3. ASSUME r.job.portfolio = p, r.job.source \in CommittedSource
      PROVE  Len(before.snapshots) + 1 \in CommittedIds(after, p)
  BY <1>1, <1>3 DEF CommittedIds
<1> QED
  BY <1>2, <1>3

(* Where a session is in seed_defaults(), and what that says of the disk:  *)
(* the codes it has passed are committed, the code it is saving is not.    *)
Seeding(s) ==
    /\ pc[s] = "seed" => seedAt[s] # 0
    /\ \A p \in Portfolio :
          data[s] \/ p < seedAt[s] => CommittedIds(disk, p) # {}
    /\ pc[s] \in Critical \cup {"wait"} =>
          \/ seedAt[s] = 0 /\ job[s].source # "seed"
          \/ /\ seedAt[s] \in Portfolio
             /\ job[s] = SeedJob(seedAt[s])
             /\ CommittedIds(disk, seedAt[s]) = {}

(* What a session holds of the history while it reads it.                  *)
Reading(s) ==
    /\ pc[s] = "hydrate" => sid[s] \in DOMAIN disk.snapshots
    /\ \A weights \in seen[s] : weights = Isin

SeedInv == SeedComesFirst /\ \A s \in Session : Seeding(s) /\ Reading(s)

(* The commit of a save, by the seeding or by the page.                    *)
LEMMA SeedCommit ==
    ASSUME OneSession, IInv, SeedInv, NEW s \in Session, Commit(s),
           Saved(s) \in Row,
           disk'.snapshots = Append(disk.snapshots, Saved(s))
    PROVE  SeedInv'
<1> DEFINE n == Len(disk.snapshots)
<1>1. /\ pc[s] = "commit"
      /\ data' = data /\ seen' = seen
      /\ \/ seedAt[s] = 0 /\ pc' = [pc EXCEPT ![s] = "body"] /\ seedAt' = seedAt
         \/ /\ seedAt[s] # 0 /\ pc' = [pc EXCEPT ![s] = "seed"]
            /\ seedAt' = [seedAt EXCEPT ![s] = @ + 1]
  BY DEF Commit, AfterSave, Goto
<1>2. /\ disk \in Database /\ pc \in [Session -> Label]
      /\ seedAt \in [Session -> 0 .. NumCodes + 1]
  BY DEF IInv, TypeInv, TypeOK
<1>3. \A u \in Session : u = s
  BY DEF OneSession
<1>4. /\ \/ seedAt[s] = 0 /\ job[s].source # "seed"
         \/ /\ seedAt[s] \in Portfolio
            /\ job[s] = SeedJob(seedAt[s])
            /\ CommittedIds(disk, seedAt[s]) = {}
      /\ Saved(s).job = job[s]
  BY <1>1 DEF SeedInv, Seeding, Critical, Saved
<1>5. /\ DOMAIN disk.snapshots = 1 .. n /\ n \in Nat
      /\ DOMAIN disk'.snapshots = 1 .. n + 1
      /\ disk'.snapshots[n + 1] = Saved(s)
      /\ \A i \in 1 .. n : disk'.snapshots[i] = disk.snapshots[i]
  <2>1. disk.snapshots \in Seq(Row)
    BY <1>2 DEF Database
  <2> QED
    BY <2>1, LenProperties
<1> HIDE DEF n
<1>6. SeedComesFirst'
  <2> SUFFICES ASSUME NEW i \in 1 .. n + 1, NEW k \in 1 .. n + 1, i < k,
                      disk'.snapshots[i].job.portfolio
                        = disk'.snapshots[k].job.portfolio,
                      disk'.snapshots[i].job.source \in CommittedSource
               PROVE  disk'.snapshots[k].job.source # "seed"
    BY <1>5 DEF SeedComesFirst
  <2>1. i \in 1 .. n /\ disk'.snapshots[i] = disk.snapshots[i]
    BY <1>5
  <2>2. CASE k \in 1 .. n
    BY <1>5, <2>1, <2>2 DEF SeedInv, SeedComesFirst
  <2>3. CASE k = n + 1
    <3>1. disk'.snapshots[k].job = job[s]
      BY <1>4, <1>5, <2>3
    <3>2. CASE seedAt[s] = 0 /\ job[s].source # "seed"
      BY <3>1, <3>2
    <3>3. CASE /\ job[s] = SeedJob(seedAt[s])
               /\ CommittedIds(disk, seedAt[s]) = {}
      <4>1. disk.snapshots[i].job.portfolio = seedAt[s]
        BY <2>1, <3>1, <3>3 DEF SeedJob
      <4>2. i \in CommittedIds(disk, seedAt[s])
        BY <1>5, <2>1, <4>1 DEF CommittedIds
      <4> QED
        BY <3>3, <4>2
    <3> QED
      BY <1>4, <3>2, <3>3
  <2> QED
    BY <1>5, <2>2, <2>3
<1>7. /\ \A p : CommittedIds(disk, p) # {} => CommittedIds(disk', p) # {}
      /\ seedAt[s] # 0 => CommittedIds(disk', seedAt[s]) # {}
  <2>1. \A p : /\ CommittedIds(disk, p) \subseteq CommittedIds(disk', p)
               /\ /\ Saved(s).job.portfolio = p
                  /\ Saved(s).job.source \in CommittedSource
                  => CommittedIds(disk', p) # {}
    BY <1>2, CommittedIdsOfAppend
  <2>2. seedAt[s] # 0 => /\ Saved(s).job.portfolio = seedAt[s]
                         /\ Saved(s).job.source \in CommittedSource
    BY <1>4 DEF SeedJob, CommittedSource
  <2> QED
    BY <2>1, <2>2
<1>8. Seeding(s)'
  <2>1. pc'[s] \notin Critical \cup {"wait"}
    BY <1>1, <1>2 DEF Critical
  <2>2. pc'[s] = "seed" => seedAt'[s] # 0
    BY <1>1, <1>2
  <2>3. ASSUME NEW p \in Portfolio, data'[s] \/ p < seedAt'[s]
        PROVE  CommittedIds(disk', p) # {}
    <3>1. data[s] \/ p < seedAt[s] \/ (seedAt[s] # 0 /\ p = seedAt[s])
      BY <1>1, <1>2, <2>3, ConstantsAssumption DEF Portfolio
    <3> QED
      BY <1>7, <3>1 DEF SeedInv, Seeding
  <2> QED
    BY <2>1, <2>2, <2>3 DEF Seeding
<1>9. Reading(s)'
  BY <1>1, <1>2 DEF SeedInv, Reading
<1> QED
  BY <1>3, <1>6, <1>8, <1>9 DEF SeedInv

(* Every step of a session alone keeps the invariant of seeding.           *)
LEMMA SeedInvStep ==
    ASSUME OneSession, IInv, SeedInv, [Next]_vars
    PROVE  SeedInv'
<1>1. /\ pc \in [Session -> Label] /\ seedAt \in [Session -> 0 .. NumCodes + 1]
      /\ data \in [Session -> BOOLEAN] /\ seen \in [Session -> SUBSET SUBSET Isin]
      /\ sid \in [Session -> Nat] /\ job \in [Session -> Job \cup {NoOne}]
      /\ SeedingEnds
  BY DEF IInv, TypeInv, TypeOK
<1>2. ASSUME NEW s \in Session, Commit(s)
      PROVE  SeedInv'
  <2>1. pc[s] = "commit" /\ pc' # pc
    BY <1>1, <1>2 DEF Commit, AfterSave, Goto
  <2>2. /\ Saved(s) \in Row
        /\ disk'.snapshots = Append(disk.snapshots, Saved(s))
    <3>1. InProgress(s) /\ disk' = view
      BY <1>2 DEF IInv, WriterInv, Commit, CommitTxn
    <3>2. job[s] \in Job
      BY <2>1 DEF IInv, TypeInv, JobsPresent, Critical
    <3> QED
      BY <2>1, <3>1, <3>2 DEF InProgress, Saved, Row, Job
  <2> QED
    BY <1>2, <2>2, SeedCommit
<1>3. ASSUME disk'.snapshots = disk.snapshots
      PROVE  /\ SeedComesFirst'
             /\ \A p : CommittedIds(disk', p) = CommittedIds(disk, p)
  BY <1>3 DEF SeedInv, SeedComesFirst, CommittedIds
<1>4. ASSUME disk'.snapshots = disk.snapshots, NEW s \in Session,
             Seeding(s)', Reading(s)'
      PROVE  SeedInv'
  BY <1>3, <1>4 DEF SeedInv, OneSession
<1> DEFINE Same(s) == /\ disk'.snapshots = disk.snapshots
                      /\ \A p : CommittedIds(disk', p) = CommittedIds(disk, p)
                      /\ Seeding(s) /\ Reading(s)
<1>5. ASSUME NEW s \in Session, disk'.snapshots = disk.snapshots
      PROVE  Same(s)
  BY <1>3, <1>5 DEF SeedInv
<1>6. ASSUME NEW s \in Session, RunWithFiles(s) PROVE SeedInv'
  <2>1. Same(s)
    BY <1>5, <1>6 DEF RunWithFiles
  <2>2. Seeding(s)'
    BY <1>1, <1>6, <2>1 DEF RunWithFiles, Goto, Seeding, Critical, Portfolio
  <2>3. Reading(s)'
    BY <1>1, <1>6, <2>1 DEF RunWithFiles, Goto, Reading
  <2> QED
    BY <1>4, <2>1, <2>2, <2>3
<1>7. ASSUME NEW s \in Session,
             RunWithoutFiles(s) \/ EndRun(s) \/ InsertBenchmark(s)
               \/ CommitBenchmark(s) \/ BenchmarkFails(s)
      PROVE  SeedInv'
  <2>1. /\ \E l \in {"body", "idle", "bench"} : pc' = [pc EXCEPT ![s] = l]
        /\ data' = data \/ data' = [data EXCEPT ![s] = FALSE]
        /\ seen' = seen \/ seen' = [seen EXCEPT ![s] = {}]
        /\ seedAt' = seedAt
    BY <1>7 DEF RunWithoutFiles, EndRun, InsertBenchmark, CommitBenchmark,
       BenchmarkFails, Leave, Goto
  <2>2. disk'.snapshots = disk.snapshots
    <3>1. CASE CommitBenchmark(s)
      BY <3>1, ViewIsDisk DEF CommitBenchmark, CommitTxn, Critical
    <3> QED
      BY <1>7, <3>1 DEF RunWithoutFiles, EndRun, InsertBenchmark,
         BenchmarkFails, Execute
  <2>3. Same(s)
    BY <1>5, <2>2
  <2>4. Seeding(s)'
    BY <1>1, <2>1, <2>3 DEF Seeding, Critical
  <2>5. Reading(s)'
    BY <1>1, <2>1, <2>3 DEF Reading
  <2> QED
    BY <1>4, <2>2, <2>4, <2>5
<1>8. ASSUME NEW s \in Session, SeedSkip(s) PROVE SeedInv'
  <2>1. /\ pc[s] = "seed" /\ seedAt[s] \in Portfolio /\ disk' = disk
        /\ CommittedIds(view, seedAt[s]) # {}
        /\ seedAt' = [seedAt EXCEPT ![s] = @ + 1]
        /\ UNCHANGED <<pc, data, seen, sid>>
    BY <1>8 DEF SeedSkip
  <2>2. Same(s) /\ view.snapshots = disk.snapshots
    BY <1>5, <2>1, ViewIsDisk DEF Critical
  <2>3. CommittedIds(disk, seedAt[s]) # {}
    BY <2>1, <2>2 DEF CommittedIds
  <2>4. Seeding(s)'
    <3>1. seedAt'[s] = seedAt[s] + 1 /\ seedAt[s] \in Nat
      BY <1>1, <2>1, ConstantsAssumption DEF Portfolio
    <3>2. \A p \in Portfolio : p < seedAt'[s] => p < seedAt[s] \/ p = seedAt[s]
      BY <3>1, ConstantsAssumption DEF Portfolio
    <3> QED
      BY <2>1, <2>2, <2>3, <3>1, <3>2 DEF Seeding, Critical
  <2>5. Reading(s)'
    BY <2>1, <2>2 DEF Reading
  <2> QED
    BY <1>4, <2>2, <2>4, <2>5
<1>9. ASSUME NEW s \in Session, SeedStart(s) PROVE SeedInv'
  <2>1. /\ pc[s] = "seed" /\ seedAt[s] \in Portfolio /\ disk' = disk
        /\ CommittedIds(view, seedAt[s]) = {}
        /\ job' = [job EXCEPT ![s] = SeedJob(seedAt[s])]
        /\ pc' = [pc EXCEPT ![s] = "wait"]
        /\ UNCHANGED <<seedAt, data, seen, sid>>
    BY <1>9 DEF SeedStart, Goto
  <2>2. Same(s) /\ view.snapshots = disk.snapshots
    BY <1>5, <2>1, ViewIsDisk DEF Critical
  <2>3. CommittedIds(disk, seedAt[s]) = {}
    BY <2>1, <2>2 DEF CommittedIds
  <2>4. Seeding(s)'
    BY <1>1, <2>1, <2>2, <2>3 DEF Seeding
  <2>5. Reading(s)'
    BY <1>1, <2>1, <2>2 DEF Reading
  <2> QED
    BY <1>4, <2>2, <2>4, <2>5
<1>10. ASSUME NEW s \in Session, SeedDone(s) PROVE SeedInv'
  <2>1. /\ pc[s] = "seed" /\ seedAt[s] \notin Portfolio /\ disk' = disk
        /\ seedAt' = [seedAt EXCEPT ![s] = 0]
        /\ data' = [data EXCEPT ![s] = TRUE]
        /\ pc' = [pc EXCEPT ![s] = "body"]
        /\ UNCHANGED <<seen, sid>>
    BY <1>10 DEF SeedDone, Goto
  <2>2. Same(s)
    BY <1>5, <2>1
  <2>3. \A p \in Portfolio : p < seedAt[s]
    <3>1. seedAt[s] # 0 /\ seedAt[s] \in 0 .. NumCodes + 1
      BY <1>1, <2>1, <2>2 DEF Seeding
    <3> QED
      BY <2>1, <3>1, ConstantsAssumption DEF Portfolio
  <2>4. Seeding(s)'
    BY <1>1, <2>1, <2>2, <2>3 DEF Seeding, Critical
  <2>5. Reading(s)'
    BY <1>1, <2>1, <2>2 DEF Reading
  <2> QED
    BY <1>4, <2>2, <2>4, <2>5
<1>11. ASSUME NEW s \in Session, RequestSave(s) PROVE SeedInv'
  <2>1. /\ pc[s] = "body" /\ disk' = disk
        /\ pc' = [pc EXCEPT ![s] = "wait"]
        /\ UNCHANGED <<seedAt, data, seen, sid>>
    BY <1>11 DEF RequestSave, Goto
  <2>2. PICK j \in Jobs : job' = [job EXCEPT ![s] = j]
    BY <1>11 DEF RequestSave
  <2>3. seedAt[s] = 0 /\ job'[s].source # "seed"
    BY <1>1, <2>1, <2>2, ConstantsAssumption DEF SeedingEnds
  <2>4. Same(s)
    BY <1>5, <2>1
  <2>5. Seeding(s)'
    BY <1>1, <2>1, <2>3, <2>4 DEF Seeding
  <2>6. Reading(s)'
    BY <1>1, <2>1, <2>4 DEF Reading
  <2> QED
    BY <1>4, <2>4, <2>5, <2>6
<1>12. ASSUME NEW s \in Session,
              AcquireLock(s) \/ StatementFails(s) \/ InsertSnapshot(s)
                \/ InsertWeight(s) \/ InsertMetrics(s)
       PROVE  SeedInv'
  <2>1. /\ pc[s] \in Critical \cup {"wait"}
        /\ \E l \in Critical : pc' = [pc EXCEPT ![s] = l]
        /\ UNCHANGED <<job, seedAt, data, seen>>
    BY <1>12 DEF AcquireLock, StatementFails, InsertSnapshot, InsertWeight,
       InsertMetrics, Goto, Critical
  <2>2. disk' = disk
    <3>1. CASE InsertWeight(s)
      <4>1. InProgress(s)
        BY <3>1 DEF InsertWeight, IInv, WriterInv
      <4> QED
        BY <3>1, <4>1 DEF InsertWeight, Execute, InProgress
    <3> QED
      BY <1>12, <3>1 DEF AcquireLock, StatementFails, InsertSnapshot,
         InsertMetrics, Execute
  <2>3. Same(s)
    BY <1>5, <2>2
  <2>4. pc'[s] \in Critical
    BY <1>1, <2>1
  <2>5. Seeding(s)'
    BY <2>1, <2>3, <2>4 DEF Seeding, Critical
  <2>6. Reading(s)'
    BY <2>1, <2>3, <2>4 DEF Reading, Critical
  <2> QED
    BY <1>4, <2>3, <2>5, <2>6
<1>13. ASSUME NEW s \in Session, Rollback(s) PROVE SeedInv'
  <2>1. /\ disk' = disk
        /\ \E l \in {"body", "idle"} : pc' = [pc EXCEPT ![s] = l]
        /\ seedAt' = seedAt \/ seedAt' = [seedAt EXCEPT ![s] = 0]
        /\ data' = data \/ data' = [data EXCEPT ![s] = FALSE]
        /\ seen' = seen \/ seen' = [seen EXCEPT ![s] = {}]
    BY <1>13 DEF Rollback, RollbackTxn, AfterFailure, Leave, Goto
  <2>2. Same(s)
    BY <1>5, <2>1
  <2>3. pc'[s] \in {"body", "idle"} /\ (seedAt'[s] = seedAt[s] \/ seedAt'[s] = 0)
    BY <1>1, <2>1
  <2>4. Seeding(s)'
    <3>1. \A p \in Portfolio : ~ p < 0
      BY ConstantsAssumption DEF Portfolio
    <3>2. data'[s] => data[s]
      BY <1>1, <2>1
    <3> QED
      BY <2>2, <2>3, <3>1, <3>2 DEF Seeding, Critical
  <2>5. Reading(s)'
    BY <1>1, <2>1, <2>2, <2>3 DEF Reading
  <2> QED
    BY <1>4, <2>2, <2>4, <2>5
<1>14. ASSUME NEW s \in Session, ReadRow(s) PROVE SeedInv'
  <2>1. /\ pc[s] = "body" /\ disk' = disk
        /\ pc' = [pc EXCEPT ![s] = "hydrate"]
        /\ UNCHANGED <<job, seedAt, data, seen>>
    BY <1>14 DEF ReadRow, Goto
  <2>2. Same(s) /\ view.snapshots = disk.snapshots
    BY <1>5, <2>1, ViewIsDisk DEF Critical
  <2>3. PICK i \in DOMAIN view.snapshots : sid' = [sid EXCEPT ![s] = i]
    BY <1>14 DEF ReadRow, CommittedIds
  <2>4. Seeding(s)'
    BY <1>1, <2>1, <2>2 DEF Seeding, Critical
  <2>5. Reading(s)'
    BY <1>1, <2>1, <2>2, <2>3 DEF Reading
  <2> QED
    BY <1>4, <2>2, <2>4, <2>5
<1>15. ASSUME NEW s \in Session, Hydrate(s) PROVE SeedInv'
  <2>1. /\ pc[s] = "hydrate" /\ disk' = disk
        /\ pc' = [pc EXCEPT ![s] = "body"]
        /\ UNCHANGED <<job, seedAt, data, sid>>
    BY <1>15 DEF Hydrate, Goto
  <2>2. Same(s) /\ view.snapshots = disk.snapshots
    BY <1>5, <2>1, ViewIsDisk DEF Critical
  <2>3. /\ sid[s] \in DOMAIN view.snapshots
        /\ view.snapshots[sid[s]].weights = Isin
    BY <2>1, <2>2 DEF Reading, IInv, CommittedSnapshotsWhole, Whole
  <2>4. seen' = [seen EXCEPT ![s] = {Isin}]
    BY <1>15, <2>3 DEF Hydrate
  <2>5. Seeding(s)'
    BY <1>1, <2>1, <2>2 DEF Seeding, Critical
  <2>6. Reading(s)'
    BY <1>1, <2>1, <2>4 DEF Reading
  <2> QED
    BY <1>4, <2>2, <2>5, <2>6
<1>16. ASSUME Crash PROVE SeedInv'
  <2>1. /\ disk' = disk
        /\ \A s \in Session : /\ pc'[s] = "idle" /\ seedAt'[s] = 0
                              /\ data'[s] = FALSE /\ seen'[s] = {}
    BY <1>16 DEF Crash, RollbackTxn
  <2>2. \A p \in Portfolio : ~ p < 0
    BY ConstantsAssumption DEF Portfolio
  <2>3. \A s \in Session : Seeding(s)' /\ Reading(s)'
    BY <2>1, <2>2 DEF Seeding, Reading, Critical
  <2> QED
    BY <1>3, <2>1, <2>3 DEF SeedInv
<1>17. ASSUME UNCHANGED vars PROVE SeedInv'
  BY <1>17 DEF vars, SeedInv, SeedComesFirst, Seeding, Reading, CommittedIds
<1> QED
  BY <1>2, <1>6, <1>7, <1>8, <1>9, <1>10, <1>11, <1>12, <1>13, <1>14, <1>15,
     <1>16, <1>17 DEF Next, SessionStep, SaveStep

(* The invariant of seeding holds in every reachable state.                *)
LEMMA SeedInvariance == OneSession => (Spec => []SeedInv)
<1> SUFFICES ASSUME OneSession PROVE Spec => []SeedInv
  OBVIOUS
<1>1. SerialBenchmarks
  BY OneSessionIsSerial
<1>2. Init => SeedInv
  <2> SUFFICES ASSUME Init PROVE SeedInv
    OBVIOUS
  <2>1. \A p \in Portfolio : ~ p < 0
    BY ConstantsAssumption DEF Portfolio
  <2> QED
    BY <2>1 DEF Init, EmptyDatabase, SeedInv, SeedComesFirst, Seeding, Reading,
       Critical
<1>3. IInv /\ SeedInv /\ [Next]_vars => SeedInv'
  BY SeedInvStep
<1> QED
  BY <1>1, <1>2, <1>3, Invariance, PTL DEF Spec

(* With one session a query of the history never hands out a snapshot      *)
(* without its weights (history.py:98-157).                                *)
THEOREM ReadersSeeWhole == OneSession => (Spec => []ReadersSeeWholeSnapshots)
<1>1. SeedInv => ReadersSeeWholeSnapshots
  BY DEF SeedInv, Reading, ReadersSeeWholeSnapshots
<1> QED
  BY SeedInvariance, <1>1, PTL

(* With one session no seed row ever follows a committed row of the same   *)
(* portfolio: seed_defaults() seeds "if none committed yet" (app.py:49).   *)
THEOREM SeedFirst == OneSession => (Spec => []SeedComesFirst)
<1>1. SeedInv => SeedComesFirst
  BY DEF SeedInv
<1> QED
  BY SeedInvariance, <1>1, PTL

(* With one session a script run that has its data works on portfolios     *)
(* that each have a committed allocation on disk, and keeps doing so       *)
(* through failed saves and rollbacks (app.py:49-119).                     *)
THEOREM LoadedSeeded == OneSession => (Spec => []LoadedMeansSeeded)
<1>1. SeedInv => LoadedMeansSeeded
  BY DEF SeedInv, Seeding, LoadedMeansSeeded
<1> QED
  BY SeedInvariance, <1>1, PTL
=============================================================================
