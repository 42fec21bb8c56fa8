---------------------------- MODULE HistoryStore ----------------------------
(***************************************************************************)
(* store/history.py and the writers of app.py and engine/benchmark.py: the *)
(* script threads of several browser sessions work on ONE cached SQLite    *)
(* connection.                                                             *)
(*                                                                         *)
(* A connection has one transaction.  The first data-changing statement    *)
(* opens it; whoever calls commit() or rollback() ends it for every        *)
(* thread; every thread reads through it.  So the database is kept twice:  *)
(* "disk", what a crash leaves, and "view", what the shared connection     *)
(* reads and writes.                                                       *)
(*                                                                         *)
(* save_snapshot() holds _WRITE_LOCK around its transaction.               *)
(* save_benchmark() writes and commits without it.                         *)
(***************************************************************************)
EXTENDS Naturals, Sequences

CONSTANTS
    Session,            \* browser sessions: one script thread each
    BenchmarkSession,   \* the sessions that use the Benchmark tab
    Isin,               \* the funds a saved allocation has a weight for
    NumCodes,           \* number of portfolio codes (config.PORTFOLIO_CODES)
    Jobs,               \* saves requested by anything but the seeding
    MaxSnapshots,       \* bound: no save is requested beyond so many rows
    MaxBenchmarks,      \* bound: no benchmark is saved beyond so many
    NoOne               \* _WRITE_LOCK is free; no call is in progress

Portfolio == 1 .. NumCodes     \* the codes, in the order of PORTFOLIO_CODES

Source == {"user_committed", "seed", "engine", "candidate_preview"}

CommittedSource == {"user_committed", "seed", "engine"}

(***************************************************************************)
(* The arguments of save_snapshot() the model tells apart: the portfolio,  *)
(* the source and whether metrics are passed.  The weights always name     *)
(* every fund of Isin: both callers build the map from FUND_UNIVERSE.      *)
(***************************************************************************)
Job == [portfolio : Portfolio, source : Source, metrics : BOOLEAN]

(***************************************************************************)
(* A row of "snapshots" with the rows of "weights" and "metrics" that      *)
(* carry its id.  Ids are 1, 2, 3, ...: the position of a row in the log.  *)
(***************************************************************************)
Row == [job : Job, weights : SUBSET Isin, metrics : BOOLEAN]

Database == [snapshots : Seq(Row), benchmarks : Nat]

ASSUME ConstantsAssumption ==
    /\ BenchmarkSession \subseteq Session
    /\ Isin # {}
    /\ NumCodes \in Nat
    /\ Jobs \subseteq {j \in Job : j.source # "seed"}
    /\ MaxSnapshots \in Nat
    /\ MaxBenchmarks \in Nat
    /\ NoOne \notin Session

VARIABLES
    disk,     \* the committed database
    view,     \* the database as the shared connection sees it
    inTxn,    \* the connection has an open transaction
    lock,     \* the session that holds _WRITE_LOCK, or NoOne
    pc,       \* where each session's script thread is
    job,      \* the arguments of its save_snapshot() call
    sid,      \* the snapshot id it holds (cur.lastrowid, or row["id"])
    seedAt,   \* the code seed_defaults() is at, 0 outside of it
    data,     \* the script run has data (AppData): seeding went through
    seen,     \* {the weights of the snapshot it hydrated last}, or {}
    acked     \* history variable: what the save calls reported as saved

vars == <<disk, view, inTxn, lock, pc, job, sid, seedAt, data, seen, acked>>

Critical == {"insert", "weights", "metrics", "commit", "rollback"}

Label == Critical \cup {"idle", "seed", "body", "wait", "hydrate", "bench"}

TypeOK ==
    /\ disk \in Database
    /\ view \in Database
    /\ inTxn \in BOOLEAN
    /\ lock \in Session \cup {NoOne}
    /\ pc \in [Session -> Label]
    /\ job \in [Session -> Job \cup {NoOne}]
    /\ sid \in [Session -> Nat]
    /\ seedAt \in [Session -> 0 .. NumCodes + 1]
    /\ data \in [Session -> BOOLEAN]
    /\ seen \in [Session -> SUBSET SUBSET Isin]
    /\ acked \in [snapshots : SUBSET Nat, benchmarks : Nat]

----------------------------------------------------------------------------
(* Helpers.                                                                *)

(* The ids get_current(), list_history(), ... select: no preview rows.     *)
CommittedIds(db, p) ==
    {i \in DOMAIN db.snapshots :
        /\ db.snapshots[i].job.portfolio = p
        /\ db.snapshots[i].job.source \in CommittedSource}

SeedJob(p) == [portfolio |-> p, source |-> "seed", metrics |-> FALSE]

NewRow(j) == [job |-> j, weights |-> {}, metrics |-> FALSE]

(* Mutant: weights are keyed by portfolio, a correction replaces them.      *)
AddRowReplaces(db, j) ==
    LET Cleared(r) == IF r.job.portfolio = j.portfolio
                      THEN [r EXCEPT !.weights = {}] ELSE r
    IN  [db EXCEPT !.snapshots =
            Append([i \in DOMAIN db.snapshots |-> Cleared(db.snapshots[i])],
                   NewRow(j))]

AddRow(db, j) == [db EXCEPT !.snapshots = Append(@, NewRow(j))]

SetRow(db, i, r) == [db EXCEPT !.snapshots[i] = r]

WithWeight(r, f) == [r EXCEPT !.weights = @ \cup {f}]

WithMetrics(r) == [r EXCEPT !.metrics = TRUE]

AddWeight(db, i, f) == SetRow(db, i, WithWeight(db.snapshots[i], f))

AddMetrics(db, i) == SetRow(db, i, WithMetrics(db.snapshots[i]))

AddBenchmark(db) == [db EXCEPT !.benchmarks = @ + 1]

Goto(s, l) == pc' = [pc EXCEPT ![s] = l]

(* The first data-changing statement opens the transaction.                *)
Execute(db) ==
    /\ view' = db
    /\ inTxn' = TRUE
    /\ UNCHANGED disk

(* commit() and rollback() on the connection, whoever opened it.           *)
CommitTxn ==
    /\ disk' = view
    /\ inTxn' = FALSE
    /\ UNCHANGED view

RollbackTxn ==
    /\ view' = disk
    /\ inTxn' = FALSE
    /\ UNCHANGED disk

----------------------------------------------------------------------------
EmptyDatabase == [snapshots |-> << >>, benchmarks |-> 0]

Init ==
    /\ disk = EmptyDatabase
    /\ view = EmptyDatabase
    /\ inTxn = FALSE
    /\ lock = NoOne
    /\ pc = [s \in Session |-> "idle"]
    /\ job = [s \in Session |-> NoOne]
    /\ sid = [s \in Session |-> 0]
    /\ seedAt = [s \in Session |-> 0]
    /\ data = [s \in Session |-> FALSE]
    /\ seen = [s \in Session |-> {}]
    /\ acked = [snapshots |-> {}, benchmarks |-> 0]

----------------------------------------------------------------------------
(* A script run, up to the tabs.                                           *)

RunWithFiles(s) ==
    /\ pc[s] = "idle"
    /\ Goto(s, "seed")
    /\ seedAt' = [seedAt EXCEPT ![s] = 1]
    /\ UNCHANGED <<disk, view, inTxn, lock, job, sid, data, seen, acked>>

RunWithoutFiles(s) ==
    /\ pc[s] = "idle"
    /\ Goto(s, "body")
    /\ UNCHANGED <<disk, view, inTxn, lock, job, sid, seedAt, data, seen,
                   acked>>

(* seed_defaults(): get_current() finds a committed row for this code.     *)
SeedSkip(s) ==
    /\ pc[s] = "seed"
    /\ seedAt[s] \in Portfolio
    /\ CommittedIds(view, seedAt[s]) # {}
    /\ seedAt' = [seedAt EXCEPT ![s] = @ + 1]
    /\ UNCHANGED <<disk, view, inTxn, lock, pc, job, sid, data, seen, acked>>

(* Mutant: every upload seeds, whether a row is committed or not.          *)
SeedStartAlways(s) ==
    /\ pc[s] = "seed"
    /\ seedAt[s] \in Portfolio
    /\ Len(view.snapshots) < MaxSnapshots
    /\ job' = [job EXCEPT ![s] = SeedJob(seedAt[s])]
    /\ Goto(s, "wait")
    /\ UNCHANGED <<disk, view, inTxn, lock, sid, seedAt, data, seen, acked>>

(* seed_defaults(): NotFoundError, so the default weights are saved.       *)
SeedStart(s) ==
    /\ pc[s] = "seed"
    /\ seedAt[s] \in Portfolio
    /\ CommittedIds(view, seedAt[s]) = {}
    /\ job' = [job EXCEPT ![s] = SeedJob(seedAt[s])]
    /\ Goto(s, "wait")
    /\ UNCHANGED <<disk, view, inTxn, lock, sid, seedAt, data, seen, acked>>

(* Mutant: the page goes on as if it were still in the seeding loop.       *)
SeedDoneStays(s) ==
    /\ pc[s] = "seed"
    /\ seedAt[s] \notin Portfolio
    /\ data' = [data EXCEPT ![s] = TRUE]
    /\ Goto(s, "body")
    /\ UNCHANGED <<disk, view, inTxn, lock, job, sid, seedAt, seen, acked>>

(* Every code was visited: data = AppData(...), the tabs run with it.      *)
SeedDone(s) ==
    /\ pc[s] = "seed"
    /\ seedAt[s] \notin Portfolio
    /\ seedAt' = [seedAt EXCEPT ![s] = 0]
    /\ data' = [data EXCEPT ![s] = TRUE]
    /\ Goto(s, "body")
    /\ UNCHANGED <<disk, view, inTxn, lock, job, sid, seen, acked>>

(* The script run is over; the next one starts from nothing.               *)
Leave(s) ==
    /\ Goto(s, "idle")
    /\ data' = [data EXCEPT ![s] = FALSE]
    /\ seen' = [seen EXCEPT ![s] = {}]

EndRun(s) ==
    /\ pc[s] = "body"
    /\ Leave(s)
    /\ UNCHANGED <<disk, view, inTxn, lock, job, sid, seedAt, acked>>

----------------------------------------------------------------------------
(* save_snapshot().                                                        *)

RequestSave(s) ==
    /\ pc[s] = "body"
    /\ data[s]
    /\ Len(view.snapshots) < MaxSnapshots
    /\ \E j \in Jobs : job' = [job EXCEPT ![s] = j]
    /\ Goto(s, "wait")
    /\ UNCHANGED <<disk, view, inTxn, lock, sid, seedAt, data, seen, acked>>

AcquireLock(s) ==
    /\ pc[s] = "wait"
    /\ lock = NoOne
    /\ lock' = s
    /\ Goto(s, "insert")
    /\ UNCHANGED <<disk, view, inTxn, job, sid, seedAt, data, seen, acked>>

InsertSnapshot(s) ==
    /\ pc[s] = "insert"
    /\ Execute(AddRow(view, job[s]))
    /\ sid' = [sid EXCEPT ![s] = Len(view.snapshots) + 1]
    /\ Goto(s, "weights")
    /\ UNCHANGED <<lock, job, seedAt, data, seen, acked>>

(***************************************************************************)
(* executemany() opens a transaction, if none is open, before its first    *)
(* row only.  When another thread commits between two rows, the rows that  *)
(* follow are in autocommit mode: each is on disk at once.                 *)
(***************************************************************************)
InsertWeight(s) ==
    /\ pc[s] = "weights"
    /\ LET weights == view.snapshots[sid[s]].weights IN
       \E f \in Isin \ weights :
          /\ IF weights = {} \/ inTxn
             THEN Execute(AddWeight(view, sid[s], f))
             ELSE /\ view' = AddWeight(view, sid[s], f)
                  /\ disk' = view'
                  /\ UNCHANGED inTxn
          /\ Goto(s, IF weights \cup {f} # Isin THEN "weights"
                     ELSE IF job[s].metrics THEN "metrics" ELSE "commit")
    /\ UNCHANGED <<lock, job, sid, seedAt, data, seen, acked>>

InsertMetrics(s) ==
    /\ pc[s] = "metrics"
    /\ Execute(AddMetrics(view, sid[s]))
    /\ Goto(s, "commit")
    /\ UNCHANGED <<lock, job, sid, seedAt, data, seen, acked>>

(* Where a save that succeeded returns to: the seeding loop or the tabs.   *)
AfterSave(s) ==
    /\ job' = [job EXCEPT ![s] = NoOne]
    /\ IF seedAt[s] = 0
       THEN Goto(s, "body") /\ UNCHANGED seedAt
       ELSE Goto(s, "seed") /\ seedAt' = [seedAt EXCEPT ![s] = @ + 1]
    /\ UNCHANGED <<sid, data, seen>>

(* Mutant: the id is returned and nothing was committed.                   *)
CommitForgotten(s) ==
    /\ pc[s] = "commit"
    /\ lock' = NoOne
    /\ acked' = [acked EXCEPT !.snapshots = @ \cup {sid[s]}]
    /\ AfterSave(s)
    /\ UNCHANGED <<disk, view, inTxn>>

(* Leaving "with _WRITE_LOCK, conn": commit, release, return the id.       *)
Commit(s) ==
    /\ pc[s] = "commit"
    /\ CommitTxn
    /\ lock' = NoOne
    /\ acked' = [acked EXCEPT !.snapshots = @ \cup {sid[s]}]
    /\ AfterSave(s)

(* A statement raises: float(w) of a weight, a full disk, a failed commit. *)
StatementFails(s) ==
    /\ pc[s] \in {"insert", "weights", "metrics", "commit"}
    /\ Goto(s, "rollback")
    /\ UNCHANGED <<disk, view, inTxn, lock, job, sid, seedAt, data, seen,
                   acked>>

(***************************************************************************)
(* The exception leaves save_snapshot().  In seed_defaults() the script    *)
(* catches it and goes on without data; a commit from the engine tab ends  *)
(* the script run.                                                         *)
(***************************************************************************)
AfterFailure(s) ==
    /\ job' = [job EXCEPT ![s] = NoOne]
    /\ IF seedAt[s] = 0
       THEN Leave(s) /\ UNCHANGED seedAt
       ELSE /\ Goto(s, "body")
            /\ seedAt' = [seedAt EXCEPT ![s] = 0]
            /\ UNCHANGED <<data, seen>>
    /\ UNCHANGED <<sid, acked>>

(* Mutant: the exception does not undo the statements before it.           *)
RollbackCommits(s) ==
    /\ pc[s] = "rollback"
    /\ CommitTxn
    /\ lock' = NoOne
    /\ AfterFailure(s)

(* Mutant: acquire() and release() instead of a with block.                *)
RollbackKeepsLock(s) ==
    /\ pc[s] = "rollback"
    /\ RollbackTxn
    /\ UNCHANGED lock
    /\ AfterFailure(s)

(* Mutant: seed_defaults() swallows the exception and goes on.             *)
RollbackSwallowed(s) ==
    /\ pc[s] = "rollback"
    /\ RollbackTxn
    /\ lock' = NoOne
    /\ AfterSave(s)
    /\ UNCHANGED acked

(* Leaving the with block on an exception: rollback, release, raise.       *)
Rollback(s) ==
    /\ pc[s] = "rollback"
    /\ RollbackTxn
    /\ lock' = NoOne
    /\ AfterFailure(s)

----------------------------------------------------------------------------
(* The readers: one SELECT picks the row, _hydrate() reads its weights.    *)

ReadRow(s) ==
    /\ pc[s] = "body"
    /\ \E p \in Portfolio : \E i \in CommittedIds(view, p) :
          sid' = [sid EXCEPT ![s] = i]
    /\ Goto(s, "hydrate")
    /\ UNCHANGED <<disk, view, inTxn, lock, job, seedAt, data, seen, acked>>

Hydrate(s) ==
    /\ pc[s] = "hydrate"
    /\ seen' = [seen EXCEPT ![s] =
                  {IF sid[s] \in DOMAIN view.snapshots
                   THEN view.snapshots[sid[s]].weights ELSE {}}]
    /\ Goto(s, "body")
    /\ UNCHANGED <<disk, view, inTxn, lock, job, sid, seedAt, data, acked>>

----------------------------------------------------------------------------
(* save_benchmark(): no lock, no rollback.                                 *)

InsertBenchmark(s) ==
    /\ pc[s] = "body"
    /\ s \in BenchmarkSession
    /\ view.benchmarks < MaxBenchmarks
    /\ acked.benchmarks < MaxBenchmarks
    /\ Execute(AddBenchmark(view))
    /\ Goto(s, "bench")
    /\ UNCHANGED <<lock, job, sid, seedAt, data, seen, acked>>

(* Mutant: save_benchmark() without its commit.                            *)
CommitBenchmarkForgotten(s) ==
    /\ pc[s] = "bench"
    /\ acked' = [acked EXCEPT !.benchmarks = @ + 1]
    /\ Leave(s)
    /\ UNCHANGED <<disk, view, inTxn, lock, job, sid, seedAt>>

CommitBenchmark(s) ==
    /\ pc[s] = "bench"
    /\ CommitTxn
    /\ acked' = [acked EXCEPT !.benchmarks = @ + 1]
    /\ Leave(s)
    /\ UNCHANGED <<lock, job, sid, seedAt>>

(* commit() raises; nobody rolls back and the transaction stays open.      *)
BenchmarkFails(s) ==
    /\ pc[s] = "bench"
    /\ Leave(s)
    /\ UNCHANGED <<disk, view, inTxn, lock, job, sid, seedAt, acked>>

----------------------------------------------------------------------------
(* The process stops and is started again on the same file.                *)
Crash ==
    /\ RollbackTxn
    /\ lock' = NoOne
    /\ pc' = [s \in Session |-> "idle"]
    /\ job' = [s \in Session |-> NoOne]
    /\ sid' = [s \in Session |-> 0]
    /\ seedAt' = [s \in Session |-> 0]
    /\ data' = [s \in Session |-> FALSE]
    /\ seen' = [s \in Session |-> {}]
    /\ UNCHANGED acked

SaveStep(s) ==
    \/ InsertSnapshot(s) \/ InsertWeight(s) \/ InsertMetrics(s)
    \/ Commit(s) \/ Rollback(s)

SessionStep(s) ==
    \/ RunWithFiles(s) \/ RunWithoutFiles(s) \/ EndRun(s)
    \/ SeedSkip(s) \/ SeedStart(s) \/ SeedDone(s)
    \/ RequestSave(s) \/ AcquireLock(s) \/ SaveStep(s) \/ StatementFails(s)
    \/ ReadRow(s) \/ Hydrate(s)
    \/ InsertBenchmark(s) \/ CommitBenchmark(s) \/ BenchmarkFails(s)

Next == Crash \/ \E s \in Session : SessionStep(s)

Spec == Init /\ [][Next]_vars

(* A thread inside save_snapshot() keeps running: it waits for nothing.    *)
FairSpec == Spec /\ \A s \in Session : WF_vars(SaveStep(s))

----------------------------------------------------------------------------
(* Properties.                                                             *)

Whole(r) == r.weights = Isin /\ r.metrics = r.job.metrics

(* What a crash leaves holds complete snapshots only: the snapshot row,    *)
(* every weight and the requested metrics, or nothing of it.               *)
CommittedSnapshotsWhole ==
    \A i \in DOMAIN disk.snapshots : Whole(disk.snapshots[i])

(* An id that save_snapshot() returned names a complete row on disk, now   *)
(* and after every later failure, rollback or crash.                       *)
ReturnedIdsAreDurable ==
    \A i \in acked.snapshots :
        i \in DOMAIN disk.snapshots /\ Whole(disk.snapshots[i])

(* Every benchmark reported as saved is on disk.                           *)
SavedBenchmarksAreDurable == acked.benchmarks =< disk.benchmarks

(* A query of the history never hands out a snapshot without its weights.  *)
ReadersSeeWholeSnapshots ==
    \A s \in Session : \A weights \in seen[s] : weights = Isin

(* seed_defaults() seeds a portfolio "if none committed yet": no seed row  *)
(* ever follows a committed row of the same portfolio.                     *)
SeedComesFirst ==
    \A i, k \in DOMAIN disk.snapshots :
        /\ i < k
        /\ disk.snapshots[i].job.portfolio = disk.snapshots[k].job.portfolio
        /\ disk.snapshots[i].job.source \in CommittedSource
        => disk.snapshots[k].job.source # "seed"

(* A script run that got past seed_defaults() works on portfolios that     *)
(* each have a committed allocation on disk.                               *)
LoadedMeansSeeded ==
    \A s \in Session : data[s] =>
        \A p \in Portfolio : CommittedIds(disk, p) # {}

(* No step takes away what is on disk: no row and no weight of a row, even *)
(* when benchmarks are saved while a snapshot is being written.            *)
NothingCommittedIsLost ==
    [][\A i \in DOMAIN disk.snapshots :
          /\ i \in DOMAIN disk'.snapshots
          /\ disk.snapshots[i].job = disk'.snapshots[i].job
          /\ disk.snapshots[i].weights \subseteq disk'.snapshots[i].weights
      ]_vars

(* No failure leaves _WRITE_LOCK held: who takes it gives it back.         *)
LockIsReleased == \A s \in Session : lock = s ~> lock # s

(* The committed history implements the append-only log of whole records.  *)
Abstract ==
    INSTANCE AppendOnlyHistory WITH
        Record <- {r \in Row : Whole(r)}, log <- disk.snapshots

ImplementsAppendOnlyHistory == Abstract!Spec
=============================================================================
