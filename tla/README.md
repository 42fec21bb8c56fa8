# Rebalancing Copilot in TLA+

TLA+ models of Rebalancing Copilot (the repository under `src/`), the TLC
configurations that check them, and theorems about them that TLAPS has checked.
Line numbers below are those of the files under `src/`.

## 1. The system

One Streamlit process serves every browser session. Each session's script
thread runs `app.py` from top to bottom on every interaction, on ONE SQLite
connection that all sessions share (`get_conn()` is a cached resource).

| Part | State it keeps | Operations | Talks to |
|---|---|---|---|
| history store (`store/history.py`, `schema.sql`) | tables `snapshots`, `weights`, `metrics`; the connection's transaction; `_WRITE_LOCK` | `save_snapshot`, `get_current`, `get_previous`, `list_history`, `chained_timeline` | SQLite |
| benchmark settings (`engine/benchmark.py`) | table `benchmarks` | `save_benchmark`, `get_active_benchmark`, period returns, comparison | the same connection |
| page script (`app.py`) | per run: the loaded data; per session: `opt_result`, `chat_display` | upload and seeding, overview, engine tab, history tab, benchmark tab, chat | all the others, by calls |
| attribution (`engine/perf.py`, `agent/tools.py`) | none | weights in force, chained returns, metrics | history store, risk-free rate |
| analyst toolkit (`engine/analytics.py`) | none | buckets, windows, drawdowns, contributions, drift | attribution |
| ingestion (`engine/ingest.py`, `universe.py`) | none | clean a NAV or return file, clean a yield file | pandas |
| risk-free rate (`engine/rf.py`) | none | rate lookup, accrual, average | - |
| optimizer (`engine/optimizer.py`) | none | validate bounds, multi-start solve, round to whole percents | SciPy |
| agent graph (`agent/graph.py`) | `AgentState` of one turn | recall, model, tools, remember | transport, tools, memory, tracing |
| tool registry (`agent/tools.py`) | none | validate the arguments, run a tool, turn errors into results | attribution, toolkit, optimizer, store |
| agent memory (`agent/memory.py`) | local FTS5 table, remote documents | remember (both), recall (remote first) | SQLite, Supermemory |
| sandbox (`engine/sandbox.py`) | a worker thread per call | check the syntax tree, run, wait with a timeout | pandas |
| transport (`agent/llm.py`) | none | chat with Ollama or a gateway | the model |
| tracing (`agent/tracing.py`) | a cached client | spans around a turn | Langfuse |

What is hard about it:

* **Shared connection.** A connection has one transaction. `save_snapshot()`
  serialises itself with a lock; `save_benchmark()` and all readers use the
  connection without it. Whoever commits or rolls back does so for everybody.
* **Failure and crash** between the statements of a save, or right after it.
* **Check, then act.** `seed_defaults()` looks first and saves later.
* **Order by wall clock.** Corrections are told apart by `created_at`.
* **Two positions, one list.** Returns are indexed by position; the dates are
  filtered in one caller and not in the other.
* **A bounded loop with a model in it** that may reply with anything, tools
  and stores that fail independently, and a user who reruns the page.
* **Threads that outlive their time limit.** An analysis runs in a worker thread
  that cannot be stopped; its result may come when nobody waits for it, or the
  thread may end without one. All threads share one interpreter, and the time
  limit with it.
* **Dates in two conventions**, of which the parser takes the other one, cell by
  cell, where the preferred one fails.
* **Session state that outlives what it was computed from**: the optimizer's
  result stays through uploads, other caps and failures until it is committed.
* **The same figure computed twice** by different modules, from tables they
  build in their own way.

What makes each part correct, and the properties that say it: saves are atomic,
durable and append-only (`CommittedSnapshotsWhole`, `ReturnedIdsAreDurable`,
`NothingCommittedIsLost`, `ImplementsAppendOnlyHistory`); queries agree, are
determined and follow corrections (`QueriesAgree`, `LatestCorrectionIsCurrent`,
...); figures are point in time (`AttributionIsPointInTime`) and tools reconcile
(`ToolsReconcile`); rounding keeps 100% (`RoomyBoundsSumToWhole`); the loaded
table is the file's (`LoadedMatchesFile`), figures agree (`FiguresAgree`,
`DrawdownsReconcile`) and parts add up (`DecompositionsAddUp`); a commit is the
last solution shown (`CommitsAreTheLastSolution`) and the two queries of a tool
are apart by what was saved between them and by nothing else
(`ReportsLagByOvertakingRows`); the transcript is complete, rounds
are capped, evidence is what the model read, an analysis gets its own result
(`AnalysesAreIsolated`), and turns end. `PROJECT.json` lists every hazard at its
line with the properties that cover it.

## 2. Modules

| Module | Models |
|---|---|
| `AppendOnlyHistory` | abstract: a log to which one whole record is appended at a time |
| `HistoryStore` | script threads of several sessions on the shared connection: seeding, saves, readers, benchmarks, failures, crashes |
| `HistoryStoreProofs` | type correctness, atomicity, durability, nothing lost, refinement; seeding and readers of one session |
| `HistoryQueries` | the four queries and the weights in force on a day |
| `HistoryQueriesProofs` | type correctness; the current allocation is the latest and unique; the queries agree; days follow corrections and earlier days stay |
| `Enumerations` | finite sets of numbers in ascending order, by rank |
| `EnumerationProofs` | a listing that respects an order is that order; order of subsets, prefixes and images; induction and recursion over numbers; quotients |
| `Attribution` | `HistoryQueries` plus the loaded file: the overview's series and the tools' |
| `Workbench` | `Attribution` plus the engine tab's session state and the tools that query the store twice |
| `WorkbenchProofs` | of `Attribution`: refinement of the queries; point in time, reconciliation, the past is kept. Of `Workbench`: type correctness; refinement of `Attribution`; commits and reports |
| `Optimizer` | `optimize()`: refusals, the solver as any point within the bounds, the rounding loop |
| `OptimizerProofs` | sums over finite sets; type correctness; the shortfall fits; whole weights that sum to 100% |
| `Ingest` | `load_nav()` from the rows of a file to dated returns and a report |
| `Analysis` | `Ingest` plus calendar tables, drawdowns and the risk-free rate of what was loaded |
| `Toolkit` | `Analysis` plus the answers of the analyst tools: windows, ranges, months, contributions, drift, breakdowns |
| `AnalysisProofs` | of `Ingest`: type correctness, rows are accounted for, the loaded table is the file's. Of `Analysis`: drawdowns and the risk-free rate. Of `Toolkit`: contributions, drift and breakdowns; tables, windows, trends and months agree |
| `AgentGraph` | one session's chat panel, the graph with a tool round as one step, the memory |
| `AgentGraphProofs` | type correctness; complete transcripts; the cap; answers, memory and evidence |
| `ToolRuns` | `AgentGraph` with `exec_tools()` call by call and the sandbox's worker threads; implements `AgentGraph` |
| `ToolRunsProofs` | type correctness; isolation of analyses; the refinement, and by it transcripts and the conversation |
| `MC...` | values of the constants for TLC |

### HistoryStore

`disk` is what a crash leaves and `view` what the shared connection sees; they
differ while a transaction (`inTxn`) is open. `lock` is `_WRITE_LOCK`. Per
session: `pc` (where the script thread is), `job` and `sid` (the arguments and
the id of its `save_snapshot()` call), `seedAt` (the portfolio of the seeding
loop), `data` (the upload went through), `seen` (what the last query hydrated).
`acked` is a history variable: what the calls have reported as saved.

Actions follow the statements: `RunWithFiles`, `SeedSkip`, `SeedStart`,
`SeedDone` (`app.py:49-57, 84-91`); `RequestSave` (`app.py:216-228`);
`AcquireLock`, `InsertSnapshot`, `InsertWeight` (one fund at a time),
`InsertMetrics`, `Commit` (`history.py:76-95`); `StatementFails` at any of
them, then `Rollback` and what the caller does with the exception; `ReadRow`
and `Hydrate`, the two statements of a query; `InsertBenchmark`,
`CommitBenchmark`, `BenchmarkFails` (`benchmark.py:26-30`); `Crash`, after
which the process is started again on the same file.

The Python driver (external) opens a transaction at the first data-changing
statement and `executemany()` does so only before its first row. So when
another thread commits between two weights, the weights that follow are in
autocommit mode and on disk at once; `InsertWeight` has that case.

Abstractions: a row carries its weights and a flag for its metrics; a weight
vector is the set of funds inserted so far; an id is a position of the log
(nothing is deleted, and the ids a rollback frees are given again, as SQLite
does for a table without AUTOINCREMENT). Only the holder of the lock rolls
back, so a row that is being filled is always the last one. `cur.lastrowid` is
taken as the id of the row of the same cursor. Benchmarks are counted. The
bounds are `MaxSnapshots` (no save is requested beyond so many rows) and
`MaxBenchmarks`. `Jobs` has no save with source "seed": `seed_defaults()`
(`app.py:56`) is the only caller in the program that passes it.

### HistoryQueries and Attribution

`rows` is the table; `clock` the time of the last save; a save moves it by one
of `ClockSteps`. SQL leaves the order of equal keys open, so a query is the SET
of the answers it may give (`Current`, `Previous`, `Listings`, `Timelines`).
`Active` is the scan of `portfolio_returns()`. Sources are those of the schema
and include `candidate_preview`, which no query may return.

`Attribution` adds `data`, the set of days of the loaded file. A series is a
sequence of entries: the day, the row whose weights apply, and the day whose
fund returns they are applied to, so that a misplaced index is visible and no
number is needed. `AttributionSeries` is `_attribution()` (whole file, returns
of the whole file); `ToolSeries` is what every analyst tool gets (covered
dates, returns of the whole file). `Upload` loads a file and seeds as
`app.py:84-91` does, `UploadElsewhere` is another session doing so, and a
commit may carry any date. `SaveApart` is a row that is none of this portfolio's
allocations: a preview, or a row of another portfolio. What `sorted()` and the list comprehensions make of
days and positions is `InOrder` of `Enumerations`: element k is the one with
k-1 elements below it, so that no recursion stands between the code and the
proofs. A series is a function of the timeline q that `chained_timeline()`
returns, and the properties hold for whichever it returns. `firstDays` is a history variable:
the first days of all files loaded so far. One portfolio is followed
(`Selected`) in a table of all; columns of the file are not modelled.

### Workbench

The engine tab and two tools, in one session, over `Attribution`. `optResult` is
`st.session_state.opt_result`: the weights with the cap they were solved for, or
nothing. `OptimizerSolves` and `OptimizerRefuses` are the button "Run optimizer"
with and without a `CopilotError` (`app.py:184-194`); `CommitRounded` is the
commit button (`app.py:195-228`), which is there as long as a file and
`opt_result` are, whatever was loaded or refused in another way since. `targets`
is the column `sigma_target`. Other sessions load files (`LoadElsewhere`), commit
(`CommitElsewhere`) and save previews or other portfolios (`SaveElsewhere`)
between any two steps.

`composition_change()` and `target_vs_realized()` call `get_current()` and then
`get_previous()` or `chained_timeline()`: `GetCurrent` is the first query, with
the answer in `call`, `GetPrevious` and `Attribute` are the second, with the
outcome in `report`. The two are no transaction. `ReportsLagByOvertakingRows` says
what a report may then be: of the rows saved in between only those of this
portfolio that take effect as late as the first answer overtake it, the row
reported as current is as many places from the end of the history as these are,
its target is that row's, and "previous" is the last but one of the second
query. So without an overtaking commit a report is of one moment, and with one
`composition_change()` compares an allocation with itself.
`lastRun` (what the tab showed last) and `here` (who saved the last row) are
history variables. The tab and the tools work on one portfolio: the result of the optimizer
does not depend on the selection.

### AgentGraph

`node` is the node of the graph, or where the panel is. `messages`, `memories`,
`pending`, `evidence`, `answer`, `iterations` are `AgentState` (`graph.py:126`);
`local` and `remote` the two stores; `display` is `chat_display`. The model is
free: any list of calls of `CallLists`, also unknown names, any content, or an
exception. A tool call has a result, which may be an error (`execute_tool()`
raises nothing). `json.dumps()` of the result stands outside that boundary:
`ExecToolsRaises`. `BuildFails` and `ExecToolsRaises` may reach the panel as
"tracing_error", because `trace()` (`tracing.py:56-75`) yields again when its
body raises while a tracer is live. Either store may fail. `Interrupt` is
Streamlit ending a run at its next call. Left out: the text of the prompt,
"thinking", spans.

### ToolRuns

`AgentGraph!ExecTools` answers all calls of a reply in one step. `ToolRuns` keeps
every other action of `AgentGraph` and replaces that step by the loop:
`results` are the results so far, `RunTool` is a call in the script thread,
`RefuseCode` an analysis that is refused before a thread starts, `StartWorker`,
`JoinReturns`, `JoinTimesOut` and `JoinReturnsUnserialisable` the rest of
`run_analysis()` (`sandbox.py:142-185`), `FinishTools` the return of the node.
`workers` are all threads ever started, `box` their queues. `WorkerPuts` is
`_run()` putting a result or an `Exception`, at any time, also in a later turn,
or never; `WorkerEnds` is the end of the thread, after that or without it: `_run()`
(`sandbox.py:156-161`) catches `Exception` and no more. `JoinTimesOut` needs a thread that is
alive, which it still is between its put and its end. `JoinReturns` needs one
that has ended, and then `box.get()` (line 170), which has no time limit, a
result: without one the call waits for ever (`AnswerIsLost`). `WorkerHolds` and
`WorkerReleases` are an operation that does not release the interpreter; while a
worker is in one (`Held`), no other thread takes a step and no time limit is
noticed. `taken` records, for one call,
whose result it was given and which workers computed on the same frame. The
identity mapping of the common variables implements `AgentGraph`
(`ImplementsGraph`): the graph sees all results of a reply or none.

### Optimizer

`stage` follows `optimize()` (`optimizer.py:119-191`): validation, statistics,
the least volatility, the multi-start, then `_round_weights()` statement by
statement: `FloorAndClip`, `Share` (the shortfall and `argsort`), `Increment`
per turn of the loop, `FinalClip`. Percentages are integers, `One` units to a
percent. The solver is external: it fails, or returns a point on the grid
within the bounds. Floating point is part of the model because the code is
sensitive to it: `0.29 * 100` is `28.999999999999996`, and `floor()` sees it. A
weight is off its grid point by at most `Hair`, a stored bound may be off a
whole percent by as much. Returns and the covariance are not modelled, so the
cap appears only as the refusal to solve.

### Ingest, Analysis and Toolkit

`stage` follows `load_nav()` (`ingest.py:98-177`); `rows` is the data frame
`df`. A number stands for the logarithm of a price or for a logarithmic return,
so that returns are differences and compounding is a sum; below 2 it counts as
small for `_detect_mode()`, below 1 as not positive. A date cell is a date in
each convention, or none in it (`Written`). `Day` is what `pd.to_datetime()`
makes of it: with `format="mixed"`, `dayfirst` is a preference, and a cell that
is no date in the preferred convention is read in the other one. So a cell is
missing under one convention exactly if it is under the other, and the retry of
`_parse_dates()` never changes the convention. The order of rows with the same date after the
(unstable) sort is open. Rows that are kept stand at the places `InOrder` gives
their positions, and the sorted rows at those of their days, as in
`Attribution`. Reading bytes, headers and the time of day of a date are left
out. A file has two funds. `Analysis` holds `periodic_returns()`,
`monthly_returns()`, the trailing periods, `drawdown_periods()`,
`_max_drawdown()` and the risk-free lookup, as operators on the loaded series,
with the reference definitions in the properties. Sums and the loops of
`drawdown_periods()` and `monthly_returns()` are recursive functions over the
positions of the series (`Totals`, `DrawdownScans`, `Tabled`), the buckets of
`periodic_returns()` stand at the ranks of their keys, the sorted yields at
theirs. As in the code, both drawdown functions
measure from the value after the first return, so a loss on the first day is no
drawdown in either.

`Toolkit` holds the other functions of `analytics.py` and the comparison of
`benchmark.py`. Those about one series (rolling windows, trend windows, ranges,
months, benchmark periods) are on the series of `Analysis`. Those about several
funds are on a plan, a timeline with weights as parts of `Whole`: the weights in
force are looked up by `portfolio_returns()`, by `fund_contribution()` and, as
the last segment only, by `portfolio_drift()`, each in its own loop. As in the
code, the position of a return is that among the covered days. A volatility is
its variance times n(n-1), which needs no division; drift is compared by
cross-multiplying.

## 3. Runs

Passing runs check the properties that hold; a violation run shows one
statement of a doc, comment or test that the code does not keep (`findings` of
`PROJECT.json` quotes it).

| Run | Instance | Shows |
|---|---|---|
| `history_one_session` | 1 session, 2 funds, 2 portfolios, 4 rows, 2 benchmarks | a session that is alone: readers see whole rows, seeding comes first and once, benchmarks that were reported saved stay, failures and crashes included |
| `history_many_sessions` | 2 sessions, 2 funds, 2 rows, no benchmarks | the file holds whole snapshots; refinement of the log; the lock is given back |
| `history_concurrent_benchmark` | as before, and one session saves a benchmark | returned ids stay whole, nothing on disk is lost |
| `history_torn_commit` | same | VIOLATION of `CommittedSnapshotsWhole` |
| `attribution_files` | `MCWorkbench`: 2 portfolios, 3 days, 3 files that start together or not, 3 rows, 2 allocations, 2 caps (both symmetric), 3 of the 4 sources, other sessions, clock advances | queries agree and follow corrections; previews and later rows leave the past as it was; the overview is point in time, commits do not rewrite the past and are the last solution with its cap; tools reconcile while all files start on one day; two queries of a tool are apart by overtaking commits only |
| `attribution_longer_file` | 5 days, 4 files, 4 rows | VIOLATION of `ToolsReconcile` |
| `agent_conversation` | `MCToolRuns`: 2 questions, cap 3, three lists of 0 to 2 calls, 2 workers that may hold the interpreter or end without a result, failing tools, stores and backend, reruns | implements the graph; isolation, complete transcripts, the cap, evidence, answers, memory; turns end but for the two reasons below |
| `agent_unserialisable` | 1 question, 1 analysis | VIOLATION of `ToolFailuresReachTheModel` |
| `optimizer_rounding` | 3 funds, 3 percents, quarter-percent points, 8 kinds of bounds | the shortfall fits; whole weights that sum to 100% under roomy whole-percent bounds |
| `optimizer_pinned` | same, free and pinned funds | VIOLATION of `RoundedSumsToWhole` |
| `analysis_files` | about 6,000 files of 3 to 7 rows and two funds, a calendar of 2-day months and 2-month years, 4 plans, windows of 1 to 3 | the loaded table is the file's, unless it is day-first with ambiguous dates; figures of four modules agree; contributions, drift and breakdowns add up |
| `analysis_day_first` | files of six day-first dates, of which the first 0 to 6 are ambiguous | VIOLATION of `DayFirstFilesAreRead` |

Why the bounds are enough to meet the interesting cases: two sessions are
enough for every race of the store, which is always between the one writer
inside the lock and one other thread; two funds give the moment "some weights
are in"; two rows or portfolios give a committed row beside one in progress.
Three or five days give files that start before, at and after an effective date;
three rows give a date with two corrections, a seed, a commit and a correction,
preview, other portfolio or commit from elsewhere, two commits between the two
queries of a tool, and two allocations and two caps tell a stale result from the last one. A cap
of 3 gives two tool rounds and a cut one, two questions an answer that may
be taken for another's, and two workers one that is abandoned while the other
runs, in the same turn or the next. The plans hold one allocation, two changes
with a correction of one day, a fund that comes and goes, and a start after that
of the file. Three funds give a shortfall of no, some and all funds'
percents, and quarters give fractions that tie and that do not. Six
observations give two drawdown episodes with a recovery between, three years,
four months with one missing between them.

What the passing properties assume and the code does not enforce; each is a
known limit rather than a run of its own:

* `history_one_session` has one session. With two, a reader may see rows that
  another thread has not committed, `save_benchmark()`'s row may be undone by
  another thread's rollback, both sessions may seed one portfolio, and a session
  may count on a seed that is then rolled back.
* `attribution_files` lets the clock advance between saves. With equal or
  stepped-back timestamps the current allocation is undetermined or an older one.
* `FilesOfOneStartReconcile` is about files that all start on one day. A file
  that ends before the first effective date makes the overview raise
  `IndexError` (`tools.py:159`).
* `ReportsLagByOvertakingRows` says how far a report may lag, not that it does
  not: the two queries of a tool are not one transaction (`tools.py:338, 313`).
* `TurnsEnd` leaves two ways for a turn to hang, which the "wall-clock timeout" of
  `sandbox.py:17` does not cap: an analysis that holds the interpreter for good
  (`<>[]Held`), and a thread that ends without a result (`AnswerIsLost`).
* `LoadedMatchesFile` is about files that are month-first, or day-first without an
  ambiguous date. `analysis_day_first` shows the others.
* `FiguresAgree` has the two windows of a trend disjoint only from two windows
  but one on; below, `volatility_trend()` compares overlapping ones
  (`analytics.py:131`).
* `AnalysesAreIsolated` is about results and frames. A worker that never ends
  keeps its thread; nothing bounds how many there are.
* `EvidenceIsWhatTheModelRead` is about the evidence shown, not about what the
  model writes: a reply without a tool call may still state figures.
* `RowsAreAccountedFor` leaves out what the cleaner drops without a word:
  repeated dates and price rows with a gap (`ingest.py:140, 150`), although
  `README.md:106` of the repository says "It never cleans silently". The report
  has no field for them, so the disagreement is in the code as it stands.
* `RoomyBoundsSumToWhole` is about whole-percent bounds with room; fractional
  bounds lose parts of a percent in the same way as pinned ones.

Deadlock is checked for `HistoryStore`. The other modules end at a bound
(`MaxRows`, `MaxTurns`) or when their function returns, where they really stop.

**Fairness.** `HistoryStore!FairSpec`: a thread inside `save_snapshot()` keeps
running, as it waits for nothing there; nothing is assumed of users, of
acquiring the lock, or of crashes. `ToolRuns!FairToolSpec`: strong fairness of
the steps of the script thread of a turn, because each is a call that returns or
raises, and a join ends by its time limit when the thread is alive. It is strong
because a worker can take and release the interpreter again and again: a thread
that waits for the interpreter gets it when it is released, which weak fairness
would not say. Nothing is assumed of the user, nor of the workers, whose code may
loop for ever, hold the interpreter for ever or end without a word. (The local
backend is called without a timeout: a backend that never answers is outside of
this assumption.)

## 4. Theorems

All proofs are checked by TLAPS to the last leaf.

**The store** (`HistoryStoreProofs`).

* `TypeCorrect`: for any constants. The strengthening adds that a thread in the
  critical section has a job, and that a seeding thread is at a portfolio.
* `Durability` and `NothingIsLost` hold of ANY sessions, with benchmarks saved
  in the middle of a snapshot. `KeepInv`: the view holds every row of the disk
  with at least its weights, because a statement only adds, a commit makes the
  disk the view and a rollback the view the disk. `DurInv`: returned ids name
  whole rows in both copies, and the row of the thread inside the lock is there,
  was returned to nobody, and is as full as its `pc` says, wherever another
  thread's commit has put it already.
* `Atomicity`, `Refinement`, `BenchmarksDurable` assume `SerialBenchmarks`: the
  session that saves benchmarks is alone. The code needs this and does not
  enforce it; `history_torn_commit` shows the first without it. The inductive
  invariant `IInv`: the lock is held by exactly the thread in the critical
  section, and the connection sees the committed log plus at most one row which
  that thread has filled as far as its `pc` says (`WriterInv`). A commit then
  appends one whole row, a rollback or crash nothing. `CountInv` adds that a
  benchmark being saved is one more than those reported.
* `ReadersSeeWhole`, `SeedFirst`, `LoadedSeeded` assume `OneSession`, as the run
  does (section 3 says what happens with two). Outside of its own save a session
  alone sees the disk (`ViewIsDisk`). `SeedInv`: the portfolios that
  `seed_defaults()` has passed are committed, the one it is saving is not, no
  other save is a seed, and an id between the two statements of a query is on disk.

**Queries and attribution**, under `ClockAdvances` (every save moves the clock
forward) except where a type or a refinement is all that is claimed.

* `HistoryQueriesProofs!CurrentIsLatest`, `CurrentIsUnique`, `Agreement`,
  `DaysFollow`, `EarlierDaysKept`. The invariant `CreatedInOrder`: the rows are
  strictly ordered by `created_at`, and the clock is not behind them. Then the
  keys of the committed rows are distinct, so a list that SQL may return is the
  only one (`EnumerationProofs!ListingIsUnique`), and the four queries are cuts
  of one order; the scan of a timeline stops at the last row not after a day; a
  new row leaves the listing of the rows before it as it was.
* `WorkbenchProofs!AttributionImplementsQueries`: every step is a save or
  leaves the table alone, which brings the invariant above. `PointInTime`: the
  positions `portfolio_returns()` keeps are those of the days from the first
  effective date on, so entry k is of covered day k. `OneStartReconciles`: some
  committed row takes effect on the first day of a file loaded so far
  (`AttributionInv`); if there is one such day, no day of the file comes before
  it, so none is left out and both series are the same.
  `PastIsKept`: a new row changes no entry, and no position, before its date.
* `WorkbenchProofs!WorkbenchTypeCorrect`, `WorkbenchImplementsAttribution`,
  `WorkbenchAttribution` (the three results by refinement);
  `LastSolutionCommitted`, from the invariant that `opt_result`, if any, is what
  the user was last shown; `ReportsLag`, from the invariant that a call between
  its queries holds a committed row no later row of the table it saw comes after
  (`LatestSeen`): the rows behind it in the timeline are then those that have
  overtaken it (`OvertakingIsAfter`), so their number is its distance from the end.

**The conversation.**

* `AgentGraphProofs!TranscriptComplete`, `Capped`: for any cap and any lists of
  calls. The invariant counts the replies in the transcript, and says that only
  the last reply may have open calls and that these are `pending`.
* `AgentGraphProofs!Answers`: while a turn runs, the last entry shown is its
  question (`DisplayInv`). `Memories`: until a turn remembers, every text in the
  stores is of an earlier one (`NotYetRemembered`). `Evidence`:
  results and transcript grow together, the j-th tool message with the j-th
  piece of evidence (`EvidenceInv`); ranks are counted with `Told`.
* `ToolRunsProofs!ToolTypeCorrect`, `Isolation`, `ToolsImplementGraph`: for any
  number of workers. `ToolInv` adds to the types that a queue holds at most the
  one result of its own worker, on a frame of its own, and none while the code of
  that worker still runs (`BoxesAreOwn`), and that the results so far answer the first calls of
  the reply (`ResultsSoFar`). The first gives isolation. With the second,
  `FinishTools` is the graph's `ExecTools`, an unserialisable result its
  `ExecToolsRaises`, and every other step of the loop and of the workers a
  stutter. `ToolTranscriptComplete` and `ToolConversation` carry the results
  about the graph to the loop.

**Rounding** (`OptimizerProofs`), for any number of funds, any bounds and any
precision (`One`, `Hair`, `Grid`) the assumptions of `Optimizer` allow.

* The sum of the weights is a recursive function over finite sets. Induction is
  stated with sets instead of predicates (`EnumerationProofs!LeastNat`,
  `InductiveNat`, and `InductiveSubsets`: a set of subsets that holds the empty one and grows by each element holds all), and
  with it sums exist, add up, scale, keep order and count (`SumAdds`,
  `SumScales`, `SumKeepsOrder`, `SumCounts`, `SumBounded`).
* `OptimizerTypeCorrect`, `ShortfallAlwaysFits`, `RoomyRounding`. The invariant
  `OptimizerInv`: the weights are a point the solver may return (`SolvedInv`),
  the shortfall and the order are those of the rounded-down weights
  (`SharedInv`), and after k turns of the loop the first k funds of the order
  have a percent more than rounded down (`RoundingInv`). Rounding down cuts less
  than a percent off each fund, so the shortfall fits (`MissingFits`) and no
  fund is served twice. Under roomy bounds it is at most the number of funds
  whose fraction stands out of the floating-point error (`MissingIsOwed`); these
  come first in the order (`FirstStandOut`) and have room for their percent
  (`PercentSurvives`), so the last clip takes nothing back.

**Ingestion and the toolkit** (`AnalysisProofs`), for files of any length and any
`MinObs`.

* `IngestTypeCorrect`, `EveryRowAccountedFor`, `FileIsLoadedAsItIs`. The
  invariant `IngestInv` says which rows there are after each step: first the
  rows of the file that are not blank, each once (`Traces`), then those of them
  with a date; the report has counted the others (`CountInv`). After the sort
  the rows are of different days in ascending order, each is a row of the file,
  and every day of the file is there, whichever of several rows of one day came
  last (`SortedInv`). What is loaded from prices is then the rows without a gap
  (`NavInv`). An ascending sequence onto the usable days is their enumeration
  (`EnumerationProofs!AscendingIsInOrder`), which gives the counts. Since the retry
  never succeeds (`NeverDayFirst`), the days are those of the month-first reading;
  in a file that is month-first, or has no ambiguous date, these are the dates as
  written (`ReadAsWritten`), and where none is repeated the values are the file's.

* `DrawdownsAreComplete`: of any loaded series. That the running sums and the
  scan of `drawdown_periods()` exist at all is `EnumerationProofs!RecursionExists`,
  induction with sets again. The invariant of the scan after i turns (`ScanOK`):
  it is inside an episode exactly if day i is below the peak, and then on a
  stretch of such days with its first lowest day as the trough; the closed
  episodes end on a day back at the peak, and every day below it so far is in one
  of them or in the open one. Two episodes with a day in common start on the same
  day, since the day before either is at the peak (`PeriodsAreApart`).
* `RiskFreeRate`: for any yields in any order. The ranks of `sorted()` order the
  yields by date (`YieldsAreSorted`), so the first that is not before the target
  is one of the next date, and there is none exactly after the last.
* `NothingIsLeftOut`: for any plan. Compounding is linear (`SumsAdd`,
  `SumsScale`), so covariances with the sum of two series add up to its variance
  (`CovariancesAdd`); a fund without a row contributed 0 every day. The covered
  days ascend, so those since the last rebalance are the last ones
  (`SinceRebalanceIs`), on which the last weights are in force (`InForceIs`): a
  fund contributed its weight times its growth (`ContributedSince`), and one that
  grew more drifts from its share by what the other falls short (`DriftOfTwo`).
* `FiguresAlwaysAgree`: for any calendar of months and years of one length, any
  windows and any benchmark. The days ascend, so their months and years do
  (`CalendarAscends`). Of such a series, the loop of `monthly_returns()` keeps an
  invariant: each row stands for one run of the observations so far and has what
  the running sums grow by over it, and the runs follow each other from the first
  observation to the last (`Segmented`, kept by `AddExtends`, carried over all
  turns by `TabledSegments`). The runs are then the buckets by key, in the order
  of the keys (`RunsAre`, `TableIsByRank`), so the two tables of months are one
  (`MonthsArePeriodic`). A year is a run of months as well (`YearsOfMonths`), and
  whatever is summed over runs that follow each other telescopes (`Telescopes`,
  `PartSums`, `RowsAddUp`): this gives totals, trailing periods, the year to date
  (`InvTables`), windows and ranges (`InvWindows`). Volatility trends are
  arithmetic on the number of windows (`InvTrends`). Of the months, those above a
  rate are counted run by run (`CountsAddUp`), and the first greatest of all is
  the first greatest of the run it lies in (`ExtremesOfPart`), which gives
  `InvMonths`.

Only model-checked: liveness (`LockIsReleased`, `TurnsEnd`), which needs
ENABLED, and what the violation runs refute. Every safety invariant, action
property and refinement that a passing run checks is a theorem.

## 5. Plan

Done: the store and its queries, attribution, the engine tab, the agent graph
with its tool loop and worker threads, the optimizer's control flow and
rounding, ingestion and the toolkit; every safety property proved. What could be
added is in the next section.

## 6. Not modelled

Floating-point formulas (`compute_metrics`, SLSQP, covariance, correlations,
least-squares slopes, percentiles, tracking error), the look-through of
holdings, layout and wording, the syntax allowlist of the sandbox, HTTP, the superseded loop of
`agent/agent.py`, the scripts and the sample data. A file without a column that
an allocation needs, the ranking of recalled texts, and the missing timeout of
the local backend are known hazards without a model.
