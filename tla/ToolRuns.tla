------------------------------ MODULE ToolRuns ------------------------------
(***************************************************************************)
(* exec_tools() of agent/graph.py call by call, with the worker threads of *)
(* engine/sandbox.py behind run_analysis.                                  *)
(*                                                                         *)
(* Each analysis gets a thread, a queue and a frame of its own.  The tool  *)
(* waits for the thread at most timeout_s; a thread that is still alive    *)
(* then is abandoned, goes on computing during later calls and turns, and  *)
(* puts its result when nobody waits for it any more.  The code it runs    *)
(* may also never end, or end the thread before it puts anything.          *)
(*                                                                         *)
(* All threads share one interpreter.  A worker inside a long operation of *)
(* the interpreter itself holds it: no other thread takes a step, and no   *)
(* timeout is noticed, before it lets go.                                  *)
(***************************************************************************)
EXTENDS AgentGraph

CONSTANT MaxWorkers     \* bound on the number of threads started

ASSUME WorkersAssumption == MaxWorkers \in Nat \ {0}

Worker == 1 .. MaxWorkers

(* What a worker puts: whose it is, and the workers that computed on the   *)
(* same data frame.                                                        *)
Payload == [from : Worker, frame : SUBSET Worker]

VARIABLES
    results,    \* the results of the calls of this reply so far
    waiting,    \* the worker exec_tools() is joining, 0 if none
    workers,    \* what each thread is doing, in the order of their start
    box,        \* the queue each analysis gets from
    taken       \* what the call at hand was answered with, and by whom

toolVars == <<results, waiting, workers, box, taken>>

allVars == <<graphVars, toolVars>>

Nothing == [by |-> 0]

(* Computing, holding the interpreter, about to end, or no longer alive.   *)
Status == {"running", "holding", "put", "ended"}

ToolTypeOK ==
    /\ GraphTypeOK
    /\ results \in Seq(Result)
    /\ Len(results) =< Len(pending)
    /\ waiting \in 0 .. Len(workers)
    /\ workers \in Seq(Status)
    /\ Len(workers) =< MaxWorkers
    /\ box \in [Worker -> Seq(Payload)]
    /\ taken \in {Nothing} \cup [by : Worker, payload : Payload]

ToolInit ==
    /\ GraphInit
    /\ results = << >>
    /\ waiting = 0
    /\ workers = << >>
    /\ box = [n \in Worker |-> << >>]
    /\ taken = Nothing

(* Some worker keeps all other threads waiting.                            *)
Held == \E n \in DOMAIN workers : workers[n] = "holding"

----------------------------------------------------------------------------
(* execute_tool() and what follows it in the loop of exec_tools().         *)

(* The call whose turn it is.                                              *)
Running ==
    /\ node = "tools"
    /\ waiting = 0
    /\ Len(results) < Len(pending)

CurrentCall == pending[Len(results) + 1]

(* It returns: a failure is a result too.                                  *)
Returns(ok) ==
    /\ results' = Append(results, [call |-> CurrentCall, ok |-> ok])
    /\ waiting' = 0
    /\ UNCHANGED graphVars

(* A tool that runs in the script thread, or a name that is none.          *)
RunTool ==
    /\ Running
    /\ CurrentCall # Analysis
    /\ \E ok \in BOOLEAN : /\ CurrentCall = UnknownTool => ~ok
                           /\ Returns(ok)
    /\ taken' = Nothing
    /\ UNCHANGED <<workers, box>>

(* run_analysis refused before a thread is started: the arguments, no data *)
(* for the portfolio, or code outside the allowed syntax.                  *)
RefuseCode ==
    /\ Running
    /\ CurrentCall = Analysis
    /\ Returns(FALSE)
    /\ taken' = Nothing
    /\ UNCHANGED <<workers, box>>

(* A thread for the code, with a new queue and a new frame.                *)
StartWorker ==
    /\ Running
    /\ CurrentCall = Analysis
    /\ Len(workers) < MaxWorkers
    /\ workers' = Append(workers, "running")
    /\ waiting' = Len(workers) + 1
    /\ taken' = Nothing
    /\ UNCHANGED <<graphVars, results, box>>

(* Mutant: one queue for all analyses.                                     *)
OneBox(n) == 1

(* The queue worker n puts into and its call gets from.                    *)
BoxOf(n) == n

(* The data frame worker n computes on.                                    *)
FrameOf(n) == n

(* _run() puts the result of the code, or its Exception, whoever is still  *)
(* waiting for it.                                                         *)
WorkerPuts(n) ==
    /\ workers[n] = "running"
    /\ workers' = [workers EXCEPT ![n] = "put"]
    /\ box' = [box EXCEPT ![BoxOf(n)] = Append(@,
                  [from |-> n, frame |-> {m \in DOMAIN workers :
                                             FrameOf(m) = FrameOf(n)}])]
    /\ UNCHANGED <<graphVars, results, waiting, taken>>

(* The thread ends: after it has put, or before, by an exception that      *)
(* "except Exception" does not catch.                                      *)
WorkerEnds(n) ==
    /\ workers[n] \in {"running", "put"}
    /\ workers' = [workers EXCEPT ![n] = "ended"]
    /\ UNCHANGED <<graphVars, results, waiting, box, taken>>

(* The code enters an operation that does not share the interpreter, and   *)
(* comes out of it, if ever.                                               *)
WorkerHolds(n) ==
    /\ workers[n] = "running"
    /\ workers' = [workers EXCEPT ![n] = "holding"]
    /\ UNCHANGED <<graphVars, results, waiting, box, taken>>

WorkerReleases(n) ==
    /\ workers[n] = "holding"
    /\ workers' = [workers EXCEPT ![n] = "running"]
    /\ UNCHANGED <<graphVars, results, waiting, box, taken>>

(* t.join() returns because the thread has ended, and box.get() follows:   *)
(* without a time limit, it waits for ever when nothing was put.           *)
Take ==
    /\ waiting # 0
    /\ workers[waiting] = "ended"
    /\ box[BoxOf(waiting)] # << >>
    /\ taken' = [by |-> waiting, payload |-> Head(box[BoxOf(waiting)])]
    /\ box' = [box EXCEPT ![BoxOf(waiting)] = Tail(@)]
    /\ UNCHANGED workers

(* A value, or the error of the code, of a missing or unusable `result`.   *)
JoinReturns == Take /\ \E ok \in BOOLEAN : Returns(ok)

(* A table whose labels are not texts: json.dumps() raises, and with it    *)
(* exec_tools(), the graph and chat().                                     *)
JoinReturnsUnserialisable ==
    /\ Take
    /\ ExecToolsRaises
    /\ results' = << >>
    /\ waiting' = 0

(* Mutant: no time limit.                                                  *)
JoinWaits ==
    /\ waiting # 0
    /\ UNCHANGED allVars

(* The time limit passes while the thread is alive: it is computing, or it *)
(* has put its result and is about to end.                                 *)
JoinTimesOut ==
    /\ waiting # 0
    /\ workers[waiting] # "ended"
    /\ Returns(FALSE)
    /\ taken' = Nothing
    /\ UNCHANGED <<workers, box>>

(* Mutant: the results of the rounds before are dropped.                   *)
FinishToolsForgets ==
    /\ node = "tools"
    /\ Len(results) = Len(pending)
    /\ messages' = messages \o ToolMessages(results)
    /\ evidence' = results
    /\ pending' = << >>
    /\ node' = "model"
    /\ results' = << >>
    /\ taken' = Nothing
    /\ UNCHANGED <<turn, memories, answer, iterations, local, remote, display,
                   waiting, workers, box>>

(* Mutant: a tool that failed has no result to feed back.                  *)
FinishToolsSkipsErrors ==
    /\ node = "tools"
    /\ Len(results) = Len(pending)
    /\ messages' = messages \o SelectSeq(ToolMessages(results),
                                         LAMBDA m : m.result.ok)
    /\ evidence' = evidence \o results
    /\ pending' = << >>
    /\ node' = "model"
    /\ results' = << >>
    /\ taken' = Nothing
    /\ UNCHANGED <<turn, memories, answer, iterations, local, remote, display,
                   waiting, workers, box>>

(* The loop is over: only now does the state of the graph change.          *)
FinishTools ==
    /\ node = "tools"
    /\ Len(results) = Len(pending)
    /\ messages' = messages \o ToolMessages(results)
    /\ evidence' = evidence \o results
    /\ pending' = << >>
    /\ node' = "model"
    /\ results' = << >>
    /\ taken' = Nothing
    /\ UNCHANGED <<turn, memories, answer, iterations, local, remote, display,
                   waiting, workers, box>>

ToolStep ==
    \/ RunTool \/ RefuseCode
    \/ StartWorker \/ JoinReturns \/ JoinReturnsUnserialisable \/ JoinTimesOut
    \/ FinishTools

(* The steps of the graph and the panel outside exec_tools().              *)
OtherStep ==
    /\ \/ Build \/ BuildFails
       \/ Recall \/ ModelReplies \/ ModelFails \/ Remember
       \/ Show
    /\ UNCHANGED toolVars

UserStep == (Ask \/ Interrupt) /\ UNCHANGED toolVars

(* A step of the script thread.                                            *)
ScriptStep == ~Held /\ (OtherStep \/ ToolStep)

(* A step of worker n.                                                     *)
WorkerStep(n) ==
    \/ ~Held /\ (WorkerPuts(n) \/ WorkerEnds(n) \/ WorkerHolds(n))
    \/ WorkerReleases(n)

ToolNext ==
    \/ ~Held /\ UserStep
    \/ ScriptStep
    \/ \E n \in DOMAIN workers : WorkerStep(n)

ToolSpec == ToolInit /\ [][ToolNext]_allVars

(* Nothing in a turn waits for the user: the backend, the tools and the    *)
(* memory return or raise, and a join ends by its time limit.  A worker    *)
(* that lets go of the interpreter hands it to a thread that waits for it, *)
(* hence strong fairness.  No fairness is assumed of the workers, whose    *)
(* code may loop for ever, or never let go.                                *)
FairToolSpec == ToolSpec /\ SF_allVars(ScriptStep)

----------------------------------------------------------------------------
(* Properties.                                                             *)

(* Whatever the threads do, exec_tools() is the one step of AgentGraph that*)
(* answers all calls of a reply at once, or the one that loses the turn.   *)
ImplementsGraph == GraphSpec

(* A call is answered with what its own worker computed, on a frame no     *)
(* other worker computed on, however many abandoned workers of earlier     *)
(* calls and turns finish in the meantime.                                 *)
AnalysesAreIsolated ==
    taken # Nothing =>
        /\ taken.payload.from = taken.by
        /\ taken.payload.frame = {taken.by}

(* box.get() waits for what nobody will put any more.                      *)
AnswerIsLost ==
    /\ waiting # 0
    /\ workers[waiting] = "ended"
    /\ box[BoxOf(waiting)] = << >>

(* A question does not hang, whatever code runs and however late, but for  *)
(* two reasons, the ones the time limit of an analysis does not reach: the *)
(* code holds the interpreter for good, or its thread ends without a word. *)
TurnsEnd ==
    <>[]Held \/ (node = "build" ~> node = "idle" \/ AnswerIsLost)

(* "Any failure is returned as a structured {"error": ...} object (never   *)
(* raised past this boundary) so the model can self-correct"               *)
(* (execute_tool()): calls that were started are answered to the model.    *)
ToolFailuresReachTheModel ==
    [][node = "tools" => node' \in {"tools", "model"}]_allVars
=============================================================================
