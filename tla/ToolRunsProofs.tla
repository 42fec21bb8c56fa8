--------------------------- MODULE ToolRunsProofs ---------------------------
(***************************************************************************)
(* For every set of tools, every list of calls a reply may carry and any   *)
(* number of workers: exec_tools() call by call is well typed, implements  *)
(* the single step of AgentGraph, and answers each analysis with what its  *)
(* own worker computed.                                                    *)
(***************************************************************************)
EXTENDS ToolRuns, AgentGraphProofs

(* A worker may put something else than its own payload only if the queues *)
(* were shared; one whose code still runs has put nothing yet.             *)
BoxesAreOwn ==
    /\ \A n \in Worker :
          box[n] \in {<< >>, <<[from |-> n, frame |-> {n}]>>}
    /\ \A n \in Worker : n > Len(workers) => box[n] = << >>
    /\ \A n \in DOMAIN workers :
          workers[n] \in {"running", "holding"} => box[n] = << >>

(* The results are those of the first calls of the reply, in order, and a  *)
(* worker is waited for only on behalf of the call that is next.           *)
ResultsSoFar ==
    /\ node # "tools" => results = << >> /\ waiting = 0
    /\ \A k \in DOMAIN results :
          /\ results[k].call = pending[k]
          /\ pending[k] = UnknownTool => ~results[k].ok
    /\ waiting # 0 => /\ Len(results) < Len(pending)
                      /\ CurrentCall = Analysis

ToolInv ==
    /\ ToolTypeOK
    /\ BoxesAreOwn
    /\ ResultsSoFar
    /\ AnalysesAreIsolated

----------------------------------------------------------------------------
(* What a reply's last call leaves is an outcome of all of its calls.      *)
LEMMA ResultsAreAnOutcome ==
    ASSUME ToolTypeOK, ResultsSoFar, Len(results) = Len(pending)
    PROVE  results \in Outcomes(pending)
<1>1. results \in Seq(Result) /\ pending \in Seq(Call)
  BY DEF ToolTypeOK, GraphTypeOK
<1>2. DOMAIN results = DOMAIN pending /\ DOMAIN pending = 1 .. Len(pending)
  BY <1>1
<1>3. results \in [DOMAIN pending -> Result]
  BY <1>1, <1>2
<1> QED
  BY <1>2, <1>3 DEF Outcomes, ResultsSoFar

(* Every step is a step of AgentGraph, or leaves its variables alone.      *)
LEMMA ToolStepImplements ==
    ASSUME ToolTypeOK, ResultsSoFar, [ToolNext]_allVars
    PROVE  [GraphNext]_graphVars
<1>1. CASE UserStep
  BY <1>1, Zenon DEF UserStep, GraphNext
<1>2. CASE OtherStep
  BY <1>2, Zenon DEF OtherStep, GraphNext, TurnStep
<1>3. CASE RunTool
  BY <1>3, Zenon DEF RunTool, Returns
<1>4. CASE RefuseCode
  BY <1>4, Zenon DEF RefuseCode, Returns
<1>5. CASE StartWorker
  BY <1>5, Zenon DEF StartWorker
<1>6. CASE JoinReturns
  BY <1>6, Zenon DEF JoinReturns, Returns
<1>7. CASE JoinReturnsUnserialisable
  BY <1>7, Zenon DEF JoinReturnsUnserialisable, GraphNext, TurnStep
<1>8. CASE JoinTimesOut
  BY <1>8, Zenon DEF JoinTimesOut, Returns
<1>9. CASE FinishTools
  <2>1. results \in Outcomes(pending)
    BY <1>9, ResultsAreAnOutcome DEF FinishTools
  <2>2. ExecTools
    BY <1>9, <2>1 DEF FinishTools, ExecTools
  <2> QED
    BY <2>2, Zenon DEF GraphNext, TurnStep
<1>10. CASE \E n \in DOMAIN workers : WorkerStep(n)
  BY <1>10, Zenon DEF WorkerStep, WorkerPuts, WorkerEnds, WorkerHolds,
                      WorkerReleases
<1>11. CASE UNCHANGED allVars
  BY <1>11, Zenon DEF allVars
<1> QED
  BY <1>1, <1>2, <1>3, <1>4, <1>5, <1>6, <1>7, <1>8, <1>9, <1>10, <1>11, Zenon
     DEF ToolNext, ScriptStep, ToolStep

----------------------------------------------------------------------------
(* No tool ran and no worker was started.                                  *)
LEMMA ToolInvInit == ToolInit => ToolInv
<1> SUFFICES ASSUME ToolInit PROVE ToolInv
  OBVIOUS
<1> USE WorkersAssumption
<1>1. GraphTypeOK
  BY GraphTypeInit DEF ToolInit
<1>2. /\ pending = << >> /\ results = << >> /\ workers = << >>
      /\ waiting = 0 /\ taken = Nothing
      /\ box = [n \in Worker |-> << >>]
  BY DEF ToolInit, GraphInit
<1>3. box \in [Worker -> Seq(Payload)]
  BY <1>2, EmptySeq
<1>4. ToolTypeOK
  BY <1>1, <1>2, <1>3, EmptySeq DEF ToolTypeOK
<1>5. BoxesAreOwn
  BY <1>2 DEF BoxesAreOwn
<1>6. ResultsSoFar
  BY <1>2 DEF ResultsSoFar
<1>7. AnalysesAreIsolated
  BY <1>2 DEF AnalysesAreIsolated
<1> QED
  BY <1>4, <1>5, <1>6, <1>7 DEF ToolInv

(* Steps that leave the workers and their queues alone keep what is in     *)
(* them, if nobody is waited for and nothing was just taken.               *)
LEMMA QuietBoxes ==
    ASSUME BoxesAreOwn, UNCHANGED <<workers, box>>, waiting' = 0
    PROVE  BoxesAreOwn'
  BY DEF BoxesAreOwn

(* A call that returns adds its result to those of the calls before it.    *)
LEMMA ReturnedResult ==
    ASSUME ToolTypeOK, ResultsSoFar, node = "tools", NEW ok \in BOOLEAN,
           Len(results) < Len(pending), CurrentCall = UnknownTool => ~ok,
           Returns(ok)
    PROVE  /\ ResultsSoFar'
           /\ results' \in Seq(Result)
           /\ Len(results') =< Len(pending')
           /\ waiting' = 0
<1>1. /\ results \in Seq(Result) /\ pending \in Seq(Call)
      /\ Len(results) \in Nat /\ Len(pending) \in Nat
  BY DEF ToolTypeOK, GraphTypeOK
<1>2. CurrentCall \in Call
  BY <1>1 DEF CurrentCall
<1>3. [call |-> CurrentCall, ok |-> ok] \in Result
  BY <1>2 DEF Result
<1>4. /\ results' = Append(results, [call |-> CurrentCall, ok |-> ok])
      /\ waiting' = 0 /\ node' = node /\ pending' = pending
  BY DEF Returns, graphVars, state
<1>5. /\ results' \in Seq(Result)
      /\ Len(results') = Len(results) + 1
      /\ \A k \in 1 .. Len(results) : results'[k] = results[k]
      /\ results'[Len(results) + 1] = [call |-> CurrentCall, ok |-> ok]
      /\ DOMAIN results' = 1 .. Len(results) + 1
      /\ DOMAIN results = 1 .. Len(results)
  BY <1>1, <1>3, <1>4, AppendProperties
<1>6. ASSUME NEW k \in DOMAIN results'
      PROVE  /\ results'[k].call = pending[k]
             /\ pending[k] = UnknownTool => ~results'[k].ok
  <2>1. CASE k = Len(results) + 1
    BY <1>5, <2>1 DEF CurrentCall
  <2>2. CASE k # Len(results) + 1
    <3>1. k \in 1 .. Len(results)
      BY <1>1, <1>5, <2>2
    <3> QED
      BY <1>5, <3>1 DEF ResultsSoFar
  <2> QED
    BY <2>1, <2>2
<1>7. ResultsSoFar'
  BY <1>4, <1>6 DEF ResultsSoFar
<1> QED
  BY <1>1, <1>4, <1>5, <1>7

(* Every step preserves the invariant.                                     *)
LEMMA ToolInvStep == ToolInv /\ [ToolNext]_allVars => ToolInv'
<1> SUFFICES ASSUME ToolInv, [ToolNext]_allVars PROVE ToolInv'
  OBVIOUS
<1> USE WorkersAssumption
<1>a. ToolTypeOK /\ BoxesAreOwn /\ ResultsSoFar /\ AnalysesAreIsolated
  BY DEF ToolInv
<1>b. GraphTypeOK'
  <2>1. [GraphNext]_graphVars
    BY <1>a, ToolStepImplements
  <2> QED
    BY <1>a, <2>1, GraphTypeStep DEF ToolTypeOK
<1>c. /\ results \in Seq(Result) /\ pending \in Seq(Call)
      /\ pending' \in Seq(Call)
      /\ waiting \in 0 .. Len(workers)
      /\ workers \in Seq(Status)
      /\ Len(workers) \in Nat /\ Len(workers) =< MaxWorkers
      /\ box \in [Worker -> Seq(Payload)]
      /\ taken \in {Nothing} \cup [by : Worker, payload : Payload]
  BY <1>a, <1>b DEF ToolTypeOK, GraphTypeOK
<1>1. ASSUME UserStep \/ OtherStep PROVE ToolInv'
  <2>1. UNCHANGED toolVars /\ node # "tools"
    BY <1>1 DEF UserStep, OtherStep, Ask, Interrupt, Build, BuildFails, Recall,
                ModelReplies, ModelFails, Remember, Show
  <2>2. results = << >> /\ waiting = 0
    BY <1>a, <2>1 DEF ResultsSoFar
  <2>3. ToolTypeOK'
    BY <1>b, <1>c, <2>1, <2>2 DEF ToolTypeOK, toolVars
  <2>4. BoxesAreOwn' /\ AnalysesAreIsolated'
    BY <1>a, <2>1, <2>2, QuietBoxes DEF toolVars, AnalysesAreIsolated
  <2>5. ResultsSoFar'
    BY <2>1, <2>2 DEF ResultsSoFar, toolVars
  <2> QED
    BY <2>3, <2>4, <2>5 DEF ToolInv
<1>2. ASSUME RunTool \/ RefuseCode \/ JoinTimesOut PROVE ToolInv'
  <2>1. /\ node = "tools" /\ Len(results) < Len(pending)
        /\ taken' = Nothing /\ UNCHANGED <<workers, box>>
    BY <1>2, <1>a DEF RunTool, RefuseCode, JoinTimesOut, Running, ResultsSoFar
  <2>2. PICK ok \in BOOLEAN : /\ CurrentCall = UnknownTool => ~ok
                              /\ Returns(ok)
    BY <1>2, Zenon DEF RunTool, RefuseCode, JoinTimesOut
  <2>3. /\ ResultsSoFar' /\ results' \in Seq(Result)
        /\ Len(results') =< Len(pending') /\ waiting' = 0
    BY <1>a, <2>1, <2>2, ReturnedResult
  <2>4. ToolTypeOK'
    BY <1>b, <1>c, <2>1, <2>3 DEF ToolTypeOK
  <2>5. BoxesAreOwn' /\ AnalysesAreIsolated'
    BY <1>a, <2>1, <2>3, QuietBoxes DEF AnalysesAreIsolated
  <2> QED
    BY <2>3, <2>4, <2>5 DEF ToolInv
<1>3. CASE StartWorker
  <2>1. /\ workers' = Append(workers, "running")
        /\ waiting' = Len(workers) + 1
        /\ taken' = Nothing
        /\ Len(workers) < MaxWorkers
        /\ Running /\ CurrentCall = Analysis
        /\ UNCHANGED <<node, pending, results, box>>
    BY <1>3 DEF StartWorker, graphVars, state
  <2>2. /\ workers' \in Seq(Status)
        /\ Len(workers') = Len(workers) + 1
        /\ \A n \in 1 .. Len(workers) : workers'[n] = workers[n]
        /\ workers'[Len(workers) + 1] = "running"
        /\ DOMAIN workers' = 1 .. Len(workers) + 1
        /\ DOMAIN workers = 1 .. Len(workers)
    BY <1>c, <2>1, AppendProperties DEF Status
  <2>3. ToolTypeOK'
    BY <1>a, <1>b, <1>c, <2>1, <2>2 DEF ToolTypeOK
  <2>4. BoxesAreOwn'
    <3>1. \A n \in Worker : n > Len(workers') => box'[n] = << >>
      BY <1>a, <1>c, <2>1, <2>2 DEF BoxesAreOwn, Worker
    <3>2. ASSUME NEW n \in DOMAIN workers',
                 workers'[n] \in {"running", "holding"}
          PROVE  box'[n] = << >>
      <4>1. CASE n = Len(workers) + 1
        BY <1>a, <1>c, <2>1, <4>1 DEF BoxesAreOwn, Worker
      <4>2. CASE n \in 1 .. Len(workers)
        BY <1>a, <2>1, <2>2, <3>2, <4>2 DEF BoxesAreOwn
      <4> QED
        BY <1>c, <2>2, <4>1, <4>2
    <3> QED
      BY <1>a, <2>1, <3>1, <3>2 DEF BoxesAreOwn
  <2>5. ResultsSoFar'
    BY <1>a, <2>1 DEF ResultsSoFar, Running, CurrentCall
  <2>6. AnalysesAreIsolated'
    BY <2>1 DEF AnalysesAreIsolated
  <2> QED
    BY <2>3, <2>4, <2>5, <2>6 DEF ToolInv
<1>4. ASSUME Take, waiting' = 0
      PROVE  /\ BoxesAreOwn' /\ AnalysesAreIsolated'
             /\ box' \in [Worker -> Seq(Payload)]
             /\ taken' \in [by : Worker, payload : Payload]
             /\ UNCHANGED workers
  <2>1. waiting \in Worker /\ UNCHANGED workers /\ waiting # 0
    BY <1>4, <1>c DEF Take, Worker
  <2>2. box[waiting] = <<[from |-> waiting, frame |-> {waiting}]>>
    BY <1>4, <1>a, <2>1 DEF Take, BoxOf, BoxesAreOwn
  <2>3. [from |-> waiting, frame |-> {waiting}] \in Payload
    BY <2>1 DEF Payload
  <2>4. taken' = [by |-> waiting,
                  payload |-> [from |-> waiting, frame |-> {waiting}]]
    BY <1>4, <2>2 DEF Take, BoxOf
  <2>5. box' = [box EXCEPT ![waiting] = << >>]
    BY <1>4, <1>c, <2>1, <2>2 DEF Take, BoxOf
  <2>6. box' \in [Worker -> Seq(Payload)]
    BY <1>c, <2>5, EmptySeq
  <2>7. AnalysesAreIsolated'
    BY <2>4 DEF AnalysesAreIsolated
  <2>8. \A n \in Worker : box'[n] = IF n = waiting THEN << >> ELSE box[n]
    BY <1>c, <2>5
  <2>9. \A n \in DOMAIN workers : n \in Worker
    BY <1>c DEF Worker
  <2>10. BoxesAreOwn'
    BY <1>4, <1>a, <2>1, <2>8, <2>9 DEF BoxesAreOwn
  <2> QED
    BY <2>1, <2>3, <2>4, <2>6, <2>7, <2>10
<1>5. CASE JoinReturns
  <2>1. PICK ok \in BOOLEAN : Returns(ok)
    BY <1>5 DEF JoinReturns
  <2>2. /\ node = "tools" /\ Len(results) < Len(pending)
        /\ CurrentCall # UnknownTool
    BY <1>5, <1>a, GraphAssumption DEF JoinReturns, Take, ResultsSoFar
  <2>3. /\ ResultsSoFar' /\ results' \in Seq(Result)
        /\ Len(results') =< Len(pending') /\ waiting' = 0
    BY <1>a, <2>1, <2>2, ReturnedResult
  <2>4. /\ BoxesAreOwn' /\ AnalysesAreIsolated'
        /\ box' \in [Worker -> Seq(Payload)]
        /\ taken' \in [by : Worker, payload : Payload]
        /\ UNCHANGED workers
    BY <1>4, <1>5, <2>3 DEF JoinReturns
  <2>5. ToolTypeOK'
    BY <1>b, <1>c, <2>3, <2>4 DEF ToolTypeOK
  <2> QED
    BY <2>3, <2>4, <2>5 DEF ToolInv
<1>6. CASE JoinReturnsUnserialisable
  <2>1. /\ results' = << >> /\ waiting' = 0 /\ pending' = << >>
        /\ node' = "show"
    BY <1>6 DEF JoinReturnsUnserialisable, ExecToolsRaises, NoState
  <2>2. /\ BoxesAreOwn' /\ AnalysesAreIsolated'
        /\ box' \in [Worker -> Seq(Payload)]
        /\ taken' \in [by : Worker, payload : Payload]
        /\ UNCHANGED workers
    BY <1>4, <1>6, <2>1 DEF JoinReturnsUnserialisable
  <2>3. ToolTypeOK'
    BY <1>b, <1>c, <2>1, <2>2, EmptySeq DEF ToolTypeOK
  <2>4. ResultsSoFar'
    BY <2>1 DEF ResultsSoFar
  <2> QED
    BY <2>2, <2>3, <2>4 DEF ToolInv
<1>7. CASE FinishTools
  <2>1. /\ results' = << >> /\ pending' = << >> /\ taken' = Nothing
        /\ node = "tools" /\ node' = "model" /\ waiting' = waiting
        /\ Len(results) = Len(pending) /\ UNCHANGED <<workers, box>>
    BY <1>7 DEF FinishTools
  <2>2. waiting = 0
    BY <1>a, <1>c, <2>1 DEF ResultsSoFar
  <2>3. ToolTypeOK'
    BY <1>b, <1>c, <2>1, EmptySeq DEF ToolTypeOK
  <2>4. BoxesAreOwn' /\ AnalysesAreIsolated'
    BY <1>a, <2>1, <2>2, QuietBoxes DEF AnalysesAreIsolated
  <2>5. ResultsSoFar'
    BY <2>1, <2>2 DEF ResultsSoFar
  <2> QED
    BY <2>3, <2>4, <2>5 DEF ToolInv
<1>8. ASSUME NEW n \in DOMAIN workers, WorkerPuts(n) PROVE ToolInv'
  <2>1. /\ workers[n] = "running"
        /\ workers' = [workers EXCEPT ![n] = "put"]
        /\ UNCHANGED <<node, pending, results, waiting, taken>>
    BY <1>8 DEF WorkerPuts, graphVars, state
  <2>2. n \in Worker /\ n \in 1 .. Len(workers)
    BY <1>c DEF Worker
  <2>3. {m \in DOMAIN workers : FrameOf(m) = FrameOf(n)} = {n}
    BY DEF FrameOf
  <2>4. box[n] = << >>
    BY <1>a, <2>1 DEF BoxesAreOwn
  <2>5. box' = [box EXCEPT ![n] = <<[from |-> n, frame |-> {n}]>>]
    <3>1. box' = [box EXCEPT ![n] =
                    Append(box[n], [from |-> n, frame |-> {n}])]
      BY <1>8, <2>3 DEF WorkerPuts, BoxOf
    <3>2. Append(<< >>, [from |-> n, frame |-> {n}])
             = <<[from |-> n, frame |-> {n}]>>
      OBVIOUS
    <3> QED
      BY <2>4, <3>1, <3>2
  <2>6. <<[from |-> n, frame |-> {n}]>> \in Seq(Payload)
    BY <2>2 DEF Payload
  <2>7. box' \in [Worker -> Seq(Payload)]
    BY <1>c, <2>5, <2>6
  <2>8. /\ workers' \in Seq(Status)
        /\ Len(workers') = Len(workers) /\ DOMAIN workers' = DOMAIN workers
        /\ \A m \in DOMAIN workers :
              workers'[m] = IF m = n THEN "put" ELSE workers[m]
    BY <1>c, <2>1 DEF Status
  <2>9. ToolTypeOK'
    BY <1>a, <1>b, <1>c, <2>1, <2>7, <2>8 DEF ToolTypeOK
  <2>10. \A m \in Worker : box'[m] = IF m = n
                THEN <<[from |-> n, frame |-> {n}]>> ELSE box[m]
    BY <1>c, <2>5
  <2>11. BoxesAreOwn'
    <3>1. \A m \in Worker :
             box'[m] \in {<< >>, <<[from |-> m, frame |-> {m}]>>}
      BY <1>a, <2>10 DEF BoxesAreOwn
    <3>2. \A m \in Worker : m > Len(workers') => box'[m] = << >>
      BY <1>a, <1>c, <2>2, <2>8, <2>10 DEF BoxesAreOwn
    <3>3. \A m \in DOMAIN workers' :
             workers'[m] \in {"running", "holding"} => box'[m] = << >>
      <4>1. \A m \in DOMAIN workers : m \in Worker
        BY <1>c DEF Worker
      <4> QED
        BY <1>a, <2>8, <2>10, <4>1 DEF BoxesAreOwn
    <3> QED
      BY <3>1, <3>2, <3>3 DEF BoxesAreOwn
  <2>12. ResultsSoFar' /\ AnalysesAreIsolated'
    BY <1>a, <2>1 DEF ResultsSoFar, CurrentCall, AnalysesAreIsolated
  <2> QED
    BY <2>9, <2>11, <2>12 DEF ToolInv
<1>9. ASSUME NEW n \in DOMAIN workers,
             WorkerEnds(n) \/ WorkerHolds(n) \/ WorkerReleases(n)
      PROVE  ToolInv'
  <2>1. PICK s \in {"running", "holding", "ended"} :
           /\ workers' = [workers EXCEPT ![n] = s]
           /\ s # "ended" => workers[n] \in {"running", "holding"}
    BY <1>9, Zenon DEF WorkerEnds, WorkerHolds, WorkerReleases
  <2>2. UNCHANGED <<node, pending, results, waiting, box, taken>>
    BY <1>9 DEF WorkerEnds, WorkerHolds, WorkerReleases, graphVars, state
  <2>3. /\ workers' \in Seq(Status)
        /\ Len(workers') = Len(workers) /\ DOMAIN workers' = DOMAIN workers
        /\ \A m \in DOMAIN workers :
              workers'[m] = IF m = n THEN s ELSE workers[m]
    BY <1>c, <2>1 DEF Status
  <2>4. ToolTypeOK'
    BY <1>a, <1>b, <1>c, <2>2, <2>3 DEF ToolTypeOK
  <2>5. \A m \in DOMAIN workers' :
           workers'[m] \in {"running", "holding"} => box'[m] = << >>
    BY <1>a, <2>1, <2>2, <2>3 DEF BoxesAreOwn
  <2>6. BoxesAreOwn'
    BY <1>a, <2>2, <2>3, <2>5 DEF BoxesAreOwn
  <2>7. ResultsSoFar' /\ AnalysesAreIsolated'
    BY <1>a, <2>2 DEF ResultsSoFar, CurrentCall, AnalysesAreIsolated
  <2> QED
    BY <2>4, <2>6, <2>7 DEF ToolInv
<1>10. CASE UNCHANGED allVars
  <2>1. UNCHANGED <<graphVars, toolVars>>
    BY <1>10 DEF allVars
  <2>2. /\ results' = results /\ waiting' = waiting /\ workers' = workers
        /\ box' = box /\ taken' = taken /\ node' = node
        /\ pending' = pending
    BY <2>1 DEF graphVars, toolVars, state
  <2>3. ToolTypeOK'
    BY <1>a, <1>b, <2>2 DEF ToolTypeOK
  <2>4. BoxesAreOwn' /\ ResultsSoFar' /\ AnalysesAreIsolated'
    BY <1>a, <2>2 DEF BoxesAreOwn, ResultsSoFar, AnalysesAreIsolated,
                      CurrentCall
  <2> QED
    BY <2>3, <2>4 DEF ToolInv
<1> QED
  BY <1>1, <1>2, <1>3, <1>5, <1>6, <1>7, <1>8, <1>9, <1>10, Zenon
     DEF ToolNext, ScriptStep, WorkerStep, ToolStep

(* It holds throughout.                                                    *)
LEMMA ToolInvariance == ToolSpec => []ToolInv
  BY ToolInvInit, ToolInvStep, PTL DEF ToolSpec

(* The type invariant of the calls, the workers and their queues.          *)
THEOREM ToolTypeCorrect == ToolSpec => []ToolTypeOK
<1>1. ToolInv => ToolTypeOK
  BY DEF ToolInv
<1> QED
  BY <1>1, ToolInvariance, PTL

(* exec_tools() call by call, with its workers and time limits, implements *)
(* the one step of AgentGraph: the graph sees all results or none.         *)
THEOREM ToolsImplementGraph == ToolSpec => ImplementsGraph
<1>1. ToolInit => GraphInit
  BY DEF ToolInit
<1>2. ToolInv /\ [ToolNext]_allVars => [GraphNext]_graphVars
  BY ToolStepImplements DEF ToolInv
<1> QED
  BY <1>1, <1>2, ToolInvariance, PTL DEF ToolSpec, GraphSpec, ImplementsGraph

(* However many abandoned workers finish late, an analysis is answered     *)
(* with what its own worker computed on its own frame (run_analysis()).    *)
THEOREM Isolation == ToolSpec => []AnalysesAreIsolated
<1>1. ToolInv => AnalysesAreIsolated
  BY DEF ToolInv
<1> QED
  BY <1>1, ToolInvariance, PTL

(* What was proved of AgentGraph holds with exec_tools() in detail: the    *)
(* transcript is complete and the replies are capped.                      *)
THEOREM ToolTranscriptComplete ==
    ToolSpec => [](ModelSeesEveryResult /\ RepliesAreCapped)
  BY ToolsImplementGraph, TranscriptComplete, Capped, PTL DEF ImplementsGraph

(* And so is what the user is shown: with exec_tools() call by call and    *)
(* workers left behind by earlier turns, the evidence is what the model    *)
(* read, an answer stands under its question and the memory is grounded.   *)
THEOREM ToolConversation ==
    ToolSpec => [](/\ EvidenceIsWhatTheModelRead
                   /\ AnswersFollowTheirQuestion
                   /\ MemoryHoldsGroundedTurns)
  BY ToolsImplementGraph, Evidence, Answers, Memories, PTL DEF ImplementsGraph
=============================================================================
