----------------------------- MODULE AgentGraph -----------------------------
(***************************************************************************)
(* One browser session's chat: the panel of app.py around the LangGraph of *)
(* agent/graph.py and the memory of agent/memory.py.                       *)
(*                                                                         *)
(*    recall -> model -+- (tool calls) -> tools -> back to model           *)
(*                     +- (none, or the cap) -> remember -> show           *)
(*                                                                         *)
(* The model may reply with any list of tool calls and any content, and    *)
(* may fail; a tool may fail; either half of the memory may fail; and the  *)
(* user may interact with the page, which ends the script run at the next  *)
(* Streamlit call.  "thinking" and tracing spans are left out; that a live *)
(* tracer replaces the exceptions that pass it is not.                     *)
(***************************************************************************)
EXTENDS Integers, Sequences, FiniteSets

CONSTANTS
    Tool,           \* the names in REGISTRY
    Analysis,       \* run_analysis: its results may not serialise
    UnknownTool,    \* a name the model makes up
    CallLists,      \* the lists of tool calls a reply may carry
    Content,        \* what a reply may say; "no_answer" is the empty text
    MaxToolIters,   \* config.MAX_TOOL_ITERS
    RecallLimit,    \* memory.recall(limit)
    MaxTurns        \* bound on the number of questions

Call == Tool \cup {UnknownTool}

(* How the panel reports what chat() raised: the memory, the provider, a   *)
(* result that json.dumps() refuses, or the RuntimeError of a live tracer, *)
(* whose trace() yields a second time when its body raises.                *)
Raised == {"no_memory", "no_provider", "unserialisable", "tracing_error"}

ASSUME GraphAssumption ==
    /\ UnknownTool \notin Tool
    /\ CallLists \subseteq Seq(Call)
    /\ Analysis \in Tool
    /\ ({"unavailable"} \cup Raised) \cap Content = {}
    /\ MaxToolIters \in Nat \ {0}
    /\ RecallLimit \in Nat
    /\ MaxTurns \in Nat

Result == [call : Call, ok : BOOLEAN]

(* A remembered text: "Analyst asked: <question> (tools used: ...)".       *)
Memory == [turn : Nat, tools : SUBSET Call]

System == [role |-> "system"]

User == [role |-> "user"]

AssistantMessage(calls) == [role |-> "assistant", calls |-> calls]

ToolMessage(r) == [role |-> "tool", result |-> r]

Message ==
    {System, User} \cup [role : {"assistant"}, calls : Seq(Call)]
                   \cup [role : {"tool"}, result : Result]

(* A text of the model, or how the panel reports that there is none.       *)
Reply == Content \cup {"no_answer", "unavailable"} \cup Raised

(* An entry of st.session_state.chat_display.                              *)
Entry ==
    [role : {"user"}, turn : Nat]
      \cup [role : {"assistant"}, turn : Nat, reply : Reply,
            evidence : Seq(Result)]

VARIABLES
    node,        \* the node of the graph, or where the panel is
    turn,        \* the number of questions asked so far
    messages,    \* AgentState of the turn: the transcript
    memories,    \*   the texts recalled
    pending,     \*   pending_calls
    evidence,    \*   tool_results; tool_names are their calls
    answer,      \*   the answer so far
    iterations,  \*   replies of the model
    local,       \* the texts in the local FTS5 table
    remote,      \* the documents in Supermemory
    display      \* what the panel shows

state == <<messages, memories, pending, evidence, answer, iterations>>

graphVars == <<node, turn, state, local, remote, display>>

Node == {"idle", "build", "recall", "model", "tools", "remember", "show"}

GraphTypeOK ==
    /\ node \in Node
    /\ turn \in 0 .. MaxTurns
    /\ messages \in Seq(Message)
    /\ memories \in SUBSET Memory
    /\ pending \in Seq(Call)
    /\ evidence \in Seq(Result)
    /\ answer \in Reply
    /\ iterations \in Nat
    /\ local \in SUBSET Memory
    /\ remote \in SUBSET Memory
    /\ display \in Seq(Entry)

----------------------------------------------------------------------------
(* No state of the graph: before graph.invoke(), and after it has raised.  *)
NoState ==
    /\ messages' = << >>
    /\ memories' = {}
    /\ pending' = << >>
    /\ evidence' = << >>
    /\ iterations' = 0

GraphInit ==
    /\ node = "idle"
    /\ turn = 0
    /\ messages = << >>
    /\ memories = {}
    /\ pending = << >>
    /\ evidence = << >>
    /\ answer = "no_answer"
    /\ iterations = 0
    /\ local = {}
    /\ remote = {}
    /\ display = << >>

(* The user submits a question; it is shown at once.                       *)
Ask ==
    /\ node = "idle"
    /\ turn < MaxTurns
    /\ turn' = turn + 1
    /\ display' = Append(display, [role |-> "user", turn |-> turn + 1])
    /\ node' = "build"
    /\ NoState
    /\ answer' = "no_answer"
    /\ UNCHANGED <<local, remote>>

(* build_graph(): build_memory() opened its database, a provider exists.   *)
Build ==
    /\ node = "build"
    /\ node' = "recall"
    /\ UNCHANGED <<turn, state, local, remote, display>>

(* build_memory() (the local database cannot be opened) or then            *)
(* build_provider() raises: chat() does not catch it, the panel does.      *)
BuildFails ==
    /\ node = "build"
    /\ answer' \in {"no_memory", "no_provider", "tracing_error"}
    /\ node' = "show"
    /\ UNCHANGED <<turn, messages, memories, pending, evidence, iterations,
                   local, remote, display>>

----------------------------------------------------------------------------
(* The nodes of the graph.                                                 *)

(***************************************************************************)
(* Memory.recall(): Supermemory's hits if it answers with any, else the    *)
(* local ones; an exception of either makes it no hits.                    *)
(***************************************************************************)
Hits ==
    {h \in (SUBSET remote) \cup (SUBSET local) : Cardinality(h) =< RecallLimit}

Recall ==
    /\ node = "recall"
    /\ memories' \in Hits
    /\ messages' = <<System, User>>
    /\ pending' = << >>
    /\ evidence' = << >>
    /\ iterations' = 0
    /\ node' = "model"
    /\ UNCHANGED <<turn, answer, local, remote, display>>

(* Mutant: one more round than the cap allows.                             *)
ShouldContinueLate(calls, replies) ==
    IF calls # << >> /\ replies =< MaxToolIters THEN "tools" ELSE "remember"

(* Mutant: a reply without tool calls ends the graph.                      *)
ShouldContinueEnds(calls, replies) ==
    IF calls # << >> /\ replies < MaxToolIters THEN "tools" ELSE "END"

(* should_continue(): the node after a reply.                              *)
ShouldContinue(calls, replies) ==
    IF calls # << >> /\ replies < MaxToolIters THEN "tools" ELSE "remember"

(* call_model(): the backend replies.                                      *)
ModelReplies ==
    /\ node = "model"
    /\ \E calls \in CallLists, content \in Content :
          /\ messages' = Append(messages, AssistantMessage(calls))
          /\ pending' = calls
          /\ answer' = content
          /\ iterations' = iterations + 1
          /\ node' = ShouldContinue(calls, iterations + 1)
    /\ UNCHANGED <<turn, memories, evidence, local, remote, display>>

(* call_model(): llm.chat() raises.                                        *)
ModelFails ==
    /\ node = "model"
    /\ answer' = "unavailable"
    /\ pending' = << >>
    /\ node' = "remember"
    /\ UNCHANGED <<turn, messages, memories, evidence, iterations, local,
                   remote, display>>

(* What execute_tool() may return: a failure is a result too.              *)
Outcomes(calls) ==
    {r \in [DOMAIN calls -> Result] :
        \A k \in DOMAIN calls : /\ r[k].call = calls[k]
                                /\ calls[k] = UnknownTool => ~r[k].ok}

ToolMessages(results) == [k \in DOMAIN results |-> ToolMessage(results[k])]

(* exec_tools(): every pending call, in order.                             *)
ExecTools ==
    /\ node = "tools"
    /\ \E results \in Outcomes(pending) :
          /\ messages' = messages \o ToolMessages(results)
          /\ evidence' = evidence \o results
    /\ pending' = << >>
    /\ node' = "model"
    /\ UNCHANGED <<turn, memories, answer, iterations, local, remote, display>>

(***************************************************************************)
(* exec_tools() calls json.dumps() outside its try: a result whose labels  *)
(* are not texts (a table of the analysis with dates or pairs as columns)  *)
(* raises through the graph and chat(), and all of the turn is lost.       *)
(***************************************************************************)
ExecToolsRaises ==
    /\ node = "tools"
    /\ \E k \in DOMAIN pending : pending[k] = Analysis
    /\ NoState
    /\ answer' \in {"unserialisable", "tracing_error"}
    /\ node' = "show"
    /\ UNCHANGED <<turn, local, remote, display>>

ToolsRun == {evidence[k].call : k \in DOMAIN evidence}

(* Mutant: Supermemory is written before the local table.                  *)
RememberRemoteFirst ==
    /\ node = "remember"
    /\ LET text == {[turn |-> turn, tools |-> ToolsRun]} IN
       /\ remote' = IF ToolsRun # {} THEN remote \cup text ELSE remote
       /\ local' \in {local, IF ToolsRun # {} THEN local \cup text ELSE local}
    /\ node' = "show"
    /\ UNCHANGED <<turn, state, display>>

(***************************************************************************)
(* remember(): only when a tool ran.  Memory.remember() writes the local   *)
(* table first; when that raises, Supermemory is not written.              *)
(***************************************************************************)
Remember ==
    /\ node = "remember"
    /\ LET text == {[turn |-> turn, tools |-> ToolsRun]} IN
       \/ UNCHANGED <<local, remote>>
       \/ /\ ToolsRun # {}
          /\ local' = local \cup text
          /\ remote' \in {remote, remote \cup text}
    /\ node' = "show"
    /\ UNCHANGED <<turn, state, display>>

----------------------------------------------------------------------------
(* Mutant: the answer is stored without its evidence.                      *)
ShowWithoutEvidence ==
    /\ node = "show"
    /\ display' = Append(display, [role |-> "assistant", turn |-> turn,
                                   reply |-> answer, evidence |-> << >>])
    /\ node' = "idle"
    /\ UNCHANGED <<turn, state, local, remote>>

(* The panel shows the answer, or "(no answer)", and its evidence.         *)
Show ==
    /\ node = "show"
    /\ display' = Append(display, [role |-> "assistant", turn |-> turn,
                                   reply |-> answer, evidence |-> evidence])
    /\ node' = "idle"
    /\ UNCHANGED <<turn, state, local, remote>>

(* The user interacts with the page: Streamlit ends the script run at its  *)
(* next call, before the graph was built or before the answer is stored.   *)
Interrupt ==
    /\ node \in {"build", "show"}
    /\ node' = "idle"
    /\ UNCHANGED <<turn, state, local, remote, display>>

TurnStep ==
    \/ Build \/ BuildFails
    \/ Recall \/ ModelReplies \/ ModelFails
    \/ ExecTools \/ ExecToolsRaises \/ Remember
    \/ Show

GraphNext == Ask \/ TurnStep \/ Interrupt

GraphSpec == GraphInit /\ [][GraphNext]_graphVars

----------------------------------------------------------------------------
(* Properties.                                                             *)

IsAssistant(m) == m.role = "assistant"

IsTool(m) == m.role = "tool"

(* The replies of the model in transcript ms.                              *)
Replies(ms) == {i \in DOMAIN ms : IsAssistant(ms[i])}

(* Every call of an assistant message is answered, in order, right after   *)
(* it; i indexes transcript ms.                                            *)
AnsweredAt(ms, i) ==
    \A k \in DOMAIN ms[i].calls :
        /\ i + k =< Len(ms)
        /\ IsTool(ms[i + k])
        /\ ms[i + k].result.call = ms[i].calls[k]

(* Whenever the model is called, the transcript it is sent answers every   *)
(* tool call of every earlier reply, in order and with nothing between,    *)
(* however many calls a reply made, however many of the tools failed.      *)
ModelSeesEveryResult ==
    node = "model" =>
        \A i \in Replies(messages) : AnsweredAt(messages, i)

(* Replies and tool rounds are capped: at most MAX_TOOL_ITERS calls of the *)
(* model in a turn, and the last of them is never followed by a tool.      *)
RepliesAreCapped ==
    /\ Cardinality(Replies(messages)) =< MaxToolIters
    /\ Cardinality(Replies(messages)) = MaxToolIters =>
          \A i \in DOMAIN messages : IsTool(messages[i]) =>
              \E k \in Replies(messages) : i < k

(* The places of the tool messages among the first i of transcript ms.     *)
Told(ms, i) == {j \in 1 .. i : IsTool(ms[j])}

(* The evidence is what the model was told, all of it and in order: the    *)
(* user can check an answer against the very results the model read, also  *)
(* when the backend fails in a later round.  The n-th result shown is that *)
(* of the n-th tool message, and there are as many.                        *)
EvidenceIsWhatTheModelRead ==
    node \in {"model", "tools", "remember", "show"} =>
        /\ Len(evidence) = Cardinality(Told(messages, Len(messages)))
        /\ \A i \in Told(messages, Len(messages)) :
              evidence[Cardinality(Told(messages, i))] = messages[i].result

(* An answer follows the question of its own turn, whatever was interrupted*)
(* before, with the text and the evidence of that turn and of no other.    *)
AnswersFollowTheirQuestion ==
    \A i \in DOMAIN display : display[i].role = "assistant" =>
        /\ i > 1
        /\ display[i - 1] = [role |-> "user", turn |-> display[i].turn]
        /\ (node = "idle" /\ i = Len(display)) =>
              display[i].evidence = evidence /\ display[i].reply = answer

(* A text is remembered only of a turn that ran a tool and names the tools *)
(* it ran; Supermemory never holds a text the local table lacks; what a    *)
(* turn recalls is of earlier turns.                                       *)
MemoryHoldsGroundedTurns ==
    /\ \A m \in local : /\ m.tools # {}
                        /\ m.turn = turn => m.tools = ToolsRun
    /\ remote \subseteq local
    /\ \A m \in memories : m \in local /\ m.turn < turn
=============================================================================
