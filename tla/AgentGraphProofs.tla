-------------------------- MODULE AgentGraphProofs --------------------------
(***************************************************************************)
(* For every set of tools, every cap and every list of calls a reply may   *)
(* carry: the type invariant, the cap on the replies of a turn and the     *)
(* transcript the model is sent.  For every conversation, whatever is      *)
(* interrupted, fails or is recalled: an answer stands under the question  *)
(* of its own turn, the evidence shown with it is what the model read, and *)
(* the memory holds what was answered with a tool and nothing else.        *)
(***************************************************************************)
EXTENDS AgentGraph, SequenceTheorems, FiniteSetTheorems, TLAPS

(* The transcript of tool messages, one for each result of a call.         *)
LEMMA OutcomeMessages ==
    ASSUME NEW calls \in Seq(Call), NEW results \in Outcomes(calls)
    PROVE  /\ results \in Seq(Result)
           /\ Len(results) = Len(calls)
           /\ ToolMessages(results) \in Seq(Message)
           /\ Len(ToolMessages(results)) = Len(calls)
           /\ \A k \in 1 .. Len(calls) :
                 /\ ToolMessages(results)[k] = ToolMessage(results[k])
                 /\ results[k].call = calls[k]
<1>1. /\ DOMAIN calls = 1 .. Len(calls)
      /\ Len(calls) \in Nat
  OBVIOUS
<1>2. results \in [1 .. Len(calls) -> Result]
  BY <1>1 DEF Outcomes
<1>3. results \in Seq(Result) /\ Len(results) = Len(calls)
  BY <1>1, <1>2
<1>4. \A k \in 1 .. Len(calls) : ToolMessage(results[k]) \in Message
  BY <1>2 DEF ToolMessage, Message
<1>5. ToolMessages(results) \in [1 .. Len(calls) -> Message]
  BY <1>2, <1>4 DEF ToolMessages
<1>6. /\ ToolMessages(results) \in Seq(Message)
      /\ Len(ToolMessages(results)) = Len(calls)
  BY <1>1, <1>5
<1>7. \A k \in 1 .. Len(calls) :
         ToolMessages(results)[k] = ToolMessage(results[k])
  BY <1>2 DEF ToolMessages
<1>8. \A k \in 1 .. Len(calls) : results[k].call = calls[k]
  BY <1>1 DEF Outcomes
<1> QED
  BY <1>3, <1>6, <1>7, <1>8

(* The messages the graph appends are messages, and replies are replies.   *)
LEMMA MessageTypes ==
    /\ System \in Message /\ User \in Message
    /\ ~IsAssistant(System) /\ ~IsAssistant(User)
    /\ \A calls \in Seq(Call) :
          /\ AssistantMessage(calls) \in Message
          /\ IsAssistant(AssistantMessage(calls))
          /\ AssistantMessage(calls).calls = calls
    /\ \A r \in Result : /\ ToolMessage(r) \in Message
                         /\ IsTool(ToolMessage(r))
                         /\ ~IsAssistant(ToolMessage(r))
                         /\ ToolMessage(r).result = r
  BY DEF System, User, Message, AssistantMessage, ToolMessage, IsAssistant,
         IsTool

----------------------------------------------------------------------------
(* The labels of the nodes, and the replies the program itself makes.      *)
LEMMA Labels ==
    /\ "idle" \in Node /\ "build" \in Node /\ "recall" \in Node
    /\ "model" \in Node /\ "tools" \in Node /\ "remember" \in Node
    /\ "show" \in Node
    /\ "no_answer" \in Reply /\ "unavailable" \in Reply
    /\ Raised \subseteq Reply
    /\ {"no_memory", "no_provider", "unserialisable", "tracing_error"}
          \subseteq Reply
    /\ Content \subseteq Reply
  BY DEF Node, Reply, Raised

(* The type invariant holds of an empty conversation.                      *)
LEMMA GraphTypeInit == GraphInit => GraphTypeOK
<1> SUFFICES ASSUME GraphInit PROVE GraphTypeOK
  OBVIOUS
<1>1. turn \in 0 .. MaxTurns /\ iterations \in Nat
  BY GraphAssumption DEF GraphInit
<1>2. answer \in Reply /\ node \in Node
  BY Labels DEF GraphInit
<1>3. /\ messages \in Seq(Message) /\ pending \in Seq(Call)
      /\ evidence \in Seq(Result) /\ display \in Seq(Entry)
  BY EmptySeq DEF GraphInit
<1>4. memories \in SUBSET Memory /\ local \in SUBSET Memory
      /\ remote \in SUBSET Memory
  BY Zenon DEF GraphInit
<1> QED
  BY <1>1, <1>2, <1>3, <1>4, Zenon DEF GraphTypeOK

(* Every step keeps it.                                                    *)
LEMMA GraphTypeStep == GraphTypeOK /\ [GraphNext]_graphVars => GraphTypeOK'
<1> SUFFICES ASSUME GraphTypeOK, [GraphNext]_graphVars PROVE GraphTypeOK'
  OBVIOUS
<1> USE GraphAssumption, Labels
<1>1. CASE Ask
  <2>1. [role |-> "user", turn |-> turn + 1] \in Entry
    BY DEF GraphTypeOK, Entry
  <2>2. display' \in Seq(Entry)
    BY <1>1, <2>1, AppendProperties DEF Ask, GraphTypeOK
  <2>3. turn' \in 0 .. MaxTurns
    BY <1>1 DEF Ask, GraphTypeOK
  <2> QED
    BY <1>1, <2>2, <2>3, EmptySeq DEF Ask, NoState, GraphTypeOK
<1>2. CASE Build
  BY <1>2 DEF Build, state, GraphTypeOK
<1>3. CASE BuildFails
  BY <1>3 DEF BuildFails, GraphTypeOK
<1>4. CASE Recall
  <2>1. memories' \in SUBSET Memory
    <3>1. PICK hits \in (SUBSET remote) \cup (SUBSET local) : memories' = hits
      BY <1>4 DEF Recall, Hits
    <3>2. remote \subseteq Memory /\ local \subseteq Memory
      BY DEF GraphTypeOK
    <3> QED
      BY <3>1, <3>2
  <2>2. messages' \in Seq(Message)
    <3>1. <<System, User>> \in Seq(Message)
      BY MessageTypes
    <3> QED
      BY <1>4, <3>1 DEF Recall
  <2> QED
    BY <1>4, <2>1, <2>2, EmptySeq DEF Recall, GraphTypeOK
<1>5. CASE ModelReplies
  <2>1. PICK calls \in CallLists, content \in Content :
            /\ messages' = Append(messages, AssistantMessage(calls))
            /\ pending' = calls
            /\ answer' = content
            /\ iterations' = iterations + 1
            /\ node' = ShouldContinue(calls, iterations + 1)
    BY <1>5 DEF ModelReplies
  <2>2. calls \in Seq(Call)
    OBVIOUS
  <2>3. messages' \in Seq(Message)
    BY <2>1, <2>2, MessageTypes, AppendProperties DEF GraphTypeOK
  <2>4. node' \in Node
    BY <2>1 DEF ShouldContinue, Node
  <2> QED
    BY <1>5, <2>1, <2>2, <2>3, <2>4 DEF ModelReplies, GraphTypeOK
<1>6. CASE ModelFails
  BY <1>6 DEF ModelFails, GraphTypeOK
<1>7. CASE ExecTools
  <2>1. PICK results \in Outcomes(pending) :
            /\ messages' = messages \o ToolMessages(results)
            /\ evidence' = evidence \o results
    BY <1>7 DEF ExecTools
  <2>2. pending \in Seq(Call)
    BY DEF GraphTypeOK
  <2>3. messages' \in Seq(Message) /\ evidence' \in Seq(Result)
    BY <2>1, <2>2, OutcomeMessages, ConcatProperties DEF GraphTypeOK
  <2> QED
    BY <1>7, <2>3 DEF ExecTools, GraphTypeOK
<1>12. CASE ExecToolsRaises
  BY <1>12, EmptySeq DEF ExecToolsRaises, NoState, GraphTypeOK
<1>8. CASE Remember
  <2>1. ToolsRun \subseteq Call
    <3>1. \A k \in DOMAIN evidence : evidence[k] \in Result
      BY DEF GraphTypeOK
    <3>2. \A r \in Result : r.call \in Call
      BY DEF Result
    <3> QED
      BY <3>1, <3>2 DEF ToolsRun
  <2>2. [turn |-> turn, tools |-> ToolsRun] \in Memory
    BY <2>1 DEF GraphTypeOK, Memory
  <2>3. local' \in SUBSET Memory /\ remote' \in SUBSET Memory
    BY <1>8, <2>2 DEF Remember, GraphTypeOK
  <2> QED
    BY <1>8, <2>3 DEF Remember, state, GraphTypeOK
<1>9. CASE Show
  <2>1. [role |-> "assistant", turn |-> turn, reply |-> answer,
         evidence |-> evidence] \in Entry
    BY DEF GraphTypeOK, Entry
  <2>2. display' \in Seq(Entry)
    BY <1>9, <2>1, AppendProperties DEF Show, GraphTypeOK
  <2> QED
    BY <1>9, <2>2 DEF Show, state, GraphTypeOK
<1>10. CASE Interrupt
  BY <1>10 DEF Interrupt, state, GraphTypeOK
<1>11. CASE UNCHANGED graphVars
  BY <1>11 DEF graphVars, state, GraphTypeOK
<1> QED
  BY <1>1, <1>2, <1>3, <1>4, <1>5, <1>6, <1>7, <1>8, <1>9, <1>10, <1>11,
     <1>12 DEF GraphNext, TurnStep

(* The type invariant of the chat: every value of the turn's state, of the *)
(* memory and of the display stays of its type.                            *)
THEOREM GraphTypeCorrect == GraphSpec => []GraphTypeOK
  BY GraphTypeInit, GraphTypeStep, PTL DEF GraphSpec

----------------------------------------------------------------------------
(* A reply adds one to the replies of a transcript.                        *)
LEMMA AppendReply ==
    ASSUME NEW ms \in Seq(Message), NEW calls \in Seq(Call),
           IsFiniteSet(Replies(ms))
    PROVE  LET new == Append(ms, AssistantMessage(calls)) IN
           /\ Replies(new) = Replies(ms) \cup {Len(ms) + 1}
           /\ IsFiniteSet(Replies(new))
           /\ Cardinality(Replies(new)) = Cardinality(Replies(ms)) + 1
<1> DEFINE new == Append(ms, AssistantMessage(calls))
<1>1. /\ new \in Seq(Message) /\ Len(new) = Len(ms) + 1
      /\ Len(ms) \in Nat
      /\ DOMAIN new = 1 .. Len(ms) + 1 /\ DOMAIN ms = 1 .. Len(ms)
      /\ \A i \in 1 .. Len(ms) : new[i] = ms[i]
      /\ new[Len(ms) + 1] = AssistantMessage(calls)
  BY MessageTypes, AppendProperties
<1>2. IsAssistant(new[Len(ms) + 1])
  BY <1>1, MessageTypes
<1> HIDE DEF new
<1>3. Replies(new) = Replies(ms) \cup {Len(ms) + 1}
  <2>1. \A i : i \in 1 .. Len(ms) + 1 <=> i \in 1 .. Len(ms) \/ i = Len(ms) + 1
    BY <1>1
  <2> QED
    BY <1>1, <1>2, <2>1 DEF Replies
<1>4. Len(ms) + 1 \notin Replies(ms)
  BY <1>1 DEF Replies
<1>5. /\ IsFiniteSet(Replies(new))
      /\ Cardinality(Replies(new)) = Cardinality(Replies(ms)) + 1
  BY <1>3, <1>4, FS_AddElement
<1> QED
  BY <1>3, <1>5 DEF new

(* Tool messages after a transcript keep its replies, at their places.     *)
LEMMA ConcatResults ==
    ASSUME NEW ms \in Seq(Message), NEW calls \in Seq(Call),
           NEW results \in Outcomes(calls)
    PROVE  LET new == ms \o ToolMessages(results) IN
           /\ new \in Seq(Message)
           /\ Len(new) = Len(ms) + Len(calls)
           /\ \A i \in 1 .. Len(ms) : new[i] = ms[i]
           /\ \A k \in 1 .. Len(calls) :
                 /\ IsTool(new[Len(ms) + k])
                 /\ new[Len(ms) + k].result.call = calls[k]
           /\ Replies(new) = Replies(ms)
<1> DEFINE added == ToolMessages(results)
           new == ms \o added
<1>1. /\ results \in Seq(Result) /\ Len(results) = Len(calls)
      /\ added \in Seq(Message) /\ Len(added) = Len(calls)
      /\ \A k \in 1 .. Len(calls) : /\ added[k] = ToolMessage(results[k])
                                    /\ results[k].call = calls[k]
  BY OutcomeMessages
<1>2. \A k \in 1 .. Len(calls) : results[k] \in Result
  BY <1>1
<1>3. \A k \in 1 .. Len(calls) :
         /\ IsTool(added[k]) /\ ~IsAssistant(added[k])
         /\ added[k].result.call = calls[k]
  BY <1>1, <1>2, MessageTypes
<1> HIDE DEF added
<1>4. /\ new \in Seq(Message)
      /\ Len(new) = Len(ms) + Len(calls)
      /\ Len(ms) \in Nat /\ Len(calls) \in Nat
      /\ \A i \in 1 .. Len(ms) + Len(calls) :
            new[i] = IF i =< Len(ms) THEN ms[i] ELSE added[i - Len(ms)]
      /\ DOMAIN new = 1 .. Len(ms) + Len(calls) /\ DOMAIN ms = 1 .. Len(ms)
  <2>1. /\ new \in Seq(Message)
        /\ Len(new) = Len(ms) + Len(added)
        /\ \A i \in 1 .. Len(ms) + Len(added) :
              new[i] = IF i =< Len(ms) THEN ms[i] ELSE added[i - Len(ms)]
    <3>1. added \in Seq(Message)
      BY <1>1
    <3>2. /\ ms \o added \in Seq(Message)
          /\ Len(ms \o added) = Len(ms) + Len(added)
      BY <3>1, ConcatProperties
    <3>3. \A i \in 1 .. Len(ms) + Len(added) : (ms \o added)[i] =
             IF i =< Len(ms) THEN ms[i] ELSE added[i - Len(ms)]
      BY <3>1, ConcatProperties
    <3> QED
      BY <3>2, <3>3 DEF new
  <2>2. Len(ms) \in Nat /\ Len(calls) \in Nat /\ DOMAIN ms = 1 .. Len(ms)
    OBVIOUS
  <2>3. DOMAIN new = 1 .. Len(new)
    BY <2>1
  <2> HIDE DEF new
  <2> QED
    BY <1>1, <2>1, <2>2, <2>3
<1> HIDE DEF new
<1>5. \A i \in 1 .. Len(ms) : new[i] = ms[i]
  BY <1>4
<1>6. \A k \in 1 .. Len(calls) : new[Len(ms) + k] = added[k]
  BY <1>4
<1>7. \A i \in 1 .. Len(ms) + Len(calls) :
         i \notin 1 .. Len(ms) => ~IsAssistant(new[i])
  <2> TAKE i \in 1 .. Len(ms) + Len(calls)
  <2> HAVE i \notin 1 .. Len(ms)
  <2>1. i - Len(ms) \in 1 .. Len(calls)
    BY <1>4
  <2>2. new[i] = added[i - Len(ms)]
    BY <1>4
  <2> QED
    BY <1>3, <2>1, <2>2
<1>8. Replies(new) = Replies(ms)
  <2>1. 1 .. Len(ms) \subseteq 1 .. Len(ms) + Len(calls)
    BY <1>4
  <2> QED
    BY <1>4, <1>5, <1>7, <2>1 DEF Replies
<1> QED
  BY <1>3, <1>4, <1>5, <1>6, <1>8 DEF new, added

(***************************************************************************)
(* The inductive invariant: what the transcript looks like at each node,   *)
(* and that the count of replies is the one the cap is checked against.    *)
(***************************************************************************)
CountIsRight ==
    /\ IsFiniteSet(Replies(messages))
    /\ Cardinality(Replies(messages)) = iterations

CapInv ==
    /\ iterations =< MaxToolIters
    /\ node \in {"model", "tools"} => iterations < MaxToolIters
    /\ iterations = MaxToolIters =>
          Len(messages) > 0 /\ IsAssistant(messages[Len(messages)])

(* At "tools" the last message is the reply whose calls are pending.       *)
TranscriptInv ==
    /\ ModelSeesEveryResult
    /\ node = "tools" =>
          /\ Len(messages) > 0
          /\ messages[Len(messages)] = AssistantMessage(pending)
          /\ \A i \in Replies(messages) \ {Len(messages)} :
                AnsweredAt(messages, i)

GraphInv == GraphTypeOK /\ CountIsRight /\ CapInv /\ TranscriptInv

(* An empty conversation satisfies it.                                     *)
LEMMA GraphInvInit == GraphInit => GraphInv
<1> SUFFICES ASSUME GraphInit PROVE GraphInv
  OBVIOUS
<1>1. Replies(messages) = {}
  BY EmptySeq DEF GraphInit, Replies
<1>2. CountIsRight
  BY <1>1, FS_EmptySet DEF CountIsRight, GraphInit
<1>3. CapInv
  BY GraphAssumption DEF CapInv, GraphInit
<1>4. TranscriptInv
  BY <1>1 DEF TranscriptInv, ModelSeesEveryResult, GraphInit
<1> QED
  BY <1>2, <1>3, <1>4, GraphTypeInit DEF GraphInv

(* A step that leaves the transcript alone and does not move to a node     *)
(* where it matters.                                                       *)
LEMMA QuietGraphStep ==
    ASSUME GraphInv, GraphTypeOK', messages' = messages, pending' = pending,
           iterations' = iterations, node' \notin {"model", "tools"}
    PROVE  GraphInv'
<1>1. Replies(messages') = Replies(messages)
  BY DEF Replies
<1> QED
  BY <1>1 DEF GraphInv, CountIsRight, CapInv, TranscriptInv,
              ModelSeesEveryResult

(* The start of a turn: nothing was replied yet.                           *)
LEMMA FreshTurn ==
    ASSUME GraphTypeOK', iterations' = 0, node' # "tools",
           messages' = << >> \/ messages' = <<System, User>>
    PROVE  GraphInv'
<1>1. Replies(messages') = {}
  <2>1. CASE messages' = << >>
    BY <2>1 DEF Replies
  <2>2. CASE messages' = <<System, User>>
    <3>1. \A i \in DOMAIN messages' : ~IsAssistant(messages'[i])
      BY <2>2, MessageTypes
    <3> QED
      BY <3>1 DEF Replies
  <2> QED
    BY <2>1, <2>2
<1>2. CountIsRight'
  BY <1>1, FS_EmptySet DEF CountIsRight
<1>3. CapInv'
  BY GraphAssumption DEF CapInv
<1>4. TranscriptInv'
  BY <1>1 DEF TranscriptInv, ModelSeesEveryResult
<1> QED
  BY <1>2, <1>3, <1>4 DEF GraphInv

(* The model replies: the calls it makes are run only below the cap.       *)
LEMMA ReplyStep ==
    ASSUME GraphInv, GraphTypeOK', ModelReplies PROVE GraphInv'
<1> PICK calls \in CallLists, content \in Content :
          /\ messages' = Append(messages, AssistantMessage(calls))
          /\ pending' = calls
          /\ iterations' = iterations + 1
          /\ node' = ShouldContinue(calls, iterations + 1)
  BY DEF ModelReplies
<1>1. /\ calls \in Seq(Call) /\ messages \in Seq(Message)
      /\ iterations \in Nat /\ MaxToolIters \in Nat /\ node = "model"
      /\ IsFiniteSet(Replies(messages))
      /\ Cardinality(Replies(messages)) = iterations
  BY GraphAssumption DEF GraphInv, GraphTypeOK, CountIsRight, ModelReplies
<1>2. /\ Replies(messages') = Replies(messages) \cup {Len(messages) + 1}
      /\ IsFiniteSet(Replies(messages'))
      /\ Cardinality(Replies(messages')) = iterations + 1
  BY <1>1, AppendReply
<1>3. /\ Len(messages) \in Nat
      /\ Len(messages') = Len(messages) + 1
      /\ messages'[Len(messages) + 1] = AssistantMessage(calls)
      /\ \A i \in 1 .. Len(messages) : messages'[i] = messages[i]
  BY <1>1, MessageTypes, AppendProperties
<1>4. CountIsRight'
  BY <1>2 DEF CountIsRight
<1>5. CapInv'
  <2>1. iterations < MaxToolIters
    BY <1>1 DEF GraphInv, CapInv
  <2>2. IsAssistant(messages'[Len(messages')])
    BY <1>1, <1>3, MessageTypes
  <2> QED
    BY <1>1, <1>3, <2>1, <2>2 DEF CapInv, ShouldContinue
<1>6. ASSUME NEW i \in Replies(messages) PROVE AnsweredAt(messages', i)
  <2>1. AnsweredAt(messages, i)
    BY <1>1 DEF GraphInv, TranscriptInv, ModelSeesEveryResult
  <2>2. i \in 1 .. Len(messages) /\ IsAssistant(messages[i])
    BY <1>1 DEF Replies
  <2>3. DOMAIN messages[i].calls \subseteq Nat \ {0}
    <3>1. messages[i] \in Message
      BY <1>1, <2>2
    <3>2. messages[i].calls \in Seq(Call)
      BY <2>2, <3>1 DEF Message, IsAssistant, System, User
    <3> QED
      BY <3>2
  <2>4. \A k \in DOMAIN messages[i].calls : i + k \in 1 .. Len(messages)
    BY <1>3, <2>1, <2>2, <2>3 DEF AnsweredAt
  <2>5. messages'[i] = messages[i]
    BY <1>3, <2>2
  <2> QED
    BY <1>3, <2>1, <2>2, <2>3, <2>4, <2>5 DEF AnsweredAt
<1>7. TranscriptInv'
  <2>1. node' # "model"
    BY DEF ShouldContinue
  <2>2. Replies(messages') \ {Len(messages')} \subseteq Replies(messages)
    BY <1>2, <1>3
  <2> QED
    BY <1>3, <1>6, <2>1, <2>2 DEF TranscriptInv, ModelSeesEveryResult
<1> QED
  BY <1>4, <1>5, <1>7 DEF GraphInv

(* The tools run: every pending call is answered.                          *)
LEMMA ToolsStep ==
    ASSUME GraphInv, GraphTypeOK', ExecTools PROVE GraphInv'
<1> PICK results \in Outcomes(pending) :
          messages' = messages \o ToolMessages(results)
  BY DEF ExecTools
<1>1. /\ pending \in Seq(Call) /\ messages \in Seq(Message)
      /\ node = "tools" /\ node' = "model" /\ iterations' = iterations
      /\ iterations \in Nat /\ MaxToolIters \in Nat
  BY GraphAssumption DEF GraphInv, GraphTypeOK, ExecTools
<1>2. /\ Len(messages') = Len(messages) + Len(pending)
      /\ \A i \in 1 .. Len(messages) : messages'[i] = messages[i]
      /\ \A k \in 1 .. Len(pending) :
            /\ IsTool(messages'[Len(messages) + k])
            /\ messages'[Len(messages) + k].result.call = pending[k]
      /\ Replies(messages') = Replies(messages)
  BY <1>1, ConcatResults
<1>3. Len(messages) \in Nat /\ Len(pending) \in Nat
  BY <1>1
<1>4. CountIsRight'
  BY <1>1, <1>2 DEF GraphInv, CountIsRight
<1>5. CapInv'
  BY <1>1 DEF GraphInv, CapInv
<1>6. /\ Len(messages) > 0
      /\ messages[Len(messages)] = AssistantMessage(pending)
      /\ \A i \in Replies(messages) \ {Len(messages)} :
            AnsweredAt(messages, i)
  BY <1>1 DEF GraphInv, TranscriptInv
<1>7. AnsweredAt(messages', Len(messages))
  <2>1. messages'[Len(messages)].calls = pending
    BY <1>1, <1>2, <1>3, <1>6, MessageTypes
  <2> QED
    BY <1>1, <1>2, <1>3, <2>1 DEF AnsweredAt
<1>8. ASSUME NEW i \in Replies(messages) \ {Len(messages)}
      PROVE  AnsweredAt(messages', i)
  <2>1. AnsweredAt(messages, i)
    BY <1>6
  <2>2. i \in 1 .. Len(messages) /\ IsAssistant(messages[i])
    BY <1>1 DEF Replies
  <2>3. DOMAIN messages[i].calls \subseteq Nat \ {0}
    <3>1. messages[i] \in Message
      BY <1>1, <2>2
    <3>2. messages[i].calls \in Seq(Call)
      BY <2>2, <3>1 DEF Message, IsAssistant, System, User
    <3> QED
      BY <3>2
  <2>4. \A k \in DOMAIN messages[i].calls : i + k \in 1 .. Len(messages)
    BY <1>3, <2>1, <2>2, <2>3 DEF AnsweredAt
  <2>5. messages'[i] = messages[i]
    BY <1>2, <2>2
  <2> QED
    BY <1>2, <1>3, <2>1, <2>2, <2>3, <2>4, <2>5 DEF AnsweredAt
<1>9. TranscriptInv'
  BY <1>1, <1>2, <1>7, <1>8 DEF TranscriptInv, ModelSeesEveryResult
<1> QED
  BY <1>4, <1>5, <1>9 DEF GraphInv

(* Every step preserves the invariant.                                     *)
LEMMA GraphInvStep == GraphInv /\ [GraphNext]_graphVars => GraphInv'
<1> SUFFICES ASSUME GraphInv, [GraphNext]_graphVars PROVE GraphInv'
  OBVIOUS
<1>0. GraphTypeOK'
  BY GraphTypeStep DEF GraphInv
<1>1. CASE Ask
  BY <1>0, <1>1, FreshTurn DEF Ask, NoState
<1>2. CASE Build
  BY <1>0, <1>2, QuietGraphStep DEF Build, state
<1>3. CASE BuildFails
  BY <1>0, <1>3, QuietGraphStep DEF BuildFails
<1>4. CASE Recall
  BY <1>0, <1>4, FreshTurn DEF Recall
<1>5. CASE ModelReplies
  BY <1>0, <1>5, ReplyStep
<1>6. CASE ModelFails
  <2>1. /\ messages' = messages /\ iterations' = iterations
        /\ node' = "remember"
    BY <1>6 DEF ModelFails
  <2>2. Replies(messages') = Replies(messages)
    BY <2>1 DEF Replies
  <2> QED
    BY <1>0, <2>1, <2>2 DEF GraphInv, CountIsRight, CapInv, TranscriptInv,
                            ModelSeesEveryResult
<1>7. CASE ExecTools
  BY <1>0, <1>7, ToolsStep
<1>12. CASE ExecToolsRaises
  BY <1>0, <1>12, FreshTurn DEF ExecToolsRaises, NoState
<1>8. CASE Remember
  BY <1>0, <1>8, QuietGraphStep DEF Remember, state
<1>9. CASE Show
  BY <1>0, <1>9, QuietGraphStep DEF Show, state
<1>10. CASE Interrupt
  BY <1>0, <1>10, QuietGraphStep DEF Interrupt, state
<1>11. CASE UNCHANGED graphVars
  <2>1. /\ messages' = messages /\ iterations' = iterations
        /\ node' = node /\ pending' = pending
    BY <1>11 DEF graphVars, state
  <2>2. Replies(messages') = Replies(messages)
    BY <2>1 DEF Replies
  <2>3. \A i : AnsweredAt(messages', i) <=> AnsweredAt(messages, i)
    BY <2>1 DEF AnsweredAt
  <2> QED
    BY <1>0, <2>1, <2>2, <2>3 DEF GraphInv, CountIsRight, CapInv,
                                  TranscriptInv, ModelSeesEveryResult
<1> QED
  BY <1>1, <1>2, <1>3, <1>4, <1>5, <1>6, <1>7, <1>8, <1>9, <1>10, <1>11,
     <1>12 DEF GraphNext, TurnStep

(* It holds throughout.                                                    *)
LEMMA GraphInvariance == GraphSpec => []GraphInv
  BY GraphInvInit, GraphInvStep, PTL DEF GraphSpec

(* Whatever the model replies and whichever tools fail, the transcript it  *)
(* is sent answers every call it made (call_model(), exec_tools()).        *)
THEOREM TranscriptComplete == GraphSpec => []ModelSeesEveryResult
<1>1. GraphInv => ModelSeesEveryResult
  BY DEF GraphInv, TranscriptInv
<1> QED
  BY <1>1, GraphInvariance, PTL

(* A turn calls the model at most MAX_TOOL_ITERS times, and no tool runs   *)
(* after the last of these calls (should_continue()).                      *)
THEOREM Capped == GraphSpec => []RepliesAreCapped
<1>1. GraphInv => RepliesAreCapped
  <2> SUFFICES ASSUME GraphInv PROVE RepliesAreCapped
    OBVIOUS
  <2>1. /\ Cardinality(Replies(messages)) = iterations
        /\ iterations =< MaxToolIters
        /\ messages \in Seq(Message)
    BY DEF GraphInv, CountIsRight, CapInv, GraphTypeOK
  <2>2. ASSUME iterations = MaxToolIters,
               NEW i \in DOMAIN messages, IsTool(messages[i])
        PROVE  \E k \in Replies(messages) : i < k
    <3>1. Len(messages) > 0 /\ IsAssistant(messages[Len(messages)])
      BY <2>2 DEF GraphInv, CapInv
    <3>2. Len(messages) \in Nat /\ DOMAIN messages = 1 .. Len(messages)
      BY <2>1
    <3>3. Len(messages) \in Replies(messages)
      BY <3>1, <3>2 DEF Replies
    <3>4. i # Len(messages)
      BY <2>2, <3>1 DEF IsTool, IsAssistant
    <3> QED
      BY <3>2, <3>3, <3>4
  <2> QED
    BY <2>1, <2>2 DEF RepliesAreCapped
<1> QED
  BY <1>1, GraphInvariance, PTL

----------------------------------------------------------------------------
(* What the panel shows last while a turn runs, and after it.              *)
Question == [role |-> "user", turn |-> turn]

DisplayInv ==
    /\ GraphTypeOK
    /\ AnswersFollowTheirQuestion
    /\ node # "idle" => Len(display) > 0 /\ display[Len(display)] = Question

(* An empty panel.                                                         *)
LEMMA DisplayInvInit == GraphInit => DisplayInv
<1> SUFFICES ASSUME GraphInit PROVE DisplayInv
  OBVIOUS
<1>1. display = << >> /\ node = "idle"
  BY DEF GraphInit
<1> QED
  BY <1>1, GraphTypeInit DEF DisplayInv, AnswersFollowTheirQuestion

(* A step that leaves the panel alone, whatever it does to the turn's      *)
(* state, if the turn goes on or ends without an answer.                   *)
LEMMA QuietDisplayStep ==
    ASSUME DisplayInv, GraphTypeOK', node # "idle",
           UNCHANGED <<turn, display>>
    PROVE  DisplayInv'
<1>1. display[Len(display)].role # "assistant" /\ Question' = Question
  BY DEF DisplayInv, Question
<1> QED
  BY <1>1 DEF DisplayInv, AnswersFollowTheirQuestion, Question

(* Every step preserves it.                                                *)
LEMMA DisplayInvStep == DisplayInv /\ [GraphNext]_graphVars => DisplayInv'
<1> SUFFICES ASSUME DisplayInv, [GraphNext]_graphVars PROVE DisplayInv'
  OBVIOUS
<1>0. /\ GraphTypeOK' /\ display \in Seq(Entry) /\ Len(display) \in Nat
      /\ turn \in Nat /\ answer \in Reply /\ evidence \in Seq(Result)
      /\ DOMAIN display = 1 .. Len(display)
  BY GraphTypeStep, GraphAssumption DEF DisplayInv, GraphTypeOK
<1>1. CASE Ask
  <2> DEFINE entry == [role |-> "user", turn |-> turn + 1]
  <2>1. entry \in Entry
    BY <1>0 DEF Entry
  <2>2. /\ display' = Append(display, entry) /\ node' = "build"
        /\ turn' = turn + 1
    BY <1>1 DEF Ask
  <2>3. /\ Len(display') = Len(display) + 1
        /\ DOMAIN display' = 1 .. Len(display) + 1
        /\ \A i \in 1 .. Len(display) : display'[i] = display[i]
        /\ display'[Len(display) + 1] = entry
    BY <1>0, <2>1, <2>2, AppendProperties
  <2>4. Question' = entry
    BY <2>2 DEF Question
  <2>5. ASSUME NEW i \in DOMAIN display', display'[i].role = "assistant"
        PROVE  /\ i > 1
               /\ display'[i - 1] = [role |-> "user", turn |-> display'[i].turn]
    <3>1. i \in 1 .. Len(display)
      BY <1>0, <2>3, <2>5
    <3>2. i > 1 /\ display[i - 1] = [role |-> "user", turn |-> display[i].turn]
      BY <1>0, <2>3, <2>5, <3>1 DEF DisplayInv, AnswersFollowTheirQuestion
    <3>3. i - 1 \in 1 .. Len(display)
      BY <1>0, <3>1, <3>2
    <3> QED
      BY <2>3, <3>1, <3>2, <3>3
  <2>6. AnswersFollowTheirQuestion'
    BY <2>2, <2>5 DEF AnswersFollowTheirQuestion
  <2> QED
    BY <1>0, <2>3, <2>4, <2>6 DEF DisplayInv
<1>2. CASE Show
  <2> DEFINE entry == [role |-> "assistant", turn |-> turn, reply |-> answer,
                       evidence |-> evidence]
  <2>1. entry \in Entry
    BY <1>0 DEF Entry
  <2>2. /\ display' = Append(display, entry) /\ node = "show" /\ node' = "idle"
        /\ turn' = turn /\ evidence' = evidence /\ answer' = answer
    BY <1>2 DEF Show, state
  <2>3. /\ Len(display') = Len(display) + 1
        /\ DOMAIN display' = 1 .. Len(display) + 1
        /\ \A i \in 1 .. Len(display) : display'[i] = display[i]
        /\ display'[Len(display) + 1] = entry
    BY <1>0, <2>1, <2>2, AppendProperties
  <2>4. Len(display) > 0 /\ display[Len(display)] = Question
    BY <2>2 DEF DisplayInv
  <2>5. ASSUME NEW i \in DOMAIN display', display'[i].role = "assistant"
        PROVE  /\ i > 1
               /\ display'[i - 1] = [role |-> "user", turn |-> display'[i].turn]
               /\ i = Len(display') => /\ display'[i].evidence = evidence
                                       /\ display'[i].reply = answer
    <3>1. CASE i \in 1 .. Len(display)
      <4>1. /\ i > 1
            /\ display[i - 1] = [role |-> "user", turn |-> display[i].turn]
        BY <1>0, <2>3, <2>5, <3>1 DEF DisplayInv, AnswersFollowTheirQuestion
      <4>2. i - 1 \in 1 .. Len(display) /\ i # Len(display')
        BY <1>0, <2>3, <3>1, <4>1
      <4> QED
        BY <2>3, <3>1, <4>1, <4>2
    <3>2. CASE i = Len(display) + 1
      <4>1. Len(display) \in 1 .. Len(display) /\ i - 1 = Len(display)
        BY <1>0, <2>4, <3>2
      <4>2. display'[i - 1] = [role |-> "user", turn |-> turn]
        BY <2>3, <2>4, <4>1 DEF Question
      <4>3. display'[i] = entry
        BY <2>3, <3>2
      <4> QED
        BY <1>0, <2>4, <3>2, <4>2, <4>3
    <3> QED
      BY <1>0, <2>3, <3>1, <3>2
  <2>6. AnswersFollowTheirQuestion'
    BY <2>2, <2>5 DEF AnswersFollowTheirQuestion
  <2> QED
    BY <1>0, <2>2, <2>6 DEF DisplayInv
<1>3. CASE (TurnStep /\ ~Show) \/ Interrupt
  <2>1. UNCHANGED <<turn, display>> /\ node # "idle"
    BY <1>3 DEF TurnStep, Build, BuildFails, Recall, ModelReplies, ModelFails,
                ExecTools, ExecToolsRaises, Remember, Interrupt
  <2> QED
    BY <1>0, <2>1, QuietDisplayStep
<1>4. CASE UNCHANGED graphVars
  BY <1>0, <1>4 DEF graphVars, state, DisplayInv, AnswersFollowTheirQuestion,
                    Question
<1> QED
  BY <1>1, <1>2, <1>3, <1>4 DEF GraphNext

(* However turns are interrupted and whatever fails in them, an answer     *)
(* stands under the question it answers and shows that turn's evidence     *)
(* (the chat panel of app.py).                                             *)
THEOREM Answers == GraphSpec => []AnswersFollowTheirQuestion
<1>1. DisplayInv => AnswersFollowTheirQuestion
  BY DEF DisplayInv
<1> QED
  BY <1>1, DisplayInvInit, DisplayInvStep, PTL DEF GraphSpec

----------------------------------------------------------------------------
(* Until remember() has run, no text is of the turn; none is of a later.   *)
NotYetRemembered ==
    /\ \A m \in local : m.turn =< turn
    /\ node \in {"build", "recall", "model", "tools", "remember"} =>
          \A m \in local : m.turn < turn

MemoryInv == GraphTypeOK /\ MemoryHoldsGroundedTurns /\ NotYetRemembered

(* Nothing is remembered at first.                                         *)
LEMMA MemoryInvInit == GraphInit => MemoryInv
<1> SUFFICES ASSUME GraphInit PROVE MemoryInv
  OBVIOUS
<1>1. local = {} /\ remote = {} /\ memories = {}
  BY DEF GraphInit
<1> QED
  BY <1>1, GraphTypeInit DEF MemoryInv, MemoryHoldsGroundedTurns,
                             NotYetRemembered

(* A step within a turn that neither writes the memory nor reads it.       *)
LEMMA QuietMemoryStep ==
    ASSUME MemoryInv, GraphTypeOK',
           UNCHANGED <<turn, memories, local, remote>>,
           \/ node \in {"build", "recall", "model", "tools", "remember"}
           \/ evidence' = evidence /\ node' \in {"show", "idle"}
    PROVE  MemoryInv'
<1>1. turn \in Nat
  BY GraphAssumption DEF MemoryInv, GraphTypeOK
<1>2. \A m \in local : m.turn \in Nat
  BY DEF MemoryInv, GraphTypeOK, Memory
<1>3. NotYetRemembered'
  BY DEF MemoryInv, NotYetRemembered
<1>4. MemoryHoldsGroundedTurns'
  <2>1. ASSUME NEW m \in local', m.turn = turn'
        PROVE  m.tools = ToolsRun'
    <3>1. node \notin {"build", "recall", "model", "tools", "remember"}
      BY <1>1, <1>2, <2>1 DEF MemoryInv, NotYetRemembered
    <3>2. ToolsRun' = ToolsRun
      BY <3>1 DEF ToolsRun
    <3> QED
      BY <2>1, <3>2 DEF MemoryInv, MemoryHoldsGroundedTurns
  <2> QED
    BY <2>1 DEF MemoryInv, MemoryHoldsGroundedTurns
<1> QED
  BY <1>3, <1>4 DEF MemoryInv

(* Every step preserves it.                                                *)
LEMMA MemoryInvStep == MemoryInv /\ [GraphNext]_graphVars => MemoryInv'
<1> SUFFICES ASSUME MemoryInv, [GraphNext]_graphVars PROVE MemoryInv'
  OBVIOUS
<1>0. /\ GraphTypeOK' /\ turn \in Nat
      /\ \A m \in local : m.turn \in Nat
      /\ remote \subseteq local
      /\ \A m \in local : m.tools # {} /\ m.turn =< turn
  BY GraphTypeStep, GraphAssumption
     DEF MemoryInv, GraphTypeOK, Memory, MemoryHoldsGroundedTurns,
         NotYetRemembered
<1>1. CASE Ask
  <2>1. /\ turn' = turn + 1 /\ memories' = {}
        /\ local' = local /\ remote' = remote
    BY <1>1 DEF Ask, NoState
  <2>2. \A m \in local' : m.turn < turn'
    BY <1>0, <2>1
  <2>3. MemoryHoldsGroundedTurns'
    BY <1>0, <2>1, <2>2 DEF MemoryHoldsGroundedTurns
  <2> QED
    BY <1>0, <2>1, <2>2, <2>3 DEF MemoryInv, NotYetRemembered
<1>2. CASE Recall
  <2>1. /\ node = "recall" /\ node' = "model"
        /\ UNCHANGED <<turn, local, remote>>
    BY <1>2 DEF Recall
  <2>2. \A m \in local : m.turn < turn
    BY <2>1 DEF MemoryInv, NotYetRemembered
  <2>3. memories' \subseteq local
    <3>1. PICK h \in (SUBSET remote) \cup (SUBSET local) : memories' = h
      BY <1>2 DEF Recall, Hits
    <3> QED
      BY <1>0, <3>1
  <2>4. MemoryHoldsGroundedTurns'
    BY <1>0, <2>1, <2>2, <2>3 DEF MemoryHoldsGroundedTurns
  <2> QED
    BY <1>0, <2>1, <2>2, <2>4 DEF MemoryInv, NotYetRemembered
<1>3. CASE Remember
  <2> DEFINE text == [turn |-> turn, tools |-> ToolsRun]
  <2>1. /\ node = "remember" /\ node' = "show"
        /\ UNCHANGED <<turn, memories, evidence>>
    BY <1>3 DEF Remember, state
  <2>2. ToolsRun' = ToolsRun
    BY <2>1 DEF ToolsRun
  <2>3. \A m \in local : m.turn < turn
    BY <2>1 DEF MemoryInv, NotYetRemembered
  <2>4. \/ local' = local /\ remote' = remote
        \/ /\ ToolsRun # {} /\ local' = local \cup {text}
           /\ remote' \in {remote, remote \cup {text}}
    BY <1>3 DEF Remember
  <2>6. text.turn = turn /\ text.tools = ToolsRun
    OBVIOUS
  <2> HIDE DEF text
  <2>5. /\ local \subseteq local' /\ remote' \subseteq local'
        /\ \A m \in local' \ local : m = text /\ ToolsRun # {}
    <3>1. remote \subseteq local
      BY <1>0
    <3>2. CASE local' = local /\ remote' = remote
      BY <3>1, <3>2, Zenon
    <3>3. CASE /\ ToolsRun # {} /\ local' = local \cup {text}
               /\ remote' \in {remote, remote \cup {text}}
      BY <3>1, <3>3
    <3> QED
      BY <2>4, <3>2, <3>3
  <2>7. \A m \in local' : /\ m.tools # {} /\ m.turn =< turn
                          /\ m.turn = turn => m.tools = ToolsRun
    BY <1>0, <2>3, <2>5, <2>6
  <2>8. \A m \in memories : m \in local' /\ m.turn < turn
    BY <2>5 DEF MemoryInv, MemoryHoldsGroundedTurns
  <2>9. MemoryHoldsGroundedTurns'
    BY <2>1, <2>2, <2>5, <2>7, <2>8 DEF MemoryHoldsGroundedTurns
  <2> QED
    BY <1>0, <2>1, <2>7, <2>9 DEF MemoryInv, NotYetRemembered
<1>4. CASE ExecToolsRaises
  <2>1. /\ node = "tools" /\ node' = "show" /\ memories' = {}
        /\ UNCHANGED <<turn, local, remote>>
    BY <1>4 DEF ExecToolsRaises, NoState
  <2>2. \A m \in local : m.turn < turn
    BY <2>1 DEF MemoryInv, NotYetRemembered
  <2>3. MemoryHoldsGroundedTurns'
    BY <1>0, <2>1, <2>2 DEF MemoryHoldsGroundedTurns
  <2> QED
    BY <1>0, <2>1, <2>2, <2>3 DEF MemoryInv, NotYetRemembered
<1>5. CASE \/ Build \/ BuildFails \/ ModelReplies \/ ModelFails \/ ExecTools
           \/ Show \/ Interrupt
  <2>1. /\ UNCHANGED <<turn, memories, local, remote>>
        /\ \/ node \in {"build", "recall", "model", "tools", "remember"}
           \/ evidence' = evidence /\ node' \in {"show", "idle"}
    BY <1>5 DEF Build, BuildFails, ModelReplies, ModelFails, ExecTools, Show,
                Interrupt, state
  <2> QED
    BY <1>0, <2>1, QuietMemoryStep
<1>6. CASE UNCHANGED graphVars
  BY <1>0, <1>6 DEF graphVars, state, MemoryInv, MemoryHoldsGroundedTurns,
                    NotYetRemembered, ToolsRun
<1> QED
  BY <1>1, <1>2, <1>3, <1>4, <1>5, <1>6 DEF GraphNext, TurnStep

(* What is remembered was answered with a tool and names the tools it ran, *)
(* Supermemory holds no text the local table lacks, and a turn never       *)
(* recalls itself (Memory.remember(), Memory.recall()).                    *)
THEOREM Memories == GraphSpec => []MemoryHoldsGroundedTurns
<1>1. MemoryInv => MemoryHoldsGroundedTurns
  BY DEF MemoryInv
<1> QED
  BY <1>1, MemoryInvInit, MemoryInvStep, PTL DEF GraphSpec

----------------------------------------------------------------------------
(* What the model was told, and how often, in a transcript.                *)
LEMMA ToldIsFinite ==
    ASSUME NEW ms, NEW i \in Nat
    PROVE  IsFiniteSet(Told(ms, i)) /\ Cardinality(Told(ms, i)) \in Nat
<1>1. IsFiniteSet(1 .. i)
  BY FS_Interval
<1>2. Told(ms, i) \subseteq 1 .. i
  BY DEF Told
<1> QED
  BY <1>1, <1>2, FS_Subset, FS_CardinalityType

(* It depends on the first messages only.                                  *)
LEMMA ToldOfPrefix ==
    ASSUME NEW ms, NEW new, NEW n \in Nat, NEW i \in 0 .. n,
           \A j \in 1 .. n : new[j] = ms[j]
    PROVE  Told(new, i) = Told(ms, i)
  BY DEF Told

(* Messages that follow and are none of a tool tell the model nothing.     *)
LEMMA ToldNothingMore ==
    ASSUME NEW ms, NEW n \in Nat, ~IsTool(ms[n + 1])
    PROVE  Told(ms, n + 1) = Told(ms, n)
  BY DEF Told

(* Messages that follow and are all of tools are counted one by one.       *)
LEMMA ToldAllOfThem ==
    ASSUME NEW ms, NEW n \in Nat, NEW k \in Nat,
           \A j \in n + 1 .. n + k : IsTool(ms[j])
    PROVE  Cardinality(Told(ms, n + k)) = Cardinality(Told(ms, n)) + k
<1> DEFINE before == Told(ms, n)
           more == n + 1 .. n + k
<1>1. IsFiniteSet(more) /\ Cardinality(more) = k
  BY FS_Interval
<1>2. IsFiniteSet(before) /\ Cardinality(before) \in Nat
  BY ToldIsFinite
<1>3. Told(ms, n + k) = before \cup more
  BY DEF Told
<1>4. before \cap more = {}
  BY DEF Told
<1> HIDE DEF before, more
<1>5. Cardinality(before \cap more) = 0
  BY <1>4, FS_EmptySet
<1>6. Cardinality(before \cup more) =
         Cardinality(before) + Cardinality(more) - Cardinality(before \cap more)
  BY <1>1, <1>2, FS_Union
<1>7. Cardinality(before \cup more) = Cardinality(before) + k
  BY <1>1, <1>2, <1>5, <1>6
<1> QED
  BY <1>3, <1>7 DEF before

(***************************************************************************)
(* The inductive invariant: nothing was said before the first node runs,   *)
(* so that a turn whose graph cannot be built shows no evidence.           *)
(***************************************************************************)
NothingSaid == node = "build" => messages = << >> /\ evidence = << >>

EvidenceInv == GraphTypeOK /\ EvidenceIsWhatTheModelRead /\ NothingSaid

(* Nothing was said at all.                                                *)
LEMMA EvidenceInvInit == GraphInit => EvidenceInv
  BY GraphTypeInit DEF GraphInit, EvidenceInv, EvidenceIsWhatTheModelRead,
                       NothingSaid

(* A transcript without tool messages goes with no evidence.               *)
LEMMA NoEvidence ==
    ASSUME GraphTypeOK', evidence' = << >>, node' # "build",
           messages' = << >> \/ messages' = <<System, User>>
    PROVE  EvidenceInv'
<1>1. \A i \in DOMAIN messages' : ~IsTool(messages'[i])
  BY DEF System, User, IsTool
<1>2. Told(messages', Len(messages')) = {}
  BY <1>1 DEF Told, GraphTypeOK
<1>3. Cardinality({}) = 0
  BY FS_EmptySet
<1> QED
  BY <1>2, <1>3 DEF EvidenceInv, EvidenceIsWhatTheModelRead, NothingSaid

(* A step that leaves transcript and evidence alone.                       *)
LEMMA QuietEvidenceStep ==
    ASSUME EvidenceInv, GraphTypeOK', UNCHANGED <<messages, evidence>>,
           \/ node \in {"model", "tools", "remember", "show"}
           \/ node' \in {"idle", "recall"},
           node' # "build"
    PROVE  EvidenceInv'
  BY DEF EvidenceInv, EvidenceIsWhatTheModelRead, NothingSaid, Told

(* A reply tells the model nothing.                                        *)
LEMMA EvidenceReply ==
    ASSUME EvidenceInv, GraphTypeOK', ModelReplies
    PROVE  EvidenceInv'
<1> PICK calls \in CallLists, content \in Content :
          messages' = Append(messages, AssistantMessage(calls))
  BY DEF ModelReplies
<1>1. /\ calls \in Seq(Call) /\ messages \in Seq(Message)
      /\ node = "model" /\ node' # "build" /\ evidence' = evidence
  BY GraphAssumption DEF EvidenceInv, GraphTypeOK, ModelReplies, ShouldContinue
<1>2. /\ Len(messages) \in Nat
      /\ Len(messages') = Len(messages) + 1
      /\ messages'[Len(messages) + 1] = AssistantMessage(calls)
      /\ \A i \in 1 .. Len(messages) : messages'[i] = messages[i]
  BY <1>1, MessageTypes, AppendProperties
<1>3. ~IsTool(messages'[Len(messages) + 1])
  BY <1>2 DEF AssistantMessage, IsTool
<1>4. \A i \in 0 .. Len(messages) : Told(messages', i) = Told(messages, i)
  BY <1>2, ToldOfPrefix
<1>5. Told(messages', Len(messages')) = Told(messages, Len(messages))
  <2>1. Told(messages', Len(messages) + 1) = Told(messages', Len(messages))
    BY <1>2, <1>3, ToldNothingMore
  <2>2. Told(messages', Len(messages)) = Told(messages, Len(messages))
    BY <1>2, <1>4
  <2> QED
    BY <1>2, <2>1, <2>2
<1>6. \A i \in Told(messages, Len(messages)) :
         i \in 0 .. Len(messages) /\ i \in 1 .. Len(messages)
  BY <1>2 DEF Told
<1>7. /\ Len(evidence) = Cardinality(Told(messages, Len(messages)))
      /\ \A i \in Told(messages, Len(messages)) :
            evidence[Cardinality(Told(messages, i))] = messages[i].result
  BY <1>1 DEF EvidenceInv, EvidenceIsWhatTheModelRead
<1>8. \A i \in Told(messages', Len(messages')) :
         evidence'[Cardinality(Told(messages', i))] = messages'[i].result
  BY <1>1, <1>2, <1>4, <1>5, <1>6, <1>7
<1> QED
  BY <1>1, <1>5, <1>7, <1>8
     DEF EvidenceInv, EvidenceIsWhatTheModelRead, NothingSaid

(* Where the elements of a concatenation are.                              *)
LEMMA ConcatPlaces ==
    ASSUME NEW S, NEW s \in Seq(S), NEW t \in Seq(S)
    PROVE  /\ Len(s) \in Nat
           /\ Len(s \o t) = Len(s) + Len(t)
           /\ \A i \in 1 .. Len(s) : (s \o t)[i] = s[i]
           /\ \A j \in 1 .. Len(t) : (s \o t)[Len(s) + j] = t[j]
<1>1. Len(s) \in Nat /\ Len(t) \in Nat
  OBVIOUS
<1>2. /\ Len(s \o t) = Len(s) + Len(t)
      /\ \A i \in 1 .. Len(s) + Len(t) :
            (s \o t)[i] = IF i =< Len(s) THEN s[i] ELSE t[i - Len(s)]
  BY ConcatProperties
<1>3. ASSUME NEW j \in 1 .. Len(t) PROVE (s \o t)[Len(s) + j] = t[j]
  <2>1. /\ Len(s) + j \in 1 .. Len(s) + Len(t) /\ ~(Len(s) + j =< Len(s))
        /\ (Len(s) + j) - Len(s) = j
    BY <1>1
  <2> QED
    BY <1>2, <2>1
<1> QED
  BY <1>1, <1>2, <1>3

(* Every result of a round is told, and kept as evidence, in order.        *)
LEMMA EvidenceTools ==
    ASSUME EvidenceInv, GraphTypeOK', ExecTools
    PROVE  EvidenceInv'
<1> PICK results \in Outcomes(pending) :
          /\ messages' = messages \o ToolMessages(results)
          /\ evidence' = evidence \o results
  BY DEF ExecTools
<1> DEFINE n == Len(messages)
           k == Len(pending)
<1>1. /\ pending \in Seq(Call) /\ messages \in Seq(Message)
      /\ evidence \in Seq(Result) /\ n \in Nat /\ k \in Nat
      /\ node = "tools" /\ node' = "model"
  BY DEF EvidenceInv, GraphTypeOK, ExecTools
<1>2. /\ results \in Seq(Result) /\ Len(results) = k
      /\ ToolMessages(results) \in Seq(Message)
      /\ Len(ToolMessages(results)) = k
      /\ \A j \in 1 .. k : ToolMessages(results)[j] = ToolMessage(results[j])
  BY <1>1, OutcomeMessages
<1>3. /\ Len(messages') = n + k
      /\ \A i \in 1 .. n : messages'[i] = messages[i]
      /\ \A j \in 1 .. k : messages'[n + j] = ToolMessage(results[j])
  <2> DEFINE added == ToolMessages(results)
  <2>1. added \in Seq(Message)
    BY <1>2
  <2> HIDE DEF added
  <2>2. /\ Len(messages \o added) = n + Len(added)
        /\ \A i \in 1 .. n : (messages \o added)[i] = messages[i]
        /\ \A j \in 1 .. Len(added) : (messages \o added)[n + j] = added[j]
    BY <1>1, <2>1, ConcatPlaces
  <2> QED
    BY <1>2, <2>2 DEF added
<1>4. /\ Len(evidence') = Len(evidence) + k
      /\ \A i \in 1 .. Len(evidence) : evidence'[i] = evidence[i]
      /\ \A j \in 1 .. k : evidence'[Len(evidence) + j] = results[j]
      /\ Len(evidence) \in Nat
  <2>1. results \in Seq(Result)
    BY <1>2
  <2>2. /\ Len(evidence) \in Nat
        /\ Len(evidence \o results) = Len(evidence) + Len(results)
        /\ \A i \in 1 .. Len(evidence) : (evidence \o results)[i] = evidence[i]
        /\ \A j \in 1 .. Len(results) :
              (evidence \o results)[Len(evidence) + j] = results[j]
    BY <1>1, <2>1, ConcatPlaces
  <2> QED
    BY <1>2, <2>2
<1>5. /\ Len(evidence) = Cardinality(Told(messages, n))
      /\ \A i \in Told(messages, n) :
            evidence[Cardinality(Told(messages, i))] = messages[i].result
  BY <1>1 DEF EvidenceInv, EvidenceIsWhatTheModelRead
<1> HIDE DEF n, k
<1>6. \A j \in 1 .. k : /\ IsTool(messages'[n + j])
                        /\ messages'[n + j].result = results[j]
  <2>1. \A j \in 1 .. k : results[j] \in Result
    BY <1>2
  <2> QED
    BY <1>3, <2>1, MessageTypes
<1>7. \A i \in n + 1 .. n + k : /\ i - n \in 1 .. k /\ i = n + (i - n)
                                /\ IsTool(messages'[i])
  <2> TAKE i \in n + 1 .. n + k
  <2>1. i - n \in 1 .. k /\ i = n + (i - n)
    BY <1>1
  <2> QED
    BY <1>6, <2>1
<1>8. \A i \in 0 .. n : Told(messages', i) = Told(messages, i)
  BY <1>1, <1>3, ToldOfPrefix
<1>9. \A j \in 0 .. k :
         Cardinality(Told(messages', n + j)) = Len(evidence) + j
  <2> TAKE j \in 0 .. k
  <2>1. \A i \in n + 1 .. n + j : IsTool(messages'[i])
    <3>1. n + 1 .. n + j \subseteq n + 1 .. n + k
      BY <1>1
    <3> QED
      BY <1>7, <3>1
  <2>2. Told(messages', n) = Told(messages, n)
    BY <1>1, <1>8
  <2>3. Cardinality(Told(messages', n + j)) = Cardinality(Told(messages', n)) + j
    <3>1. n \in Nat /\ j \in Nat
      BY <1>1
    <3> QED
      BY <2>1, <3>1, ToldAllOfThem
  <2> QED
    BY <1>5, <2>2, <2>3
<1>10. ASSUME NEW i \in Told(messages', n + k)
       PROVE  evidence'[Cardinality(Told(messages', i))] = messages'[i].result
  <2>1. i \in 1 .. n + k /\ IsTool(messages'[i])
    BY DEF Told
  <2>2. CASE i \in 1 .. n
    <3>1. i \in Told(messages, n) /\ messages'[i] = messages[i]
      BY <1>3, <2>1, <2>2 DEF Told
    <3>2. Told(messages', i) = Told(messages, i)
      BY <1>1, <1>8, <2>2
    <3>3. /\ IsFiniteSet(Told(messages, n)) /\ IsFiniteSet(Told(messages, i))
          /\ Told(messages, i) \subseteq Told(messages, n)
          /\ Cardinality(Told(messages, i)) \in Nat
      <4>1. i \in Nat /\ i =< n
        BY <1>1, <2>2
      <4>2. Told(messages, i) \subseteq Told(messages, n)
        BY <1>1, <4>1 DEF Told
      <4> QED
        BY <1>1, <4>1, <4>2, ToldIsFinite
    <3>4. Cardinality(Told(messages, i)) =< Len(evidence)
      BY <1>5, <3>3, FS_Subset
    <3>5. Cardinality(Told(messages, i)) # 0
      <4>1. i \in Told(messages, i)
        BY <2>2, <3>1 DEF Told
      <4> QED
        BY <3>3, <4>1, FS_EmptySet
    <3>6. Cardinality(Told(messages, i)) \in 1 .. Len(evidence)
      BY <1>4, <3>3, <3>4, <3>5
    <3> QED
      BY <1>4, <1>5, <3>1, <3>2, <3>6
  <2>3. CASE i \in n + 1 .. n + k
    <3>1. i - n \in 1 .. k /\ i = n + (i - n) /\ i - n \in 0 .. k
      BY <1>1, <1>7, <2>3
    <3>2. messages'[i].result = results[i - n]
      BY <1>6, <3>1
    <3>3. Cardinality(Told(messages', i)) = Len(evidence) + (i - n)
      BY <1>9, <3>1
    <3> QED
      BY <1>4, <3>1, <3>2, <3>3
  <2>4. i \in 1 .. n \/ i \in n + 1 .. n + k
    BY <1>1, <2>1
  <2> QED
    BY <2>2, <2>3, <2>4
<1>11. Len(evidence') = Cardinality(Told(messages', n + k))
  BY <1>1, <1>4, <1>9
<1> QED
  BY <1>1, <1>3, <1>10, <1>11
     DEF EvidenceInv, EvidenceIsWhatTheModelRead, NothingSaid

(* Every step preserves it.                                                *)
LEMMA EvidenceInvStep == EvidenceInv /\ [GraphNext]_graphVars => EvidenceInv'
<1> SUFFICES ASSUME EvidenceInv, [GraphNext]_graphVars PROVE EvidenceInv'
  OBVIOUS
<1>0. GraphTypeOK'
  BY GraphTypeStep DEF EvidenceInv
<1>1. CASE Ask
  BY <1>0, <1>1 DEF Ask, NoState, EvidenceInv, EvidenceIsWhatTheModelRead,
                    NothingSaid
<1>2. CASE BuildFails
  <2>1. messages' = << >> /\ evidence' = << >> /\ node' = "show"
    BY <1>2 DEF BuildFails, EvidenceInv, NothingSaid
  <2> QED
    BY <1>0, <2>1, NoEvidence
<1>3. CASE Recall
  BY <1>0, <1>3, NoEvidence DEF Recall
<1>4. CASE ModelReplies
  BY <1>0, <1>4, EvidenceReply
<1>5. CASE ExecTools
  BY <1>0, <1>5, EvidenceTools
<1>6. CASE ExecToolsRaises
  BY <1>0, <1>6, NoEvidence DEF ExecToolsRaises, NoState
<1>7. CASE Build \/ ModelFails \/ Remember \/ Show \/ Interrupt
  <2>1. /\ UNCHANGED <<messages, evidence>>
        /\ \/ node \in {"model", "tools", "remember", "show"}
           \/ node' \in {"idle", "recall"}
        /\ node' # "build"
    BY <1>7 DEF Build, ModelFails, Remember, Show, Interrupt, state
  <2> QED
    BY <1>0, <2>1, QuietEvidenceStep
<1>8. CASE UNCHANGED graphVars
  BY <1>0, <1>8 DEF graphVars, state, EvidenceInv, EvidenceIsWhatTheModelRead,
                    NothingSaid, Told
<1> QED
  BY <1>1, <1>2, <1>3, <1>4, <1>5, <1>6, <1>7, <1>8 DEF GraphNext, TurnStep

(* What the user is shown as evidence is every result the model read, in   *)
(* the order it read them, however many rounds there were and wherever the *)
(* turn broke off (exec_tools(), the panel's _evidence()).                 *)
THEOREM Evidence == GraphSpec => []EvidenceIsWhatTheModelRead
<1>1. EvidenceInv => EvidenceIsWhatTheModelRead
  BY DEF EvidenceInv
<1> QED
  BY <1>1, EvidenceInvInit, EvidenceInvStep, PTL DEF GraphSpec
=============================================================================
