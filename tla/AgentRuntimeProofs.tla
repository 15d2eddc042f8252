-------------------------- MODULE AgentRuntimeProofs --------------------------
(* Theorems about AgentRuntime, for every value of its constants: first what*)
(* a run does and leaves, then the conversations, last the prompts.         *)
EXTENDS AgentRuntime, SequenceTheorems, WellFoundedInduction, TLAPS

USE SessionOfAssumption, MaxIterationsAssumption, MaxCallsAssumption

(* What Min chooses from a set of naturals is its least element.             *)
LEMMA MinOfNaturals ==
  ASSUME NEW S \in SUBSET Nat, S # {}
  PROVE  Min(S) \in S /\ \A y \in S : Min(S) =< y
<1>1. PICK x \in S : \A y \in S : ~(<<y, x>> \in OpToRel(<, Nat))
  BY NatLessThanWellFounded, WFMin, Zenon
<1>2. ASSUME NEW y \in S
      PROVE  x =< y
  <2>1. SUFFICES ASSUME y < x PROVE FALSE
    OBVIOUS
  <2>2. <<y, x>> \in Nat \X Nat /\ <<y, x>>[1] = y /\ <<y, x>>[2] = x
    OBVIOUS
  <2>. QED
    BY <1>1, <2>1, <2>2, Zenon DEF OpToRel
<1>. QED
  BY <1>2 DEF Min

(* What Max chooses from a bounded set of naturals is its greatest element.  *)
LEMMA MaxOfBounded ==
  ASSUME NEW n \in Nat, NEW S \in SUBSET (0..n), S # {}
  PROVE  Max(S) \in S /\ \A y \in S : Max(S) >= y
<1> DEFINE mirror == {n - x : x \in S}
<1>1. mirror \subseteq Nat /\ mirror # {}
  <2>1. \A x \in S : n - x \in Nat
    OBVIOUS
  <2>2. PICK x \in S : TRUE
    OBVIOUS
  <2>3. n - x \in mirror
    BY <2>2
  <2>. QED
    BY <2>1, <2>3
<1>2. PICK x \in S : Min(mirror) = n - x
  <2>1. Min(mirror) \in mirror
    <3>. HIDE DEF mirror
    <3>. QED
      BY <1>1, MinOfNaturals
  <2>. QED
    BY <2>1
<1>3. \A y \in S : x >= y
  <2>1. SUFFICES ASSUME NEW y \in S PROVE x >= y
    OBVIOUS
  <2>2. n - x =< n - y
    BY <1>1, <1>2, MinOfNaturals
  <2>. QED
    BY <2>2
<1>. QED
  BY <1>3 DEF Max

(* The three messages a run appends are messages.                            *)
LEMMA MessageTypes ==
  ASSUME TypeOK, NEW i \in Invocations
  PROVE  /\ UserMessage(i) \in Message
         /\ AssistantMessage(i) \in Message
         /\ ToolMessage(i) \in Message
BY DEF TypeOK, Message, UserMessage, AssistantMessage, ToolMessage

(* A suffix of a conversation is a conversation.                             *)
LEMMA FromType ==
  ASSUME NEW s \in Seq(Message), NEW p \in 1..(Len(s) + 1)
  PROVE  From(s, p) \in Seq(Message)
BY DEF From

(* So is the suffix that starts at the least of some positions.              *)
LEMMA FromFirst ==
  ASSUME NEW s \in Seq(Message), NEW P, P \subseteq 1..Len(s), P # {}
  PROVE  From(s, Min(P)) \in Seq(Message)
<1>1. Len(s) \in Nat
  OBVIOUS
<1>2. P \in SUBSET Nat
  BY <1>1
<1>3. Min(P) \in P
  BY <1>2, MinOfNaturals
<1>4. Min(P) \in 1..Len(s)
  BY <1>3, Zenon
<1>5. Min(P) \in 1..(Len(s) + 1)
  BY <1>1, <1>4
<1>. QED
  BY <1>5, FromType

(* What CurrentStart finds is a position of the sequence, or 0.            *)
LEMMA CurrentStartRange ==
  ASSUME NEW s \in Seq(Message), NEW text
  PROVE  LET found == {p \in TurnStarts(s) : s[p].text = text}
         IN  /\ CurrentStart(s, text) \in 0..Len(s)
             /\ \A p \in found : CurrentStart(s, text) >= p
<1> DEFINE found == {p \in TurnStarts(s) : s[p].text = text}
<1>1. Len(s) \in Nat /\ {0} \cup found \in SUBSET (0..Len(s))
  BY DEF TurnStarts
<1>. QED
  BY <1>1, MaxOfBounded DEF CurrentStart

(* A prompt that Build returns is a part of a conversation.                  *)
LEMMA BuildType ==
  ASSUME NEW s \in Seq(Message), NEW request \in Message, request.role = "user",
         Build(s, request).ok
  PROVE  Build(s, request).messages \in Seq(Message)
<1> DEFINE all == IF CurrentStart(s, request.text) = 0 THEN Append(s, request) ELSE s
           current == CurrentStart(all, request.text)
           turns == LimitCompleteTurns({p \in TurnStarts(all) : p < current}, HistoryLimit)
           fitting == {p \in turns \cup {current} : RuneCount(From(all, p)) <= Budget}
<1>1. all \in Seq(Message) /\ Len(all) \in Nat
  OBVIOUS
<1>2. current \in 1..Len(all)
  <2>1. current \in 0..Len(all)
    BY <1>1, CurrentStartRange
  <2>2. CASE CurrentStart(s, request.text) = 0
    <3>1. Len(all) \in TurnStarts(all) /\ all[Len(all)].text = request.text
      BY <2>2 DEF TurnStarts
    <3>2. current >= Len(all)
      BY <1>1, <3>1, CurrentStartRange
    <3>. QED
      BY <2>1, <2>2, <3>2
  <2>3. CASE CurrentStart(s, request.text) # 0
    BY <2>1, <2>3
  <2>. QED
    BY <2>2, <2>3
<1>3. fitting \subseteq 1..Len(all)
  BY <1>2 DEF TurnStarts, LimitCompleteTurns
<1>4. fitting # {}
  BY DEF Build
<1>5. Build(s, request).messages = From(all, Min(fitting))
  BY <1>4 DEF Build
<1>6. From(all, Min(fitting)) \in Seq(Message)
  <2>. HIDE DEF all, fitting
  <2>. QED
    BY <1>1, <1>3, <1>4, FromFirst
<1>. QED
  BY <1>5, <1>6
-----------------------------------------------------------------------------
(* The inductive invariant.                                                *)

(* How many rows of model and tool calls invocation i is behind its calls. *)
Behind(i, llm, tool) ==
  llmCalls[i] = llmRows[i] + llm /\ toolCalls[i] = toolRows[i] + tool

(* What the stage of a run says about its error and its lost rows.         *)
Accounting(i) ==
  /\ pc[i] \in {"idle", "append_user", "loop", "build", "snapshot", "chat", "execute"} =>
       failure[i] = "none" /\ Behind(i, 0, 0)
  /\ pc[i] = "record_chat" => failure[i] \in {"none", "model"} /\ Behind(i, 1, 0)
  /\ pc[i] = "append_reply" =>
       \/ failure[i] = "none" /\ Behind(i, 0, 0)
       \/ failure[i] = "audit" /\ Behind(i, 1, 0)
  /\ pc[i] = "record_tool" => failure[i] \in {"none", "tool"} /\ Behind(i, 0, 1)
  /\ pc[i] = "append_result" =>
       \/ failure[i] \in {"none", "tool"} /\ Behind(i, 0, 0)
       \/ failure[i] \in {"tool", "tool_audit"} /\ Behind(i, 0, 1)
  /\ pc[i] \in {"save", "returned"} =>
       \/ Behind(i, 0, 0)
       \/ failure[i] # "none" /\ (Behind(i, 1, 0) \/ Behind(i, 0, 1))

(* The loop variable counts the model calls.                               *)
Counting(i) ==
  /\ pc[i] \in {"idle", "append_user"} => llmCalls[i] = 0
  /\ pc[i] = "loop" => llmCalls[i] = iteration[i]
  /\ pc[i] \in {"build", "snapshot", "chat"} =>
       llmCalls[i] = iteration[i] /\ iteration[i] < MaxIterations
  /\ pc[i] \in {"record_chat", "append_reply", "execute", "record_tool", "append_result"} =>
       llmCalls[i] = iteration[i] + 1 /\ iteration[i] < MaxIterations
  /\ pc[i] \in {"save", "returned"} => llmCalls[i] <= MaxIterations
  /\ failure[i] = "max_iterations" =>
       pc[i] \in {"save", "returned"} /\ llmCalls[i] = MaxIterations /\ llmRows[i] = MaxIterations

(* A run cancelled past the checks of ctx.Err() makes the call it is at.   *)
Cancelling(i) ==
  Cancelled(i) => /\ llmCalls[i] <= cancelledAt[i] + 1
                  /\ pc[i] \in {"snapshot", "chat"} => llmCalls[i] = cancelledAt[i]

IInv == TypeOK /\ \A i \in Invocations : Accounting(i) /\ Counting(i) /\ Cancelling(i)

(* The inductive invariant holds initially.                                  *)
LEMMA InitIInv == Init => IInv
BY DEF Init, IInv, TypeOK, Accounting, Counting, Cancelling, Behind, Cancelled,
       NotCancelled, Stages, Failures

(* Session.Append keeps conversations sequences of messages.                 *)
LEMMA AppendMessageType ==
  ASSUME TypeOK, NEW i \in Invocations, NEW m \in Message, AppendMessage(i, m)
  PROVE  messages' \in [Sessions -> Seq(Message)]
BY DEF TypeOK, AppendMessage

(* Counting one more call keeps a counter a natural number.                  *)
LEMMA IncrementType ==
  ASSUME NEW counter \in [Invocations -> Nat], NEW i \in Invocations
  PROVE  Increment(counter, i) \in [Invocations -> Nat]
BY DEF Increment

(* Writing a row, or losing it, keeps the number of rows a natural number.   *)
LEMMA PersistType ==
  ASSUME NEW rows \in [Invocations -> Nat], NEW i \in Invocations, NEW persisted
  PROVE  Persist(rows, i, persisted) \in [Invocations -> Nat]
BY IncrementType DEF Persist

(* A step of an invocation keeps every variable's type.                      *)
LEMMA TypeStep ==
  ASSUME IInv, NEW i \in Invocations, Caller(i) \/ Step(i)
  PROVE  TypeOK'
<1>. TypeOK /\ Accounting(i) /\ Counting(i)
  BY DEF IInv
<1>. USE DEF TypeOK, Stages, Failures, Goto, Fail
<1>1. CASE Reject(i)
  BY <1>1 DEF Reject, loop, audit
<1>2. CASE ResolveFails(i)
  BY <1>2 DEF ResolveFails, loop, audit
<1>3. CASE ResolveSession(i)
  BY <1>3 DEF ResolveSession, loop, audit
<1>4. CASE Cancel(i)
  <2>1. llmCalls[i] \in 0..MaxIterations
    BY <1>4 DEF Counting
  <2>2. cancelledAt' \in [Invocations -> 0..NotCancelled]
    BY <1>4, <2>1 DEF Cancel, NotCancelled
  <2>. QED
    BY <1>4, <2>2 DEF Cancel, loop, audit
<1>5. CASE AppendUser(i)
  <2>1. messages' \in [Sessions -> Seq(Message)]
    BY <1>5, MessageTypes, AppendMessageType DEF AppendUser
  <2>2. iteration' \in [Invocations -> 0..MaxIterations]
    BY <1>5 DEF AppendUser
  <2>. QED
    BY <1>5, <2>1, <2>2 DEF AppendUser, audit
<1>6. CASE Exhaust(i)
  BY <1>6 DEF Exhaust, loop, audit
<1>7. CASE StopCancelled(i)
  BY <1>7 DEF StopCancelled, loop, audit
<1>8. CASE EnterIteration(i)
  BY <1>8 DEF EnterIteration, loop, audit
<1>9. CASE ReadMemory(i)
  BY <1>9 DEF ReadMemory, loop, audit
<1>10. CASE ReadMemoryFails(i)
  BY <1>10 DEF ReadMemoryFails, loop, audit
<1>11. CASE BuildPrompt(i)
  <2>. DEFINE built == Build(Conversation(i), UserMessage(i))
  <2>1. Conversation(i) \in Seq(Message) /\ UserMessage(i) \in Message
        /\ UserMessage(i).role = "user"
    BY MessageTypes DEF Conversation, UserMessage
  <2>2. built.ok => built.messages \in Seq(Message)
    BY <2>1, BuildType
  <2>. HIDE DEF built
  <2>3. \/ built.ok /\ prompt' = [prompt EXCEPT ![i] = built.messages] /\ UNCHANGED failure
        \/ UNCHANGED prompt /\ failure' = [failure EXCEPT ![i] = "prompt"]
    BY <1>11 DEF BuildPrompt, built
  <2>4. prompt' \in [Invocations -> Seq(Message)] /\ failure' \in [Invocations -> Failures]
    BY <2>2, <2>3
  <2>5. pc' \in [Invocations -> Stages]
    BY <1>11 DEF BuildPrompt
  <2>. QED
    BY <1>11, <2>4, <2>5 DEF BuildPrompt, loop, audit
<1>12. CASE PrepareChatFails(i)
  BY <1>12 DEF PrepareChatFails, loop, audit
<1>13. CASE Generate(i)
  <2>1. llmCalls' \in [Invocations -> Nat]
    BY <1>13, IncrementType DEF Generate
  <2>2. reply' \in [Invocations -> 0..MaxCalls]
    BY <1>13 DEF Generate
  <2>3. failure' \in [Invocations -> Failures]
    BY <1>13 DEF Generate
  <2>. QED
    BY <1>13, <2>1, <2>2, <2>3 DEF Generate
<1>14. CASE RecordChat(i)
  <2>1. llmRows' \in [Invocations -> Nat]
    <3>1. PICK persisted \in BOOLEAN : llmRows' = Persist(llmRows, i, persisted)
      BY <1>14 DEF RecordChat
    <3>. QED
      BY <3>1, PersistType
  <2>2. failure' \in [Invocations -> Failures] /\ prompt' \in [Invocations -> Seq(Message)]
    BY <1>14 DEF RecordChat
  <2>3. pc' \in [Invocations -> Stages]
    BY <1>14 DEF RecordChat
  <2>. QED
    BY <1>14, <2>1, <2>2, <2>3 DEF RecordChat, loop
<1>15. CASE AppendReply(i)
  <2>1. messages' \in [Sessions -> Seq(Message)]
    BY <1>15, MessageTypes, AppendMessageType DEF AppendReply
  <2>2. call' \in [Invocations -> 0..MaxCalls]
    BY <1>15 DEF AppendReply
  <2>3. pc' \in [Invocations -> Stages]
    BY <1>15 DEF AppendReply
  <2>. QED
    BY <1>15, <2>1, <2>2, <2>3 DEF AppendReply, audit
<1>16. CASE ExecuteTool(i)
  <2>1. toolCalls' \in [Invocations -> Nat]
    BY <1>16, IncrementType DEF ExecuteTool
  <2>2. failure' \in [Invocations -> Failures]
    BY <1>16 DEF ExecuteTool
  <2>. QED
    BY <1>16, <2>1, <2>2 DEF ExecuteTool, loop
<1>17. CASE RecordTool(i)
  <2>1. toolRows' \in [Invocations -> Nat]
    <3>1. PICK persisted \in BOOLEAN : toolRows' = Persist(toolRows, i, persisted)
      BY <1>17 DEF RecordTool
    <3>. QED
      BY <3>1, PersistType
  <2>2. failure' \in [Invocations -> Failures]
    BY <1>17 DEF RecordTool
  <2>. QED
    BY <1>17, <2>1, <2>2 DEF RecordTool, loop
<1>18. CASE AppendResult(i)
  <2>1. messages' \in [Sessions -> Seq(Message)]
    BY <1>18, MessageTypes, AppendMessageType DEF AppendResult
  <2>2. iteration[i] < MaxIterations
    BY <1>18 DEF AppendResult, At, Counting
  <2>3. iteration' \in [Invocations -> 0..MaxIterations]
    <3>1. iteration[i] + 1 \in 0..MaxIterations
      BY <2>2
    <3>2. iteration' = iteration \/ iteration' = [iteration EXCEPT ![i] = iteration[i] + 1]
      BY <1>18 DEF AppendResult, Increment
    <3>. QED
      BY <3>1, <3>2
  <2>4. call' \in [Invocations -> 0..MaxCalls]
    <3>1. \/ call' = call
          \/ call' = [call EXCEPT ![i] = 0]
          \/ call[i] < reply[i] /\ call' = [call EXCEPT ![i] = call[i] + 1]
      BY <1>18 DEF AppendResult, Increment
    <3>2. 0 \in 0..MaxCalls /\ (call[i] < reply[i] => call[i] + 1 \in 0..MaxCalls)
      OBVIOUS
    <3>. QED
      BY <3>1, <3>2
  <2>5. pc' \in [Invocations -> Stages]
    BY <1>18 DEF AppendResult
  <2>. QED
    BY <1>18, <2>1, <2>3, <2>4, <2>5 DEF AppendResult, audit
<1>19. CASE SaveSession(i)
  BY <1>19 DEF SaveSession, Conversation, loop, audit
<1>20. CASE SaveFails(i)
  BY <1>20 DEF SaveFails, loop, audit
<1>. QED
  BY <1>1, <1>2, <1>3, <1>4, <1>5, <1>6, <1>7, <1>8, <1>9, <1>10, <1>11, <1>12,
     <1>13, <1>14, <1>15, <1>16, <1>17, <1>18, <1>19, <1>20 DEF Caller, Step

(* A step of one invocation leaves the variables of every other one alone. *)
LEMMA OtherInvocations ==
  ASSUME TypeOK, NEW i \in Invocations, Caller(i) \/ Step(i),
         NEW j \in Invocations, j # i
  PROVE  /\ pc'[j] = pc[j] /\ iteration'[j] = iteration[j]
         /\ reply'[j] = reply[j] /\ call'[j] = call[j]
         /\ failure'[j] = failure[j] /\ saveFailed'[j] = saveFailed[j]
         /\ cancelledAt'[j] = cancelledAt[j]
         /\ llmCalls'[j] = llmCalls[j] /\ llmRows'[j] = llmRows[j]
         /\ toolCalls'[j] = toolCalls[j] /\ toolRows'[j] = toolRows[j]
<1>. USE DEF TypeOK, Goto, Fail, Increment
<1>1. CASE Reject(i)
  BY <1>1 DEF Reject, loop, audit
<1>2. CASE ResolveFails(i)
  BY <1>2 DEF ResolveFails, loop, audit
<1>3. CASE ResolveSession(i)
  BY <1>3 DEF ResolveSession, loop, audit
<1>4. CASE Cancel(i)
  BY <1>4 DEF Cancel, loop, audit
<1>5. CASE AppendUser(i)
  BY <1>5 DEF AppendUser, audit
<1>6. CASE Exhaust(i)
  BY <1>6 DEF Exhaust, loop, audit
<1>7. CASE StopCancelled(i)
  BY <1>7 DEF StopCancelled, loop, audit
<1>8. CASE EnterIteration(i)
  BY <1>8 DEF EnterIteration, loop, audit
<1>9. CASE ReadMemory(i)
  BY <1>9 DEF ReadMemory, loop, audit
<1>10. CASE ReadMemoryFails(i)
  BY <1>10 DEF ReadMemoryFails, loop, audit
<1>11. CASE BuildPrompt(i)
  BY <1>11 DEF BuildPrompt, loop, audit
<1>12. CASE PrepareChatFails(i)
  BY <1>12 DEF PrepareChatFails, loop, audit
<1>13. CASE Generate(i)
  BY <1>13 DEF Generate
<1>14. CASE RecordChat(i)
  BY <1>14 DEF RecordChat, Persist, loop
<1>15. CASE AppendReply(i)
  BY <1>15 DEF AppendReply, audit
<1>16. CASE ExecuteTool(i)
  BY <1>16 DEF ExecuteTool, loop
<1>17. CASE RecordTool(i)
  BY <1>17 DEF RecordTool, Persist, loop
<1>18. CASE AppendResult(i)
  BY <1>18 DEF AppendResult, audit
<1>19. CASE SaveSession(i)
  BY <1>19 DEF SaveSession, loop, audit
<1>20. CASE SaveFails(i)
  BY <1>20 DEF SaveFails, loop, audit
<1>. QED
  BY <1>1, <1>2, <1>3, <1>4, <1>5, <1>6, <1>7, <1>8, <1>9, <1>10, <1>11, <1>12,
     <1>13, <1>14, <1>15, <1>16, <1>17, <1>18, <1>19, <1>20 DEF Caller, Step

(* A step of an invocation keeps its calls and rows in balance.              *)
LEMMA AccountingStep ==
  ASSUME IInv, NEW i \in Invocations, Caller(i) \/ Step(i)
  PROVE  Accounting(i)'
<1>. TypeOK /\ Accounting(i) /\ Counting(i) /\ Cancelling(i)
  BY DEF IInv
<1>. USE DEF TypeOK, At, Goto, Fail, Increment, Accounting, Behind
<1>1. CASE Reject(i)
  BY <1>1 DEF Reject, loop, audit
<1>2. CASE ResolveFails(i)
  BY <1>2 DEF ResolveFails, loop, audit
<1>3. CASE ResolveSession(i)
  BY <1>3 DEF ResolveSession, loop, audit
<1>4. CASE Cancel(i)
  BY <1>4 DEF Cancel, loop, audit
<1>5. CASE AppendUser(i)
  BY <1>5 DEF AppendUser, audit
<1>6. CASE Exhaust(i)
  BY <1>6 DEF Exhaust, loop, audit
<1>7. CASE StopCancelled(i)
  BY <1>7 DEF StopCancelled, loop, audit
<1>8. CASE EnterIteration(i)
  BY <1>8 DEF EnterIteration, loop, audit
<1>9. CASE ReadMemory(i)
  BY <1>9 DEF ReadMemory, loop, audit
<1>10. CASE ReadMemoryFails(i)
  BY <1>10 DEF ReadMemoryFails, loop, audit
<1>11. CASE BuildPrompt(i)
  BY <1>11 DEF BuildPrompt, loop, audit
<1>12. CASE PrepareChatFails(i)
  BY <1>12 DEF PrepareChatFails, loop, audit
<1>13. CASE Generate(i)
  BY <1>13 DEF Generate
<1>14. CASE RecordChat(i)
  BY <1>14 DEF RecordChat, Persist, loop
<1>15. CASE AppendReply(i)
  BY <1>15 DEF AppendReply, audit
<1>16. CASE ExecuteTool(i)
  BY <1>16 DEF ExecuteTool, loop
<1>17. CASE RecordTool(i)
  BY <1>17 DEF RecordTool, Persist, loop
<1>18. CASE AppendResult(i)
  BY <1>18 DEF AppendResult, audit
<1>19. CASE SaveSession(i)
  BY <1>19 DEF SaveSession, loop, audit
<1>20. CASE SaveFails(i)
  BY <1>20 DEF SaveFails, loop, audit
<1>. QED
  BY <1>1, <1>2, <1>3, <1>4, <1>5, <1>6, <1>7, <1>8, <1>9, <1>10, <1>11, <1>12,
     <1>13, <1>14, <1>15, <1>16, <1>17, <1>18, <1>19, <1>20 DEF Caller, Step

(* A step of an invocation keeps its model calls in step with the iteration. *)
LEMMA CountingStep ==
  ASSUME IInv, NEW i \in Invocations, Caller(i) \/ Step(i)
  PROVE  Counting(i)'
<1>. TypeOK /\ Accounting(i) /\ Counting(i) /\ Cancelling(i)
  BY DEF IInv
<1>. USE DEF TypeOK, At, Goto, Fail, Increment, Accounting, Behind, Counting
<1>1. CASE Reject(i)
  BY <1>1 DEF Reject, loop, audit
<1>2. CASE ResolveFails(i)
  BY <1>2 DEF ResolveFails, loop, audit
<1>3. CASE ResolveSession(i)
  BY <1>3 DEF ResolveSession, loop, audit
<1>4. CASE Cancel(i)
  BY <1>4 DEF Cancel, loop, audit
<1>5. CASE AppendUser(i)
  BY <1>5 DEF AppendUser, audit
<1>6. CASE Exhaust(i)
  BY <1>6 DEF Exhaust, loop, audit
<1>7. CASE StopCancelled(i)
  BY <1>7 DEF StopCancelled, loop, audit
<1>8. CASE EnterIteration(i)
  BY <1>8 DEF EnterIteration, loop, audit
<1>9. CASE ReadMemory(i)
  BY <1>9 DEF ReadMemory, loop, audit
<1>10. CASE ReadMemoryFails(i)
  BY <1>10 DEF ReadMemoryFails, loop, audit
<1>11. CASE BuildPrompt(i)
  BY <1>11 DEF BuildPrompt, loop, audit
<1>12. CASE PrepareChatFails(i)
  BY <1>12 DEF PrepareChatFails, loop, audit
<1>13. CASE Generate(i)
  BY <1>13 DEF Generate
<1>14. CASE RecordChat(i)
  BY <1>14 DEF RecordChat, Persist, loop
<1>15. CASE AppendReply(i)
  BY <1>15 DEF AppendReply, audit
<1>16. CASE ExecuteTool(i)
  BY <1>16 DEF ExecuteTool, loop
<1>17. CASE RecordTool(i)
  BY <1>17 DEF RecordTool, Persist, loop
<1>18. CASE AppendResult(i)
  BY <1>18 DEF AppendResult, audit
<1>19. CASE SaveSession(i)
  BY <1>19 DEF SaveSession, loop, audit
<1>20. CASE SaveFails(i)
  BY <1>20 DEF SaveFails, loop, audit
<1>. QED
  BY <1>1, <1>2, <1>3, <1>4, <1>5, <1>6, <1>7, <1>8, <1>9, <1>10, <1>11, <1>12,
     <1>13, <1>14, <1>15, <1>16, <1>17, <1>18, <1>19, <1>20 DEF Caller, Step

(* A step of an invocation keeps it within one call of its cancellation.     *)
LEMMA CancellingStep ==
  ASSUME IInv, NEW i \in Invocations, Caller(i) \/ Step(i)
  PROVE  Cancelling(i)'
<1>. TypeOK /\ Accounting(i) /\ Counting(i) /\ Cancelling(i)
  BY DEF IInv
<1>. USE DEF TypeOK, At, Goto, Fail, Increment, Counting, Cancelling, Cancelled, ContextDone, NotCancelled
<1>1. CASE Reject(i)
  BY <1>1 DEF Reject, loop, audit
<1>2. CASE ResolveFails(i)
  BY <1>2 DEF ResolveFails, loop, audit
<1>3. CASE ResolveSession(i)
  BY <1>3 DEF ResolveSession, loop, audit
<1>4. CASE Cancel(i)
  BY <1>4 DEF Cancel, loop, audit
<1>5. CASE AppendUser(i)
  BY <1>5 DEF AppendUser, audit
<1>6. CASE Exhaust(i)
  BY <1>6 DEF Exhaust, loop, audit
<1>7. CASE StopCancelled(i)
  BY <1>7 DEF StopCancelled, loop, audit
<1>8. CASE EnterIteration(i)
  BY <1>8 DEF EnterIteration, loop, audit
<1>9. CASE ReadMemory(i)
  BY <1>9 DEF ReadMemory, loop, audit
<1>10. CASE ReadMemoryFails(i)
  BY <1>10 DEF ReadMemoryFails, loop, audit
<1>11. CASE BuildPrompt(i)
  BY <1>11 DEF BuildPrompt, loop, audit
<1>12. CASE PrepareChatFails(i)
  BY <1>12 DEF PrepareChatFails, loop, audit
<1>13. CASE Generate(i)
  BY <1>13 DEF Generate
<1>14. CASE RecordChat(i)
  BY <1>14 DEF RecordChat, Persist, loop
<1>15. CASE AppendReply(i)
  BY <1>15 DEF AppendReply, audit
<1>16. CASE ExecuteTool(i)
  BY <1>16 DEF ExecuteTool, loop
<1>17. CASE RecordTool(i)
  BY <1>17 DEF RecordTool, Persist, loop
<1>18. CASE AppendResult(i)
  BY <1>18 DEF AppendResult, audit
<1>19. CASE SaveSession(i)
  BY <1>19 DEF SaveSession, loop, audit
<1>20. CASE SaveFails(i)
  BY <1>20 DEF SaveFails, loop, audit
<1>. QED
  BY <1>1, <1>2, <1>3, <1>4, <1>5, <1>6, <1>7, <1>8, <1>9, <1>10, <1>11, <1>12,
     <1>13, <1>14, <1>15, <1>16, <1>17, <1>18, <1>19, <1>20 DEF Caller, Step

(* A stuttering step keeps the inductive invariant.                          *)
LEMMA StutterIInv ==
  ASSUME IInv, UNCHANGED vars
  PROVE  IInv'
BY DEF IInv, vars, loop, audit, TypeOK, Accounting, Counting, Cancelling, Behind, Cancelled

(* Every step keeps the inductive invariant: the step of one invocation does *)
(* by the lemmas above, and leaves what it says of the others alone.         *)
LEMMA StepIInv ==
  ASSUME IInv, [Next]_vars
  PROVE  IInv'
<1>1. CASE UNCHANGED vars
  BY <1>1, StutterIInv
<1>2. ASSUME NEW i \in Invocations, Caller(i) \/ Step(i)
      PROVE  IInv'
  <2>1. TypeOK'
    BY <1>2, TypeStep
  <2>2. ASSUME NEW j \in Invocations
        PROVE  Accounting(j)' /\ Counting(j)' /\ Cancelling(j)'
    <3>1. CASE j = i
      BY <1>2, <3>1, AccountingStep, CountingStep, CancellingStep
    <3>2. CASE j # i
      <4>1. TypeOK /\ Accounting(j) /\ Counting(j) /\ Cancelling(j)
        BY DEF IInv
      <4>. QED
        BY <1>2, <3>2, <4>1, OtherInvocations
           DEF Accounting, Counting, Cancelling, Behind, Cancelled
    <3>. QED
      BY <3>1, <3>2
  <2>. QED
    BY <2>1, <2>2 DEF IInv
<1>. QED
  BY <1>1, <1>2 DEF Next

(* In every reachable state types are right, rows and calls of each run are  *)
(* in balance, its model calls match its iteration, and a cancelled run has  *)
(* made at most one model call since.                                        *)
THEOREM InductiveInvariant == Spec => []IInv
BY InitIInv, StepIInv, PTL DEF Spec

(* Calls and rows are numbers, so that the provers can do arithmetic on them.*)
LEMMA CountersAreNaturals ==
  ASSUME IInv, NEW i \in Invocations
  PROVE  /\ llmCalls[i] \in Nat /\ llmRows[i] \in Nat
         /\ toolCalls[i] \in Nat /\ toolRows[i] \in Nat
BY DEF IInv, TypeOK

-----------------------------------------------------------------------------
(* Theorems.                                                               *)

(* Every variable of the runtime keeps its type, for any number of         *)
(* invocations and Sessions, any limits and any sizes of messages.         *)
THEOREM TypeCorrect == Spec => []TypeOK
BY InductiveInvariant, PTL DEF IInv

(* No tool call of a reply whose llm_calls row was lost is ever handled.   *)
THEOREM NoUnauditedExecution == Spec => []UnauditedReplyNeverExecuted
<1>1. ASSUME IInv, NEW i \in Invocations,
             pc[i] \in {"execute", "record_tool", "append_result"}
      PROVE  llmRows[i] = llmCalls[i]
  BY <1>1, CountersAreNaturals DEF IInv, Accounting, Behind
<1>2. IInv => UnauditedReplyNeverExecuted
  BY <1>1 DEF UnauditedReplyNeverExecuted
<1>. QED
  BY <1>2, InductiveInvariant, PTL

(* A run goes on after a model or tool call only when its row was written. *)
THEOREM RowLossEndsRun == Spec => []AtMostOneRowLost
<1>1. ASSUME IInv, NEW i \in Invocations
      PROVE  LET lost == (llmCalls[i] + toolCalls[i]) - (llmRows[i] + toolRows[i]) IN
               /\ llmRows[i] <= llmCalls[i]
               /\ toolRows[i] <= toolCalls[i]
               /\ lost <= 1
               /\ lost = 1 => pc[i] \in {"record_chat", "record_tool"} \/ failure[i] # "none"
  <2>. DEFINE ending == pc[i] \in {"record_chat", "record_tool"} \/ failure[i] # "none"
  <2>1. \/ Behind(i, 0, 0)
        \/ ending /\ (Behind(i, 1, 0) \/ Behind(i, 0, 1))
    <3>1. pc[i] \in Stages /\ Accounting(i)
      BY <1>1 DEF IInv, TypeOK
    <3>. QED
      BY <3>1 DEF Stages, Accounting
  <2>. HIDE DEF ending
  <2>. SUFFICES /\ llmRows[i] <= llmCalls[i] /\ toolRows[i] <= toolCalls[i]
                /\ (llmCalls[i] + toolCalls[i]) - (llmRows[i] + toolRows[i]) <= 1
                /\ (llmCalls[i] + toolCalls[i]) - (llmRows[i] + toolRows[i]) = 1 => ending
    BY DEF ending
  <2>. QED
    BY <1>1, <2>1, CountersAreNaturals DEF Behind
<1>2. IInv => AtMostOneRowLost
  BY <1>1 DEF AtMostOneRowLost
<1>. QED
  BY <1>2, InductiveInvariant, PTL

(* After the caller cancels, a run makes at most one more model call.      *)
THEOREM CancelStopsModelCalls == Spec => []CancelAllowsOneMoreModelCall
<1>1. IInv => CancelAllowsOneMoreModelCall
  BY DEF IInv, Cancelling, CancelAllowsOneMoreModelCall
<1>. QED
  BY <1>1, InductiveInvariant, PTL

-----------------------------------------------------------------------------
(* What Save keeps.                                                        *)

(* The saved conversation is a beginning of the conversation, and holds    *)
(* what the runs that returned without a save error appended.              *)
Kept(s, i, conversation) ==
  \A p \in 1..Len(conversation) : conversation[p].inv = i => p <= Len(s)

Saving ==
  /\ \A s \in Sessions :
       /\ Len(saved[s]) <= Len(messages[s])
       /\ \A p \in 1..Len(saved[s]) : saved[s][p] = messages[s][p]
  /\ \A i \in Invocations :
       (pc[i] = "returned" /\ failure[i] \notin {"rejected", "resolve"} /\ ~saveFailed[i]) =>
         Kept(saved[SessionOf[i]], i, messages[SessionOf[i]])

(* An action changes a conversation by appending one message of its own    *)
(* invocation while that is running, or changes a saved one by Save, or    *)
(* changes neither.                                                        *)
LEMMA ConversationSteps ==
  ASSUME TypeOK, NEW i \in Invocations, Caller(i) \/ Step(i)
  PROVE  \/ /\ \E m \in Message : m.inv = i /\ AppendMessage(i, m)
            /\ UNCHANGED saved
            /\ pc'[i] # "returned"
         \/ SaveSession(i)
         \/ /\ UNCHANGED <<messages, saved>>
            /\ pc'[i] = "returned" => pc[i] = "returned" \/ saveFailed'[i]
                                     \/ failure'[i] \in {"rejected", "resolve"}
            /\ pc[i] = "returned" => UNCHANGED <<pc, failure, saveFailed>>
<1>. USE DEF TypeOK, At, Goto, Fail, Active
<1>1. CASE Reject(i)
  BY <1>1 DEF Reject
<1>2. CASE ResolveFails(i)
  BY <1>2 DEF ResolveFails
<1>3. CASE ResolveSession(i)
  BY <1>3 DEF ResolveSession
<1>4. CASE Cancel(i)
  BY <1>4 DEF Cancel
<1>5. CASE AppendUser(i)
  <2>1. UserMessage(i) \in Message /\ UserMessage(i).inv = i
    BY MessageTypes DEF UserMessage
  <2>. QED
    BY <1>5, <2>1 DEF AppendUser
<1>6. CASE Exhaust(i)
  BY <1>6 DEF Exhaust
<1>7. CASE StopCancelled(i)
  BY <1>7 DEF StopCancelled
<1>8. CASE EnterIteration(i)
  BY <1>8 DEF EnterIteration
<1>9. CASE ReadMemory(i)
  BY <1>9 DEF ReadMemory
<1>10. CASE ReadMemoryFails(i)
  BY <1>10 DEF ReadMemoryFails
<1>11. CASE BuildPrompt(i)
  BY <1>11 DEF BuildPrompt
<1>12. CASE PrepareChatFails(i)
  BY <1>12 DEF PrepareChatFails
<1>13. CASE Generate(i)
  BY <1>13 DEF Generate
<1>14. CASE RecordChat(i)
  BY <1>14 DEF RecordChat
<1>15. CASE AppendReply(i)
  <2>1. AssistantMessage(i) \in Message /\ AssistantMessage(i).inv = i
    BY MessageTypes DEF AssistantMessage
  <2>. QED
    BY <1>15, <2>1 DEF AppendReply
<1>16. CASE ExecuteTool(i)
  BY <1>16 DEF ExecuteTool
<1>17. CASE RecordTool(i)
  BY <1>17 DEF RecordTool
<1>18. CASE AppendResult(i)
  <2>1. ToolMessage(i) \in Message /\ ToolMessage(i).inv = i
    BY MessageTypes DEF ToolMessage
  <2>. QED
    BY <1>18, <2>1 DEF AppendResult
<1>19. CASE SaveSession(i)
  BY <1>19
<1>20. CASE SaveFails(i)
  BY <1>20 DEF SaveFails
<1>. QED
  BY <1>1, <1>2, <1>3, <1>4, <1>5, <1>6, <1>7, <1>8, <1>9, <1>10, <1>11, <1>12,
     <1>13, <1>14, <1>15, <1>16, <1>17, <1>18, <1>19, <1>20 DEF Caller, Step

(* Every step keeps the saved conversations complete for the runs that have  *)
(* returned: conversations only grow, and a save only takes over more of one.*)
LEMMA StepSaving ==
  ASSUME TypeOK, Saving, [Next]_vars
  PROVE  Saving'
<1>1. CASE UNCHANGED vars
  BY <1>1 DEF Saving, Kept, vars
<1>2. ASSUME NEW i \in Invocations, Caller(i) \/ Step(i)
      PROVE  Saving'
  <2>. \A j \in Invocations : j # i =>
         pc'[j] = pc[j] /\ failure'[j] = failure[j] /\ saveFailed'[j] = saveFailed[j]
    BY <1>2, OtherInvocations
  <2>1. ASSUME NEW m \in Message, m.inv = i, AppendMessage(i, m), UNCHANGED saved,
               pc'[i] # "returned"
        PROVE  Saving'
    <3>1. ASSUME NEW s \in Sessions
          PROVE  /\ Len(saved[s]) \in Nat /\ Len(messages[s]) \in Nat
                 /\ Len(messages'[s]) \in {Len(messages[s]), Len(messages[s]) + 1}
                 /\ \A p \in 1..Len(messages[s]) : messages'[s][p] = messages[s][p]
                 /\ \A p \in 1..Len(messages'[s]) :
                      p \in 1..Len(messages[s]) \/ messages'[s][p] = m
      <4>1. /\ messages[s] \in Seq(Message) /\ saved[s] \in Seq(Message)
            /\ messages'[s] = messages[s] \/ messages'[s] = Append(messages[s], m)
        BY <2>1 DEF TypeOK, AppendMessage
      <4>2. CASE messages'[s] = messages[s]
        BY <4>1, <4>2
      <4>3. CASE messages'[s] = Append(messages[s], m)
        BY <4>1, <4>3
      <4>. QED
        BY <4>1, <4>2, <4>3
    <3>2. ASSUME NEW s \in Sessions
          PROVE  /\ Len(saved[s]) <= Len(messages'[s])
                 /\ \A p \in 1..Len(saved[s]) : saved[s][p] = messages'[s][p]
      BY <3>1 DEF Saving
    <3>3. ASSUME NEW j \in Invocations, j # i,
                 Kept(saved[SessionOf[j]], j, messages[SessionOf[j]])
          PROVE  Kept(saved[SessionOf[j]], j, messages'[SessionOf[j]])
      <4>1. SessionOf[j] \in Sessions
        OBVIOUS
      <4>. QED
        BY <2>1, <3>1, <3>3, <4>1 DEF Kept
    <3>. QED
      BY <2>1, <3>2, <3>3 DEF Saving
  <2>2. CASE SaveSession(i)
    <3>1. ASSUME NEW s \in Sessions
          PROVE  /\ messages[s] \in Seq(Message) /\ saved[s] \in Seq(Message)
                 /\ messages'[s] = messages[s]
                 /\ saved'[s] = saved[s] \/ saved'[s] = messages[s]
                 /\ s = SessionOf[i] => saved'[s] = messages[s]
      BY <2>2 DEF TypeOK, SaveSession, Conversation
    <3>2. ASSUME NEW s \in Sessions
          PROVE  /\ Len(saved'[s]) <= Len(messages'[s])
                 /\ \A p \in 1..Len(saved'[s]) : saved'[s][p] = messages'[s][p]
      BY <3>1 DEF Saving
    <3>3. ASSUME NEW j \in Invocations,
                 j = i \/ Kept(saved[SessionOf[j]], j, messages[SessionOf[j]])
          PROVE  Kept(saved'[SessionOf[j]], j, messages'[SessionOf[j]])
      BY <3>1, <3>3 DEF Kept
    <3>. QED
      BY <3>2, <3>3 DEF Saving
  <2>3. CASE /\ UNCHANGED <<messages, saved>>
             /\ pc'[i] = "returned" => pc[i] = "returned" \/ saveFailed'[i]
                                      \/ failure'[i] \in {"rejected", "resolve"}
             /\ pc[i] = "returned" => UNCHANGED <<pc, failure, saveFailed>>
    BY <2>3 DEF Saving, Kept
  <2>. QED
    BY <1>2, <2>1, <2>2, <2>3, ConversationSteps
<1>. QED
  BY <1>1, <1>2 DEF Next

(* A returned run whose Save did not fail is completely in the saved       *)
(* conversation, and stays there, however other runs append and save.      *)
THEOREM SaveKeepsRuns == Spec => []SavedRunIsComplete
<1>1. Init /\ TypeOK => Saving
  BY DEF Init, Saving, TypeOK
<1>2. TypeOK /\ Saving => SavedRunIsComplete
  BY DEF TypeOK, Saving, Kept, SavedRunIsComplete, Conversation
<1>. QED
  BY <1>1, <1>2, StepSaving, TypeCorrect, PTL DEF Spec

-----------------------------------------------------------------------------
(* What runs have said.                                                     *)

Handling == {"execute", "record_tool", "append_result"}

Lost == {"audit", "tool", "tool_audit"}

(* Messages are in the Session of their run.                                *)
InPlace ==
  \A s \in Sessions : \A p \in 1..Len(messages[s]) : SessionOf[messages[s][p].inv] = s

(* A run begins with its user message, and has no other.                    *)
UserFirst ==
  \A s \in Sessions : \A p \in 1..Len(messages[s]) :
    messages[s][p].role = "user" =>
      /\ messages[s][p] = UserMessage(messages[s][p].inv)
      /\ \A q \in 1..(p - 1) : messages[s][q].inv # messages[s][p].inv

Silent(i) ==
  pc[i] \in {"idle", "append_user"} =>
    \A p \in 1..Len(Conversation(i)) : Conversation(i)[p].inv # i

Opened(i) ==
  pc[i] \notin {"idle", "append_user", "save", "returned"} =>
    \E p \in 1..Len(Conversation(i)) : Conversation(i)[p] = UserMessage(i)

(* The calls 1..n of the message at position p of s have results after it.  *)
AnsweredTo(s, p, n) ==
  \A k \in 1..n : \E r \in (p + 1)..Len(s) : Answers(s[r], s[p]) /\ s[r].call = k

(* While a run handles a call, its reply is in the Session, with results of *)
(* the calls before that one.                                               *)
OpenReply(i) ==
  pc[i] \in Handling =>
    /\ call[i] \in 1..reply[i]
    /\ \E q \in 1..Len(Conversation(i)) :
         Conversation(i)[q] = AssistantMessage(i) /\ AnsweredTo(Conversation(i), q, call[i] - 1)

(* Every reply has its results, or its run is getting them, or it has failed*)
(* at it.                                                                   *)
Settled(s, p) ==
  LET m == messages[s][p] IN
    \/ AnsweredTo(messages[s], p, m.calls)
    \/ /\ pc[m.inv] \in Handling
       /\ m.iter = iteration[m.inv] /\ m.calls = reply[m.inv]
       /\ AnsweredTo(messages[s], p, call[m.inv] - 1)
    \/ pc[m.inv] \in {"save", "returned"} /\ failure[m.inv] \in Lost

CallsSettled ==
  \A s \in Sessions : \A p \in 1..Len(messages[s]) :
    messages[s][p].role = "assistant" => Settled(s, p)

(* m is the last message of run i.                                          *)
Last(i, m) ==
  \E p \in 1..Len(Conversation(i)) :
    /\ Conversation(i)[p] = m
    /\ \A q \in (p + 1)..Len(Conversation(i)) : Conversation(i)[q].inv # i

(* The result of the last call of run i's reply of iteration iter.          *)
LastResult(i, iter) ==
  [role |-> "tool", inv |-> i, text |-> NoText, iter |-> iter, calls |-> 0, call |-> reply[i]]

LastSaid(i) ==
  /\ pc[i] = "loop" /\ iteration[i] > 0 => Last(i, LastResult(i, iteration[i] - 1))
  /\ failure[i] = "max_iterations" => Last(i, LastResult(i, MaxIterations - 1))
  /\ pc[i] \in {"save", "returned"} /\ failure[i] = "none" =>
       llmCalls[i] > 0 /\ \E m \in Message :
                             Last(i, m) /\ m.inv = i /\ m.role = "assistant" /\ m.calls = 0

ConvInv ==
  /\ InPlace /\ UserFirst /\ ResultsFollowTheirCalls /\ CallsSettled
  /\ \A i \in Invocations : Silent(i) /\ Opened(i) /\ OpenReply(i) /\ LastSaid(i)

(* What is at a position of a conversation is a message.                    *)
LEMMA MessageAt ==
  ASSUME TypeOK, NEW s \in Sessions, NEW p \in 1..Len(messages[s])
  PROVE  /\ messages[s] \in Seq(Message) /\ Len(messages[s]) \in Nat
         /\ messages[s][p] \in Message /\ messages[s][p].inv \in Invocations
<1>1. messages[s] \in Seq(Message)
  BY DEF TypeOK
<1>2. messages[s][p] \in Message
  BY <1>1
<1>3. messages[s][p].inv \in Invocations
  BY <1>2 DEF Message
<1>. QED
  BY <1>1, <1>2, <1>3

(* Nothing is said initially.                                               *)
LEMMA InitConvInv == Init => ConvInv
<1>. SUFFICES ASSUME Init PROVE ConvInv
  OBVIOUS
<1>1. \A s \in Sessions : messages[s] = <<>>
  BY DEF Init
<1>2. InPlace /\ UserFirst /\ ResultsFollowTheirCalls /\ CallsSettled
  BY <1>1 DEF InPlace, UserFirst, ResultsFollowTheirCalls, CallsSettled
<1>3. ASSUME NEW i \in Invocations
      PROVE  Silent(i) /\ Opened(i) /\ OpenReply(i) /\ LastSaid(i)
  <2>1. Conversation(i) = <<>>
    BY <1>1 DEF Conversation
  <2>2. pc[i] = "idle" /\ failure[i] = "none"
    BY DEF Init
  <2>. QED
    BY <2>1, <2>2 DEF Silent, Opened, OpenReply, LastSaid, Handling
<1>. QED
  BY <1>2, <1>3 DEF ConvInv

-----------------------------------------------------------------------------
(* Steps that say nothing.                                                  *)

(* What such a step may do to invocation i.                                 *)
Quiet(i) ==
  /\ pc'[i] \in {"idle", "append_user"} => pc[i] \in {"idle", "append_user"}
  /\ pc'[i] \notin {"idle", "append_user", "save", "returned"} =>
       pc[i] \notin {"idle", "append_user", "save", "returned"}
  /\ pc'[i] \in Handling <=> pc[i] \in Handling
  /\ pc[i] \in Handling =>
       iteration'[i] = iteration[i] /\ reply'[i] = reply[i] /\ call'[i] = call[i]
  /\ pc[i] \in {"save", "returned"} => pc'[i] \in {"save", "returned"} /\ failure'[i] = failure[i]
  /\ pc'[i] = "loop" => pc[i] = "loop" /\ iteration'[i] = iteration[i] /\ reply'[i] = reply[i]
  /\ failure'[i] = "max_iterations" =>
       /\ reply'[i] = reply[i]
       /\ \/ failure[i] = "max_iterations"
          \/ pc[i] = "loop" /\ iteration[i] = MaxIterations
  /\ pc'[i] \in {"save", "returned"} /\ failure'[i] = "none" =>
       pc[i] \in {"save", "returned"} /\ failure[i] = "none" /\ llmCalls'[i] = llmCalls[i]

(* Every step of an invocation that does not append is such a step.         *)
LEMMA QuietStep ==
  ASSUME IInv, NEW i \in Invocations, Caller(i) \/ Step(i)
  PROVE  \/ UNCHANGED messages /\ Quiet(i)
         \/ AppendUser(i) \/ AppendReply(i) \/ AppendResult(i)
<1>. /\ pc \in [Invocations -> Stages] /\ failure \in [Invocations -> Failures]
     /\ iteration \in [Invocations -> 0..MaxIterations] /\ reply \in [Invocations -> 0..MaxCalls]
     /\ Accounting(i) /\ Counting(i)
  BY DEF IInv, TypeOK
<1>. USE DEF At, Goto, Fail, Quiet, Handling
<1>1. CASE Reject(i)
  BY <1>1 DEF Reject, Accounting, loop, audit
<1>2. CASE ResolveFails(i)
  BY <1>2 DEF ResolveFails, loop, audit
<1>3. CASE ResolveSession(i)
  BY <1>3 DEF ResolveSession, loop, audit
<1>4. CASE Cancel(i)
  BY <1>4 DEF Cancel, Active, loop, audit
<1>5. CASE Exhaust(i)
  <2>1. iteration[i] = MaxIterations
    BY <1>5 DEF Exhaust
  <2>. QED
    BY <1>5, <2>1 DEF Exhaust, loop, audit
<1>6. CASE StopCancelled(i)
  BY <1>6 DEF StopCancelled, loop, audit
<1>7. CASE EnterIteration(i)
  BY <1>7 DEF EnterIteration, loop, audit
<1>8. CASE ReadMemory(i)
  BY <1>8 DEF ReadMemory, loop, audit
<1>9. CASE ReadMemoryFails(i)
  BY <1>9 DEF ReadMemoryFails, loop, audit
<1>10. CASE BuildPrompt(i)
  BY <1>10 DEF BuildPrompt, loop, audit
<1>11. CASE PrepareChatFails(i)
  BY <1>11 DEF PrepareChatFails, loop, audit
<1>12. CASE Generate(i)
  BY <1>12 DEF Generate, Counting, Accounting, loop, audit
<1>13. CASE RecordChat(i)
  BY <1>13 DEF RecordChat, Accounting, loop, audit
<1>14. CASE ExecuteTool(i)
  BY <1>14 DEF ExecuteTool, Accounting, loop, audit
<1>15. CASE RecordTool(i)
  BY <1>15 DEF RecordTool, Accounting, loop, audit
<1>16. CASE SaveSession(i)
  BY <1>16 DEF SaveSession, loop, audit
<1>17. CASE SaveFails(i)
  BY <1>17 DEF SaveFails, loop, audit
<1>. QED
  BY <1>1, <1>2, <1>3, <1>4, <1>5, <1>6, <1>7, <1>8,
     <1>9, <1>10, <1>11, <1>12, <1>13, <1>14, <1>15, <1>16, <1>17 DEF Caller, Step

(* When nobody says anything, what was said stays true.                     *)
LEMMA QuietKeeps ==
  ASSUME IInv, ConvInv, UNCHANGED messages, \A i \in Invocations : Quiet(i)
  PROVE  ConvInv'
<1>. USE DEF ConvInv
<1>1. (InPlace /\ UserFirst /\ ResultsFollowTheirCalls)'
  <2>1. InPlace'
    BY DEF InPlace
  <2>2. UserFirst'
    BY DEF UserFirst, UserMessage
  <2>3. ResultsFollowTheirCalls'
    BY DEF ResultsFollowTheirCalls
  <2>. QED
    BY <2>1, <2>2, <2>3
<1>2. CallsSettled'
  <2>1. ASSUME NEW s \in Sessions, NEW p \in 1..Len(messages[s]),
               messages[s][p].role = "assistant"
        PROVE  Settled(s, p)'
    <3>1. messages[s][p].inv \in Invocations
      BY MessageAt DEF IInv
    <3>2. Quiet(messages[s][p].inv) /\ Settled(s, p)
      BY <2>1, <3>1 DEF CallsSettled
    <3>. QED
      BY <3>2 DEF Settled, Quiet
  <2>. QED
    BY <2>1 DEF CallsSettled
<1>3. ASSUME NEW i \in Invocations
      PROVE  (Silent(i) /\ Opened(i) /\ OpenReply(i) /\ LastSaid(i))'
  <2>. Quiet(i) /\ Silent(i) /\ Opened(i) /\ OpenReply(i) /\ LastSaid(i)
    OBVIOUS
  <2>. USE DEF Conversation
  <2>1. Silent(i)' /\ Opened(i)'
    BY DEF Quiet, Silent, Opened, UserMessage
  <2>2. OpenReply(i)'
    BY DEF Quiet, OpenReply, AssistantMessage
  <2>3. \A m : Last(i, m)' <=> Last(i, m)
    BY DEF Last
  <2>4. pc'[i] = "loop" /\ iteration'[i] > 0 => Last(i, LastResult(i, iteration[i] - 1))'
    <3>. SUFFICES ASSUME pc'[i] = "loop", iteration'[i] > 0
                  PROVE  Last(i, LastResult(i, iteration[i] - 1))'
      OBVIOUS
    <3>1. LastResult(i, iteration[i] - 1)' = LastResult(i, iteration[i] - 1)
      BY DEF Quiet, LastResult
    <3>2. Last(i, LastResult(i, iteration[i] - 1))
      BY DEF Quiet, LastSaid
    <3>. QED
      BY <3>1, <3>2 DEF Last
  <2>5. failure'[i] = "max_iterations" => Last(i, LastResult(i, MaxIterations - 1))'
    <3>. SUFFICES ASSUME failure'[i] = "max_iterations"
                  PROVE  Last(i, LastResult(i, MaxIterations - 1))'
      OBVIOUS
    <3>1. LastResult(i, MaxIterations - 1)' = LastResult(i, MaxIterations - 1)
      BY DEF Quiet, LastResult
    <3>2. Last(i, LastResult(i, MaxIterations - 1))
      BY DEF Quiet, LastSaid
    <3>. QED
      BY <3>1, <3>2 DEF Last
  <2>6. pc'[i] \in {"save", "returned"} /\ failure'[i] = "none" =>
          llmCalls'[i] > 0 /\ \E m \in Message :
                                Last(i, m)' /\ m.inv = i /\ m.role = "assistant" /\ m.calls = 0
    BY <2>3 DEF Quiet, LastSaid
  <2>. QED
    BY <2>1, <2>2, <2>4, <2>5, <2>6 DEF LastSaid
<1>. QED
  BY <1>1, <1>2, <1>3

-----------------------------------------------------------------------------
(* Steps that append a message.                                             *)

(* t begins with s.                                                         *)
Extends(t, s) == Len(s) <= Len(t) /\ \A p \in 1..Len(s) : t[p] = s[p]

(* What an append by run i does to a conversation.                          *)
LEMMA Grown ==
  ASSUME TypeOK, NEW i \in Invocations, NEW m \in Message, AppendMessage(i, m),
         NEW s \in Sessions
  PROVE  /\ messages[s] \in Seq(Message) /\ Len(messages[s]) \in Nat
         /\ messages'[s] \in Seq(Message) /\ Len(messages'[s]) \in Nat
         /\ Extends(messages'[s], messages[s])
         /\ s # SessionOf[i] => messages'[s] = messages[s]
         /\ s = SessionOf[i] => /\ Len(messages'[s]) = Len(messages[s]) + 1
                                /\ messages'[s][Len(messages[s]) + 1] = m
<1>1. messages[s] \in Seq(Message) /\ (s # SessionOf[i] => messages'[s] = messages[s])
      /\ (s = SessionOf[i] => messages'[s] = Append(messages[s], m))
  BY DEF TypeOK, AppendMessage
<1>2. CASE s # SessionOf[i]
  BY <1>1, <1>2 DEF Extends
<1>3. CASE s = SessionOf[i]
  <2>1. messages'[s] = Append(messages[s], m)
    BY <1>1, <1>3
  <2>. QED
    BY <1>1, <1>3, <2>1 DEF Extends
<1>. QED
  BY <1>2, <1>3

(* So a position of the longer conversation is an old one, or the last.     *)
LEMMA OldOrNew ==
  ASSUME TypeOK, NEW i \in Invocations, NEW m \in Message, AppendMessage(i, m),
         NEW s \in Sessions, NEW p \in 1..Len(messages'[s])
  PROVE  \/ p \in 1..Len(messages[s]) /\ messages'[s][p] = messages[s][p]
         \/ s = SessionOf[i] /\ p = Len(messages[s]) + 1 /\ messages'[s][p] = m
<1>1. CASE s # SessionOf[i]
  BY <1>1, Grown
<1>2. CASE s = SessionOf[i]
  BY <1>2, Grown DEF Extends
<1>. QED
  BY <1>1, <1>2

(* Results stay where they are.                                             *)
LEMMA AnsweredGrows ==
  ASSUME NEW s \in Seq(Message), NEW t \in Seq(Message), Extends(t, s),
         NEW p \in 1..Len(s), NEW n, AnsweredTo(s, p, n)
  PROVE  AnsweredTo(t, p, n)
<1>. SUFFICES ASSUME NEW k \in 1..n
              PROVE  \E r \in (p + 1)..Len(t) : Answers(t[r], t[p]) /\ t[r].call = k
  BY DEF AnsweredTo
<1>1. PICK r \in (p + 1)..Len(s) : Answers(s[r], s[p]) /\ s[r].call = k
  BY DEF AnsweredTo
<1>2. r \in (p + 1)..Len(t) /\ r \in 1..Len(s) /\ t[r] = s[r] /\ t[p] = s[p]
  BY DEF Extends
<1>. QED
  BY <1>1, <1>2

(* A run appends in its own Session.                                        *)
LEMMA SaysInPlace ==
  ASSUME TypeOK, InPlace, NEW i \in Invocations, NEW m \in Message, m.inv = i,
         AppendMessage(i, m)
  PROVE  InPlace'
<1>. SUFFICES ASSUME NEW s \in Sessions, NEW p \in 1..Len(messages'[s])
              PROVE  SessionOf[messages'[s][p].inv] = s
  BY DEF InPlace
<1>. QED
  BY OldOrNew DEF InPlace

(* Only its first message is a user message.                                *)
LEMMA SaysUserFirst ==
  ASSUME TypeOK, UserFirst, NEW i \in Invocations, NEW m \in Message, m.inv = i,
         AppendMessage(i, m), Silent(i),
         m.role = "user" => m = UserMessage(i) /\ pc[i] = "append_user"
  PROVE  UserFirst'
<1>. SUFFICES ASSUME NEW s \in Sessions, NEW p \in 1..Len(messages'[s]),
                     messages'[s][p].role = "user"
              PROVE  /\ messages'[s][p] = UserMessage(messages'[s][p].inv)
                     /\ \A q \in 1..(p - 1) : messages'[s][q].inv # messages'[s][p].inv
  BY DEF UserFirst, UserMessage
<1>1. CASE p \in 1..Len(messages[s]) /\ messages'[s][p] = messages[s][p]
  <2>1. \A q \in 1..(p - 1) : messages'[s][q] = messages[s][q]
    BY <1>1, Grown DEF Extends
  <2>2. /\ messages[s][p] = UserMessage(messages[s][p].inv)
        /\ \A q \in 1..(p - 1) : messages[s][q].inv # messages[s][p].inv
    BY <1>1 DEF UserFirst
  <2>. QED
    BY <1>1, <2>1, <2>2
<1>2. CASE s = SessionOf[i] /\ p = Len(messages[s]) + 1 /\ messages'[s][p] = m
  <2>1. \A q \in 1..(p - 1) : messages'[s][q] = messages[s][q]
    BY <1>2, Grown DEF Extends
  <2>2. \A q \in 1..(p - 1) : messages[s][q].inv # i
    BY <1>2, Grown DEF Silent, Conversation
  <2>. QED
    BY <1>2, <2>1, <2>2
<1>. QED
  BY <1>1, <1>2, OldOrNew

(* A result follows the reply that is being handled and its earlier results.*)
LEMMA SaysResults ==
  ASSUME TypeOK, ResultsFollowTheirCalls, NEW i \in Invocations, NEW m \in Message,
         AppendMessage(i, m), OpenReply(i),
         m.role = "tool" => m = ToolMessage(i) /\ pc[i] \in Handling
  PROVE  ResultsFollowTheirCalls'
<1>. DEFINE Follows(c, p) ==
       \E q \in 1..(p - 1) :
         /\ Answers(c[p], c[q])
         /\ \A k \in 1..(c[p].call - 1) : \E r \in (q + 1)..(p - 1) :
              Answers(c[r], c[q]) /\ c[r].call = k
<1>. SUFFICES ASSUME NEW s \in Sessions, NEW p \in 1..Len(messages'[s]),
                     messages'[s][p].role = "tool"
              PROVE  Follows(messages'[s], p)
  BY DEF ResultsFollowTheirCalls, Answers
<1>. DEFINE old == messages[s]
            new == messages'[s]
<1>0. /\ old \in Seq(Message) /\ Len(old) \in Nat /\ Extends(new, old)
  BY Grown
<1>1. CASE p \in 1..Len(old) /\ new[p] = old[p]
  <2>1. Follows(old, p)
    BY <1>1 DEF ResultsFollowTheirCalls
  <2>2. \A q \in 1..(p - 1) : new[q] = old[q]
    BY <1>0, <1>1 DEF Extends
  <2>. HIDE DEF old, new
  <2>3. PICK q \in 1..(p - 1) :
          /\ Answers(old[p], old[q])
          /\ \A k \in 1..(old[p].call - 1) : \E r \in (q + 1)..(p - 1) :
               Answers(old[r], old[q]) /\ old[r].call = k
    BY <2>1
  <2>4. \A r \in (q + 1)..(p - 1) : new[r] = old[r]
    BY <1>0, <1>1, <2>2
  <2>5. Answers(new[p], new[q]) /\ new[q] = old[q] /\ new[p] = old[p]
    BY <1>1, <2>2, <2>3
  <2>6. \A k \in 1..(new[p].call - 1) : \E r \in (q + 1)..(p - 1) :
          Answers(new[r], new[q]) /\ new[r].call = k
    BY <2>3, <2>4, <2>5
  <2>. QED
    BY <2>5, <2>6 DEF new
<1>2. CASE s = SessionOf[i] /\ p = Len(old) + 1 /\ new[p] = m
  <2>1. m = ToolMessage(i) /\ call[i] \in 1..reply[i]
    BY <1>2 DEF OpenReply
  <2>2. PICK q \in 1..Len(old) : old[q] = AssistantMessage(i) /\ AnsweredTo(old, q, call[i] - 1)
    BY <1>2 DEF OpenReply, Conversation
  <2>3. m.call = call[i] /\ Answers(m, old[q])
    BY <2>1, <2>2 DEF ToolMessage, AssistantMessage, Answers
  <2>4. \A r \in 1..(p - 1) : new[r] = old[r]
    BY <1>0, <1>2 DEF Extends
  <2>5. q \in 1..(p - 1) /\ new[q] = old[q] /\ Answers(new[p], new[q])
    BY <1>0, <1>2, <2>2, <2>3, <2>4
  <2>. HIDE DEF old, new
  <2>6. ASSUME NEW k \in 1..(m.call - 1)
        PROVE  \E r \in (q + 1)..(p - 1) : Answers(new[r], new[q]) /\ new[r].call = k
    <3>1. PICK r \in (q + 1)..Len(old) : Answers(old[r], old[q]) /\ old[r].call = k
      BY <2>2, <2>3 DEF AnsweredTo
    <3>2. r \in (q + 1)..(p - 1) /\ new[r] = old[r]
      BY <1>0, <1>2, <2>4
    <3>. QED
      BY <3>1, <3>2, <2>5
  <2>. QED
    BY <1>2, <2>5, <2>6 DEF new
<1>. QED
  BY <1>1, <1>2, OldOrNew

(* What is appended is the last message of its run, and leaves the last ones*)
(* of other runs what they are.                                             *)
LEMMA LastIsNew ==
  ASSUME TypeOK, NEW i \in Invocations, NEW m \in Message, AppendMessage(i, m)
  PROVE  Last(i, m)'
<1>. DEFINE new == messages'[SessionOf[i]]
<1>1. Len(new) \in Nat /\ Len(new) \in 1..Len(new) /\ new[Len(new)] = m
  BY Grown
<1>. QED
  BY <1>1 DEF Last, Conversation

LEMMA LastOfOthers ==
  ASSUME TypeOK, NEW i \in Invocations, NEW m \in Message, m.inv = i, AppendMessage(i, m),
         NEW j \in Invocations, j # i, NEW said, Last(j, said)
  PROVE  Last(j, said)'
<1>. DEFINE s == SessionOf[j]
<1>. SUFFICES \E p \in 1..Len(messages'[s]) :
                /\ messages'[s][p] = said
                /\ \A q \in (p + 1)..Len(messages'[s]) : messages'[s][q].inv # j
  BY DEF Last, Conversation
<1>1. PICK p \in 1..Len(messages[s]) :
        /\ messages[s][p] = said
        /\ \A q \in (p + 1)..Len(messages[s]) : messages[s][q].inv # j
  BY DEF Last, Conversation
<1>2. p \in 1..Len(messages'[s]) /\ messages'[s][p] = said
  BY <1>1, Grown DEF Extends
<1>3. ASSUME NEW q \in (p + 1)..Len(messages'[s])
      PROVE  messages'[s][q].inv # j
  <2>1. q \in 1..Len(messages'[s])
    BY <1>2, Grown
  <2>. QED
    BY <1>1, <2>1, OldOrNew
<1>. QED
  BY <1>2, <1>3

(* What holds of a run holds when another run appends.                      *)
LEMMA OthersListen ==
  ASSUME IInv, ConvInv, NEW i \in Invocations, Caller(i) \/ Step(i),
         NEW m \in Message, m.inv = i, AppendMessage(i, m),
         NEW j \in Invocations, j # i
  PROVE  (Silent(j) /\ Opened(j) /\ OpenReply(j) /\ LastSaid(j))'
<1>. /\ TypeOK /\ Silent(j) /\ Opened(j) /\ OpenReply(j) /\ LastSaid(j)
     /\ SessionOf[j] \in Sessions
  BY DEF IInv, ConvInv
<1>1. /\ pc'[j] = pc[j] /\ iteration'[j] = iteration[j] /\ reply'[j] = reply[j]
      /\ call'[j] = call[j] /\ failure'[j] = failure[j] /\ llmCalls'[j] = llmCalls[j]
  BY OtherInvocations
<1>. DEFINE old == messages[SessionOf[j]]
            new == messages'[SessionOf[j]]
<1>2. /\ old \in Seq(Message) /\ new \in Seq(Message)
      /\ Len(old) \in Nat /\ Len(new) \in Nat /\ Extends(new, old)
  BY Grown
<1>3. Silent(j)'
  <2>. SUFFICES ASSUME pc[j] \in {"idle", "append_user"}, NEW p \in 1..Len(new)
                PROVE  new[p].inv # j
    BY <1>1 DEF Silent, Conversation
  <2>. QED
    BY OldOrNew DEF Silent, Conversation
<1>4. Opened(j)'
  BY <1>1, <1>2 DEF Opened, Conversation, UserMessage, Extends
<1>5. OpenReply(j)'
  <2>. SUFFICES ASSUME pc[j] \in Handling
                PROVE  /\ call[j] \in 1..reply[j]
                       /\ \E q \in 1..Len(new) :
                            new[q] = AssistantMessage(j) /\ AnsweredTo(new, q, call[j] - 1)
    BY <1>1 DEF OpenReply, Conversation, AssistantMessage
  <2>1. PICK q \in 1..Len(old) : old[q] = AssistantMessage(j) /\ AnsweredTo(old, q, call[j] - 1)
    BY DEF OpenReply, Conversation
  <2>2. q \in 1..Len(new) /\ new[q] = old[q]
    BY <1>2 DEF Extends
  <2>3. AnsweredTo(new, q, call[j] - 1)
    <3>. HIDE DEF old, new
    <3>. QED
      BY <1>2, <2>1, AnsweredGrows
  <2>. QED
    BY <2>1, <2>2, <2>3 DEF OpenReply
<1>6. LastSaid(j)'
  <2>1. \A said : Last(j, said) => Last(j, said)'
    BY LastOfOthers
  <2>2. \A iter : LastResult(j, iter)' = LastResult(j, iter)
    BY <1>1 DEF LastResult
  <2>. QED
    BY <1>1, <2>1, <2>2 DEF LastSaid
<1>. QED
  BY <1>3, <1>4, <1>5, <1>6

(* So do the replies of a run when another run appends.                     *)
LEMMA OthersSettled ==
  ASSUME IInv, CallsSettled, NEW i \in Invocations, Caller(i) \/ Step(i),
         NEW m \in Message, AppendMessage(i, m),
         NEW s \in Sessions, NEW p \in 1..Len(messages[s]),
         messages[s][p].role = "assistant", messages[s][p].inv # i
  PROVE  Settled(s, p)'
<1>. DEFINE j == messages[s][p].inv
<1>1. j \in Invocations /\ TypeOK /\ Settled(s, p)
  BY MessageAt DEF IInv, CallsSettled
<1>2. /\ pc'[j] = pc[j] /\ iteration'[j] = iteration[j] /\ reply'[j] = reply[j]
      /\ call'[j] = call[j] /\ failure'[j] = failure[j]
  BY <1>1, OtherInvocations
<1>3. /\ messages[s] \in Seq(Message) /\ messages'[s] \in Seq(Message)
      /\ Extends(messages'[s], messages[s]) /\ messages'[s][p] = messages[s][p]
  BY <1>1, Grown DEF Extends
<1>4. \A n : AnsweredTo(messages[s], p, n) => AnsweredTo(messages'[s], p, n)
  BY <1>3, AnsweredGrows
<1>. QED
  BY <1>1, <1>2, <1>3, <1>4 DEF Settled

(* The three steps that append keep what is known of their own run.         *)
LEMMA AppendUserKeeps ==
  ASSUME IInv, ConvInv, NEW i \in Invocations, AppendUser(i)
  PROVE  ConvInv'
<1>. DEFINE m == UserMessage(i)
<1>. TypeOK /\ Accounting(i) /\ Silent(i) /\ OpenReply(i) /\ SessionOf[i] \in Sessions
  BY DEF IInv, ConvInv
<1>1. /\ AppendMessage(i, m) /\ pc[i] = "append_user" /\ pc'[i] = "loop"
      /\ iteration'[i] = 0 /\ failure'[i] = "none" /\ Step(i)
  BY DEF AppendUser, At, Goto, TypeOK, Accounting, Step
<1>2. m \in Message /\ m.inv = i /\ m.role = "user"
  BY MessageTypes DEF UserMessage
<1>3. (InPlace /\ UserFirst /\ ResultsFollowTheirCalls)'
  BY <1>1, <1>2, SaysInPlace, SaysUserFirst, SaysResults DEF ConvInv
<1>4. CallsSettled'
  <2>. SUFFICES ASSUME NEW s \in Sessions, NEW p \in 1..Len(messages'[s]),
                       messages'[s][p].role = "assistant"
                PROVE  Settled(s, p)'
    BY DEF CallsSettled
  <2>1. p \in 1..Len(messages[s]) /\ messages'[s][p] = messages[s][p]
    BY <1>1, <1>2, OldOrNew
  <2>2. messages[s][p].inv # i
    BY <1>1, <2>1 DEF Silent, Conversation, ConvInv, InPlace
  <2>. QED
    BY <1>1, <1>2, <2>1, <2>2, OthersSettled DEF ConvInv
<1>5. (Silent(i) /\ OpenReply(i) /\ LastSaid(i))'
  BY <1>1 DEF Silent, OpenReply, LastSaid, Handling
<1>6. Opened(i)'
  <2>1. Last(i, m)'
    BY <1>1, <1>2, LastIsNew
  <2>. QED
    BY <2>1 DEF Last, Opened, UserMessage
<1>. QED
  BY <1>1, <1>2, <1>3, <1>4, <1>5, <1>6, OthersListen DEF ConvInv

LEMMA AppendReplyKeeps ==
  ASSUME IInv, ConvInv, NEW i \in Invocations, AppendReply(i)
  PROVE  ConvInv'
<1>. /\ TypeOK /\ Accounting(i) /\ Counting(i) /\ Silent(i) /\ Opened(i) /\ OpenReply(i)
     /\ SessionOf[i] \in Sessions
  BY DEF IInv, ConvInv
<1>. iteration[i] \in Nat /\ reply[i] \in 0..MaxCalls
  BY DEF TypeOK
<1>. PICK m \in Message : m = AssistantMessage(i)
  BY MessageTypes
<1>1. /\ AppendMessage(i, m) /\ pc[i] = "append_reply" /\ Step(i)
      /\ UNCHANGED <<iteration, reply, failure, llmCalls>>
  BY DEF AppendReply, At, Step, audit
<1>2. m.inv = i /\ m.role = "assistant" /\ m.iter = iteration[i] /\ m.calls = reply[i]
  BY DEF AssistantMessage
<1>3. (InPlace /\ UserFirst /\ ResultsFollowTheirCalls)'
  BY <1>1, <1>2, SaysInPlace, SaysUserFirst, SaysResults DEF ConvInv
<1>4. \/ pc'[i] = "execute" /\ call'[i] = 1 /\ failure[i] = "none" /\ reply[i] > 0
      \/ pc'[i] = "save" /\ failure[i] = "none" /\ reply[i] = 0
      \/ pc'[i] = "save" /\ failure[i] = "audit"
  BY <1>1 DEF AppendReply, Goto, TypeOK, Accounting
<1>5. Last(i, m)'
  BY <1>1, <1>2, LastIsNew
<1>6. CallsSettled'
  <2>. SUFFICES ASSUME NEW s \in Sessions, NEW p \in 1..Len(messages'[s]),
                       messages'[s][p].role = "assistant"
                PROVE  Settled(s, p)'
    BY DEF CallsSettled
  <2>1. CASE p \in 1..Len(messages[s]) /\ messages'[s][p] = messages[s][p]
    <3>1. CASE messages[s][p].inv # i
      BY <1>1, <1>2, <2>1, <3>1, OthersSettled DEF ConvInv
    <3>2. CASE messages[s][p].inv = i
      <4>1. AnsweredTo(messages[s], p, messages[s][p].calls)
        BY <1>1, <2>1, <3>2 DEF ConvInv, CallsSettled, Settled, Handling
      <4>2. AnsweredTo(messages'[s], p, messages[s][p].calls)
        BY <1>1, <1>2, <2>1, <4>1, Grown, AnsweredGrows
      <4>. QED
        BY <2>1, <4>2 DEF Settled
    <3>. QED
      BY <3>1, <3>2
  <2>2. CASE messages'[s][p] = m
    BY <1>1, <1>2, <1>4, <2>2 DEF Settled, AnsweredTo, Handling, Lost
  <2>. QED
    BY <1>1, <1>2, <2>1, <2>2, OldOrNew
<1>7. (Silent(i) /\ Opened(i))'
  <2>1. Extends(messages'[SessionOf[i]], messages[SessionOf[i]])
    BY <1>1, <1>2, Grown
  <2>2. Silent(i)'
    BY <1>4 DEF Silent
  <2>3. PICK p \in 1..Len(messages[SessionOf[i]]) : messages[SessionOf[i]][p] = UserMessage(i)
    BY <1>1 DEF Opened, Conversation
  <2>4. p \in 1..Len(messages'[SessionOf[i]]) /\ messages'[SessionOf[i]][p] = UserMessage(i)
    BY <1>1, <2>1, <2>3, Grown DEF Extends
  <2>. QED
    BY <2>2, <2>4 DEF Opened, Conversation, UserMessage
<1>8. OpenReply(i)'
  BY <1>1, <1>4, <1>5 DEF OpenReply, Last, AnsweredTo, AssistantMessage, Handling
<1>9. LastSaid(i)'
  <2>1. llmCalls'[i] > 0 /\ failure'[i] # "max_iterations"
    BY <1>1, <1>4 DEF Counting
  <2>. QED
    BY <1>1, <1>2, <1>4, <1>5, <2>1 DEF LastSaid
<1>. QED
  BY <1>1, <1>2, <1>3, <1>6, <1>7, <1>8, <1>9, OthersListen DEF ConvInv

LEMMA AppendResultKeeps ==
  ASSUME IInv, ConvInv, NEW i \in Invocations, AppendResult(i)
  PROVE  ConvInv'
<1>. /\ TypeOK /\ Accounting(i) /\ Counting(i) /\ Silent(i) /\ Opened(i) /\ OpenReply(i)
     /\ SessionOf[i] \in Sessions
  BY DEF IInv, ConvInv
<1>. iteration[i] \in Nat /\ reply[i] \in 0..MaxCalls /\ call[i] \in 0..MaxCalls
  BY DEF TypeOK
<1>. PICK m \in Message : m = ToolMessage(i)
  BY MessageTypes
<1>1. /\ AppendMessage(i, m) /\ pc[i] = "append_result" /\ Step(i)
      /\ UNCHANGED <<reply, failure, llmCalls>>
  BY DEF AppendResult, At, Step, audit
<1>2. m.inv = i /\ m.role = "tool" /\ m.iter = iteration[i] /\ m.call = call[i]
  BY <1>1 DEF ToolMessage
<1>3. call[i] \in 1..reply[i]
  BY <1>1 DEF OpenReply, Handling
<1>4. \/ /\ pc'[i] = "save" /\ failure[i] \in Lost
         /\ iteration'[i] = iteration[i] /\ call'[i] = call[i]
      \/ /\ pc'[i] = "execute" /\ failure[i] = "none"
         /\ iteration'[i] = iteration[i] /\ call'[i] = call[i] + 1 /\ call[i] < reply[i]
      \/ /\ pc'[i] = "loop" /\ failure[i] = "none"
         /\ iteration'[i] = iteration[i] + 1 /\ call[i] = reply[i]
  BY <1>1, <1>3 DEF AppendResult, Goto, Increment, TypeOK, Accounting, Lost
<1>5. (InPlace /\ UserFirst /\ ResultsFollowTheirCalls)'
  BY <1>1, <1>2, SaysInPlace, SaysUserFirst, SaysResults DEF ConvInv, Handling
<1>6. ASSUME NEW s \in Sessions, NEW p \in 1..Len(messages[s]), s = SessionOf[i],
             messages[s][p].role = "assistant", messages[s][p].inv = i,
             messages[s][p].iter = iteration[i], messages[s][p].calls = reply[i],
             AnsweredTo(messages[s], p, call[i] - 1)
      PROVE  AnsweredTo(messages'[s], p, call[i])
  <2>1. AnsweredTo(messages'[s], p, call[i] - 1)
    BY <1>1, <1>6, Grown, AnsweredGrows
  <2>2. LET r == Len(messages[s]) + 1 IN
          /\ r \in (p + 1)..Len(messages'[s])
          /\ messages'[s][r] = m /\ messages'[s][p] = messages[s][p]
    BY <1>1, <1>6, Grown DEF Extends
  <2>3. Answers(m, messages[s][p])
    BY <1>2, <1>3, <1>6 DEF Answers
  <2>4. \E r \in (p + 1)..Len(messages'[s]) :
          Answers(messages'[s][r], messages'[s][p]) /\ messages'[s][r].call = call[i]
    BY <1>2, <2>2, <2>3
  <2>5. \A k \in 1..call[i] : k = call[i] \/ k \in 1..(call[i] - 1)
    OBVIOUS
  <2>. QED
    BY <2>1, <2>4, <2>5 DEF AnsweredTo
<1>7. CallsSettled'
  <2>. SUFFICES ASSUME NEW s \in Sessions, NEW p \in 1..Len(messages'[s]),
                       messages'[s][p].role = "assistant"
                PROVE  Settled(s, p)'
    BY DEF CallsSettled
  <2>1. p \in 1..Len(messages[s]) /\ messages'[s][p] = messages[s][p]
    BY <1>1, <1>2, OldOrNew
  <2>2. CASE messages[s][p].inv # i
    BY <1>1, <1>2, <2>1, <2>2, OthersSettled DEF ConvInv
  <2>3. CASE messages[s][p].inv = i
    <3>1. s = SessionOf[i] /\ Settled(s, p)
      BY <2>1, <2>3 DEF ConvInv, InPlace, CallsSettled
    <3>2. CASE AnsweredTo(messages[s], p, messages[s][p].calls)
      <4>1. AnsweredTo(messages'[s], p, messages[s][p].calls)
        BY <1>1, <1>2, <2>1, <3>2, Grown, AnsweredGrows
      <4>. QED
        BY <2>1, <4>1 DEF Settled
    <3>3. CASE /\ messages[s][p].iter = iteration[i] /\ messages[s][p].calls = reply[i]
               /\ AnsweredTo(messages[s], p, call[i] - 1)
      <4>1. AnsweredTo(messages'[s], p, call[i])
        BY <1>6, <2>1, <2>3, <3>1, <3>3
      <4>. QED
        BY <1>1, <1>4, <2>1, <2>3, <3>3, <4>1 DEF Settled, Handling
    <3>. QED
      BY <1>1, <2>3, <3>1, <3>2, <3>3 DEF Settled
  <2>. QED
    BY <2>2, <2>3
<1>8. (Silent(i) /\ Opened(i))'
  <2>1. Extends(messages'[SessionOf[i]], messages[SessionOf[i]])
    BY <1>1, <1>2, Grown
  <2>2. Silent(i)'
    BY <1>4 DEF Silent
  <2>3. PICK p \in 1..Len(messages[SessionOf[i]]) : messages[SessionOf[i]][p] = UserMessage(i)
    BY <1>1 DEF Opened, Conversation
  <2>4. p \in 1..Len(messages'[SessionOf[i]]) /\ messages'[SessionOf[i]][p] = UserMessage(i)
    BY <1>1, <2>1, <2>3, Grown DEF Extends
  <2>. QED
    BY <2>2, <2>4 DEF Opened, Conversation, UserMessage
<1>9. OpenReply(i)'
  <2>. SUFFICES ASSUME pc'[i] = "execute"
                PROVE  OpenReply(i)'
    BY <1>4 DEF OpenReply, Handling
  <2>1. PICK q \in 1..Len(messages[SessionOf[i]]) :
          /\ messages[SessionOf[i]][q] = AssistantMessage(i)
          /\ AnsweredTo(messages[SessionOf[i]], q, call[i] - 1)
    BY <1>1 DEF OpenReply, Conversation, Handling
  <2>2. AnsweredTo(messages'[SessionOf[i]], q, call[i])
    BY <1>6, <2>1 DEF AssistantMessage
  <2>3. /\ q \in 1..Len(messages'[SessionOf[i]])
        /\ messages'[SessionOf[i]][q] = AssistantMessage(i)'
    BY <1>1, <1>2, <1>4, <2>1, Grown DEF Extends, AssistantMessage
  <2>4. call'[i] \in 1..reply'[i] /\ call'[i] - 1 = call[i]
    BY <1>1, <1>3, <1>4
  <2>. QED
    BY <2>2, <2>3, <2>4 DEF OpenReply, Conversation
<1>10. LastSaid(i)'
  <2>1. Last(i, m)'
    BY <1>1, <1>2, LastIsNew
  <2>2. failure'[i] # "max_iterations"
    BY <1>1, <1>4 DEF Lost
  <2>3. ASSUME pc'[i] = "loop"
        PROVE  Last(i, LastResult(i, iteration[i] - 1))'
    <3>1. iteration'[i] - 1 = iteration[i] /\ call[i] = reply[i] /\ reply'[i] = reply[i]
      BY <1>1, <1>4, <2>3
    <3>2. m = LastResult(i, iteration[i] - 1)'
      BY <3>1 DEF ToolMessage, LastResult
    <3>. QED
      BY <2>1, <3>2 DEF Last
  <2>4. ~(pc'[i] \in {"save", "returned"} /\ failure'[i] = "none")
    BY <1>1, <1>4 DEF Lost
  <2>. QED
    BY <2>2, <2>3, <2>4 DEF LastSaid
<1>. QED
  BY <1>1, <1>2, <1>5, <1>7, <1>8, <1>9, <1>10, OthersListen DEF ConvInv

(* Every step keeps what is known of the conversations.                     *)
LEMMA NextConvInv == IInv /\ ConvInv /\ [Next]_vars => ConvInv'
<1>. SUFFICES ASSUME IInv, ConvInv, [Next]_vars PROVE ConvInv'
  OBVIOUS
<1>1. CASE UNCHANGED vars
  <2>1. \A i \in Invocations : Quiet(i)
    BY <1>1 DEF IInv, Counting, Quiet, vars, loop, audit
  <2>. QED
    BY <1>1, <2>1, QuietKeeps DEF vars
<1>2. ASSUME NEW i \in Invocations, Caller(i) \/ Step(i)
      PROVE  ConvInv'
  <2>1. CASE UNCHANGED messages /\ Quiet(i)
    <3>1. ASSUME NEW j \in Invocations, j # i
          PROVE  Quiet(j)
      <4>1. /\ pc'[j] = pc[j] /\ iteration'[j] = iteration[j] /\ reply'[j] = reply[j]
            /\ call'[j] = call[j] /\ failure'[j] = failure[j] /\ llmCalls'[j] = llmCalls[j]
        BY <1>2, <3>1, OtherInvocations DEF IInv
      <4>. QED
        BY <4>1 DEF Quiet
    <3>. QED
      BY <2>1, <3>1, QuietKeeps
  <2>. QED
    BY <1>2, <2>1, QuietStep, AppendUserKeeps, AppendReplyKeeps, AppendResultKeeps
<1>. QED
  BY <1>1, <1>2 DEF Next

(* What is known of the conversations holds in every reachable state.       *)
THEOREM ConversationInvariant == Spec => []ConvInv
<1>1. Init => ConvInv
  BY InitConvInv
<1>2. IInv /\ ConvInv /\ [Next]_vars => ConvInv'
  BY NextConvInv
<1>. QED
  BY <1>1, <1>2, InductiveInvariant, PTL DEF Spec

-----------------------------------------------------------------------------
(* Theorems.                                                                *)

(* LastOwn(i) is the last message of run i.                                 *)
LEMMA LastIsLastOwn ==
  ASSUME TypeOK, NEW i \in Invocations, NEW m, m.inv = i, Last(i, m)
  PROVE  LastOwn(i) = m
<1>. DEFINE s == messages[SessionOf[i]]
            own == {p \in 1..Len(s) : s[p].inv = i}
<1>1. SessionOf[i] \in Sessions
  OBVIOUS
<1>2. Len(s) \in Nat
  BY <1>1 DEF TypeOK
<1>3. PICK p \in 1..Len(s) : s[p] = m /\ \A q \in (p + 1)..Len(s) : s[q].inv # i
  BY DEF Last, Conversation
<1>4. p \in own /\ own \in SUBSET (0..Len(s))
  BY <1>2, <1>3
<1>5. Max(own) \in own /\ Max(own) >= p
  <2>. HIDE DEF own, s
  <2>. QED
    BY <1>2, <1>4, MaxOfBounded
<1>6. Max(own) = p
  <2>1. PICK x : x = Max(own)
    OBVIOUS
  <2>2. x \in 1..Len(s) /\ s[x].inv = i /\ x >= p
    BY <1>5, <2>1
  <2>. HIDE DEF s, own
  <2>3. x \notin (p + 1)..Len(s)
    BY <1>3, <2>2
  <2>4. x = p
    BY <1>2, <2>2, <2>3
  <2>. QED
    BY <2>1, <2>4
<1>. QED
  BY <1>3, <1>6 DEF LastOwn, Conversation

(* Every result comes after the reply that asked for it and the results of  *)
(* that reply's earlier calls, whatever other runs append in between.       *)
THEOREM ResultsFollow == Spec => []ResultsFollowTheirCalls
<1>1. ConvInv => ResultsFollowTheirCalls
  BY DEF ConvInv
<1>. QED
  BY <1>1, ConversationInvariant, PTL

(* No run makes more than MaxIterations model calls, and the one that       *)
(* reports so made that many, audited, and answered the calls of its last   *)
(* reply.                                                                   *)
THEOREM LimitIsExact == Spec => []IterationLimitIsExact
<1>1. ASSUME IInv, ConvInv, NEW i \in Invocations
      PROVE  llmCalls[i] <= MaxIterations
  <2>1. /\ pc[i] \in Stages /\ iteration[i] \in 0..MaxIterations /\ Counting(i)
    BY <1>1 DEF IInv, TypeOK
  <2>2. \/ llmCalls[i] = 0 \/ llmCalls[i] = iteration[i] \/ llmCalls[i] <= MaxIterations
        \/ llmCalls[i] = iteration[i] + 1 /\ iteration[i] < MaxIterations
    BY <2>1, Zenon DEF Stages, Counting
  <2>. QED
    BY <2>1, <2>2
<1>2. ASSUME IInv, ConvInv, NEW i \in Invocations, failure[i] = "max_iterations"
      PROVE  /\ llmCalls[i] = MaxIterations /\ llmRows[i] = MaxIterations
             /\ LastOwn(i) = [ToolMessage(i) EXCEPT !.iter = MaxIterations - 1, !.call = reply[i]]
  <2>1. Last(i, LastResult(i, MaxIterations - 1))
    BY <1>2 DEF ConvInv, LastSaid
  <2>2. LastOwn(i) = LastResult(i, MaxIterations - 1)
    <3>1. PICK m : m = LastResult(i, MaxIterations - 1)
      OBVIOUS
    <3>2. TypeOK /\ m.inv = i
      <4>1. TypeOK
        BY <1>2, Zenon DEF IInv
      <4>. QED
        BY <3>1, <4>1 DEF LastResult
    <3>3. Last(i, m)
      BY <2>1, <3>1, Zenon
    <3>4. LastOwn(i) = m
      BY <3>2, <3>3, LastIsLastOwn, Zenon
    <3>. QED
      BY <3>1, <3>4, Zenon
  <2>3. [ToolMessage(i) EXCEPT !.iter = MaxIterations - 1, !.call = reply[i]] =
          LastResult(i, MaxIterations - 1)
    <3>1. TypeOK /\ reply[i] \in 0..MaxCalls /\ MaxIterations - 1 \in 0..MaxIterations
      <4>1. TypeOK
        BY <1>2, Zenon DEF IInv
      <4>2. reply \in [Invocations -> 0..MaxCalls]
        BY <4>1, Zenon DEF TypeOK
      <4>. QED
        BY <4>1, <4>2
    <3>2. PICK m \in Message : m = ToolMessage(i)
      BY <3>1, MessageTypes
    <3>3. [m EXCEPT !.iter = MaxIterations - 1, !.call = reply[i]] \in Message
      BY <3>1 DEF Message
    <3>4. PICK n \in Message : n = [m EXCEPT !.iter = MaxIterations - 1, !.call = reply[i]]
      BY <3>3
    <3>5. n = LastResult(i, MaxIterations - 1)
      BY <3>2, <3>4 DEF Message, ToolMessage, LastResult
    <3>. QED
      BY <3>2, <3>4, <3>5
  <2>. QED
    BY <1>2, <2>2, <2>3, Zenon DEF IInv, Counting
<1>3. IInv /\ ConvInv => IterationLimitIsExact
  BY <1>1, <1>2 DEF IterationLimitIsExact
<1>. QED
  BY <1>3, InductiveInvariant, ConversationInvariant, PTL

(* A run that reports success made a model call, has a row for every call it*)
(* made, and ended with a reply without tool calls.                         *)
THEOREM SuccessIsAudited == Spec => []SuccessIsFullyAudited
<1>1. ASSUME IInv, ConvInv, NEW i \in Invocations, pc[i] = "returned", failure[i] = "none"
      PROVE  /\ llmCalls[i] > 0 /\ llmRows[i] = llmCalls[i] /\ toolRows[i] = toolCalls[i]
             /\ LastOwn(i).role = "assistant" /\ LastOwn(i).calls = 0
  <2>1. Behind(i, 0, 0)
    BY <1>1 DEF IInv, Accounting
  <2>2. llmRows[i] = llmCalls[i] /\ toolRows[i] = toolCalls[i]
    BY <1>1, <2>1, CountersAreNaturals DEF Behind
  <2>3. llmCalls[i] > 0 /\ \E m \in Message :
          Last(i, m) /\ m.inv = i /\ m.role = "assistant" /\ m.calls = 0
    BY <1>1 DEF ConvInv, LastSaid
  <2>. QED
    BY <1>1, <2>2, <2>3, LastIsLastOwn DEF IInv
<1>2. IInv /\ ConvInv => SuccessIsFullyAudited
  BY <1>1 DEF SuccessIsFullyAudited
<1>. QED
  BY <1>2, InductiveInvariant, ConversationInvariant, PTL

-----------------------------------------------------------------------------
(* Callers that run one invocation per Session at a time.                   *)

OneAtATime ==
  \A i, j \in Invocations :
    SessionOf[i] = SessionOf[j] /\ Active(i) /\ Active(j) => i = j

(* Nobody speaks after a run until it has returned.                         *)
OwnTail ==
  \A s \in Sessions : \A p, q \in 1..Len(messages[s]) :
    p < q /\ Active(messages[s][p].inv) => messages[s][q].inv = messages[s][p].inv

(* What a run says is in one piece.                                         *)
Contiguous(s) ==
  \A p, q, r \in 1..Len(s) : p < q /\ q < r /\ s[p].inv = s[r].inv => s[q].inv = s[p].inv

SerialInv ==
  Serial => OneAtATime /\ OwnTail /\ \A s \in Sessions : Contiguous(messages[s])

(* A run starts in ResolveSession only.                                     *)
LEMMA Starts ==
  ASSUME IInv, NEW i \in Invocations, Caller(i) \/ Step(i), ~ResolveSession(i), pc'[i] # pc[i],
         pc'[i] # "returned"
  PROVE  pc[i] # "idle"
<1>. pc \in [Invocations -> Stages]
  BY DEF IInv, TypeOK
<1>. USE DEF At, Goto, Fail
<1>1. CASE Reject(i)
  BY <1>1 DEF Reject
<1>2. CASE ResolveFails(i)
  BY <1>2 DEF ResolveFails
<1>3. CASE Cancel(i)
  BY <1>3 DEF Cancel
<1>4. CASE Step(i)
  <2>. SUFFICES ASSUME pc[i] = "idle" PROVE FALSE
    OBVIOUS
  <2>. QED
    BY <1>4 DEF Step, AppendUser, Exhaust, StopCancelled, EnterIteration, ReadMemory,
                ReadMemoryFails, BuildPrompt, PrepareChatFails, Generate, RecordChat,
                AppendReply, ExecuteTool, RecordTool, AppendResult, SaveSession, SaveFails
<1>. QED
  BY <1>1, <1>2, <1>3, <1>4 DEF Caller

(* A run that has returned stays so.                                        *)
LEMMA ReturnedStays ==
  ASSUME IInv, NEW i \in Invocations, Caller(i) \/ Step(i), pc[i] = "returned"
  PROVE  pc'[i] = "returned" /\ failure'[i] = failure[i]
<1>1. ~Step(i) /\ (Caller(i) => Cancel(i))
  BY DEF Step, Caller, Reject, ResolveFails, ResolveSession, AppendUser, Exhaust, StopCancelled,
         EnterIteration, ReadMemory, ReadMemoryFails, BuildPrompt, PrepareChatFails, Generate,
         RecordChat, AppendReply, ExecuteTool, RecordTool, AppendResult, SaveSession, SaveFails, At
<1>. QED
  BY <1>1 DEF Cancel, Active

(* Steps that start no run and append nothing.                              *)
LEMMA SerialQuiet ==
  ASSUME SerialInv, UNCHANGED messages,
         \A i \in Invocations : Active(i)' => Active(i), InPlace, TypeOK
  PROVE  SerialInv'
<1>. SUFFICES ASSUME Serial PROVE SerialInv'
  BY DEF SerialInv
<1>1. OneAtATime'
  BY DEF SerialInv, OneAtATime
<1>2. OwnTail'
  <2>. SUFFICES ASSUME NEW s \in Sessions, NEW p \in 1..Len(messages[s]),
                       NEW q \in 1..Len(messages[s]), p < q, Active(messages[s][p].inv)'
                PROVE  messages[s][q].inv = messages[s][p].inv
    BY DEF OwnTail
  <2>1. messages[s][p].inv \in Invocations
    BY MessageAt
  <2>2. Active(messages[s][p].inv)
    BY <2>1 DEF Active
  <2>. QED
    BY <2>2 DEF SerialInv, OwnTail
<1>. QED
  BY <1>1, <1>2 DEF SerialInv, Contiguous

(* A run starts where no other one is running, and has said nothing.        *)
LEMMA SerialStart ==
  ASSUME IInv, ConvInv, SerialInv, NEW i \in Invocations, ResolveSession(i)
  PROVE  SerialInv'
<1>. SUFFICES ASSUME Serial PROVE SerialInv'
  BY DEF SerialInv
<1>1. /\ pc[i] = "idle" /\ UNCHANGED messages /\ TypeOK
      /\ \A j \in Invocations : SessionOf[j] = SessionOf[i] => ~Active(j)
  BY DEF ResolveSession, At, IInv
<1>2. \A j \in Invocations : j # i => pc'[j] = pc[j]
  BY <1>1, OtherInvocations DEF Caller
<1>3. OneAtATime'
  BY <1>1, <1>2 DEF SerialInv, OneAtATime, Active
<1>4. OwnTail'
  <2>. SUFFICES ASSUME NEW s \in Sessions, NEW p \in 1..Len(messages[s]),
                       NEW q \in 1..Len(messages[s]), p < q, Active(messages[s][p].inv)'
                PROVE  messages[s][q].inv = messages[s][p].inv
    BY <1>1 DEF OwnTail
  <2>1. messages[s][p].inv \in Invocations
    BY <1>1, MessageAt
  <2>2. messages[s][p].inv # i
    BY <1>1 DEF ConvInv, Silent, InPlace, Conversation
  <2>3. Active(messages[s][p].inv)
    BY <1>1, <1>2, <2>1, <2>2 DEF Active
  <2>. QED
    BY <2>3 DEF SerialInv, OwnTail
<1>. QED
  BY <1>1, <1>3, <1>4 DEF SerialInv, Contiguous

(* A run speaks after itself, or after runs that have returned.             *)
LEMMA SerialAppend ==
  ASSUME IInv, ConvInv, SerialInv, NEW i \in Invocations, Active(i),
         NEW m \in Message, m.inv = i, AppendMessage(i, m),
         \A j \in Invocations : Active(j)' => Active(j)
  PROVE  SerialInv'
<1>. SUFFICES ASSUME Serial PROVE SerialInv'
  BY DEF SerialInv
<1>. TypeOK /\ OneAtATime /\ OwnTail /\ InPlace
  BY DEF IInv, ConvInv, SerialInv
<1>1. OneAtATime'
  BY DEF OneAtATime
<1>2. OwnTail'
  <2>. SUFFICES ASSUME NEW s \in Sessions, NEW p \in 1..Len(messages'[s]),
                       NEW q \in 1..Len(messages'[s]), p < q, Active(messages[s][p].inv)'
                PROVE  messages'[s][q].inv = messages'[s][p].inv
    BY DEF OwnTail
  <2>1. p \in 1..Len(messages[s]) /\ messages'[s][p] = messages[s][p]
    BY OldOrNew
  <2>2. messages[s][p].inv \in Invocations /\ SessionOf[messages[s][p].inv] = s
    BY <2>1, MessageAt DEF InPlace
  <2>3. Active(messages[s][p].inv)
    BY <2>1, <2>2 DEF Active
  <2>4. CASE q \in 1..Len(messages[s]) /\ messages'[s][q] = messages[s][q]
    BY <2>1, <2>3, <2>4 DEF OwnTail
  <2>5. CASE s = SessionOf[i] /\ messages'[s][q] = m
    BY <2>1, <2>2, <2>3, <2>5 DEF OneAtATime
  <2>. QED
    BY <2>4, <2>5, OldOrNew
<1>3. ASSUME NEW s \in Sessions
      PROVE  Contiguous(messages'[s])
  <2>. SUFFICES ASSUME NEW p \in 1..Len(messages'[s]), NEW q \in 1..Len(messages'[s]),
                       NEW r \in 1..Len(messages'[s]), p < q, q < r,
                       messages'[s][p].inv = messages'[s][r].inv
                PROVE  messages'[s][q].inv = messages'[s][p].inv
    BY DEF Contiguous
  <2>1. /\ p \in 1..Len(messages[s]) /\ messages'[s][p] = messages[s][p]
        /\ q \in 1..Len(messages[s]) /\ messages'[s][q] = messages[s][q]
    BY OldOrNew
  <2>2. CASE r \in 1..Len(messages[s]) /\ messages'[s][r] = messages[s][r]
    BY <2>1, <2>2 DEF SerialInv, Contiguous
  <2>3. CASE s = SessionOf[i] /\ messages'[s][r] = m
    BY <2>1, <2>3 DEF OwnTail
  <2>. QED
    BY <2>2, <2>3, OldOrNew
<1>. QED
  BY <1>1, <1>2, <1>3 DEF SerialInv

LEMMA NextSerialInv == IInv /\ ConvInv /\ SerialInv /\ [Next]_vars => SerialInv'
<1>. SUFFICES ASSUME IInv, ConvInv, SerialInv, [Next]_vars PROVE SerialInv'
  OBVIOUS
<1>. TypeOK /\ InPlace
  BY DEF IInv, ConvInv
<1>1. CASE UNCHANGED vars
  <2>1. UNCHANGED messages /\ \A i \in Invocations : Active(i)' => Active(i)
    BY <1>1 DEF vars, Active
  <2>. QED
    BY <2>1, SerialQuiet
<1>2. ASSUME NEW i \in Invocations, Caller(i) \/ Step(i)
      PROVE  SerialInv'
  <2>1. CASE ResolveSession(i)
    BY <2>1, SerialStart
  <2>2. CASE ~ResolveSession(i)
    <3>1. ASSUME NEW j \in Invocations, Active(j)'
          PROVE  Active(j)
      <4>1. CASE j # i
        <5>1. pc'[j] = pc[j]
          BY <1>2, <4>1, OtherInvocations
        <5>. QED
          BY <3>1, <5>1 DEF Active
      <4>2. CASE j = i
        <5>1. pc'[i] = pc[i] \/ pc[i] # "idle"
          BY <1>2, <2>2, <3>1, <4>2, Starts DEF Active
        <5>2. pc[i] = "returned" => pc'[i] = "returned"
          BY <1>2, ReturnedStays
        <5>. QED
          BY <3>1, <4>2, <5>1, <5>2 DEF Active
      <4>. QED
        BY <4>1, <4>2
    <3>2. CASE UNCHANGED messages
      BY <3>1, <3>2, SerialQuiet
    <3>3. CASE AppendUser(i) \/ AppendReply(i) \/ AppendResult(i)
      <4>1. Active(i) /\ \E m \in Message : m.inv = i /\ AppendMessage(i, m)
        <5>1. /\ UserMessage(i).inv = i /\ AssistantMessage(i).inv = i
              /\ ToolMessage(i).inv = i
          BY DEF UserMessage, AssistantMessage, ToolMessage
        <5>. QED
          BY <3>3, <5>1, MessageTypes DEF AppendUser, AppendReply, AppendResult, At, Active
      <4>. QED
        BY <3>1, <4>1, SerialAppend
    <3>. QED
      BY <1>2, <3>2, <3>3, QuietStep
  <2>. QED
    BY <2>1, <2>2
<1>. QED
  BY <1>1, <1>2 DEF Next

(* One invocation per Session at a time keeps runs apart in its messages.   *)
THEOREM SerialInvariant == Spec => []SerialInv
<1>1. Init => SerialInv
  <2>. SUFFICES ASSUME Init PROVE SerialInv
    OBVIOUS
  <2>1. /\ \A s \in Sessions : messages[s] = <<>>
        /\ \A i \in Invocations : ~Active(i)
    BY DEF Init, Active
  <2>. QED
    BY <2>1 DEF SerialInv, OneAtATime, OwnTail, Contiguous
<1>2. IInv /\ ConvInv /\ SerialInv /\ [Next]_vars => SerialInv'
  BY NextSerialInv
<1>. QED
  BY <1>1, <1>2, InductiveInvariant, ConversationInvariant, PTL DEF Spec

-----------------------------------------------------------------------------
(* Prompts.                                                                 *)

(* What From takes of a conversation.                                       *)
LEMMA FromIs ==
  ASSUME NEW s \in Seq(Message), NEW p \in 1..Len(s)
  PROVE  /\ Len(From(s, p)) = Len(s) - p + 1
         /\ \A q \in 1..Len(From(s, p)) : From(s, p)[q] = s[p + q - 1]
         /\ \A r \in p..Len(s) : /\ r - p + 1 \in 1..Len(From(s, p))
                                /\ From(s, p)[r - p + 1] = s[r]
<1>1. Len(From(s, p)) = Len(s) - p + 1 /\ \A q \in 1..(Len(s) - p + 1) : From(s, p)[q] = s[p + q - 1]
  BY DEF From
<1>2. ASSUME NEW r \in p..Len(s)
      PROVE  /\ r - p + 1 \in 1..Len(From(s, p))
             /\ From(s, p)[r - p + 1] = s[r]
  <2>1. r - p + 1 \in 1..(Len(s) - p + 1) /\ p + (r - p + 1) - 1 = r
    OBVIOUS
  <2>. QED
    BY <1>1, <2>1
<1>. QED
  BY <1>1, <1>2

(* When the conversation has the request, Build takes what it has from some *)
(* user message on, at the latest from the last one with the request's text.*)
LEMMA BuildTakesTurns ==
  ASSUME NEW s \in Seq(Message), NEW request \in Message,
         NEW p \in TurnStarts(s), s[p].text = request.text, Build(s, request).ok
  PROVE  \E first, current \in TurnStarts(s) :
           /\ first <= current /\ p <= current /\ s[current].text = request.text
           /\ Build(s, request).messages = From(s, first)
<1>. DEFINE current == CurrentStart(s, request.text)
            found == {q \in TurnStarts(s) : s[q].text = request.text}
            turns == LimitCompleteTurns({q \in TurnStarts(s) : q < current}, HistoryLimit)
            fitting == {q \in turns \cup {current} : RuneCount(From(s, q)) <= Budget}
<1>1. Len(s) \in Nat /\ {0} \cup found \in SUBSET (0..Len(s)) /\ p \in found
  BY DEF TurnStarts
<1>2. current \in {0} \cup found /\ current >= p
  BY <1>1, MaxOfBounded DEF CurrentStart
<1>3. current \in found /\ current # 0
  <2>1. p # 0 /\ p \in Nat
    BY DEF TurnStarts
  <2>. HIDE DEF current, found
  <2>2. current # 0
    BY <1>2, <2>1
  <2>. QED
    BY <1>2, <2>2
<1>4. Build(s, request) = IF fitting = {} THEN [ok |-> FALSE, messages |-> <<>>]
                          ELSE [ok |-> TRUE, messages |-> From(s, Min(fitting))]
  BY <1>3 DEF Build
<1>5. fitting \in SUBSET TurnStarts(s) /\ \A q \in fitting : q <= current
  <2>1. current \in TurnStarts(s) /\ current \in Nat
    BY <1>3 DEF TurnStarts
  <2>2. ASSUME NEW q \in fitting
        PROVE  q \in TurnStarts(s) /\ q <= current
    <3>1. q = current \/ q \in {o \in TurnStarts(s) : o < current}
      BY DEF LimitCompleteTurns
    <3>2. q \in TurnStarts(s) => q \in Nat
      BY DEF TurnStarts
    <3>. HIDE DEF current
    <3>. QED
      BY <2>1, <3>1, <3>2
  <2>. QED
    BY <2>2
<1>6. fitting # {} /\ Build(s, request).messages = From(s, Min(fitting))
  <2>. HIDE DEF fitting
  <2>. QED
    BY <1>4
<1>7. Min(fitting) \in fitting
  <2>1. TurnStarts(s) \in SUBSET Nat
    BY DEF TurnStarts
  <2>2. fitting \in SUBSET Nat
    BY <1>5, <2>1
  <2>. HIDE DEF fitting
  <2>. QED
    BY <1>6, <2>2, MinOfNaturals
<1>. QED
  BY <1>2, <1>3, <1>5, <1>6, <1>7

(* An invocation changes no other one's prompt.                             *)
LEMMA OtherPrompts ==
  ASSUME TypeOK, NEW i \in Invocations, Caller(i) \/ Step(i),
         NEW j \in Invocations, j # i
  PROVE  prompt'[j] = prompt[j]
<1>1. prompt \in [Invocations -> Seq(Message)]
  BY DEF TypeOK
<1>2. UNCHANGED prompt \/ \E built : prompt' = [prompt EXCEPT ![i] = built]
  BY DEF Caller, Reject, ResolveFails, ResolveSession, Cancel,
         Step, AppendUser, Exhaust, StopCancelled, EnterIteration, ReadMemory,
         ReadMemoryFails, BuildPrompt, PrepareChatFails, Generate, RecordChat,
         AppendReply, ExecuteTool, RecordTool, AppendResult, SaveSession, SaveFails
<1>. QED
  BY <1>1, <1>2

(* Only the snapshot makes a prompt for a model call.                       *)
LEMMA PromptMade ==
  ASSUME IInv, NEW i \in Invocations, Caller(i) \/ Step(i),
         NEW j \in Invocations, pc'[j] = "chat"
  PROVE  \/ pc[j] = "chat" /\ prompt'[j] = prompt[j]
         \/ /\ j = i /\ pc[i] = "snapshot" /\ UNCHANGED messages
            /\ Build(Conversation(i), UserMessage(i)).ok
            /\ prompt'[i] = Build(Conversation(i), UserMessage(i)).messages
<1>. /\ pc \in [Invocations -> Stages] /\ TypeOK
  BY DEF IInv, TypeOK
<1>. USE DEF At, Goto, Fail
<1>1. CASE j # i
  <2>1. pc'[j] = pc[j]
    BY <1>1, OtherInvocations
  <2>2. prompt'[j] = prompt[j]
    BY <1>1, OtherPrompts
  <2>. QED
    BY <2>1, <2>2
<1>2. CASE j = i /\ BuildPrompt(i)
  <2>. DEFINE built == Build(Conversation(i), UserMessage(i))
  <2>1. /\ pc[i] = "snapshot" /\ UNCHANGED messages
        /\ \/ built.ok /\ prompt' = [prompt EXCEPT ![i] = built.messages]
           \/ pc' = [pc EXCEPT ![i] = "save"]
    BY <1>2 DEF BuildPrompt
  <2>2. prompt \in [Invocations -> Seq(Message)]
    BY DEF TypeOK
  <2>. HIDE DEF built
  <2>3. built.ok /\ prompt'[i] = built.messages
    BY <1>2, <2>1, <2>2
  <2>. QED
    BY <1>2, <2>1, <2>3 DEF built
<1>3. CASE j = i /\ ~BuildPrompt(i)
  <2>1. Cancel(i) \/ ~Caller(i)
    BY <1>3 DEF Caller, Reject, ResolveFails, ResolveSession
  <2>2. CASE Cancel(i)
    BY <1>3, <2>2 DEF Cancel
  <2>3. ASSUME Step(i) PROVE FALSE
    BY <1>3, <2>3 DEF Step, AppendUser, Exhaust, StopCancelled, EnterIteration, ReadMemory,
                 ReadMemoryFails, PrepareChatFails, Generate, RecordChat,
                 AppendReply, ExecuteTool, RecordTool, AppendResult, SaveSession, SaveFails
  <2>. QED
    BY <2>1, <2>2, <2>3
<1>. QED
  BY <1>1, <1>2, <1>3

(* The runs of a Session can be told apart: they run one at a time, or have *)
(* different texts.                                                         *)
RunsApart ==
  \/ Serial
  \/ \A i, j \in Invocations : SessionOf[i] = SessionOf[j] /\ TextOf[i] = TextOf[j] => i = j

(* What the prompt of run i, about to call the model, holds.                *)
HoldsOwn(i) ==
  \A p \in 1..Len(Conversation(i)) : Conversation(i)[p].inv = i =>
    \E q \in 1..Len(prompt[i]) : prompt[i][q] = Conversation(i)[p]

NoOrphan(i) ==
  \A p \in 1..Len(prompt[i]) : prompt[i][p].role = "tool" =>
    \E q \in 1..(p - 1) : Answers(prompt[i][p], prompt[i][q])

OpenOnlyIfLost(i) ==
  \A p \in 1..Len(prompt[i]) : Unanswered(prompt[i], p) # {} =>
    /\ prompt[i][p].inv \in Invocations
    /\ pc[prompt[i][p].inv] = "returned" /\ failure[prompt[i][p].inv] \in Lost

(* Where the prompt that the snapshot makes begins: at a user message, not  *)
(* after the run's own.                                                     *)
LEMMA PromptBegins ==
  ASSUME IInv, ConvInv, SerialInv, RunsApart, NEW i \in Invocations, pc[i] = "snapshot",
         Build(Conversation(i), UserMessage(i)).ok
  PROVE  \E first \in 1..Len(Conversation(i)) :
           /\ Build(Conversation(i), UserMessage(i)).messages = From(Conversation(i), first)
           /\ Conversation(i)[first].role = "user"
           /\ \A p \in 1..Len(Conversation(i)) : Conversation(i)[p].inv = i => first <= p
<1>. DEFINE s == Conversation(i)
<1>1. /\ TypeOK /\ SessionOf[i] \in Sessions /\ s \in Seq(Message)
      /\ UserMessage(i) \in Message
  BY MessageTypes DEF IInv, TypeOK, Conversation
<1>2. PICK p \in 1..Len(s) : s[p] = UserMessage(i)
  BY DEF ConvInv, Opened
<1>3. p \in TurnStarts(s) /\ s[p].text = UserMessage(i).text /\ UserMessage(i).text = TextOf[i]
      /\ s[p].inv = i
  BY <1>2 DEF TurnStarts, UserMessage
<1>4. PICK first \in TurnStarts(s), current \in TurnStarts(s) :
        /\ first <= current /\ p <= current /\ s[current].text = TextOf[i]
        /\ Build(s, UserMessage(i)).messages = From(s, first)
  BY <1>1, <1>3, BuildTakesTurns
<1>5. first \in 1..Len(s) /\ current \in 1..Len(s) /\ s[first].role = "user"
      /\ s[current].role = "user"
  BY DEF TurnStarts
<1>6. /\ s[current].inv \in Invocations /\ SessionOf[s[current].inv] = SessionOf[i]
      /\ s[current] = UserMessage(s[current].inv)
      /\ \A q \in 1..(current - 1) : s[q].inv # s[current].inv
  BY <1>1, <1>5, MessageAt DEF ConvInv, InPlace, UserFirst, Conversation
<1>7. s[current].inv = i
  <2>1. CASE Serial
    <3>1. Active(i) /\ OwnTail
      BY <2>1 DEF SerialInv, Active
    <3>2. p = current \/ p < current
      BY <1>4, <1>5
    <3>. QED
      BY <1>1, <1>3, <1>5, <3>1, <3>2 DEF OwnTail, Conversation
  <2>2. CASE ~Serial
    <3>1. TextOf[s[current].inv] = TextOf[i]
      <4>1. \A j \in Invocations : UserMessage(j).text = TextOf[j]
        BY DEF UserMessage
      <4>. QED
        BY <1>4, <1>6, <4>1
    <3>. QED
      BY <1>6, <2>2, <3>1 DEF RunsApart
  <2>. QED
    BY <2>1, <2>2
<1>8. ASSUME NEW q \in 1..Len(s), s[q].inv = i
      PROVE  first <= q
  BY <1>4, <1>5, <1>6, <1>7, <1>8
<1>. QED
  BY <1>4, <1>5, <1>8

(* The prompt that begins there holds what the run said.                    *)
LEMMA SnapshotHoldsOwn ==
  ASSUME IInv, ConvInv, SerialInv, RunsApart, NEW i \in Invocations, pc[i] = "snapshot",
         Build(Conversation(i), UserMessage(i)).ok,
         prompt'[i] = Build(Conversation(i), UserMessage(i)).messages, UNCHANGED messages
  PROVE  HoldsOwn(i)'
<1>. DEFINE s == Conversation(i)
<1>1. s \in Seq(Message)
  BY DEF IInv, TypeOK, Conversation
<1>2. PICK first \in 1..Len(s) :
        /\ prompt'[i] = From(s, first)
        /\ \A p \in 1..Len(s) : s[p].inv = i => first <= p
  BY PromptBegins
<1>. SUFFICES ASSUME NEW p \in 1..Len(s), s[p].inv = i
              PROVE  \E q \in 1..Len(From(s, first)) : From(s, first)[q] = s[p]
  BY <1>2 DEF HoldsOwn, Conversation
<1>3. p \in first..Len(s)
  BY <1>2
<1>. QED
  BY <1>1, <1>3, FromIs

(* With one invocation at a time, a result in it has its reply in it.       *)
LEMMA SnapshotNoOrphan ==
  ASSUME IInv, ConvInv, SerialInv, Serial, NEW i \in Invocations, pc[i] = "snapshot",
         Build(Conversation(i), UserMessage(i)).ok,
         prompt'[i] = Build(Conversation(i), UserMessage(i)).messages
  PROVE  NoOrphan(i)'
<1>. DEFINE s == Conversation(i)
<1>1. s \in Seq(Message) /\ SessionOf[i] \in Sessions
  BY DEF IInv, TypeOK, Conversation
<1>2. PICK first \in 1..Len(s) : prompt'[i] = From(s, first) /\ s[first].role = "user"
  BY PromptBegins DEF RunsApart
<1>. DEFINE t == From(s, first)
<1>. SUFFICES ASSUME NEW p \in 1..Len(t), t[p].role = "tool"
              PROVE  \E q \in 1..(p - 1) : Answers(t[p], t[q])
  BY <1>2 DEF NoOrphan
<1>3. Len(t) = Len(s) - first + 1 /\ t[p] = s[first + p - 1]
      /\ \A r \in first..Len(s) : t[r - first + 1] = s[r]
  BY <1>1, FromIs
<1>. DEFINE r == first + p - 1
<1>. HIDE DEF s, t
<1>4. r \in first..Len(s) /\ r \in 1..Len(s) /\ s[r].role = "tool"
  BY <1>1, <1>3
<1>5. PICK q \in 1..(r - 1) : Answers(s[r], s[q])
  BY <1>1, <1>4 DEF ConvInv, ResultsFollowTheirCalls, s, Conversation
<1>6. q \in 1..Len(s) /\ s[q].inv = s[r].inv
  BY <1>4, <1>5 DEF Answers
<1>7. q >= first
  <2>. SUFFICES ASSUME q < first PROVE FALSE
    BY <1>6
  <2>1. first < r
    BY <1>2, <1>4
  <2>2. s[first].inv = s[q].inv
    BY <1>1, <1>4, <1>6, <2>1 DEF SerialInv, Contiguous, s, Conversation
  <2>3. \A k \in 1..(first - 1) : s[k].inv # s[first].inv
    BY <1>1, <1>2 DEF ConvInv, UserFirst, s, Conversation
  <2>. QED
    BY <1>6, <2>2, <2>3
<1>8. q - first + 1 \in 1..(p - 1) /\ t[q - first + 1] = s[q]
  BY <1>3, <1>6, <1>7
<1>. QED
  BY <1>3, <1>5, <1>8

(* And a call without a result in it is one at which a run failed.          *)
LEMMA SnapshotOpenOnlyIfLost ==
  ASSUME IInv, ConvInv, SerialInv, Serial, NEW i \in Invocations, Caller(i) \/ Step(i),
         pc[i] = "snapshot", Build(Conversation(i), UserMessage(i)).ok,
         prompt'[i] = Build(Conversation(i), UserMessage(i)).messages
  PROVE  OpenOnlyIfLost(i)'
<1>. DEFINE s == Conversation(i)
<1>1. s \in Seq(Message) /\ SessionOf[i] \in Sessions /\ TypeOK
  BY DEF IInv, TypeOK, Conversation
<1>2. PICK first \in 1..Len(s) : prompt'[i] = From(s, first)
  BY PromptBegins DEF RunsApart
<1>. DEFINE t == From(s, first)
<1>. SUFFICES ASSUME NEW p \in 1..Len(t), Unanswered(t, p) # {}
              PROVE  /\ t[p].inv \in Invocations
                     /\ pc'[t[p].inv] = "returned" /\ failure'[t[p].inv] \in Lost
  BY <1>2 DEF OpenOnlyIfLost, Unanswered
<1>3. Len(t) = Len(s) - first + 1 /\ t[p] = s[first + p - 1]
      /\ \A r \in first..Len(s) : r - first + 1 \in 1..Len(t) /\ t[r - first + 1] = s[r]
  BY <1>1, FromIs
<1>. DEFINE r == first + p - 1
            j == s[r].inv
<1>. HIDE DEF s, t
<1>4. r \in first..Len(s) /\ r \in 1..Len(s) /\ t[p] = s[r]
  BY <1>1, <1>3
<1>5. PICK k \in 1..MaxCalls :
        /\ t[p].role = "assistant" /\ k <= t[p].calls
        /\ ~ \E q \in (p + 1)..Len(t) : Answers(t[q], t[p]) /\ t[q].call = k
  BY DEF Unanswered
<1>6. ~AnsweredTo(s, r, s[r].calls)
  <2>. SUFFICES ASSUME AnsweredTo(s, r, s[r].calls) PROVE FALSE
    OBVIOUS
  <2>1. s[r].calls \in 0..MaxCalls
    <3>1. s[r] \in Message
      BY <1>1, <1>4
    <3>. QED
      BY <3>1 DEF Message
  <2>2. k \in 1..s[r].calls
    BY <1>4, <1>5, <2>1
  <2>3. PICK q \in (r + 1)..Len(s) : Answers(s[q], s[r]) /\ s[q].call = k
    BY <2>2 DEF AnsweredTo
  <2>4. q \in first..Len(s)
    BY <1>4
  <2>5. q - first + 1 \in (p + 1)..Len(t)
    BY <1>3, <1>4, <2>4
  <2>6. t[q - first + 1] = s[q]
    BY <1>3, <2>4
  <2>. QED
    BY <1>4, <1>5, <2>3, <2>5, <2>6
<1>7. j \in Invocations /\ SessionOf[j] = SessionOf[i]
  BY <1>1, <1>4, MessageAt DEF ConvInv, InPlace, s, Conversation
<1>8. /\ s = messages[SessionOf[i]] /\ s[r].role = "assistant"
      /\ Settled(SessionOf[i], r)
  BY <1>1, <1>4, <1>5 DEF ConvInv, CallsSettled, s, Conversation
<1>9. j = i \/ ~Active(j)
  BY <1>7 DEF SerialInv, OneAtATime, Active
<1>10. pc[j] = "returned" /\ failure[j] \in Lost
  BY <1>6, <1>8, <1>9 DEF Settled, Active, Handling
<1>11. pc'[j] = pc[j] /\ failure'[j] = failure[j]
  BY <1>1, <1>7, <1>10, OtherInvocations
<1>. QED
  BY <1>4, <1>7, <1>10, <1>11

(* What is known of the prompts of pending model calls.                     *)
PromptInv ==
  \A i \in Invocations : pc[i] = "chat" =>
    /\ RunsApart => HoldsOwn(i)
    /\ Serial => NoOrphan(i) /\ OpenOnlyIfLost(i)

(* A pending prompt keeps what it holds while others go on.                 *)
LEMMA PendingPrompt ==
  ASSUME IInv, ConvInv, PromptInv, NEW i \in Invocations, Caller(i) \/ Step(i),
         NEW j \in Invocations, pc[j] = "chat", pc'[j] = "chat", prompt'[j] = prompt[j]
  PROVE  /\ RunsApart => HoldsOwn(j)'
         /\ Serial => NoOrphan(j)' /\ OpenOnlyIfLost(j)'
<1>1. RunsApart => HoldsOwn(j)'
  <2>. SUFFICES ASSUME HoldsOwn(j), NEW p \in 1..Len(messages'[SessionOf[j]]),
                       messages'[SessionOf[j]][p].inv = j
                PROVE  \E q \in 1..Len(prompt[j]) : prompt[j][q] = messages'[SessionOf[j]][p]
    <3>1. RunsApart => HoldsOwn(j)
      BY DEF PromptInv
    <3>2. prompt'[j] = prompt[j]
      OBVIOUS
    <3>. QED
      BY <3>1, <3>2 DEF HoldsOwn, Conversation
  <2>1. CASE UNCHANGED messages
    BY <2>1 DEF HoldsOwn, Conversation
  <2>2. CASE AppendUser(i) \/ AppendReply(i) \/ AppendResult(i)
    <3>1. PICK m \in Message : m.inv = i /\ AppendMessage(i, m) /\ pc[i] # "chat"
      <4>1. /\ UserMessage(i).inv = i /\ AssistantMessage(i).inv = i
            /\ ToolMessage(i).inv = i
        BY DEF UserMessage, AssistantMessage, ToolMessage
      <4>. QED
        BY <2>2, <4>1, MessageTypes DEF IInv, AppendUser, AppendReply, AppendResult, At
    <3>2. TypeOK /\ SessionOf[j] \in Sessions /\ i # j
      BY <3>1 DEF IInv
    <3>3. /\ p \in 1..Len(messages[SessionOf[j]])
          /\ messages'[SessionOf[j]][p] = messages[SessionOf[j]][p]
      BY <3>1, <3>2, OldOrNew
    <3>. QED
      BY <3>3 DEF HoldsOwn, Conversation
  <2>. QED
    BY <2>1, <2>2, QuietStep
<1>2. Serial => NoOrphan(j)'
  BY DEF PromptInv, NoOrphan, Answers
<1>3. Serial => OpenOnlyIfLost(j)'
  <2>. SUFFICES ASSUME OpenOnlyIfLost(j), NEW p \in 1..Len(prompt[j]),
                       Unanswered(prompt[j], p) # {}
                PROVE  /\ prompt[j][p].inv \in Invocations
                       /\ pc'[prompt[j][p].inv] = "returned"
                       /\ failure'[prompt[j][p].inv] \in Lost
    BY DEF PromptInv, OpenOnlyIfLost, Unanswered, Answers
  <2>. DEFINE k == prompt[j][p].inv
  <2>1. k \in Invocations /\ pc[k] = "returned" /\ failure[k] \in Lost
    BY DEF OpenOnlyIfLost
  <2>2. pc'[k] = "returned" /\ failure'[k] = failure[k]
    <3>1. CASE k = i
      BY <2>1, <3>1, ReturnedStays
    <3>2. CASE k # i
      BY <2>1, <3>2, OtherInvocations DEF IInv
    <3>. QED
      BY <3>1, <3>2
  <2>. QED
    BY <2>1, <2>2
<1>. QED
  BY <1>1, <1>2, <1>3

LEMMA NextPromptInv ==
  IInv /\ ConvInv /\ SerialInv /\ PromptInv /\ [Next]_vars => PromptInv'
<1>. SUFFICES ASSUME IInv, ConvInv, SerialInv, PromptInv, [Next]_vars PROVE PromptInv'
  OBVIOUS
<1>1. CASE UNCHANGED vars
  <2>1. UNCHANGED <<messages, pc, failure, prompt>>
    BY <1>1 DEF vars
  <2>2. \A i : /\ HoldsOwn(i)' <=> HoldsOwn(i)
               /\ NoOrphan(i)' <=> NoOrphan(i)
    BY <2>1 DEF HoldsOwn, NoOrphan, Conversation
  <2>3. \A i : OpenOnlyIfLost(i)' <=> OpenOnlyIfLost(i)
    BY <2>1 DEF OpenOnlyIfLost
  <2>. QED
    BY <2>1, <2>2, <2>3 DEF PromptInv
<1>2. ASSUME NEW i \in Invocations, Caller(i) \/ Step(i), NEW j \in Invocations, pc'[j] = "chat"
      PROVE  (/\ RunsApart => HoldsOwn(j)
              /\ Serial => NoOrphan(j) /\ OpenOnlyIfLost(j))'
  <2>1. CASE pc[j] = "chat" /\ prompt'[j] = prompt[j]
    BY <1>2, <2>1, PendingPrompt DEF RunsApart
  <2>2. CASE /\ j = i /\ pc[i] = "snapshot" /\ UNCHANGED messages
             /\ Build(Conversation(i), UserMessage(i)).ok
             /\ prompt'[i] = Build(Conversation(i), UserMessage(i)).messages
    <3>1. RunsApart => HoldsOwn(i)'
      BY <2>2, SnapshotHoldsOwn
    <3>2. Serial => NoOrphan(i)' /\ OpenOnlyIfLost(i)'
      BY <1>2, <2>2, SnapshotNoOrphan, SnapshotOpenOnlyIfLost
    <3>. QED
      BY <2>2, <3>1, <3>2 DEF RunsApart
  <2>. QED
    BY <1>2, <2>1, <2>2, PromptMade
<1>. QED
  BY <1>1, <1>2 DEF Next, PromptInv

THEOREM PromptInvariant == Spec => []PromptInv
<1>1. Init => PromptInv
  BY DEF Init, PromptInv
<1>2. IInv /\ ConvInv /\ SerialInv /\ PromptInv /\ [Next]_vars => PromptInv'
  BY NextPromptInv
<1>. QED
  BY <1>1, <1>2, InductiveInvariant, ConversationInvariant, SerialInvariant, PTL DEF Spec

(* Neither the history limit nor the budget takes from a model call what    *)
(* its own run has said, when runs of a Session do not overlap or have      *)
(* different texts.                                                         *)
THEOREM PromptIsWhole == Spec => [](RunsApart => PromptHoldsOwnTurn)
<1>1. PromptInv => (RunsApart => PromptHoldsOwnTurn)
  BY DEF PromptInv, PromptHoldsOwnTurn, HoldsOwn
<1>. QED
  BY <1>1, PromptInvariant, PTL

(* When runs of a Session do not overlap, no prompt has a result without    *)
(* the reply that asked for it.                                             *)
THEOREM NoOrphans == Spec => [](Serial => NoOrphanResults)
<1>1. PromptInv => (Serial => NoOrphanResults)
  BY DEF PromptInv, NoOrphanResults, NoOrphan
<1>. QED
  BY <1>1, PromptInvariant, PTL

(* When runs of a Session do not overlap, a prompt has an unanswered call   *)
(* only where an earlier run returned the error it failed with there.       *)
THEOREM UnansweredOnlyIfFailed == Spec => [](Serial => UnansweredCallsComeFromFailedRuns)
<1>1. PromptInv => (Serial => UnansweredCallsComeFromFailedRuns)
  BY DEF PromptInv, UnansweredCallsComeFromFailedRuns, OpenOnlyIfLost, Lost
<1>. QED
  BY <1>1, PromptInvariant, PTL
=============================================================================
