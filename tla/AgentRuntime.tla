----------------------------- MODULE AgentRuntime -----------------------------
(***************************************************************************)
(* AgentService.Invoke and the ReActLoop it runs: several invocations, each*)
(* a goroutine of its own, on Sessions they may share.  One action per step*)
(* that another goroutine can fall between: every Append of the Session    *)
(* (which holds the Session's lock), the prompt snapshot, the model call   *)
(* and the tool call, the row each of them writes, and the final Save.     *)
(*                                                                         *)
(* The audited Provider call (Service.Chat) and the audited tool call      *)
(* (Executor.Execute) appear with the two steps their callers can tell     *)
(* apart, the effect and its row; ToolExecutor and ResponseStream model    *)
(* what happens inside.  The Session service (Resolve, Save), the model    *)
(* and the tools are outside the repository.                               *)
(***************************************************************************)
EXTENDS Naturals, Sequences, PromptBuilder

CONSTANTS
  Invocations,    \* calls of AgentService.Invoke
  Sessions,       \* conversations
  SessionOf,      \* the Session the Session service resolves for each invocation
  TextOf,         \* the user message of each invocation
  NoText,         \* content of the messages whose text matters to nobody
  MaxIterations,  \* Profile settings.max_iterations
  MaxCalls,       \* bound: tool calls one model response may carry
  Serial          \* TRUE when callers run one invocation per Session at a time

ASSUME SessionOfAssumption == SessionOf \in [Invocations -> Sessions]
ASSUME MaxIterationsAssumption == MaxIterations \in Nat \ {0}
ASSUME MaxCallsAssumption == MaxCalls \in Nat
ASSUME SerialAssumption == Serial \in BOOLEAN

VARIABLES
  messages,     \* session.messages: the conversation of each Session
  saved,        \* the conversation the Session service holds after its last Save
  pc,           \* where each invocation is
  iteration,    \* ReActLoop.Run's loop variable
  reply,        \* number of tool calls in the response being handled
  call,         \* index of the tool call being handled
  prompt,       \* what PromptBuilder.Build returned for the pending model call
  failure,      \* the error the run ends with, "none" while there is none
  saveFailed,   \* whether Save returned an error
  cancelledAt,  \* model calls already made when the caller cancelled
  llmCalls,     \* model calls made by each invocation (connector Generate)
  llmRows,      \* rows those calls left in llm_calls
  toolCalls,    \* logical tool calls made by each invocation
  toolRows      \* rows those calls left in tool_invocations

audit == <<llmCalls, llmRows, toolCalls, toolRows>>
loop  == <<iteration, reply, call>>
vars  == <<messages, saved, pc, loop, prompt, failure, saveFailed, cancelledAt, audit>>

-----------------------------------------------------------------------------
(* Types.                                                                  *)

(* A call ID is <<inv, iter, call>>: the invocation and iteration whose    *)
(* response carries the call, and its place there.  An assistant message   *)
(* carries the calls 1..calls; a tool message answers one of them.         *)
Message == [role  : {"user", "assistant", "tool"},
            inv   : Invocations,
            text  : {TextOf[i] : i \in Invocations} \cup {NoText},
            iter  : 0..MaxIterations,
            calls : 0..MaxCalls,
            call  : 0..MaxCalls]

Stages == {"idle", "append_user", "loop", "build", "snapshot", "chat",
           "record_chat", "append_reply", "execute", "record_tool",
           "append_result", "save", "returned"}

Failures == {"none", "rejected", "resolve", "cancelled", "prompt", "prepare",
             "model", "audit", "tool", "tool_audit", "max_iterations"}

NotCancelled == MaxIterations + 1

UserMessage(i) ==
  [role |-> "user", inv |-> i, text |-> TextOf[i], iter |-> 0, calls |-> 0, call |-> 0]

AssistantMessage(i) ==
  [role |-> "assistant", inv |-> i, text |-> NoText, iter |-> iteration[i],
   calls |-> reply[i], call |-> 0]

ToolMessage(i) ==
  [role |-> "tool", inv |-> i, text |-> NoText, iter |-> iteration[i],
   calls |-> 0, call |-> call[i]]

TypeOK ==
  /\ messages \in [Sessions -> Seq(Message)]
  /\ saved \in [Sessions -> Seq(Message)]
  /\ pc \in [Invocations -> Stages]
  /\ iteration \in [Invocations -> 0..MaxIterations]
  /\ reply \in [Invocations -> 0..MaxCalls]
  /\ call \in [Invocations -> 0..MaxCalls]
  /\ prompt \in [Invocations -> Seq(Message)]
  /\ failure \in [Invocations -> Failures]
  /\ saveFailed \in [Invocations -> BOOLEAN]
  /\ cancelledAt \in [Invocations -> 0..NotCancelled]
  /\ llmCalls \in [Invocations -> Nat]
  /\ llmRows \in [Invocations -> Nat]
  /\ toolCalls \in [Invocations -> Nat]
  /\ toolRows \in [Invocations -> Nat]

-----------------------------------------------------------------------------
(* State and step helpers.                                                 *)

Conversation(i) == messages[SessionOf[i]]

Cancelled(i) == cancelledAt[i] # NotCancelled

(* Mutant: the context is never asked.                                     *)
ContextIgnored(i) == FALSE

(* ctx.Err() # nil, as ReActLoop.Run and PromptBuilder.Build ask it.       *)
ContextDone(i) == Cancelled(i)

At(i, stage) == pc[i] = stage

Goto(i, stage) == pc' = [pc EXCEPT ![i] = stage]

(* Mutant: Invoke returns the error of a run without saving the Session.   *)
FailUnsaved(i, error) ==
  /\ failure' = [failure EXCEPT ![i] = error]
  /\ Goto(i, "returned")

(* The run ends with this error; Invoke still saves the Session.           *)
Fail(i, error) ==
  /\ failure' = [failure EXCEPT ![i] = error]
  /\ Goto(i, "save")

(* Session.Append, under the Session's write lock.                         *)
AppendMessage(i, m) ==
  messages' = [messages EXCEPT ![SessionOf[i]] = Append(@, m)]

Increment(counter, i) == [counter EXCEPT ![i] = @ + 1]

(* A row written by a recorder that may fail: the recorder gets a context  *)
(* without the caller's cancellation, so cancelling never suppresses it.   *)
Persist(rows, i, persisted) == IF persisted THEN Increment(rows, i) ELSE rows

Active(i) == pc[i] \notin {"idle", "returned"}

-----------------------------------------------------------------------------
(* AgentService.Invoke.                                                    *)

(* A blank or unknown Profile or a blank message: no Session, no Save.     *)
Reject(i) ==
  /\ At(i, "idle")
  /\ failure' = [failure EXCEPT ![i] = "rejected"]
  /\ Goto(i, "returned")
  /\ UNCHANGED <<messages, saved, loop, prompt, saveFailed, cancelledAt, audit>>

(* The Session service fails, or returns no usable Session: no Save.       *)
ResolveFails(i) ==
  /\ At(i, "idle")
  /\ failure' = [failure EXCEPT ![i] = "resolve"]
  /\ Goto(i, "returned")
  /\ UNCHANGED <<messages, saved, loop, prompt, saveFailed, cancelledAt, audit>>

ResolveSession(i) ==
  /\ At(i, "idle")
  /\ Serial => \A j \in Invocations : SessionOf[j] = SessionOf[i] => ~Active(j)
  /\ Goto(i, "append_user")
  /\ UNCHANGED <<messages, saved, loop, prompt, failure, saveFailed, cancelledAt, audit>>

(* Save runs after every run, with a context that ignores cancellation.    *)
(* The Session service stores the conversation it finds.                   *)
SaveSession(i) ==
  /\ At(i, "save")
  /\ saved' = [saved EXCEPT ![SessionOf[i]] = Conversation(i)]
  /\ Goto(i, "returned")
  /\ UNCHANGED <<messages, loop, prompt, failure, saveFailed, cancelledAt, audit>>

SaveFails(i) ==
  /\ At(i, "save")
  /\ saveFailed' = [saveFailed EXCEPT ![i] = TRUE]
  /\ Goto(i, "returned")
  /\ UNCHANGED <<messages, saved, loop, prompt, failure, cancelledAt, audit>>

(* The caller cancels the invocation's context.                            *)
Cancel(i) ==
  /\ Active(i)
  /\ ~Cancelled(i)
  /\ cancelledAt' = [cancelledAt EXCEPT ![i] = llmCalls[i]]
  /\ UNCHANGED <<messages, saved, pc, loop, prompt, failure, saveFailed, audit>>

-----------------------------------------------------------------------------
(* ReActLoop.Run.                                                          *)

AppendUser(i) ==
  /\ At(i, "append_user")
  /\ AppendMessage(i, UserMessage(i))
  /\ iteration' = [iteration EXCEPT ![i] = 0]
  /\ Goto(i, "loop")
  /\ UNCHANGED <<saved, reply, call, prompt, failure, saveFailed, cancelledAt, audit>>

(* Mutant: the loop is left one iteration too late.                        *)
ExhaustLate(i) ==
  /\ At(i, "loop")
  /\ iteration[i] > MaxIterations
  /\ Fail(i, "max_iterations")
  /\ UNCHANGED <<messages, saved, loop, prompt, saveFailed, cancelledAt, audit>>

(* The loop condition fails: ErrMaxIterations.                             *)
Exhaust(i) ==
  /\ At(i, "loop")
  /\ iteration[i] >= MaxIterations
  /\ Fail(i, "max_iterations")
  /\ UNCHANGED <<messages, saved, loop, prompt, saveFailed, cancelledAt, audit>>

(* ctx.Err() at the head of an iteration, and again where Build starts.    *)
StopCancelled(i) ==
  /\ \/ At(i, "loop") /\ iteration[i] < MaxIterations
     \/ At(i, "build")
  /\ ContextDone(i)
  /\ Fail(i, "cancelled")
  /\ UNCHANGED <<messages, saved, loop, prompt, saveFailed, cancelledAt, audit>>

(* Mutant: `<=` for `<` in the loop condition.                             *)
EnterIterationOnceMore(i) ==
  /\ At(i, "loop")
  /\ iteration[i] <= MaxIterations
  /\ ~ContextDone(i)
  /\ Goto(i, "build")
  /\ UNCHANGED <<messages, saved, loop, prompt, failure, saveFailed, cancelledAt, audit>>

EnterIteration(i) ==
  /\ At(i, "loop")
  /\ iteration[i] < MaxIterations
  /\ ~ContextDone(i)
  /\ Goto(i, "build")
  /\ UNCHANGED <<messages, saved, loop, prompt, failure, saveFailed, cancelledAt, audit>>

(* Build reads the Profile's startup snapshots and then Memory, which is   *)
(* outside the repository; either may fail.                                *)
ReadMemory(i) ==
  /\ At(i, "build")
  /\ ~ContextDone(i)
  /\ Goto(i, "snapshot")
  /\ UNCHANGED <<messages, saved, loop, prompt, failure, saveFailed, cancelledAt, audit>>

ReadMemoryFails(i) ==
  /\ At(i, "build")
  /\ ~ContextDone(i)
  /\ Fail(i, "prompt")
  /\ UNCHANGED <<messages, saved, loop, prompt, saveFailed, cancelledAt, audit>>

(* Build copies the Session's messages under its read lock and selects the *)
(* history and current turn from the copy.                                 *)
BuildPrompt(i) ==
  /\ At(i, "snapshot")
  /\ \E built \in {Build(Conversation(i), UserMessage(i))} :
       \/ /\ built.ok
          /\ prompt' = [prompt EXCEPT ![i] = built.messages]
          /\ Goto(i, "chat")
          /\ UNCHANGED failure
       \/ /\ ~built.ok
          /\ Fail(i, "prompt")
          /\ UNCHANGED prompt
  /\ UNCHANGED <<messages, saved, loop, saveFailed, cancelledAt, audit>>

(* Service.prepareCall fails (no model bound, a tool schema that does not  *)
(* resolve): no model call, no row.                                        *)
PrepareChatFails(i) ==
  /\ At(i, "chat")
  /\ Fail(i, "prepare")
  /\ UNCHANGED <<messages, saved, loop, prompt, saveFailed, cancelledAt, audit>>

(* The model answers with some number of tool calls, or fails.             *)
Generate(i) ==
  /\ At(i, "chat")
  /\ llmCalls' = Increment(llmCalls, i)
  /\ \/ /\ \E n \in 0..MaxCalls : reply' = [reply EXCEPT ![i] = n]
        /\ UNCHANGED failure
     \/ /\ failure' = [failure EXCEPT ![i] = "model"]
        /\ UNCHANGED reply
  /\ Goto(i, "record_chat")
  /\ UNCHANGED <<messages, saved, iteration, call, prompt, saveFailed, cancelledAt,
                 llmRows, toolCalls, toolRows>>

(* Mutant: the error of the recorder is dropped.                           *)
RecordChatUnchecked(i) ==
  /\ At(i, "record_chat")
  /\ \E persisted \in BOOLEAN : llmRows' = Persist(llmRows, i, persisted)
  /\ Goto(i, IF failure[i] = "none" THEN "append_reply" ELSE "save")
  /\ prompt' = [prompt EXCEPT ![i] = <<>>]
  /\ UNCHANGED <<messages, saved, loop, failure, saveFailed, cancelledAt, llmCalls,
                 toolCalls, toolRows>>

(* Service.recordOutcome.  A lost row turns a successful call into an      *)
(* AuditPersistenceError that still carries the response; a failed call    *)
(* never carries one.                                                      *)
RecordChat(i) ==
  /\ At(i, "record_chat")
  /\ \E persisted \in BOOLEAN :
       /\ llmRows' = Persist(llmRows, i, persisted)
       /\ failure' = [failure EXCEPT ![i] = IF @ = "none" /\ ~persisted THEN "audit" ELSE @]
  /\ Goto(i, IF failure[i] = "none" THEN "append_reply" ELSE "save")
  /\ prompt' = [prompt EXCEPT ![i] = <<>>]
  /\ UNCHANGED <<messages, saved, loop, saveFailed, cancelledAt, llmCalls, toolCalls, toolRows>>

(* Mutant: only replies without tool calls enter the Session.              *)
AppendFinalReplyOnly(i) ==
  LET executing == failure[i] = "none" /\ reply[i] > 0 IN
    /\ At(i, "append_reply")
    /\ IF executing THEN UNCHANGED messages ELSE AppendMessage(i, AssistantMessage(i))
    /\ call' = [call EXCEPT ![i] = IF executing THEN 1 ELSE 0]
    /\ Goto(i, IF executing THEN "execute" ELSE "save")
    /\ UNCHANGED <<saved, iteration, reply, prompt, failure, saveFailed, cancelledAt, audit>>

(* Mutant: of the calls of a response only the last one is executed.       *)
AppendReplyLastCallOnly(i) ==
  LET executing == failure[i] = "none" /\ reply[i] > 0 IN
    /\ At(i, "append_reply")
    /\ AppendMessage(i, AssistantMessage(i))
    /\ call' = [call EXCEPT ![i] = IF executing THEN reply[i] ELSE 0]
    /\ Goto(i, IF executing THEN "execute" ELSE "save")
    /\ UNCHANGED <<saved, iteration, reply, prompt, failure, saveFailed, cancelledAt, audit>>

(* The complete assistant message enters the Session before anything is    *)
(* done about it; an unaudited one ends the run there.                     *)
AppendReply(i) ==
  LET executing == failure[i] = "none" /\ reply[i] > 0 IN
    /\ At(i, "append_reply")
    /\ AppendMessage(i, AssistantMessage(i))
    /\ call' = [call EXCEPT ![i] = IF executing THEN 1 ELSE 0]
    /\ Goto(i, IF executing THEN "execute" ELSE "save")
    /\ UNCHANGED <<saved, iteration, reply, prompt, failure, saveFailed, cancelledAt, audit>>

(* Executor.Execute up to its outcome: it rejects the call, or runs the    *)
(* tool until it succeeds or gives up.  The context is not consulted       *)
(* between two calls of one response.                                      *)
ExecuteTool(i) ==
  /\ At(i, "execute")
  /\ toolCalls' = Increment(toolCalls, i)
  /\ \E ok \in BOOLEAN :
       failure' = [failure EXCEPT ![i] = IF ok THEN @ ELSE "tool"]
  /\ Goto(i, "record_tool")
  /\ UNCHANGED <<messages, saved, loop, prompt, saveFailed, cancelledAt,
                 llmCalls, llmRows, toolRows>>

(* Mutant: the error of the recorder is dropped.                           *)
RecordToolUnchecked(i) ==
  /\ At(i, "record_tool")
  /\ \E persisted \in BOOLEAN : toolRows' = Persist(toolRows, i, persisted)
  /\ Goto(i, "append_result")
  /\ UNCHANGED <<messages, saved, loop, prompt, failure, saveFailed, cancelledAt,
                 llmCalls, llmRows, toolCalls>>

(* The one row of a logical tool call; losing it is an error of the call.  *)
RecordTool(i) ==
  /\ At(i, "record_tool")
  /\ \E persisted \in BOOLEAN :
       /\ toolRows' = Persist(toolRows, i, persisted)
       /\ failure' = [failure EXCEPT ![i] =
                        IF @ = "none" /\ ~persisted THEN "tool_audit" ELSE @]
  /\ Goto(i, "append_result")
  /\ UNCHANGED <<messages, saved, loop, prompt, saveFailed, cancelledAt,
                 llmCalls, llmRows, toolCalls>>

(* The tool message enters the Session whatever the outcome; only then is  *)
(* an error returned.  After the last call the next iteration starts.      *)
AppendResult(i) ==
  /\ At(i, "append_result")
  /\ AppendMessage(i, ToolMessage(i))
  /\ \/ /\ failure[i] # "none"
        /\ Goto(i, "save")
        /\ UNCHANGED <<iteration, call>>
     \/ /\ failure[i] = "none"
        /\ call[i] < reply[i]
        /\ call' = Increment(call, i)
        /\ Goto(i, "execute")
        /\ UNCHANGED iteration
     \/ /\ failure[i] = "none"
        /\ call[i] >= reply[i]
        /\ iteration' = Increment(iteration, i)
        /\ call' = [call EXCEPT ![i] = 0]
        /\ Goto(i, "loop")
  /\ UNCHANGED <<saved, reply, prompt, failure, saveFailed, cancelledAt, audit>>

-----------------------------------------------------------------------------
Init ==
  /\ messages = [s \in Sessions |-> <<>>]
  /\ saved = [s \in Sessions |-> <<>>]
  /\ pc = [i \in Invocations |-> "idle"]
  /\ iteration = [i \in Invocations |-> 0]
  /\ reply = [i \in Invocations |-> 0]
  /\ call = [i \in Invocations |-> 0]
  /\ prompt = [i \in Invocations |-> <<>>]
  /\ failure = [i \in Invocations |-> "none"]
  /\ saveFailed = [i \in Invocations |-> FALSE]
  /\ cancelledAt = [i \in Invocations |-> NotCancelled]
  /\ llmCalls = [i \in Invocations |-> 0]
  /\ llmRows = [i \in Invocations |-> 0]
  /\ toolCalls = [i \in Invocations |-> 0]
  /\ toolRows = [i \in Invocations |-> 0]

(* The steps of the goroutine that runs invocation i once it has started.  *)
Step(i) ==
  \/ AppendUser(i) \/ Exhaust(i) \/ StopCancelled(i) \/ EnterIteration(i)
  \/ ReadMemory(i) \/ ReadMemoryFails(i) \/ BuildPrompt(i)
  \/ PrepareChatFails(i) \/ Generate(i) \/ RecordChat(i) \/ AppendReply(i)
  \/ ExecuteTool(i) \/ RecordTool(i) \/ AppendResult(i)
  \/ SaveSession(i) \/ SaveFails(i)

(* What callers decide: when to invoke, and when to cancel.                *)
Caller(i) == Reject(i) \/ ResolveFails(i) \/ ResolveSession(i) \/ Cancel(i)

Next == \E i \in Invocations : Caller(i) \/ Step(i)

Spec == Init /\ [][Next]_vars

(* A goroutine that has started keeps running, and the model, the tools,   *)
(* the recorders and the Session service return from the calls they get.   *)
(* Callers owe nothing.                                                    *)
Fairness == \A i \in Invocations : WF_vars(Step(i))

FairSpec == Spec /\ Fairness

-----------------------------------------------------------------------------
(* Properties.                                                             *)

(* A reply whose llm_calls row was lost is never acted on: while one of its*)
(* tool calls is being handled, every model call of the run has its row.   *)
(* (ReActLoop.Run returns on an AuditPersistenceError; spec 002, FR-020.)  *)
UnauditedReplyNeverExecuted ==
  \A i \in Invocations :
    pc[i] \in {"execute", "record_tool", "append_result"} => llmRows[i] = llmCalls[i]

(* Invoke reports success only for a run that made a model call, lost no   *)
(* row of any model or tool call, and whose last message in the Session is *)
(* a reply without tool calls.  (Error returns of Run; spec 002, FR-009.)  *)
LastOwn(i) ==
  LET s == Conversation(i) IN s[Max({p \in 1..Len(s) : s[p].inv = i})]

SuccessIsFullyAudited ==
  \A i \in Invocations :
    (pc[i] = "returned" /\ failure[i] = "none") =>
      /\ llmCalls[i] > 0
      /\ llmRows[i] = llmCalls[i]
      /\ toolRows[i] = toolCalls[i]
      /\ LastOwn(i).role = "assistant"
      /\ LastOwn(i).calls = 0

(* A run survives no lost row: at most one call of a run has none, and then*)
(* either the row is about to be written or the run is ending with an      *)
(* error.  (One recorder.Create per call; spec 002, FR-008 and FR-009.)    *)
AtMostOneRowLost ==
  \A i \in Invocations :
    LET lost == (llmCalls[i] + toolCalls[i]) - (llmRows[i] + toolRows[i]) IN
      /\ llmRows[i] <= llmCalls[i]
      /\ toolRows[i] <= toolCalls[i]
      /\ lost <= 1
      /\ lost = 1 => pc[i] \in {"record_chat", "record_tool"} \/ failure[i] # "none"

(* In the Session every tool message comes after the assistant message that*)
(* carries its call and after the results of that message's earlier calls, *)
(* however the messages of other invocations fall between them.            *)
(* (The serial call loop of Run; spec 002, FR-005 and FR-006.)             *)
Answers(m, carrier) ==
  /\ m.role = "tool"
  /\ carrier.role = "assistant"
  /\ m.inv = carrier.inv
  /\ m.iter = carrier.iter
  /\ m.call \in 1..carrier.calls

ResultsFollowTheirCalls ==
  \A s \in Sessions : \A p \in 1..Len(messages[s]) :
    LET m == messages[s][p] IN
      m.role = "tool" =>
        \E q \in 1..(p - 1) :
          /\ Answers(m, messages[s][q])
          /\ \A k \in 1..(m.call - 1) : \E r \in (q + 1)..(p - 1) :
               /\ Answers(messages[s][r], messages[s][q])
               /\ messages[s][r].call = k

(* No run makes more model calls than the Profile allows, and one that     *)
(* reports ErrMaxIterations made exactly that many, all of them audited,   *)
(* and answered every tool call of its last reply.  (Spec 002, SC-002.)    *)
IterationLimitIsExact ==
  \A i \in Invocations :
    /\ llmCalls[i] <= MaxIterations
    /\ failure[i] = "max_iterations" =>
         /\ llmCalls[i] = MaxIterations
         /\ llmRows[i] = MaxIterations
         /\ LastOwn(i) = [ToolMessage(i) EXCEPT !.iter = MaxIterations - 1, !.call = reply[i]]

(* A cancelled run begins at most one more model call: the one whose prompt*)
(* was already being built.  (ctx.Err() in Run and in Build.)              *)
CancelAllowsOneMoreModelCall ==
  \A i \in Invocations : Cancelled(i) => llmCalls[i] <= cancelledAt[i] + 1

(* When a run that reached its Session returns without a save error, the   *)
(* saved conversation holds every message the run appended, after failures *)
(* and cancellation too, and later saves of other runs keep them.          *)
(* (The unconditional Save of Invoke; spec 002, FR-010.)                   *)
SavedRunIsComplete ==
  \A i \in Invocations :
    (pc[i] = "returned" /\ failure[i] \notin {"rejected", "resolve"} /\ ~saveFailed[i]) =>
      LET s == Conversation(i)
          kept == saved[SessionOf[i]]
      IN  \A p \in 1..Len(s) : s[p].inv = i => p <= Len(kept) /\ kept[p] = s[p]

(* A model call sees every message of its own run, in particular the user  *)
(* message and all results so far: neither the history limit nor the budget*)
(* removes them.  (splitCurrentTurn and the budget loop; spec 002, data    *)
(* model "Current request: never removed by truncation".)                  *)
PromptHoldsOwnTurn ==
  \A i \in Invocations : pc[i] = "chat" =>
    \A p \in 1..Len(Conversation(i)) : Conversation(i)[p].inv = i =>
      \E q \in 1..Len(prompt[i]) : prompt[i][q] = Conversation(i)[p]

(* When callers keep to one invocation per Session at a time, truncation   *)
(* never leaves a tool result in a prompt without the assistant message    *)
(* that carries its call.  (limitCompleteTurns, dropOldestCompleteTurn;    *)
(* spec 002, data model, message invariants.)                              *)
NoOrphanResults ==
  \A i \in Invocations : pc[i] = "chat" =>
    \A p \in 1..Len(prompt[i]) : prompt[i][p].role = "tool" =>
      \E q \in 1..(p - 1) : Answers(prompt[i][p], prompt[i][q])

(* The calls of the message at position p of s that nothing in s answers.  *)
Unanswered(s, p) ==
  {k \in 1..MaxCalls :
     /\ s[p].role = "assistant"
     /\ k <= s[p].calls
     /\ ~ \E q \in (p + 1)..Len(s) : Answers(s[q], s[p]) /\ s[q].call = k}

(* With one invocation per Session at a time, a prompt shows an unanswered *)
(* tool call only where an earlier run ended inside the call loop or before*)
(* it, and that run reported the error.  (The error returns of Run.)       *)
UnansweredCallsComeFromFailedRuns ==
  \A i \in Invocations : pc[i] = "chat" =>
    \A p \in 1..Len(prompt[i]) : Unanswered(prompt[i], p) # {} =>
      LET j == prompt[i][p].inv IN
        pc[j] = "returned" /\ failure[j] \in {"audit", "tool", "tool_audit"}

(* Spec 002, research.md Decision 2: "For every Tool call, append one      *)
(* Tool-role message ... before the next model call."  The code does so    *)
(* only while nothing fails: see the run that refutes this.                *)
EveryCallAnsweredBeforeNextModelCall ==
  \A i \in Invocations : pc[i] = "chat" =>
    \A p \in 1..Len(prompt[i]) : Unanswered(prompt[i], p) = {}

(* Every invocation that starts returns to its caller, whatever fails.     *)
(* (No unbounded loop in Run; external calls return.)                      *)
EveryInvocationReturns ==
  \A i \in Invocations : pc[i] # "idle" ~> pc[i] = "returned"
=============================================================================
