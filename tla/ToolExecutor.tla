----------------------------- MODULE ToolExecutor -----------------------------
(***************************************************************************)
(* Executor.Execute for one logical tool call: the checks, the attempts    *)
(* with their timeouts, the waits between them, and the one row.  The tool,*)
(* the registration it is looked up from, the recorder and the clock are   *)
(* outside; a tool may fail after it has had its effect.                   *)
(***************************************************************************)
EXTENDS Naturals

VARIABLES
  pc,          \* where Execute is
  retryable,   \* registered policy of the tool
  idempotent,
  attempts,    \* attempts begun (the loop variable `attempt` is one less)
  effects,     \* attempts that had their effect outside
  timedOut,    \* the attempt's context has passed its deadline
  timerFired,  \* the timer of the current wait has fired
  cancelled,   \* the caller's context is done
  outcome,     \* what execute returned: "none" before, then "ok" or "error"
  row,         \* what the store holds: "none", the outcome, or "lost"
  answer       \* what Execute returned: "none" before, then "ok" or "error"

policy == <<retryable, idempotent>>
vars == <<pc, policy, attempts, effects, timedOut, timerFired, cancelled, outcome, row, answer>>

MaxToolRetries == 3

TypeOK ==
  /\ pc \in {"idle", "attempt", "invoking", "waiting", "record", "returned"}
  /\ retryable \in BOOLEAN /\ idempotent \in BOOLEAN
  /\ attempts \in 0..(MaxToolRetries + 1)
  /\ effects \in 0..attempts
  /\ timedOut \in BOOLEAN /\ timerFired \in BOOLEAN /\ cancelled \in BOOLEAN
  /\ outcome \in {"none", "ok", "error"}
  /\ row \in {"none", "ok", "error", "lost"}
  /\ answer \in {"none", "ok", "error"}

(* The registration is fixed before the call; Execute looks it up once.    *)
Init ==
  /\ pc = "idle"
  /\ retryable \in BOOLEAN /\ idempotent \in BOOLEAN
  /\ attempts = 0 /\ effects = 0
  /\ timedOut = FALSE /\ timerFired = FALSE /\ cancelled = FALSE
  /\ outcome = "none" /\ row = "none" /\ answer = "none"

-----------------------------------------------------------------------------
(* execute returns.                                                        *)
Conclude(result) ==
  /\ outcome' = result
  /\ pc' = "record"

(* An executor that is not initialized, or no context: nothing is recorded.*)
Refuse ==
  /\ pc = "idle"
  /\ answer' = "error"
  /\ pc' = "returned"
  /\ UNCHANGED <<policy, attempts, effects, timedOut, timerFired, cancelled, outcome, row>>

(* Blank, not allowed or not registered name, no implementation, timeout   *)
(* not positive, no or other metadata, arguments against the schema: the   *)
(* tool is not invoked, and the rejection is recorded like any failure.    *)
RejectCall ==
  /\ pc = "idle"
  /\ Conclude("error")
  /\ UNCHANGED <<policy, attempts, effects, timedOut, timerFired, cancelled, row, answer>>

AcceptCall ==
  /\ pc = "idle"
  /\ pc' = "attempt"
  /\ UNCHANGED <<policy, attempts, effects, timedOut, timerFired, cancelled, outcome, row, answer>>

(* context.WithTimeout: the attempt's deadline passes.                     *)
DeadlinePasses ==
  /\ pc = "invoking"
  /\ ~timedOut
  /\ timedOut' = TRUE
  /\ UNCHANGED <<pc, policy, attempts, effects, timerFired, cancelled, outcome, row, answer>>

(* Each attempt has a context of its own, derived from the caller's.       *)
BeginAttempt ==
  /\ pc = "attempt"
  /\ attempts' = attempts + 1
  /\ timedOut' = FALSE
  /\ pc' = "invoking"
  /\ UNCHANGED <<policy, effects, timerFired, cancelled, outcome, row, answer>>

ToolSucceeds ==
  /\ pc = "invoking"
  /\ effects' = effects + 1
  /\ Conclude("ok")
  /\ UNCHANGED <<policy, attempts, timedOut, timerFired, cancelled, row, answer>>

(* Mutant: an idempotent registration is not asked for.                    *)
RetryWhateverTheTool(transient) == attempts <= MaxToolRetries /\ retryable /\ transient

(* retryEligible, for an error that says of itself that it is transient.   *)
RetryEligible(transient) == attempts <= MaxToolRetries /\ retryable /\ idempotent /\ transient

(* The tool returns an error, before or after its effect: of its own, or   *)
(* because its context is done.                                            *)
ToolFails ==
  /\ pc = "invoking"
  /\ effects' \in {effects, effects + 1}
  /\ \E transient \in BOOLEAN :
       \/ /\ RetryEligible(transient)
          /\ pc' = "waiting"
          /\ timerFired' = FALSE
          /\ UNCHANGED outcome
       \/ /\ ~RetryEligible(transient)
          /\ Conclude("error")
          /\ UNCHANGED timerFired
  /\ UNCHANGED <<policy, attempts, timedOut, cancelled, row, answer>>

TimerFires ==
  /\ pc = "waiting"
  /\ ~timerFired
  /\ timerFired' = TRUE
  /\ UNCHANGED <<pc, policy, attempts, effects, timedOut, cancelled, outcome, row, answer>>

(* waitForRetry selects between the timer and the context; when both are   *)
(* ready, either.                                                          *)
WaitEnds ==
  /\ pc = "waiting"
  /\ timerFired
  /\ pc' = "attempt"
  /\ UNCHANGED <<policy, attempts, effects, timedOut, timerFired, cancelled, outcome, row, answer>>

WaitCancelled ==
  /\ pc = "waiting"
  /\ cancelled
  /\ Conclude("error")
  /\ UNCHANGED <<policy, attempts, effects, timedOut, timerFired, cancelled, row, answer>>

(* Mutant: a recorder error does not fail a call that succeeded.           *)
RecordBestEffort ==
  /\ pc = "record"
  /\ row' \in {outcome, "lost"}
  /\ answer' = outcome
  /\ pc' = "returned"
  /\ UNCHANGED <<policy, attempts, effects, timedOut, timerFired, cancelled, outcome>>

(* One recorder.Create, with a context that ignores the cancellation; its  *)
(* error fails the call.                                                   *)
Record ==
  /\ pc = "record"
  /\ row' \in {outcome, "lost"}
  /\ answer' = IF outcome = "error" \/ row' = "lost" THEN "error" ELSE "ok"
  /\ pc' = "returned"
  /\ UNCHANGED <<policy, attempts, effects, timedOut, timerFired, cancelled, outcome>>

Cancel ==
  /\ pc # "returned"
  /\ ~cancelled
  /\ cancelled' = TRUE
  /\ UNCHANGED <<pc, policy, attempts, effects, timedOut, timerFired, outcome, row, answer>>

-----------------------------------------------------------------------------
ToolReturns == ToolSucceeds \/ ToolFails

Execute ==
  \/ Refuse \/ RejectCall \/ AcceptCall \/ BeginAttempt
  \/ WaitEnds \/ WaitCancelled \/ Record

Next == Execute \/ ToolReturns \/ DeadlinePasses \/ TimerFires \/ Cancel

Spec == Init /\ [][Next]_vars

(* Execute and the clock make progress.  A tool owes an answer only once   *)
(* its context is done: the timeout is what ends an attempt.               *)
Fairness ==
  /\ WF_vars(Execute)
  /\ WF_vars(TimerFires)
  /\ WF_vars(DeadlinePasses)
  /\ WF_vars((timedOut \/ cancelled) /\ ToolReturns)

FairSpec == Spec /\ Fairness

-----------------------------------------------------------------------------
(* Properties.                                                             *)

(* A tool that is not registered as idempotent has its effect at most once *)
(* per logical call, although it may fail after it.  (retryEligible; spec  *)
(* 002, FR-017.)                                                           *)
SideEffectAtMostOnce == ~idempotent => effects <= 1

(* The answer, the row and what the tool did agree: a success means that   *)
(* the last attempt had its effect and the row says so; a row that says    *)
(* error never stands beside a success.  No answer precedes the attempt to *)
(* write the row, unless the call was refused.  And every call is answered,*)
(* by the tool or by its timeout, after at most MaxToolRetries waits.      *)
(* (Execute's error precedence, contracts/tool-execution.md; WithTimeout   *)
(* and the bound of the retry loop.)                                       *)
Audited == INSTANCE AuditedCall

ExecuteIsAudited == Audited!FairSpec
=============================================================================
