-------------------------- MODULE ToolExecutorProofs --------------------------
(***************************************************************************)
(* Proofs about Executor.Execute: the attempts of one call are bounded, a  *)
(* tool that is not idempotent has its effect at most once, and, without   *)
(* the fairness, Execute implements the abstract AuditedCall.              *)
(***************************************************************************)
EXTENDS ToolExecutor, TLAPS

(* Before execute returns nothing is decided, and when it has returned one *)
(* outcome is, with no row and no answer yet.                              *)
Undecided == outcome = "none" /\ row = "none" /\ answer = "none"

StagesAgree ==
  /\ pc \in {"idle", "attempt", "invoking", "waiting"} => Undecided
  /\ pc = "record" => outcome # "none" /\ row = "none" /\ answer = "none"

(* How many attempts and effects there may have been at each stage: an     *)
(* attempt that runs has not had its effect, another one is to come only   *)
(* below the bound, and only for a tool that is idempotent.                *)
AttemptsCounted ==
  /\ pc = "idle" => attempts = 0
  /\ pc \in {"attempt", "waiting"} => attempts <= MaxToolRetries
  /\ pc = "invoking" => effects < attempts
  /\ pc = "waiting" => idempotent
  /\ ~idempotent => attempts <= 1
  /\ ~idempotent /\ pc = "attempt" => attempts = 0

(* What a success stands for: an attempt that had its effect and a row that*)
(* says so.                                                                *)
SuccessIsReal ==
  /\ outcome = "ok" => effects >= 1
  /\ row \in {"none", "lost", outcome}
  /\ answer = "ok" => outcome = "ok" /\ row = "ok"

ExecutorInv == TypeOK /\ StagesAgree /\ AttemptsCounted /\ SuccessIsReal

LEMMA InitEstablishes == Init => ExecutorInv
<1> SUFFICES ASSUME Init PROVE ExecutorInv
  OBVIOUS
<1>1. retryable \in BOOLEAN /\ idempotent \in BOOLEAN
  BY Zenon DEF Init
<1>2. timedOut \in BOOLEAN /\ timerFired \in BOOLEAN /\ cancelled \in BOOLEAN
  BY Zenon DEF Init
<1>3. TypeOK
  BY <1>1, <1>2 DEF Init, TypeOK, MaxToolRetries
<1>4. StagesAgree
  BY DEF Init, StagesAgree, Undecided
<1>5. AttemptsCounted
  BY DEF Init, AttemptsCounted, MaxToolRetries
<1>6. SuccessIsReal
  BY DEF Init, SuccessIsReal
<1> QED
  BY <1>3, <1>4, <1>5, <1>6 DEF ExecutorInv

(* One step per action of Next.                                            *)
LEMMA StepKeeps == ExecutorInv /\ [Next]_vars => ExecutorInv'
<1> SUFFICES ASSUME ExecutorInv, [Next]_vars PROVE ExecutorInv'
  OBVIOUS
<1> USE DEF ExecutorInv, TypeOK, StagesAgree, Undecided, AttemptsCounted,
            SuccessIsReal, MaxToolRetries, policy
<1>1. CASE Refuse
  BY <1>1 DEF Refuse
<1>2. CASE RejectCall
  BY <1>2 DEF RejectCall, Conclude
<1>3. CASE AcceptCall
  BY <1>3 DEF AcceptCall
<1>4. CASE BeginAttempt
  <2>1. timedOut' \in BOOLEAN
    BY <1>4, Zenon DEF BeginAttempt
  <2> QED
    BY <1>4, <2>1 DEF BeginAttempt
<1>5. CASE WaitEnds
  BY <1>5 DEF WaitEnds
<1>6. CASE WaitCancelled
  BY <1>6 DEF WaitCancelled, Conclude
<1>7. CASE Record
  BY <1>7 DEF Record
<1>8. CASE ToolSucceeds
  BY <1>8 DEF ToolSucceeds, Conclude
<1>9. CASE ToolFails
  <2> PICK transient \in BOOLEAN :
        \/ /\ RetryEligible(transient)
           /\ pc' = "waiting"
           /\ timerFired' = FALSE
           /\ UNCHANGED outcome
        \/ /\ ~RetryEligible(transient)
           /\ Conclude("error")
           /\ UNCHANGED timerFired
    BY <1>9 DEF ToolFails
  <2>1. CASE RetryEligible(transient)
    <3>1. timerFired' \in BOOLEAN
      BY <2>1, Zenon
    <3> QED
      BY <1>9, <2>1, <3>1 DEF ToolFails, RetryEligible
  <2>2. CASE ~RetryEligible(transient)
    BY <1>9, <2>2 DEF ToolFails, Conclude
  <2> QED
    BY <2>1, <2>2
<1>10. CASE DeadlinePasses
  BY <1>10 DEF DeadlinePasses
<1>11. CASE TimerFires
  BY <1>11 DEF TimerFires
<1>12. CASE Cancel
  BY <1>12 DEF Cancel
<1>13. CASE UNCHANGED vars
  BY <1>13 DEF vars
<1> QED
  BY <1>1, <1>2, <1>3, <1>4, <1>5, <1>6, <1>7, <1>8, <1>9, <1>10, <1>11, <1>12, <1>13
     DEF Next, Execute, ToolReturns

(* The inductive invariant, TypeOK among its parts: at most                *)
(* MaxToolRetries + 1 attempts, whatever the tool and its policy.          *)
THEOREM ExecutorInvariant == Spec => []ExecutorInv
BY InitEstablishes, StepKeeps, PTL DEF Spec

(* A tool that is not registered as idempotent has its effect at most once *)
(* per logical call: no other attempt follows an attempt, which may have   *)
(* had its effect and failed after it.                                     *)
THEOREM SideEffects == Spec => []SideEffectAtMostOnce
<1>1. ExecutorInv => SideEffectAtMostOnce
  BY DEF ExecutorInv, TypeOK, AttemptsCounted, SideEffectAtMostOnce
<1> QED
  BY <1>1, ExecutorInvariant, PTL

(* A caller that is told of a success got the effect of some attempt, and  *)
(* the store holds the row that says so.  (Execute's error precedence: the *)
(* tool's error first, the recorder's next.)                               *)
THEOREM SuccessMeansEffectAndRow == Spec => [](answer = "ok" => effects >= 1 /\ row = "ok")
<1>1. ExecutorInv => (answer = "ok" => effects >= 1 /\ row = "ok")
  BY DEF ExecutorInv, SuccessIsReal
<1> QED
  BY <1>1, ExecutorInvariant, PTL

-----------------------------------------------------------------------------
(* Every step of Execute is a step of the abstract call or leaves the      *)
(* outcome, the row and the answer alone.                                  *)
LEMMA StepIsAudited ==
  ASSUME ExecutorInv, [Next]_vars
  PROVE  [Audited!Next]_(Audited!vars)
<1> USE DEF Audited!vars, policy
<1>1. CASE Refuse
  BY <1>1 DEF Refuse, ExecutorInv, StagesAgree, Undecided, Audited!Next, Audited!Refuse, Audited!Init
<1>2. CASE RejectCall \/ WaitCancelled \/ ToolSucceeds
  BY <1>2 DEF RejectCall, WaitCancelled, ToolSucceeds, Conclude, ExecutorInv, StagesAgree,
              Undecided, Audited!Next, Audited!Decide, Audited!Init, Audited!Outcomes
<1>3. CASE ToolFails
  <2>1. Undecided
    BY <1>3 DEF ToolFails, ExecutorInv, StagesAgree
  <2>2. (outcome' = "error" \/ outcome' = outcome) /\ UNCHANGED <<row, answer>>
    BY <1>3 DEF ToolFails, Conclude
  <2> QED
    BY <2>1, <2>2 DEF Undecided, Audited!Next, Audited!Decide, Audited!Init, Audited!Outcomes
<1>4. CASE Record
  BY <1>4 DEF Record, ExecutorInv, TypeOK, StagesAgree, Audited!Next, Audited!Settle
<1>5. CASE AcceptCall \/ BeginAttempt \/ WaitEnds \/ DeadlinePasses \/ TimerFires \/ Cancel
  BY <1>5 DEF AcceptCall, BeginAttempt, WaitEnds, DeadlinePasses, TimerFires, Cancel
<1>6. CASE UNCHANGED vars
  BY <1>6 DEF vars
<1> QED
  BY <1>1, <1>2, <1>3, <1>4, <1>5, <1>6 DEF Next, Execute, ToolReturns

(* Execute implements AuditedCall: it refuses without a trace, or decides  *)
(* one outcome, asks for one row that says the same and only then answers, *)
(* with a success only when the outcome was one and its row was written.   *)
(* ExecuteIsAudited adds that the call is answered.                        *)
THEOREM ExecuteImplementsAuditedCall == Spec => Audited!Spec
<1>1. Init => Audited!Init
  BY DEF Init, Audited!Init
<1>2. ExecutorInv /\ [Next]_vars => [Audited!Next]_(Audited!vars)
  BY StepIsAudited
<1> QED
  BY <1>1, <1>2, ExecutorInvariant, PTL DEF Spec, Audited!Spec
=============================================================================
