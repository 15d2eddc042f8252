---------------------------- MODULE ResponseStream ----------------------------
(***************************************************************************)
(* One streamed model call: Service.ChatStream, the auditedResponseStream  *)
(* it returns and the einoResponseStream under it.  Several goroutines hold*)
(* the stream: its one consumer receives, any of them may close.  The      *)
(* stream's mutex is held while the upstream reader is asked for a chunk   *)
(* and while the row is written, so the others wait for both.  The reader  *)
(* (Eino's StreamReader) and the recorder are outside the repository.  What*)
(* Close returns (the first Close decides) is left out.                    *)
(***************************************************************************)
EXTENDS Naturals

CONSTANTS
  Callers,    \* goroutines that hold the stream
  Consumer,   \* the one that receives
  NoCaller,   \* holder of a free mutex
  MaxChunks   \* bound: chunks the reader delivers

ASSUME ConsumerAssumption == Consumer \in Callers
ASSUME NoCallerAssumption == NoCaller \notin Callers
ASSUME MaxChunksAssumption == MaxChunks \in Nat

VARIABLES
  opening,       \* ChatStream: "calling", "failing", "open" or "none"
  pc,            \* where each goroutine is in Recv or Close
  mu,            \* holder of auditedResponseStream.mu
  terminal,      \* the fields of auditedResponseStream
  callerClosed,
  chunks,        \* chunks einoResponseStream has accumulated
  readerCloses,  \* times the reader was closed
  cancelled,     \* the context of the call is done
  got,           \* what the consumer's last Recv returned
  audits,        \* calls of recordOutcome
  outcome,       \* how the model call ended, "none" before
  row,           \* what the store holds: "none", the outcome, or "lost"
  answer         \* what the caller was told of the call, "none" before

call   == <<outcome, row, answer, audits>>
stream == <<mu, terminal, callerClosed, chunks, readerCloses>>
vars   == <<opening, pc, stream, cancelled, got, call>>

Events  == {"delta", "completed", "error", "eof", "closed_pipe"}

TypeOK ==
  /\ opening \in {"calling", "failing", "open", "none"}
  /\ pc \in [Callers -> {"ready", "recv", "receiving", "close", "record"}]
  /\ mu \in Callers \cup {NoCaller}
  /\ terminal \in BOOLEAN /\ callerClosed \in BOOLEAN /\ cancelled \in BOOLEAN
  /\ chunks \in 0..MaxChunks
  /\ readerCloses \in 0..1
  /\ got \in Events \cup {"none"}
  /\ audits \in 0..1
  /\ outcome \in {"none", "ok", "error"}
  /\ row \in {"none", "ok", "error", "lost"}
  /\ answer \in {"none", "ok", "error"}

Init ==
  /\ opening = "calling"
  /\ pc = [p \in Callers |-> "ready"]
  /\ mu = NoCaller
  /\ terminal = FALSE /\ callerClosed = FALSE /\ cancelled = FALSE
  /\ chunks = 0
  /\ readerCloses = 0
  /\ got = "none"
  /\ audits = 0
  /\ outcome = "none" /\ row = "none" /\ answer = "none"

-----------------------------------------------------------------------------
Goto(p, stage) == pc' = [pc EXCEPT ![p] = stage]

(* mu.Lock() returns to p, which is about to do what its call does.        *)
Acquires(p, method) == opening = "open" /\ pc[p] = method /\ mu = NoCaller

(* closeOnce.Do: the reader is closed the first time only.                 *)
Once(n) == IF n = 0 THEN 1 ELSE n

(* Service.recordOutcome: one recorder.Create, with a context that ignores *)
(* cancellation.  The call is a success when it was one and has its row.   *)
RecordOutcome ==
  /\ audits' = audits + 1
  /\ row' \in {outcome, "lost"}
  /\ answer' = IF outcome = "ok" /\ row' = "ok" THEN "ok" ELSE "error"
  /\ UNCHANGED outcome

-----------------------------------------------------------------------------
(* Service.ChatStream.                                                     *)

(* prepareCall fails: no model call, no row.                               *)
PrepareFails ==
  /\ opening = "calling"
  /\ opening' = "none"
  /\ answer' = "error"
  /\ UNCHANGED <<pc, stream, cancelled, got, outcome, row, audits>>

(* Messages or tools that do not convert, or the connector's Stream fails. *)
StreamFails ==
  /\ opening = "calling"
  /\ opening' = "failing"
  /\ outcome' = "error"
  /\ UNCHANGED <<pc, stream, cancelled, got, row, answer, audits>>

RecordStreamFailure ==
  /\ opening = "failing"
  /\ opening' = "none"
  /\ RecordOutcome
  /\ UNCHANGED <<pc, stream, cancelled, got>>

StreamOpens ==
  /\ opening = "calling"
  /\ opening' = "open"
  /\ UNCHANGED <<pc, stream, cancelled, got, call>>

-----------------------------------------------------------------------------
(* auditedResponseStream.Recv over einoResponseStream.Recv.                *)

CallRecv(p) ==
  /\ opening = "open"
  /\ p = Consumer
  /\ pc[p] = "ready"
  /\ Goto(p, "recv")
  /\ UNCHANGED <<opening, stream, cancelled, got, call>>

RecvAfterClose(p) ==
  /\ Acquires(p, "recv")
  /\ callerClosed
  /\ got' = "closed_pipe"
  /\ Goto(p, "ready")
  /\ UNCHANGED <<opening, stream, cancelled, call>>

(* Mutant: an early return that keeps the mutex.                           *)
RecvAfterEndLocked(p) ==
  /\ Acquires(p, "recv")
  /\ ~callerClosed /\ terminal
  /\ got' = "eof"
  /\ mu' = p
  /\ Goto(p, "ready")
  /\ UNCHANGED <<opening, terminal, callerClosed, chunks, readerCloses, cancelled, call>>

RecvAfterEnd(p) ==
  /\ Acquires(p, "recv")
  /\ ~callerClosed /\ terminal
  /\ got' = "eof"
  /\ Goto(p, "ready")
  /\ UNCHANGED <<opening, stream, cancelled, call>>

(* The reader is asked for the next chunk with the mutex held.             *)
AskReader(p) ==
  /\ Acquires(p, "recv")
  /\ ~callerClosed /\ ~terminal
  /\ mu' = p
  /\ Goto(p, "receiving")
  /\ UNCHANGED <<opening, terminal, callerClosed, chunks, readerCloses, cancelled, got, call>>

ReaderDelivers(p) ==
  /\ pc[p] = "receiving"
  /\ chunks < MaxChunks
  /\ chunks' = chunks + 1
  /\ got' = "delta"
  /\ mu' = NoCaller
  /\ Goto(p, "ready")
  /\ UNCHANGED <<opening, terminal, callerClosed, readerCloses, cancelled, call>>

(* einoResponseStream.finish, then closeUpstream: the reader is closed by  *)
(* the first and, as closeOnce sees, not again by the second.              *)
EndUpstream(p, result) ==
  /\ terminal' = TRUE
  /\ readerCloses' = Once(Once(readerCloses))
  /\ outcome' = result
  /\ Goto(p, "record")
  /\ UNCHANGED <<opening, mu, callerClosed, chunks, cancelled, got, row, answer, audits>>

(* The reader is at its end and the chunks merge into a response.          *)
ReaderCompletes(p) ==
  /\ pc[p] = "receiving"
  /\ chunks > 0
  /\ EndUpstream(p, "ok")

(* A reader error, a nil or unreadable chunk, an end without any chunk, or *)
(* chunks that do not merge.                                               *)
ReaderFails(p) ==
  /\ pc[p] = "receiving"
  /\ EndUpstream(p, "error")

(* Mutant: the completed event is returned although its row was lost.      *)
RecordRecvBestEffort(p) ==
  /\ pc[p] = "record" /\ ~callerClosed
  /\ audits' = audits + 1
  /\ row' \in {outcome, "lost"}
  /\ answer' = outcome
  /\ got' = IF outcome = "ok" THEN "completed" ELSE "error"
  /\ mu' = NoCaller
  /\ Goto(p, "ready")
  /\ UNCHANGED <<opening, terminal, callerClosed, chunks, readerCloses, cancelled, outcome>>

(* The row, before the terminal event is returned.                         *)
RecordRecv(p) ==
  /\ pc[p] = "record" /\ ~callerClosed
  /\ RecordOutcome
  /\ got' = IF answer' = "ok" THEN "completed" ELSE "error"
  /\ mu' = NoCaller
  /\ Goto(p, "ready")
  /\ UNCHANGED <<opening, terminal, callerClosed, chunks, readerCloses, cancelled>>

-----------------------------------------------------------------------------
(* auditedResponseStream.Close.                                            *)

CallClose(p) ==
  /\ opening = "open"
  /\ pc[p] = "ready"
  /\ Goto(p, "close")
  /\ UNCHANGED <<opening, stream, cancelled, got, call>>

CloseAgain(p) ==
  /\ Acquires(p, "close")
  /\ callerClosed
  /\ Goto(p, "ready")
  /\ UNCHANGED <<opening, stream, cancelled, got, call>>

(* The upstream is closed already, and its Close never fails.              *)
CloseAfterEnd(p) ==
  /\ Acquires(p, "close")
  /\ ~callerClosed /\ terminal
  /\ callerClosed' = TRUE
  /\ Goto(p, "ready")
  /\ UNCHANGED <<opening, mu, terminal, chunks, readerCloses, cancelled, got, call>>

(* Mutant: Close records whatever the stream has come to.                  *)
CloseAlwaysRecords(p) ==
  /\ Acquires(p, "close")
  /\ ~callerClosed
  /\ mu' = p
  /\ callerClosed' = TRUE
  /\ readerCloses' = Once(readerCloses)
  /\ outcome' = "error"
  /\ Goto(p, "record")
  /\ UNCHANGED <<opening, terminal, chunks, cancelled, got, row, answer, audits>>

(* Closed before its end: the call has failed.                             *)
CloseEarly(p) ==
  /\ Acquires(p, "close")
  /\ ~callerClosed /\ ~terminal
  /\ mu' = p
  /\ callerClosed' = TRUE
  /\ readerCloses' = Once(readerCloses)
  /\ outcome' = "error"
  /\ Goto(p, "record")
  /\ UNCHANGED <<opening, terminal, chunks, cancelled, got, row, answer, audits>>

RecordClose(p) ==
  /\ pc[p] = "record" /\ callerClosed
  /\ RecordOutcome
  /\ terminal' = TRUE
  /\ mu' = NoCaller
  /\ Goto(p, "ready")
  /\ UNCHANGED <<opening, callerClosed, chunks, readerCloses, cancelled, got>>

Cancel ==
  /\ ~cancelled
  /\ cancelled' = TRUE
  /\ UNCHANGED <<opening, pc, stream, got, call>>

-----------------------------------------------------------------------------
Open == PrepareFails \/ StreamFails \/ RecordStreamFailure \/ StreamOpens

Locks(p) ==
  \/ RecvAfterClose(p) \/ RecvAfterEnd(p) \/ AskReader(p)
  \/ CloseAgain(p) \/ CloseAfterEnd(p) \/ CloseEarly(p)

ReaderReturns(p) == ReaderDelivers(p) \/ ReaderCompletes(p) \/ ReaderFails(p)

Records(p) == RecordRecv(p) \/ RecordClose(p)

Next ==
  \/ Open
  \/ Cancel
  \/ \E p \in Callers : CallRecv(p) \/ CallClose(p) \/ Locks(p) \/ ReaderReturns(p) \/ Records(p)

Spec == Init /\ [][Next]_vars

(* The recorder returns, and a goroutine that waits for the mutex gets it  *)
(* when it is free again and again (sync.Mutex does not starve a waiter).  *)
(* The reader owes nothing until the context of the call is done.          *)
Fairness ==
  /\ \A p \in Callers : SF_vars(Locks(p)) /\ WF_vars(Records(p))
  /\ \A p \in Callers : WF_vars(cancelled /\ ReaderReturns(p))

FairSpec == Spec /\ Fairness

-----------------------------------------------------------------------------
(* Properties.                                                             *)

(* Every stream that was opened and ended, one way or the other, and       *)
(* however Recv and Close race, asked for exactly one row, by the time its *)
(* mutex is free again.  (terminal and callerClosed; spec 001, FR-009 and  *)
(* SC-007.)                                                                *)
OneRowPerStream ==
  /\ audits <= 1
  /\ (terminal \/ callerClosed) /\ mu = NoCaller => audits = 1

(* The streamed call keeps the promise of an audited call: one outcome, one*)
(* row that says the same, and the completed event only when the row is    *)
(* written.  (Recv, Close, fail; spec 001 plan, item 10.)                  *)
Audited == INSTANCE AuditedCall

StreamIsAudited == Audited!Spec

(* Cancelling the call's context releases every goroutine that is in Recv  *)
(* or Close, those included that wait for the mutex behind a Recv.  (The   *)
(* mutex is held across the reader's Recv: Close alone releases nobody.)   *)
CancelReleasesEveryCall ==
  \A p \in Callers : (cancelled /\ pc[p] # "ready") ~> pc[p] = "ready"

(* Spec 001, spec.md: "A caller closes after completion or calls Recv      *)
(* again; ... the next receive returns io.EOF."                            *)
EOFAfterCompletion == outcome = "ok" => got # "closed_pipe"
=============================================================================
