----------------------------- MODULE AppLifecycle -----------------------------
(***************************************************************************)
(* Application.Run: components start in order, readiness is announced, a   *)
(* signal or a component's terminal error ends the wait, and the started   *)
(* prefix is closed in reverse order under one deadline.  The goroutine of *)
(* Run interleaves with signals, the deadline, and what the components do  *)
(* on their own: their workers run until the root context is done, and     *)
(* their serving may end with an error at any time.                        *)
(***************************************************************************)
EXTENDS Integers, FiniteSets

CONSTANTS
  N   \* number of components; component c is the c-th in registration order

ASSUME NAssumption == N \in Nat

Components == 1..N

VARIABLES
  pc,        \* where Run is
  next,      \* index of the component to start
  state,     \* each component: "new", "started" or "closed"
  worker,    \* components whose worker goroutine runs
  terminal,  \* what each component has sent on its Errors() channel
  received,  \* components whose value Run has received
  rootDone,  \* the root context is done: by a signal, or by stop()
  ready,     \* the Observer's readiness
  trigger,   \* the error that ended the run, or "none"
  closing,   \* index of the component to close
  expired,   \* the shutdown context has passed its deadline
  failed,    \* components whose Close returned an error
  result     \* the errors Run returned

env  == <<worker, terminal, rootDone>>
vars == <<pc, next, state, env, received, ready, trigger, closing, expired, failed, result>>

(* Nothing yet, an error, http.ErrServerClosed (or nil), or the channel was*)
(* closed.                                                                 *)
Channels == {"empty", "error", "server_closed", "closed"}

TypeOK ==
  /\ pc \in {"starting", "waiting", "shutdown", "closing", "returned"}
  /\ next \in 1..(N + 1)
  /\ state \in [Components -> {"new", "started", "closed"}]
  /\ worker \subseteq Components
  /\ terminal \in [Components -> Channels]
  /\ received \subseteq Components
  /\ rootDone \in BOOLEAN /\ ready \in BOOLEAN /\ expired \in BOOLEAN
  /\ trigger \in {"none", "start", "terminal"}
  /\ closing \in 0..N
  /\ failed \subseteq Components
  /\ result \subseteq {"start", "terminal", "close", "deadline"}

Init ==
  /\ pc = "starting"
  /\ next = 1
  /\ state = [c \in Components |-> "new"]
  /\ worker = {}
  /\ terminal = [c \in Components |-> "empty"]
  /\ received = {}
  /\ rootDone = FALSE /\ ready = FALSE /\ expired = FALSE
  /\ trigger = "none"
  /\ closing = 0
  /\ failed = {}
  /\ result = {}

Started == {c \in Components : state[c] = "started"}

-----------------------------------------------------------------------------
(* Run: starting.                                                          *)

(* Start returns nil; the component may own a worker from now on.          *)
StartComponent ==
  /\ pc = "starting"
  /\ next \in Components
  /\ state' = [state EXCEPT ![next] = "started"]
  /\ worker' \in {worker, worker \cup {next}}
  /\ next' = next + 1
  /\ UNCHANGED <<pc, terminal, rootDone, received, ready, trigger, closing, expired, failed, result>>

(* Mutant: the root context stays alive during shutdown.                   *)
StopLater(error) ==
  /\ trigger' = error
  /\ pc' = "shutdown"
  /\ UNCHANGED rootDone

(* stop(), then shutdown with the error that ended the run.                *)
Stop(error) ==
  /\ trigger' = error
  /\ rootDone' = TRUE
  /\ pc' = "shutdown"

(* A nil component, or Start returns an error: it counts unless it only    *)
(* says that the root context was cancelled.                               *)
StartFails ==
  /\ pc = "starting"
  /\ next \in Components
  /\ \/ Stop("start")
     \/ rootDone /\ Stop("none")
  /\ UNCHANGED <<next, state, worker, terminal, received, ready, closing, expired, failed, result>>

AnnounceReady ==
  /\ pc = "starting"
  /\ next \notin Components
  /\ ready' = TRUE
  /\ pc' = "waiting"
  /\ UNCHANGED <<next, state, env, received, trigger, closing, expired, failed, result>>

-----------------------------------------------------------------------------
(* Run: waitForTermination.  reflect.Select takes any case that is ready.  *)

RootIsDone ==
  /\ pc = "waiting"
  /\ rootDone
  /\ Stop("none")
  /\ UNCHANGED <<next, state, worker, terminal, received, ready, closing, expired, failed, result>>

TerminalError(c) ==
  /\ pc = "waiting"
  /\ c \notin received
  /\ terminal[c] = "error"
  /\ received' = received \cup {c}
  /\ Stop("terminal")
  /\ UNCHANGED <<next, state, worker, terminal, ready, closing, expired, failed, result>>

(* A closed channel is no longer selected; a normal end is skipped.        *)
IgnoreNormalEnd(c) ==
  /\ pc = "waiting"
  /\ c \notin received
  /\ terminal[c] \in {"server_closed", "closed"}
  /\ received' = received \cup {c}
  /\ UNCHANGED <<pc, next, state, env, ready, trigger, closing, expired,
                 failed, result>>

-----------------------------------------------------------------------------
(* Run: shutdown, once.                                                    *)

BeginShutdown ==
  /\ pc = "shutdown"
  /\ ready' = FALSE
  /\ closing' = Cardinality(Started)
  /\ pc' = "closing"
  /\ UNCHANGED <<next, state, env, received, trigger, expired, failed, result>>

(* Mutant: components are closed in the order they started.                *)
CloseForward ==
  /\ pc = "closing"
  /\ closing > 0
  /\ LET c == Cardinality({d \in Components : state[d] # "new"}) + 1 - closing IN
       /\ c \notin worker
       /\ state' = [state EXCEPT ![c] = "closed"]
       /\ failed' \in {failed, failed \cup {c}}
  /\ closing' = closing - 1
  /\ UNCHANGED <<pc, next, env, received, ready, trigger, expired, result>>

(* Close returns once the component's worker is gone, before or after the  *)
(* deadline, with or without an error.                                     *)
CloseComponent ==
  /\ pc = "closing"
  /\ closing > 0
  /\ closing \notin worker
  /\ state' = [state EXCEPT ![closing] = "closed"]
  /\ failed' \in {failed, failed \cup {closing}}
  /\ closing' = closing - 1
  /\ UNCHANGED <<pc, next, env, received, ready, trigger, expired, result>>

(* Mutant: Run gives up at the deadline.                                   *)
FinishAtDeadline ==
  /\ pc = "closing"
  /\ closing = 0 \/ expired
  /\ result' = ({trigger} \ {"none"}) \cup {e \in {"close"} : failed # {}}
                                      \cup {e \in {"deadline"} : expired}
  /\ pc' = "returned"
  /\ UNCHANGED <<next, state, env, received, ready, trigger, closing, expired, failed>>

(* The errors are joined.                                                  *)
FinishShutdown ==
  /\ pc = "closing"
  /\ closing = 0
  /\ result' = ({trigger} \ {"none"}) \cup {e \in {"close"} : failed # {}}
                                      \cup {e \in {"deadline"} : expired}
  /\ pc' = "returned"
  /\ UNCHANGED <<next, state, env, received, ready, trigger, closing, expired, failed>>

-----------------------------------------------------------------------------
(* What happens outside Run.                                               *)

(* SIGINT, SIGTERM or the parent context.                                  *)
Signal ==
  /\ ~rootDone
  /\ rootDone' = TRUE
  /\ UNCHANGED <<pc, next, state, worker, terminal, received, ready, trigger, closing, expired,
                 failed, result>>

(* A started component's serving ends, or its channel is closed.           *)
ServingEnds(c) ==
  /\ state[c] = "started"
  /\ terminal[c] = "empty"
  /\ \E end \in {"error", "server_closed", "closed"} :
       terminal' = [terminal EXCEPT ![c] = end]
  /\ UNCHANGED <<pc, next, state, worker, rootDone, received, ready, trigger, closing, expired,
                 failed, result>>

(* A worker ends when the context its component was started with is done.  *)
WorkerExits(c) ==
  /\ c \in worker
  /\ rootDone
  /\ worker' = worker \ {c}
  /\ UNCHANGED <<pc, next, state, terminal, rootDone, received, ready, trigger, closing, expired,
                 failed, result>>

DeadlinePasses ==
  /\ pc = "closing"
  /\ ~expired
  /\ expired' = TRUE
  /\ UNCHANGED <<pc, next, state, env, received, ready, trigger, closing, failed, result>>
-----------------------------------------------------------------------------
Run ==
  \/ StartComponent \/ StartFails \/ AnnounceReady \/ RootIsDone
  \/ \E c \in Components : TerminalError(c) \/ IgnoreNormalEnd(c)
  \/ BeginShutdown \/ FinishShutdown

Next ==
  \/ Run \/ CloseComponent \/ Signal \/ DeadlinePasses
  \/ \E c \in Components : ServingEnds(c) \/ WorkerExits(c)

Spec == Init /\ [][Next]_vars

(* Run's goroutine keeps running and Start returns; workers honor the root *)
(* context; the deadline passes, and Close returns by then at the latest   *)
(* ("Close must honor its context").  Nobody has to send a signal.         *)
Fairness ==
  /\ WF_vars(Run)
  /\ WF_vars(DeadlinePasses)
  /\ WF_vars(expired /\ CloseComponent)
  /\ \A c \in Components : WF_vars(WorkerExits(c))

FairSpec == Spec /\ Fairness

-----------------------------------------------------------------------------
(* Properties.                                                             *)

(* A component outlives everything that started after it, and one whose    *)
(* Start failed or never ran is not closed.  (The order of the loop in     *)
(* shutdown; recordStarted after Start only.)                              *)
ClosedAfterItsDependents ==
  \A c, d \in Components : (c < d /\ state[c] = "closed") => state[d] # "started"

(* When Run returns, nothing it started is left open, no worker is running,*)
(* and readiness is withdrawn.  (stop() before Close; foundation design,   *)
(* "waits for every owned goroutine".)                                     *)
NothingOutlivesRun ==
  pc = "returned" => Started = {} /\ worker = {} /\ ~ready

(* Once the root context is done, a component fails to start, or a terminal*)
(* error is pending, Run returns: no Close waits for a worker that was not *)
(* told to stop.  (Every path calls stop() before shutdown.)               *)
RunEnds ==
  (rootDone \/ \E c \in Components : terminal[c] = "error") ~> pc = "returned"
=============================================================================
