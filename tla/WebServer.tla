------------------------------ MODULE WebServer ------------------------------
(***************************************************************************)
(* web.Server as a component: Start binds the listener outside the state's *)
(* mutex and launches the one Serve goroutine; Close shuts the HTTP server *)
(* down and waits for that goroutine.  Several goroutines may call Start   *)
(* and Close at once.  net/http and the listener are outside: Serve ends   *)
(* normally once the HTTP server is shut down, or with an error of its own *)
(* before that, and closes its listener either way.                        *)
(***************************************************************************)
EXTENDS Naturals, FiniteSets

CONSTANTS
  Starters,  \* goroutines that call Start, once each
  Closers,   \* goroutines that call Close, once each
  Free, Done \* closeOnce while nobody has entered it, and when it is done

ASSUME CallersAssumption == Starters \cap Closers = {}
ASSUME OnceAssumption == Free # Done /\ {Free, Done} \cap Closers = {}

Callers == Starters \cup Closers

VARIABLES
  pc,        \* where each caller is
  starting,  \* the fields of startState
  started,
  closed,
  once,      \* closeOnce: Free, the goroutine inside, or Done
  bound,     \* starters whose listener is bound and not closed
  serving,   \* starters whose Serve goroutine runs
  launches,  \* Serve goroutines launched so far
  stopped,   \* the HTTP server is shut down or closed
  errors,    \* values sent to the errors channel, whose capacity is 1
  done       \* the done channel is closed

state == <<starting, started, closed, once>>
serve == <<bound, serving, launches, stopped, errors, done>>
vars  == <<pc, state, serve>>

StartStages == {"start", "bind", "check", "abandon", "launch", "returned"}
CloseStages == {"close", "lock", "shutdown", "drain", "await", "returned"}

TypeOK ==
  /\ pc \in [Callers -> StartStages \cup CloseStages]
  /\ starting \in BOOLEAN /\ started \in BOOLEAN /\ closed \in BOOLEAN
  /\ once \in {Free, Done} \cup Closers
  /\ bound \subseteq Starters
  /\ serving \subseteq Starters
  /\ launches \in 0..1
  /\ stopped \in BOOLEAN
  /\ errors \in 0..1
  /\ done \in BOOLEAN

Init ==
  /\ pc = [c \in Callers |-> IF c \in Starters THEN "start" ELSE "close"]
  /\ starting = FALSE /\ started = FALSE /\ closed = FALSE
  /\ once = Free
  /\ bound = {} /\ serving = {} /\ launches = 0
  /\ stopped = FALSE
  /\ errors = 0
  /\ done = FALSE

At(c, stage) == pc[c] = stage
Goto(c, stage) == pc' = [pc EXCEPT ![c] = stage]

-----------------------------------------------------------------------------
(* Start.                                                                  *)

(* The context is done, or the state says closed, started or starting.     *)
StartRefused(s) ==
  /\ At(s, "start")
  /\ Goto(s, "returned")
  /\ UNCHANGED <<state, serve>>

StartAccepted(s) ==
  /\ At(s, "start")
  /\ ~closed /\ ~started /\ ~starting
  /\ starting' = TRUE
  /\ Goto(s, "bind")
  /\ UNCHANGED <<started, closed, once, serve>>

(* Binding happens without the mutex; a failed one may be tried again.     *)
BindFails(s) ==
  /\ At(s, "bind")
  /\ starting' = FALSE
  /\ Goto(s, "returned")
  /\ UNCHANGED <<started, closed, once, serve>>

Bind(s) ==
  /\ At(s, "bind")
  /\ bound' = bound \cup {s}
  /\ Goto(s, "check")
  /\ UNCHANGED <<state, serving, launches, stopped, errors, done>>

(* Mutant: closed is not looked at again after the bind.                   *)
StartUnchecked(s) ==
  /\ At(s, "check")
  /\ starting' = FALSE
  /\ started' = TRUE
  /\ Goto(s, "launch")
  /\ UNCHANGED <<closed, once, serve>>

(* Back under the mutex: Close may have come in between.                   *)
FinishStart(s) ==
  /\ At(s, "check")
  /\ starting' = FALSE
  /\ \/ closed /\ Goto(s, "abandon") /\ UNCHANGED started
     \/ ~closed /\ Goto(s, "launch") /\ started' = TRUE
  /\ UNCHANGED <<closed, once, serve>>

(* Mutant: the listener that is not needed any more is not closed.         *)
AbandonListener(s) ==
  /\ At(s, "abandon")
  /\ done' = TRUE
  /\ Goto(s, "returned")
  /\ UNCHANGED <<state, bound, serving, launches, stopped, errors>>

Abandon(s) ==
  /\ At(s, "abandon")
  /\ bound' = bound \ {s}
  /\ done' = TRUE
  /\ Goto(s, "returned")
  /\ UNCHANGED <<state, serving, launches, stopped, errors>>

Launch(s) ==
  /\ At(s, "launch")
  /\ serving' = serving \cup {s}
  /\ launches' = launches + 1
  /\ Goto(s, "returned")
  /\ UNCHANGED <<state, bound, stopped, errors, done>>

-----------------------------------------------------------------------------
(* The goroutine of Start.                                                 *)

(* Mutant: a failed Serve does not tell Close that it has ended.           *)
ServeEndsSilently(s) ==
  /\ s \in serving
  /\ serving' = serving \ {s}
  /\ bound' = bound \ {s}
  /\ \/ stopped /\ UNCHANGED errors /\ done' = TRUE
     \/ ~stopped /\ errors' = errors + 1 /\ UNCHANGED done
  /\ UNCHANGED <<pc, state, launches, stopped>>

(* Serve returns http.ErrServerClosed, which is dropped, or an error of its*)
(* own, which is sent; finish closes done.                                 *)
ServeEnds(s) ==
  /\ s \in serving
  /\ serving' = serving \ {s}
  /\ bound' = bound \ {s}
  /\ \/ stopped /\ UNCHANGED errors
     \/ ~stopped /\ errors' = errors + 1
  /\ done' = TRUE
  /\ UNCHANGED <<pc, state, launches, stopped>>

-----------------------------------------------------------------------------
(* Close.                                                                  *)

EnterOnce(k) ==
  /\ At(k, "close")
  /\ once = Free
  /\ once' = k
  /\ Goto(k, "lock")
  /\ UNCHANGED <<starting, started, closed, serve>>

(* closeOnce.Do has returned to another caller: its closeErr is returned.  *)
CloseAgain(k) ==
  /\ At(k, "close")
  /\ once = Done
  /\ Goto(k, "returned")
  /\ UNCHANGED <<state, serve>>

LockAndClose(k) ==
  /\ At(k, "lock")
  /\ closed' = TRUE
  /\ \/ started /\ Goto(k, "shutdown") /\ UNCHANGED once
     \/ ~started /\ Goto(k, "returned") /\ once' = Done
  /\ UNCHANGED <<starting, started, serve>>

(* http.Server.Shutdown: Serve ends, also when it has not been reached yet.*)
Shutdown(k) ==
  /\ At(k, "shutdown")
  /\ stopped' = TRUE
  /\ Goto(k, "drain")
  /\ UNCHANGED <<state, bound, serving, launches, errors, done>>

(* It returns when all connections are idle, or at the deadline of the     *)
(* context; then http.Server.Close drops the rest.                         *)
Drained(k) ==
  /\ At(k, "drain")
  /\ Goto(k, "await")
  /\ UNCHANGED <<state, serve>>

AwaitDone(k) ==
  /\ At(k, "await")
  /\ done
  /\ once' = Done
  /\ Goto(k, "returned")
  /\ UNCHANGED <<starting, started, closed, serve>>

-----------------------------------------------------------------------------
StartStep(s) ==
  \/ StartRefused(s) \/ StartAccepted(s) \/ BindFails(s) \/ Bind(s)
  \/ FinishStart(s) \/ Abandon(s) \/ Launch(s)

CloseStep(k) ==
  \/ EnterOnce(k) \/ CloseAgain(k) \/ LockAndClose(k)
  \/ Shutdown(k) \/ AwaitDone(k)

Next ==
  \/ \E s \in Starters : StartStep(s) \/ ServeEnds(s)
  \/ \E k \in Closers : CloseStep(k) \/ Drained(k)

Spec == Init /\ [][Next]_vars

(* Callers that have called keep running; binding and draining end; Serve  *)
(* ends when the HTTP server is stopped, and need not end before.          *)
Fairness ==
  /\ \A s \in Starters : WF_vars(~At(s, "start") /\ StartStep(s))
  /\ \A s \in Starters : WF_vars(stopped /\ ServeEnds(s))
  /\ \A k \in Closers : WF_vars(~(At(k, "close") /\ once = Free) /\ CloseStep(k))
  /\ \A k \in Closers : WF_vars(Drained(k))

FairSpec == Spec /\ Fairness

-----------------------------------------------------------------------------
(* Properties.                                                             *)

(* Once Close has returned to anybody, no goroutine of the server serves,  *)
(* and none ever will, even when a Start was in progress; the listener of  *)
(* such a Start is closed before that Start returns.  (The second look at  *)
(* closed in Start, <-done in close; foundation design: "waits for every   *)
(* owned goroutine".)                                                      *)
NothingServesAfterClose ==
  once = Done =>
    /\ serving = {}
    /\ \A s \in Starters : ~At(s, "launch")
    /\ \A s \in bound : At(s, "check") \/ At(s, "abandon")

(* However many calls of Start race, Serve is launched once at most, for   *)
(* the one listener there is, and no listener stays bound without a        *)
(* goroutine that serves it or a Start that will deal with it.  (starting  *)
(* and started.)                                                           *)
OneListenerServed ==
  /\ launches <= 1
  /\ Cardinality(bound) <= 1
  /\ bound \subseteq serving \cup {s \in Starters : pc[s] \in {"check", "abandon", "launch"}}

(* A Close that has begun returns, to every caller, also when Serve failed *)
(* before it or has not been reached yet.  (done is closed on every path   *)
(* of the Serve goroutine; the errors channel has room for its one error.) *)
CloseReturns ==
  \A k \in Closers : (pc[k] \notin {"close", "returned"}) ~> pc[k] = "returned"
=============================================================================
