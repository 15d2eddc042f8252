--------------------------- MODULE HTTPServerProofs ---------------------------
(* Theorems about WebServer and HTTPServer: for any number of goroutines    *)
(* that start and close the server, any requests and any listings.          *)
EXTENDS HTTPServer, FiniteSetTheorems, WellFoundedInduction, TLAPS

USE CallersAssumption, OnceAssumption

-----------------------------------------------------------------------------
(* The server.                                                              *)

(* A Start is under way, or its goroutine serves.                           *)
Holds(s) == pc[s] \in {"bind", "check", "abandon", "launch"} \/ s \in serving

(* There is one such goroutine at a time, because each keeps the state from *)
(* accepting another.                                                       *)
OneHolder == \A s, t \in Starters : Holds(s) /\ Holds(t) => s = t

HoldersBlockStarts ==
  \A s \in Starters :
    /\ pc[s] \in {"bind", "check"} => starting /\ ~started
    /\ pc[s] = "abandon" => closed /\ ~starting /\ ~started
    /\ pc[s] = "launch" => started /\ launches = 0
    /\ s \in serving => started /\ launches = 1

StagesOfCallers ==
  /\ \A s \in Starters : pc[s] \in StartStages
  /\ \A k \in Closers : pc[k] \in CloseStages

BoundIsHeld ==
  \A s \in Starters :
    s \in bound <=> pc[s] \in {"check", "abandon", "launch"} \/ s \in serving

LaunchedOnce == ~started => launches = 0

ErrorsFromServe == errors = 1 => launches = 1 /\ serving = {}

(* done is closed by the goroutine that served, or by a Start that Close    *)
(* overtook.                                                                *)
DoneIsFinal ==
  done => \/ started /\ launches = 1 /\ serving = {}
          \/ closed /\ ~starting /\ ~started

CloseHasLocked ==
  /\ \A k \in Closers : pc[k] \in {"shutdown", "drain", "await"} => closed /\ started
  /\ once = Done => closed /\ (started => done)

ServerInv ==
  /\ TypeOK /\ StagesOfCallers /\ OneHolder /\ HoldersBlockStarts /\ BoundIsHeld
  /\ LaunchedOnce /\ ErrorsFromServe /\ DoneIsFinal /\ CloseHasLocked

(* The server's invariant holds initially.                                  *)
LEMMA InitServerInv == Init => ServerInv
<1>. SUFFICES ASSUME Init PROVE ServerInv
  OBVIOUS
<1>. USE DEF Init
<1>1. starting \in BOOLEAN /\ started \in BOOLEAN /\ closed \in BOOLEAN
      /\ stopped \in BOOLEAN /\ done \in BOOLEAN
  BY Zenon
<1>2. TypeOK
  BY <1>1 DEF TypeOK, Callers, StartStages, CloseStages
<1>3. StagesOfCallers
  BY DEF StagesOfCallers, Callers, StartStages, CloseStages
<1>4. OneHolder /\ HoldersBlockStarts /\ BoundIsHeld
  BY DEF OneHolder, Holds, HoldersBlockStarts, BoundIsHeld, Callers
<1>5. LaunchedOnce /\ ErrorsFromServe /\ DoneIsFinal
  BY DEF LaunchedOnce, ErrorsFromServe, DoneIsFinal
<1>6. CloseHasLocked
  BY DEF CloseHasLocked, Callers
<1>. QED
  BY <1>2, <1>3, <1>4, <1>5, <1>6 DEF ServerInv

(* Every step of Start keeps the invariant.                                 *)
LEMMA StartKeeps ==
  ASSUME ServerInv, NEW s \in Starters, StartStep(s)
  PROVE  ServerInv'
<1>. USE DEF ServerInv, At, Goto, state, serve, StartRefused, StartAccepted, BindFails, Bind,
             FinishStart, Abandon, Launch
<1>0. s \in Callers /\ s \notin Closers
  BY DEF Callers
<1>1. TypeOK'
  <2>1. /\ starting' \in BOOLEAN /\ started' \in BOOLEAN /\ closed' \in BOOLEAN
        /\ stopped' \in BOOLEAN /\ done' \in BOOLEAN
    BY Zenon DEF StartStep, TypeOK
  <2>2. pc' \in [Callers -> StartStages \cup CloseStages]
    BY <1>0 DEF StartStep, TypeOK, StartStages
  <2>3. launches' \in 0..1
    BY DEF StartStep, TypeOK, HoldersBlockStarts
  <2>. QED
    BY <2>1, <2>2, <2>3 DEF StartStep, TypeOK
<1>7. StagesOfCallers'
  BY <1>0 DEF StartStep, TypeOK, StagesOfCallers, StartStages, Callers
<1>2. OneHolder'
  BY <1>0 DEF StartStep, TypeOK, OneHolder, Holds, HoldersBlockStarts, Callers
<1>3. HoldersBlockStarts'
  BY <1>0 DEF StartStep, TypeOK, OneHolder, Holds, HoldersBlockStarts, LaunchedOnce, Callers
<1>4. BoundIsHeld'
  BY <1>0 DEF StartStep, TypeOK, BoundIsHeld, HoldersBlockStarts, Callers
<1>5. LaunchedOnce' /\ ErrorsFromServe' /\ DoneIsFinal'
  BY <1>0 DEF StartStep, TypeOK, LaunchedOnce, ErrorsFromServe, DoneIsFinal, HoldersBlockStarts
<1>6. CloseHasLocked'
  BY <1>0 DEF StartStep, TypeOK, CloseHasLocked, Callers
<1>. QED
  BY <1>1, <1>2, <1>3, <1>4, <1>5, <1>6, <1>7

(* The end of the Serve goroutine keeps the invariant.                      *)
LEMMA ServeEndsKeeps ==
  ASSUME ServerInv, NEW s \in Starters, ServeEnds(s)
  PROVE  ServerInv'
<1>. USE DEF ServerInv, ServeEnds, state
<1>1. TypeOK'
  <2>1. done' \in BOOLEAN
    BY Zenon
  <2>2. errors' \in 0..1
    BY DEF TypeOK, ErrorsFromServe
  <2>. QED
    BY <2>1, <2>2 DEF TypeOK
<1>2. StagesOfCallers' /\ OneHolder' /\ HoldersBlockStarts' /\ LaunchedOnce'
  BY DEF StagesOfCallers, OneHolder, Holds, HoldersBlockStarts, LaunchedOnce
<1>3. BoundIsHeld' /\ serving' = {}
  BY DEF TypeOK, BoundIsHeld, OneHolder, Holds, HoldersBlockStarts
<1>4. ErrorsFromServe' /\ DoneIsFinal' /\ CloseHasLocked'
  BY <1>3 DEF ErrorsFromServe, DoneIsFinal, CloseHasLocked, HoldersBlockStarts
<1>. QED
  BY <1>1, <1>2, <1>3, <1>4

(* Every step of Close keeps the invariant.                                 *)
LEMMA CloseKeeps ==
  ASSUME ServerInv, NEW k \in Closers, CloseStep(k) \/ Drained(k)
  PROVE  ServerInv'
<1>. USE DEF ServerInv, CloseStep, At, Goto, state, serve, EnterOnce, CloseAgain, LockAndClose,
             Shutdown, Drained, AwaitDone
<1>0. k \in Callers /\ k \notin Starters
  BY DEF Callers
<1>1. TypeOK' /\ StagesOfCallers'
  BY <1>0 DEF TypeOK, StagesOfCallers, CloseStages, Callers
<1>2. OneHolder' /\ HoldersBlockStarts' /\ BoundIsHeld'
  BY <1>0 DEF TypeOK, OneHolder, Holds, HoldersBlockStarts, BoundIsHeld, Callers
<1>3. LaunchedOnce' /\ ErrorsFromServe' /\ DoneIsFinal'
  BY DEF LaunchedOnce, ErrorsFromServe, DoneIsFinal, TypeOK
<1>4. CloseHasLocked'
  BY <1>0 DEF TypeOK, CloseHasLocked, Callers
<1>. QED
  BY <1>1, <1>2, <1>3, <1>4

(* Every step of the server keeps its invariant.                            *)
LEMMA NextServerInv == ServerInv /\ [Next]_vars => ServerInv'
<1>. SUFFICES ASSUME ServerInv, [Next]_vars
              PROVE  ServerInv'
  OBVIOUS
<1>1. ASSUME NEW s \in Starters, StartStep(s)
      PROVE  ServerInv'
  BY <1>1, StartKeeps
<1>2. ASSUME NEW s \in Starters, ServeEnds(s)
      PROVE  ServerInv'
  BY <1>2, ServeEndsKeeps
<1>3. ASSUME NEW k \in Closers, CloseStep(k) \/ Drained(k)
      PROVE  ServerInv'
  BY <1>3, CloseKeeps
<1>4. CASE UNCHANGED vars
  BY <1>4 DEF vars, state, serve, ServerInv, TypeOK, StagesOfCallers, OneHolder, Holds,
              HoldersBlockStarts, BoundIsHeld, LaunchedOnce, ErrorsFromServe, DoneIsFinal,
              CloseHasLocked
<1>. QED
  BY <1>1, <1>2, <1>3, <1>4 DEF Next

(* The server's invariant holds in every reachable state.                   *)
LEMMA SpecServerInv == Spec => []ServerInv
BY InitServerInv, NextServerInv, PTL DEF Spec

(* When Close has returned nothing serves and nothing will, however many    *)
(* goroutines start and close the server.                                   *)
THEOREM NothingServes == Spec => []NothingServesAfterClose
<1>1. ServerInv => NothingServesAfterClose
  BY DEF ServerInv, TypeOK, HoldersBlockStarts, BoundIsHeld, DoneIsFinal, CloseHasLocked,
         NothingServesAfterClose, At
<1>. QED
  BY <1>1, SpecServerInv, PTL

(* At most one listener is bound and it is served once, or dealt with by    *)
(* the Start that bound it.                                                 *)
THEOREM OneListener == Spec => []OneListenerServed
<1>1. ServerInv => OneListenerServed
  <2>. SUFFICES ASSUME ServerInv PROVE OneListenerServed
    OBVIOUS
  <2>1. launches <= 1
    BY DEF ServerInv, TypeOK
  <2>2. bound \subseteq serving \cup {s \in Starters : pc[s] \in {"check", "abandon", "launch"}}
    BY DEF ServerInv, TypeOK, BoundIsHeld
  <2>3. \A s, t \in bound : s = t
    BY DEF ServerInv, TypeOK, BoundIsHeld, OneHolder, Holds
  <2>4. Cardinality(bound) <= 1
    <3>1. CASE bound = {}
      BY <3>1, FS_EmptySet
    <3>2. ASSUME NEW s \in bound
          PROVE  Cardinality(bound) <= 1
      <4>1. bound = {s}
        BY <2>3
      <4>. QED
        BY <4>1, FS_Singleton
    <3>. QED
      BY <3>1, <3>2
  <2>. QED
    BY <2>1, <2>2, <2>4 DEF OneListenerServed
<1>. QED
  BY <1>1, SpecServerInv, PTL

-----------------------------------------------------------------------------
(* The server with its requests.                                            *)

USE RequestsAssumption, NoReplyAssumption

(* A step of the server with its requests is one of the server or leaves it *)
(* alone.                                                                   *)
LEMMA HTTPNextImplementsNext == [HTTPNext]_<<vars, http>> => [Next]_vars
BY DEF HTTPNext, ServerStep, Drain, SetReady, RequestStep, Arrive, Correlate, Handle, HandleOther,
       Return, Panic, Recover, Observe, Flush, Next

(* The server with its requests is a server: what is proved of the one holds*)
(* of the other.                                                            *)
THEOREM RequestsRefineServer == HTTPSpec => Spec
<1>1. HTTPInit => Init
  BY DEF HTTPInit
<1>. QED
  BY <1>1, HTTPNextImplementsNext, PTL DEF HTTPSpec, Spec

(* There are requests in flight only of a server that was started; once     *)
(* Close has drained it, those left are cut off and no others arrive.       *)
RequestsNeedServer == \A r \in Requests : InFlight(r) => started

DrainedMeansCut ==
  (\E k \in Closers : pc[k] = "await") \/ (once = Done /\ started) =>
    stopped /\ \A r \in Requests : InFlight(r) => r \in cut

StoppedWhenDraining == \A k \in Closers : pc[k] \in {"drain", "await"} => stopped

HTTPInv ==
  /\ ServerInv
  /\ cut \subseteq Requests
  /\ stage \in [Requests -> {"none", "correlate", "handle", "recover", "observe", "flush", "done"}]
  /\ RequestsNeedServer /\ DrainedMeansCut /\ StoppedWhenDraining

(* The invariant about requests holds initially.                            *)
LEMMA InitHTTPInv == HTTPInit => HTTPInv
<1>. SUFFICES ASSUME HTTPInit PROVE HTTPInv
  OBVIOUS
<1>1. ServerInv
  BY InitServerInv DEF HTTPInit
<1>2. cut \subseteq Requests /\ RequestsNeedServer
      /\ stage \in [Requests -> {"none", "correlate", "handle", "recover", "observe", "flush", "done"}]
  BY DEF HTTPInit, RequestsNeedServer, InFlight
<1>3. DrainedMeansCut /\ StoppedWhenDraining
  BY DEF HTTPInit, Init, DrainedMeansCut, StoppedWhenDraining, Callers
<1>. QED
  BY <1>1, <1>2, <1>3 DEF HTTPInv

(* A request arrives only at a server that serves and is not stopped, and   *)
(* goes on by itself: its steps keep the invariant.                         *)
LEMMA RequestKeeps ==
  ASSUME HTTPInv, NEW r \in Requests, RequestStep(r)
  PROVE  HTTPInv'
<1>. USE DEF HTTPInv
<1>1. UNCHANGED vars /\ UNCHANGED cut
  BY DEF RequestStep, Arrive, Correlate, Handle, HandleOther, Return, Panic, Recover, Observe, Flush
<1>2. ServerInv'
  BY <1>1, NextServerInv
<1>3. CASE Arrive(r)
  <2>1. started /\ ~stopped
    BY <1>3 DEF Arrive, ServerInv, TypeOK, HoldersBlockStarts
  <2>2. ~((\E k \in Closers : pc[k] = "await") \/ (once = Done /\ started))
    BY <2>1 DEF DrainedMeansCut
  <2>. QED
    BY <1>1, <1>2, <1>3, <2>1, <2>2
       DEF Arrive, Reach, InFlight, RequestsNeedServer, DrainedMeansCut, StoppedWhenDraining,
           vars, state, serve
<1>4. CASE ~Arrive(r)
  <2>1. stage[r] \notin {"none", "done"}
    BY <1>4 DEF RequestStep, Correlate, Handle, HandleOther, Return, Panic, Recover, Observe, Flush
  <2>2. /\ stage' \in [Requests -> {"none", "correlate", "handle", "recover", "observe", "flush", "done"}]
        /\ \A q \in Requests \ {r} : stage'[q] = stage[q]
    <3>1. \/ UNCHANGED stage
          \/ \E next \in {"handle", "recover", "observe", "flush", "done"} : Reach(r, next)
      BY <1>4 DEF RequestStep, Correlate, Handle, HandleOther, Return, Panic, Recover, Observe, Flush
    <3>. QED
      BY <3>1 DEF Reach
  <2>. QED
    BY <1>1, <1>2, <2>1, <2>2
       DEF InFlight, RequestsNeedServer, DrainedMeansCut, StoppedWhenDraining, vars, state, serve
<1>. QED
  BY <1>3, <1>4

(* Draining leaves no request in flight, or cuts off those that are.        *)
LEMMA DrainKeeps ==
  ASSUME HTTPInv, NEW k \in Closers, Drain(k)
  PROVE  HTTPInv'
<1>. USE DEF HTTPInv, Drain
<1>1. ServerInv'
  BY NextServerInv DEF Next
<1>2. UNCHANGED <<starting, started, closed, once, stopped>>
  BY DEF Drained, state, serve
<1>3. \A r \in Requests : InFlight(r)' => r \in cut'
  BY DEF InFlight
<1>4. stopped
  BY DEF Drained, At, StoppedWhenDraining
<1>5. StoppedWhenDraining'
  BY <1>2, <1>4 DEF StoppedWhenDraining
<1>6. RequestsNeedServer' /\ DrainedMeansCut'
  BY <1>2, <1>3, <1>4 DEF RequestsNeedServer, DrainedMeansCut, InFlight
<1>7. cut' \subseteq Requests /\ UNCHANGED stage
  OBVIOUS
<1>. QED
  BY <1>1, <1>5, <1>6, <1>7

(* The server's own steps do not touch requests: closeOnce is done only     *)
(* after draining, or when nothing was started.                             *)
LEMMA ServerKeeps ==
  ASSUME HTTPInv, ServerStep
  PROVE  HTTPInv'
<1>. USE DEF HTTPInv, ServerStep, http
<1>1. ServerInv'
  BY NextServerInv DEF Next
<1>2. /\ cut' \subseteq Requests
      /\ stage' \in [Requests -> {"none", "correlate", "handle", "recover", "observe", "flush", "done"}]
  OBVIOUS
<1>3. ASSUME NEW s \in Starters, StartStep(s) \/ ServeEnds(s)
      PROVE  RequestsNeedServer' /\ DrainedMeansCut' /\ StoppedWhenDraining'
  <2>1. UNCHANGED <<closed, once, stopped>> /\ (started => started') /\ (closed => started' = started)
    BY <1>3 DEF StartStep, ServeEnds, StartRefused, StartAccepted, BindFails, Bind, FinishStart,
                Abandon, Launch, state, serve
  <2>2. \A k \in Closers : pc'[k] = pc[k]
    BY <1>3 DEF StartStep, ServeEnds, StartRefused, StartAccepted, BindFails, Bind, FinishStart,
                Abandon, Launch, Goto, ServerInv, TypeOK, Callers
  <2>. QED
    BY <2>1, <2>2 DEF RequestsNeedServer, DrainedMeansCut, StoppedWhenDraining, InFlight,
                      ServerInv, CloseHasLocked
<1>4. ASSUME NEW k \in Closers, CloseStep(k)
      PROVE  RequestsNeedServer' /\ DrainedMeansCut' /\ StoppedWhenDraining'
  <2>. USE DEF At, Goto, state, serve
  <2>0. k \in Callers
    BY DEF Callers
  <2>1. RequestsNeedServer'
    BY <1>4 DEF CloseStep, EnterOnce, CloseAgain, LockAndClose, Shutdown, AwaitDone,
                RequestsNeedServer, InFlight
  <2>2. StoppedWhenDraining'
    <3>1. stopped => stopped'
      BY <1>4 DEF CloseStep, EnterOnce, CloseAgain, LockAndClose, Shutdown, AwaitDone
    <3>2. \A j \in Closers : pc'[j] \in {"drain", "await"} => pc[j] \in {"drain", "await"} \/ stopped'
      BY <1>4, <2>0 DEF CloseStep, EnterOnce, CloseAgain, LockAndClose, Shutdown, AwaitDone,
                        ServerInv, TypeOK, Callers
    <3>. QED
      BY <3>1, <3>2 DEF StoppedWhenDraining
  <2>3. DrainedMeansCut'
    BY <1>4, <2>0 DEF CloseStep, EnterOnce, CloseAgain, LockAndClose, Shutdown, AwaitDone,
                      DrainedMeansCut, InFlight, ServerInv, TypeOK, Callers
  <2>. QED
    BY <2>1, <2>2, <2>3
<1>. QED
  BY <1>1, <1>2, <1>3, <1>4

(* Every step keeps the invariant about requests.                           *)
LEMMA NextHTTPInv == HTTPInv /\ [HTTPNext]_<<vars, http>> => HTTPInv'
<1>. SUFFICES ASSUME HTTPInv, [HTTPNext]_<<vars, http>>
              PROVE  HTTPInv'
  OBVIOUS
<1>1. CASE SetReady \/ UNCHANGED <<vars, http>>
  <2>1. UNCHANGED <<vars, stage, cut>>
    BY <1>1 DEF SetReady, http
  <2>2. ServerInv'
    BY <2>1, NextServerInv DEF HTTPInv
  <2>. QED
    BY <2>1, <2>2 DEF HTTPInv, RequestsNeedServer, DrainedMeansCut, StoppedWhenDraining, InFlight,
                      vars, state, serve
<1>. QED
  BY <1>1, ServerKeeps, DrainKeeps, RequestKeeps DEF HTTPNext

(* When Close has returned, only requests that it cut off are still running,*)
(* for any number of requests and of goroutines that start and close.       *)
THEOREM NoRequestLeft == HTTPSpec => []CloseLeavesNoRequest
<1>1. HTTPInv => CloseLeavesNoRequest
  BY DEF HTTPInv, RequestsNeedServer, DrainedMeansCut, CloseLeavesNoRequest
<1>. QED
  BY <1>1, InitHTTPInv, NextHTTPInv, PTL DEF HTTPSpec

-----------------------------------------------------------------------------
(* Counting.                                                                *)

(* Whatever is written has a status that is counted, and is something.      *)
LEMMA RepliesHaveStatus ==
  ASSUME NEW envelope \in Replies
  PROVE  envelope.status \in Statuses /\ envelope # NoReply
<1>. USE DEF Error, Success, Envelope, InternalFallback, Statuses
<1>1. \A query \in Queries : Listing(query).status \in Statuses
  BY DEF Listing, Page
<1>2. envelope.status \in Statuses
  BY <1>1 DEF Replies, OtherReplies, Info, NoRoute, NoMethod, Page
<1>. QED
  BY <1>2, NoReplyAssumption

(* Health and Recovery write one of the replies.                            *)
LEMMA HandlersWriteReplies ==
  /\ Health \in Replies /\ Info \in Replies /\ NoRoute \in Replies /\ NoMethod \in Replies
  /\ Error(500, "internal", TRUE, <<>>) \in Replies
  /\ OtherReplies \subseteq Replies
<1>1. Error(500, "internal", TRUE, <<>>) = InternalFallback
  BY DEF Error, InternalFallback, Envelope
<1>2. Health = Info \/ Health = Error(503, "not_ready", TRUE, <<>>)
  BY DEF Health, Info
<1>. DEFINE notReady == Error(503, "not_ready", TRUE, <<>>)
<1>3. Replies = OtherReplies \cup {Info, NoRoute, NoMethod, InternalFallback, notReady}
  BY DEF Replies
<1>. HIDE DEF notReady
<1>4. /\ Info \in Replies /\ NoRoute \in Replies /\ NoMethod \in Replies
      /\ InternalFallback \in Replies /\ notReady \in Replies
      /\ OtherReplies \subseteq Replies
  BY <1>3, SMT
<1>5. Health \in Replies
  BY <1>2, <1>4 DEF notReady
<1>. QED
  BY <1>1, <1>4, <1>5

Replied(code) ==
  {r \in Requests : stage[r] \in {"flush", "done"} /\ reply[r] # NoReply /\ reply[r].status = code}

(* What is counted is on record, and cannot change any more.                *)
CountInv ==
  /\ stage \in [Requests -> {"none", "correlate", "handle", "recover", "observe", "flush", "done"}]
  /\ reply \in [Requests -> Replies \cup {NoReply}]
  /\ counts \in [Statuses -> Nat]
  /\ \A r \in Requests :
       /\ stage[r] \in {"none", "correlate"} => reply[r] = NoReply
       /\ stage[r] = "observe" => reply[r] # NoReply
  /\ \A code \in Statuses : counts[code] = Cardinality(Replied(code))

(* Nothing is counted initially.                                            *)
LEMMA InitCountInv == HTTPInit => CountInv
<1>. SUFFICES ASSUME HTTPInit PROVE CountInv
  OBVIOUS
<1>1. \A code \in Statuses : Replied(code) = {}
  BY DEF HTTPInit, Replied
<1>2. \A code \in Statuses : counts[code] = Cardinality(Replied(code))
  BY <1>1, FS_EmptySet DEF HTTPInit
<1>. QED
  BY <1>2 DEF HTTPInit, CountInv

(* A step of a request that counts nothing moves it on, and may write its   *)
(* first reply while its handler runs or its panic is caught.               *)
LEMMA UncountedKeeps ==
  ASSUME CountInv, NEW r \in Requests, UNCHANGED counts,
         NEW next \in {"correlate", "handle", "recover", "observe", "flush", "done"},
         stage' = [stage EXCEPT ![r] = next],
         \/ /\ reply' = reply
            /\ stage[r] = "none" => next = "correlate"
            /\ next = "observe" => reply[r] # NoReply
            /\ next = "flush" => stage[r] = "flush"
            /\ next = "done" => stage[r] = "flush" \/ reply[r] = NoReply
            /\ stage[r] \in {"flush", "done"} => next \in {"flush", "done"}
            /\ next = "correlate" => reply[r] = NoReply
         \/ \E envelope \in Replies :
              /\ Write(r, envelope)
              /\ stage[r] \in {"handle", "recover"}
              /\ next \in {"handle", "observe"}
  PROVE  CountInv'
<1>. USE DEF CountInv
<1>1. /\ reply' \in [Requests -> Replies \cup {NoReply}]
      /\ \A q \in Requests \ {r} : reply'[q] = reply[q] /\ stage'[q] = stage[q]
      /\ stage'[r] = next
  BY DEF Write
<1>2. \/ reply'[r] = reply[r] /\ reply' = reply
      \/ /\ reply'[r] # NoReply
         /\ stage[r] \in {"handle", "recover"} /\ next \in {"handle", "observe"}
  BY NoReplyAssumption DEF Write
<1>3. /\ stage'[r] \in {"none", "correlate"} => reply'[r] = NoReply
      /\ stage'[r] = "observe" => reply'[r] # NoReply
  BY <1>1, NoReplyAssumption DEF Write
<1>4. stage[r] \in {"flush", "done"} /\ reply[r] # NoReply
        <=> stage'[r] \in {"flush", "done"} /\ reply'[r] # NoReply
  BY <1>1, <1>2 DEF Write
<1>5. stage[r] \in {"flush", "done"} => reply'[r] = reply[r]
  BY <1>2
<1>6. \A code \in Statuses : Replied(code)' = Replied(code)
  BY <1>1, <1>4, <1>5 DEF Replied
<1>7. \A code \in Statuses : counts'[code] = Cardinality(Replied(code))'
  BY <1>6
<1>8. stage' \in [Requests -> {"none", "correlate", "handle", "recover", "observe", "flush", "done"}]
  OBVIOUS
<1>. QED
  BY <1>1, <1>3, <1>7, <1>8

(* Observe counts the reply of its request, which it then passes on.        *)
LEMMA ObserveKeeps ==
  ASSUME CountInv, NEW r \in Requests, Observe(r)
  PROVE  CountInv'
<1>. USE DEF CountInv, Observe, Reach
<1>. DEFINE status == reply[r].status
<1>1. status \in Statuses /\ reply[r] # NoReply
  BY RepliesHaveStatus
<1>2. /\ r \notin Replied(status)
      /\ Replied(status)' = Replied(status) \cup {r}
      /\ \A code \in Statuses \ {status} : Replied(code)' = Replied(code)
  BY <1>1 DEF Replied
<1>3. IsFiniteSet(Replied(status))
  BY FS_Subset, RequestsAssumption DEF Replied
<1>4. Cardinality(Replied(status) \cup {r}) = Cardinality(Replied(status)) + 1
  BY <1>2, <1>3, FS_AddElement
<1>5. \A code \in Statuses : counts'[code] = Cardinality(Replied(code)')
  BY <1>1, <1>2, <1>4
<1>6. counts' \in [Statuses -> Nat]
  BY <1>1
<1>7. \A code \in Statuses : counts'[code] = Cardinality(Replied(code))'
  BY <1>5
<1>8. stage' \in [Requests -> {"none", "correlate", "handle", "recover", "observe", "flush", "done"}]
  OBVIOUS
<1>. QED
  BY <1>6, <1>7, <1>8

(* Every step keeps the counting.                                           *)
LEMMA NextCountInv == CountInv /\ [HTTPNext]_<<vars, http>> => CountInv'
<1>. SUFFICES ASSUME CountInv, [HTTPNext]_<<vars, http>>
              PROVE  CountInv'
  OBVIOUS
<1>1. CASE UNCHANGED <<stage, reply, counts>>
  BY <1>1 DEF CountInv, Replied
<1>2. ASSUME NEW r \in Requests, RequestStep(r)
      PROVE  CountInv'
  <2>. USE HandlersWriteReplies DEF Reach, CountInv
  <2>1. CASE Arrive(r) \/ Correlate(r)
    BY <2>1, UncountedKeeps DEF Arrive, Correlate
  <2>2. CASE Handle(r)
    <3>1. PICK envelope \in Replies : Write(r, envelope)
      BY <2>2 DEF Handle
    <3>2. stage[r] = "handle" /\ UNCHANGED counts /\ stage' = [stage EXCEPT ![r] = "observe"]
      BY <2>2 DEF Handle
    <3>. HIDE DEF CountInv
    <3>. QED
      BY <3>1, <3>2, UncountedKeeps
  <2>3. CASE HandleOther(r)
    <3>1. stage' = [stage EXCEPT ![r] = "handle"]
      BY <2>3 DEF HandleOther
    <3>. QED
      BY <2>3, <3>1, UncountedKeeps DEF HandleOther
  <2>4. CASE Return(r) \/ Panic(r)
    BY <2>4, UncountedKeeps DEF Return, Panic
  <2>5. CASE Recover(r)
    BY <2>5, UncountedKeeps DEF Recover
  <2>6. CASE Observe(r)
    BY <2>6, ObserveKeeps
  <2>7. CASE Flush(r)
    BY <2>7, UncountedKeeps DEF Flush
  <2>. QED
    BY <1>2, <2>1, <2>2, <2>3, <2>4, <2>5, <2>6, <2>7 DEF RequestStep
<1>. QED
  BY <1>1, <1>2 DEF HTTPNext, ServerStep, SetReady, Drain, http

(* Every reply is counted once, under the status its client sees, whatever  *)
(* handlers do and however requests and the server interleave.              *)
THEOREM RepliesAreCounted == HTTPSpec => []EveryReplyIsCounted
<1>1. CountInv => EveryReplyIsCounted
  BY DEF CountInv, Replied, EveryReplyIsCounted
<1>. QED
  BY <1>1, InitCountInv, NextCountInv, PTL DEF HTTPSpec

-----------------------------------------------------------------------------
(* Pagination.                                                              *)

(* Induction along a sequence: what holds at 0, and at k + 1 whenever it    *)
(* holds at k, holds everywhere.                                            *)
LEMMA IndexInduction ==
  ASSUME NEW n \in Nat, NEW S, 0 \in S, \A k \in 0..n : k < n /\ k \in S => k + 1 \in S
  PROVE  0..n \subseteq S
<1>. DEFINE missed == {k \in 0..n : k \notin S}
<1>1. SUFFICES ASSUME missed # {} PROVE FALSE
  OBVIOUS
<1>2. missed \subseteq Nat
  OBVIOUS
<1>3. PICK x \in missed : \A y \in missed : ~(<<y, x>> \in OpToRel(<, Nat))
  BY <1>1, <1>2, NatLessThanWellFounded, WFMin, Zenon
<1>4. x # 0 /\ x \in 0..n /\ x \notin S
  OBVIOUS
<1>5. x - 1 \in 0..n /\ x - 1 < n /\ (x - 1) + 1 = x
  BY <1>4
<1>6. x - 1 \notin S
  BY <1>4, <1>5
<1>7. x - 1 \in missed
  BY <1>5, <1>6
<1>8. <<x - 1, x>> \in Nat \X Nat /\ <<x - 1, x>>[1] < <<x - 1, x>>[2]
  BY <1>4
<1>. HIDE DEF missed
<1>9. <<x - 1, x>> \in OpToRel(<, Nat)
  BY <1>8 DEF OpToRel
<1>. QED
  BY <1>3, <1>7, <1>9

(* f holds the values that G makes along s, beginning with 0.               *)
RecursionOf(f, G, s) ==
  f[0] = 0 /\ \A k \in 1..Len(s) : f[k] = G[f[k - 1]][s[k]]

(* A recursion along a sequence defines a function: each value is made of   *)
(* the one before and of the next element.                                  *)
LEMMA RecursionAlong ==
  ASSUME NEW D, NEW s \in Seq(D), NEW G \in [Int -> [D -> Int]]
  PROVE  \E f \in [0..Len(s) -> Int] : RecursionOf(f, G, s)
<1>. DEFINE Upto(m) == \E f \in [0..m -> Int] :
                         f[0] = 0 /\ \A k \in 1..m : f[k] = G[f[k - 1]][s[k]]
            S == {m \in 0..Len(s) : Upto(m)}
<1>0. Len(s) \in Nat
  OBVIOUS
<1>1. 0 \in S
  <2>. DEFINE f == [k \in 0..0 |-> 0]
  <2>1. f \in [0..0 -> Int] /\ f[0] = 0 /\ \A k \in 1..0 : f[k] = G[f[k - 1]][s[k]]
    OBVIOUS
  <2>2. Upto(0)
    BY <2>1
  <2>. HIDE DEF Upto
  <2>. QED
    BY <1>0, <2>2
<1>2. ASSUME NEW m \in 0..Len(s), m < Len(s), m \in S
      PROVE  m + 1 \in S
  <2>1. PICK f \in [0..m -> Int] :
          f[0] = 0 /\ \A k \in 1..m : f[k] = G[f[k - 1]][s[k]]
    BY <1>2
  <2>2. m \in 0..m /\ m + 1 \in 1..Len(s) /\ m \in Nat
    BY <1>2
  <2>3. f[m] \in Int /\ s[m + 1] \in D
    BY <2>2
  <2>4. PICK e \in Int : e = G[f[m]][s[m + 1]]
    BY <2>3
  <2>. DEFINE g == [k \in 0..(m + 1) |-> IF k <= m THEN f[k] ELSE e]
  <2>5. \A k \in 0..m : g[k] = f[k]
    BY <2>2
  <2>6. g[m + 1] = e
    BY <2>2
  <2>7. g \in [0..(m + 1) -> Int]
    BY <2>2
  <2>. HIDE DEF g
  <2>8. ASSUME NEW k \in 1..(m + 1)
        PROVE  g[k] = G[g[k - 1]][s[k]]
    <3>1. CASE k \in 1..m
      <4>1. k \in 0..m /\ k - 1 \in 0..m
        BY <2>2, <3>1
      <4>. QED
        BY <2>1, <2>5, <3>1, <4>1
    <3>2. CASE k = m + 1
      <4>1. k - 1 = m
        BY <2>2, <3>2
      <4>. QED
        BY <2>2, <2>4, <2>5, <2>6, <3>2, <4>1
    <3>. QED
      BY <2>2, <3>1, <3>2
  <2>9. g[0] = 0
    <3>1. 0 \in 0..m
      BY <2>2
    <3>. QED
      BY <2>1, <2>5, <3>1
  <2>10. Upto(m + 1)
    BY <2>7, <2>8, <2>9
  <2>. HIDE DEF Upto
  <2>. QED
    BY <2>2, <2>10
<1>. HIDE DEF Upto
<1>3. 0..Len(s) \subseteq S
  <2>. HIDE DEF S
  <2>. QED
    BY <1>0, <1>1, <1>2, IndexInduction
<1>4. Len(s) \in 0..Len(s)
  BY <1>0
<1>5. Upto(Len(s))
  BY <1>3, <1>4
<1>. QED
  BY <1>5 DEF Upto, RecursionOf

(* The digits of a number.                                                  *)
Digits == 0..9

(* What one digit more does to a number that is being parsed.               *)
LEMMA DigitAdded ==
  ASSUME NEW parsed \in Int, NEW digit \in Digits
  PROVE  /\ AddDigit(parsed, digit) \in Int
         /\ AddDigit(parsed, digit) # Overflow /\ parsed \in Nat
              => AddDigit(parsed, digit) = 10 * parsed + digit
         /\ parsed = Overflow => AddDigit(parsed, digit) = Overflow
         /\ parsed \in Nat => AddDigit(parsed, digit) \in Nat \cup {Overflow}
<1>. USE MaxIntAssumption DEF Digits
<1>1. MaxUint \in Nat
  BY DEF MaxUint
<1>2. CASE parsed = Overflow \/ parsed > (MaxUint - digit) \div 10
  BY <1>2 DEF AddDigit, Overflow
<1>3. CASE ~(parsed = Overflow \/ parsed > (MaxUint - digit) \div 10)
  <2>. DEFINE room == MaxUint - digit
  <2>1. room \in Int
    BY <1>1
  <2>2. 10 * (room \div 10) <= room
    BY <2>1
  <2>3. 10 * parsed + digit <= MaxUint
    BY <1>1, <1>3, <2>1, <2>2
  <2>. HIDE DEF room
  <2>4. AddDigit(parsed, digit) = (parsed * 10 + digit) % (MaxUint + 1)
    BY <1>3 DEF AddDigit
  <2>5. (parsed * 10 + digit) % (MaxUint + 1) \in Nat
    BY <1>1
  <2>6. ASSUME parsed \in Nat
        PROVE  (parsed * 10 + digit) % (MaxUint + 1) = 10 * parsed + digit
    <3>. PICK number \in Nat : number = parsed * 10 + digit
      BY <2>6
    <3>1. number \in 0..MaxUint
      BY <2>3
    <3>. QED
      BY <1>1, <3>1
  <2>. QED
    BY <1>3, <2>4, <2>5, <2>6
<1>. QED
  BY <1>2, <1>3

ParsesBy(f, digits) ==
  /\ f[0] = 0
  /\ \A k \in 1..Len(digits) : f[k] = AddDigit(f[k - 1], digits[k])
  /\ Parse(digits) = f[Len(digits)]

(* What Parse returns is what its recursion says.                           *)
LEMMA ParseUnfolds ==
  ASSUME NEW digits \in Seq(Digits)
  PROVE  \E f : ParsesBy(f, digits)
<1>. DEFINE Body(f) == [n \in 0..Len(digits) |->
                          IF n = 0 THEN 0 ELSE AddDigit(f[n - 1], digits[n])]
            G == [p \in Int |-> [d \in Digits |-> AddDigit(p, d)]]
            chosen == CHOOSE f : f = Body(f)
<1>1. G \in [Int -> [Digits -> Int]]
  BY DigitAdded
<1>2. PICK f \in [0..Len(digits) -> Int] : RecursionOf(f, G, digits)
  <2>. HIDE DEF G
  <2>. QED
    BY <1>1, RecursionAlong
<1>3. Len(digits) \in Nat /\ \A k \in 1..Len(digits) : digits[k] \in Digits
  OBVIOUS
<1>4. ASSUME NEW k \in 1..Len(digits)
      PROVE  f[k] = AddDigit(f[k - 1], digits[k])
  <2>1. k - 1 \in 0..Len(digits) /\ digits[k] \in Digits
    BY <1>3
  <2>2. f[k - 1] \in Int
    BY <2>1
  <2>3. f[k] = G[f[k - 1]][digits[k]]
    BY <1>2 DEF RecursionOf
  <2>. QED
    BY <2>1, <2>2, <2>3
<1>5. f = Body(f)
  <2>1. f[0] = 0
    BY <1>2 DEF RecursionOf
  <2>2. \A n \in 0..Len(digits) : f[n] = IF n = 0 THEN 0 ELSE AddDigit(f[n - 1], digits[n])
    BY <1>3, <1>4, <2>1
  <2>. QED
    BY <2>2
<1>6. chosen = Body(chosen)
  <2>. HIDE DEF Body
  <2>. QED
    BY <1>5
<1>7. Parse(digits) = chosen[Len(digits)]
  BY DEF Parse
<1>. HIDE DEF chosen
<1>8. chosen[0] = 0
  <2>1. 0 \in 0..Len(digits)
    BY <1>3
  <2>2. Body(chosen)[0] = 0
    BY <2>1
  <2>. HIDE DEF Body
  <2>. QED
    BY <1>6, <2>2
<1>9. ASSUME NEW k \in 1..Len(digits)
      PROVE  chosen[k] = AddDigit(chosen[k - 1], digits[k])
  <2>1. k \in 0..Len(digits) /\ k # 0
    BY <1>3
  <2>2. Body(chosen)[k] = AddDigit(chosen[k - 1], digits[k])
    BY <2>1
  <2>. HIDE DEF Body
  <2>. QED
    BY <1>6, <2>2
<1>. QED
  BY <1>7, <1>8, <1>9 DEF ParsesBy

ValuesBy(f, digits) ==
  /\ f[0] = 0
  /\ \A k \in 1..Len(digits) : f[k] = 10 * f[k - 1] + digits[k]
  /\ Value(digits) = f[Len(digits)]

(* And so is what Value returns.                                            *)
LEMMA ValueUnfolds ==
  ASSUME NEW digits \in Seq(Digits)
  PROVE  \E f : ValuesBy(f, digits)
<1>. DEFINE Body(f) == [n \in 0..Len(digits) |->
                          IF n = 0 THEN 0 ELSE 10 * f[n - 1] + digits[n]]
            G == [p \in Int |-> [d \in Digits |-> 10 * p + d]]
            chosen == CHOOSE f : f = Body(f)
<1>1. G \in [Int -> [Digits -> Int]]
  BY DEF Digits
<1>2. PICK f \in [0..Len(digits) -> Int] : RecursionOf(f, G, digits)
  <2>. HIDE DEF G
  <2>. QED
    BY <1>1, RecursionAlong
<1>3. Len(digits) \in Nat /\ \A k \in 1..Len(digits) : digits[k] \in Digits
  OBVIOUS
<1>4. ASSUME NEW k \in 1..Len(digits)
      PROVE  f[k] = 10 * f[k - 1] + digits[k]
  <2>1. k - 1 \in 0..Len(digits) /\ digits[k] \in Digits
    BY <1>3
  <2>2. f[k - 1] \in Int
    BY <2>1
  <2>3. f[k] = G[f[k - 1]][digits[k]]
    BY <1>2 DEF RecursionOf
  <2>. QED
    BY <2>1, <2>2, <2>3
<1>5. f = Body(f)
  <2>1. f[0] = 0
    BY <1>2 DEF RecursionOf
  <2>2. \A n \in 0..Len(digits) : f[n] = IF n = 0 THEN 0 ELSE 10 * f[n - 1] + digits[n]
    BY <1>3, <1>4, <2>1
  <2>. QED
    BY <2>2
<1>6. chosen = Body(chosen)
  <2>. HIDE DEF Body
  <2>. QED
    BY <1>5
<1>7. Value(digits) = chosen[Len(digits)]
  BY DEF Value
<1>. HIDE DEF chosen
<1>8. chosen[0] = 0
  <2>1. 0 \in 0..Len(digits)
    BY <1>3
  <2>2. Body(chosen)[0] = 0
    BY <2>1
  <2>. HIDE DEF Body
  <2>. QED
    BY <1>6, <2>2
<1>9. ASSUME NEW k \in 1..Len(digits)
      PROVE  chosen[k] = 10 * chosen[k - 1] + digits[k]
  <2>1. k \in 0..Len(digits) /\ k # 0
    BY <1>3
  <2>2. Body(chosen)[k] = 10 * chosen[k - 1] + digits[k]
    BY <2>1
  <2>. HIDE DEF Body
  <2>. QED
    BY <1>6, <2>2
<1>. QED
  BY <1>7, <1>8, <1>9 DEF ValuesBy

(* Whatever the number of digits, what is parsed without overflow is their  *)
(* value: the guard stands before every multiplication.                     *)
LEMMA ParsedIsValue ==
  ASSUME NEW digits \in Seq(Digits), Parse(digits) # Overflow
  PROVE  Parse(digits) = Value(digits)
<1>1. PICK p : ParsesBy(p, digits)
  BY ParseUnfolds
<1>2. PICK v : ValuesBy(v, digits)
  BY ValueUnfolds
<1>. DEFINE n == Len(digits)
            S == {i \in 0..n : p[i] = Overflow \/ (p[i] \in Nat /\ p[i] = v[i])}
<1>3. n \in Nat /\ \A k \in 1..n : digits[k] \in Digits
  OBVIOUS
<1>. HIDE DEF n
<1>4. 0 \in S
  BY <1>1, <1>2, <1>3 DEF ParsesBy, ValuesBy
<1>5. ASSUME NEW k \in 0..n, k < n, k \in S
      PROVE  k + 1 \in S
  <2>1. k + 1 \in 1..n /\ (k + 1) - 1 = k
    BY <1>3, <1>5
  <2>2. p[k + 1] = AddDigit(p[k], digits[k + 1])
    BY <1>1, <2>1 DEF n, ParsesBy, ValuesBy
  <2>3. v[k + 1] = 10 * v[k] + digits[k + 1]
    BY <1>2, <2>1 DEF n, ParsesBy, ValuesBy
  <2>4. digits[k + 1] \in Digits
    BY <1>3, <2>1
  <2>5. k + 1 \in 0..n
    BY <1>3, <2>1
  <2>6. p[k] \in Int
    BY <1>5 DEF Overflow
  <2>7. CASE p[k] = Overflow
    <3>1. p[k + 1] = Overflow
      BY <2>2, <2>4, <2>6, <2>7, DigitAdded
    <3>. QED
      BY <2>5, <3>1
  <2>8. CASE p[k] # Overflow
    <3>1. p[k] \in Nat /\ p[k] = v[k]
      BY <1>5, <2>8
    <3>2. p[k + 1] = Overflow \/ p[k + 1] \in Nat
      BY <2>2, <2>4, <2>6, <3>1, DigitAdded
    <3>3. p[k + 1] # Overflow => p[k + 1] = v[k + 1]
      BY <2>2, <2>3, <2>4, <2>6, <3>1, DigitAdded
    <3>. QED
      BY <2>5, <3>2, <3>3
  <2>. QED
    BY <2>7, <2>8
<1>6. n \in S
  <2>. HIDE DEF S
  <2>1. 0..n \subseteq S
    BY <1>3, <1>4, <1>5, IndexInduction
  <2>2. n \in 0..n
    BY <1>3
  <2>. QED
    BY <2>1, <2>2
<1>. QED
  BY <1>1, <1>2, <1>6 DEF n, ParsesBy, ValuesBy

(* The number of pages does not wrap around, its pages hold all the items,  *)
(* and one page less would not.                                             *)
LEMMA PagesHoldTotal ==
  ASSUME NEW total \in 0..MaxInt, NEW size \in 1..MaxPageSize
  PROVE  /\ TotalPages(total, size) * size >= total
         /\ (TotalPages(total, size) - 1) * size < total
<1>. USE MaxIntAssumption, LimitsAssumption
<1>. DEFINE q == total \div size
            r == total % size
<1>1. size \in Nat /\ size >= 1 /\ total \in Nat /\ total <= MaxInt /\ MaxInt \in Nat
  OBVIOUS
<1>2. q \in Nat /\ r \in 0..(size - 1) /\ total = size * q + r
  BY <1>1
<1>3. TotalPages(total, size) = IF r # 0 THEN Signed(q + 1) ELSE q
  BY DEF TotalPages
<1>. HIDE DEF q, r
<1>4. CASE r = 0
  <2>1. TotalPages(total, size) = q /\ total = size * q
    BY <1>2, <1>3, <1>4
  <2>2. q * size = total /\ (q - 1) * size = total - size
    BY <1>1, <1>2, <2>1
  <2>. QED
    BY <1>1, <2>1, <2>2
<1>5. CASE r # 0
  <2>1. size >= 2
    BY <1>1, <1>2, <1>5
  <2>2. size * q >= 2 * q
    BY <1>1, <1>2, <2>1
  <2>3. q + 1 <= MaxInt
    BY <1>1, <1>2, <1>5, <2>2
  <2>4. Signed(q + 1) = q + 1
    <3>. DEFINE shifted == q + 1 + MaxInt + 1
                modulus == MaxUint + 1
    <3>1. shifted \in Nat /\ modulus \in Nat /\ shifted < modulus
      BY <1>1, <1>2, <2>3 DEF MaxUint
    <3>. HIDE DEF shifted, modulus
    <3>2. shifted % modulus = shifted
      BY <3>1
    <3>. QED
      BY <1>1, <1>2, <3>2 DEF Signed, shifted, modulus
  <2>5. PICK p \in Nat : p = q + 1
    BY <1>2
  <2>6. TotalPages(total, size) = p
    BY <1>3, <1>5, <2>4, <2>5
  <2>7. p * size = size * q + size /\ (p - 1) * size = size * q /\ size * q \in Int
    BY <1>1, <1>2, <2>5
  <2>8. p * size >= total /\ (p - 1) * size < total
    BY <1>1, <1>2, <1>5, <2>7
  <2>. QED
    BY <2>6, <2>8
<1>. QED
  BY <1>4, <1>5

(* What a parameter is accepted as: the default when it is absent, and      *)
(* otherwise the value of its digits, within the limit.                     *)
LEMMA AcceptedIsAsked ==
  ASSUME NEW raw \in Seq(Seq(0..NoDigit)), NEW default \in Nat, NEW maximum \in Nat,
         ParsePaginationValue(raw, default, maximum).rule = "none"
  PROVE  LET value == ParsePaginationValue(raw, default, maximum).value
         IN  IF raw = <<>> THEN value = default
             ELSE value \in 1..maximum /\ value = Value(raw[1])
<1>1. CASE raw = <<>>
  BY <1>1 DEF ParsePaginationValue, Accepted
<1>2. CASE raw # <<>>
  <2>. USE <1>2
  <2>. DEFINE digits == raw[1]
  <2>1. /\ Len(raw) = 1 /\ NoDigit \notin Range(digits)
        /\ Parse(digits) \in 1..maximum
        /\ ParsePaginationValue(raw, default, maximum).value = Parse(digits)
    BY DEF ParsePaginationValue, Accepted, Refused
  <2>2. digits \in Seq(0..NoDigit)
    BY <2>1
  <2>. HIDE DEF digits
  <2>3. \A k \in 1..Len(digits) : digits[k] \in Digits
    <3>1. ASSUME NEW k \in 1..Len(digits)
          PROVE  digits[k] # NoDigit /\ digits[k] \in 0..NoDigit
      <4>1. k \in DOMAIN digits
        BY <2>2
      <4>2. digits[k] \in 0..NoDigit
        BY <2>2, <4>1 DEF NoDigit
      <4>. QED
        BY <2>1, <4>1, <4>2, Zenon DEF Range
    <3>. QED
      BY <3>1 DEF NoDigit, Digits
  <2>4. digits \in Seq(Digits)
    BY <2>2, <2>3
  <2>5. Parse(digits) # Overflow
    BY <2>1 DEF Overflow
  <2>. QED
    BY <2>1, <2>4, <2>5, ParsedIsValue DEF digits
<1>. QED
  BY <1>1, <1>2

(* A reply with a page shows one that was asked for.                        *)
PageIsExact(envelope) ==
  envelope.data # <<>> =>
    LET page == envelope.data[1]   size == envelope.data[2]
        total == envelope.data[3]  pages == envelope.data[4]
    IN  /\ \E query \in Queries :
             query.total = total
             /\ page = IF query.page = <<>> THEN 1 ELSE Value(query.page[1])
        /\ pages * size >= total
        /\ (pages - 1) * size < total

LEMMA ListingsAreExact ==
  ASSUME NEW query \in Queries
  PROVE  PageIsExact(Listing(query))
<1>. USE MaxIntAssumption, LimitsAssumption, QueriesAssumption
<1>. DEFINE parsed == ParsePagination(query)
            page == ParsePaginationValue(query.page, 1, MaxPage)
            size == ParsePaginationValue(query.size, DefaultPageSize, MaxPageSize)
<1>1. CASE Listing(query).data = <<>>
  BY <1>1 DEF PageIsExact
<1>2. CASE Listing(query).data # <<>>
  <2>1. /\ parsed.rule = "none"
        /\ Listing(query) = Page(200, "ok", TRUE, parsed.page, parsed.size, query.total)
    BY <1>2 DEF Listing, Error, Envelope, InternalFallback
  <2>. HIDE DEF parsed
  <2>2. /\ ValidPage(parsed.page, parsed.size, query.total)
        /\ Listing(query).data = <<parsed.page, parsed.size, query.total,
                                   TotalPages(query.total, parsed.size)>>
    BY <1>2, <2>1 DEF Page, Envelope, InternalFallback
  <2>3. page.rule = "none" /\ parsed.page = page.value
    BY <2>1 DEF parsed, ParsePagination
  <2>4. parsed.page = IF query.page = <<>> THEN 1 ELSE Value(query.page[1])
    <3>1. query.page \in Seq(Seq(0..NoDigit)) /\ 1 \in Nat /\ MaxPage \in Nat
      OBVIOUS
    <3>. QED
      BY <2>3, <3>1, AcceptedIsAsked
  <2>5. /\ TotalPages(query.total, parsed.size) * parsed.size >= query.total
        /\ (TotalPages(query.total, parsed.size) - 1) * parsed.size < query.total
    BY <2>2, PagesHoldTotal DEF ValidPage
  <2>. DEFINE data == Listing(query).data
  <2>6. /\ data[1] = parsed.page /\ data[2] = parsed.size
        /\ data[3] = query.total /\ data[4] = TotalPages(query.total, parsed.size)
    BY <2>2
  <2>. QED
    BY <2>4, <2>5, <2>6 DEF PageIsExact
<1>. QED
  BY <1>1, <1>2

LEMMA RepliesAreExact ==
  ASSUME NEW envelope \in Replies
  PROVE  PageIsExact(envelope)
<1>1. CASE \E query \in Queries : envelope = Listing(query)
  BY <1>1, ListingsAreExact
<1>2. CASE ~\E query \in Queries : envelope = Listing(query)
  <2>1. envelope.data = <<>>
    BY <1>2, LimitsAssumption
       DEF Replies, OtherReplies, Info, NoRoute, NoMethod, Success, Error, Page, ValidPage,
           InternalFallback, Envelope
  <2>. QED
    BY <2>1 DEF PageIsExact
<1>. QED
  BY <1>1, <1>2

(* A page that is served is one that was asked for, for every number of     *)
(* digits and every width of words; and its listing's pages hold all of the *)
(* items, with none to spare.                                               *)
THEOREM PagesExact == HTTPSpec => []PagesAreExact
<1>1. CountInv => PagesAreExact
  BY RepliesAreExact DEF CountInv, PagesAreExact, PageIsExact
<1>. QED
  BY <1>1, InitCountInv, NextCountInv, PTL DEF HTTPSpec
=============================================================================
