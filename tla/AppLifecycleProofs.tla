-------------------------- MODULE AppLifecycleProofs --------------------------
(* Theorems about AppLifecycle, for any number of components.               *)
EXTENDS Foundation, FiniteSetTheorems, SequenceTheorems, WellFoundedInduction, TLAPS

USE NAssumption, MaxDepthAssumption

(* What has been started, and what of it is closed, is always a prefix of   *)
(* the components: this is what makes Cardinality(Started) the index of the *)
(* last one started.                                                        *)
NewFromNext == \A c \in Components : state[c] = "new" <=> c >= next

OpenBeforeShutdown ==
  pc \in {"starting", "waiting", "shutdown"} =>
    \A c \in Components : c < next => state[c] = "started"

OpenUpToClosing ==
  pc = "closing" =>
    /\ closing < next
    /\ \A c \in Components : state[c] = "started" <=> c <= closing

ClosedAtReturn == pc = "returned" => Started = {}

WorkersHaveComponents == worker \subseteq Started

ReadyWhileRunning == ready => pc \in {"waiting", "shutdown"}

IInv ==
  /\ TypeOK /\ NewFromNext /\ OpenBeforeShutdown /\ OpenUpToClosing
  /\ ClosedAtReturn /\ WorkersHaveComponents /\ ReadyWhileRunning

(* The invariant holds initially.                                           *)
LEMMA InitIInv == Init => IInv
<1>. SUFFICES ASSUME Init PROVE IInv
  OBVIOUS
<1>1. rootDone \in BOOLEAN /\ ready \in BOOLEAN /\ expired \in BOOLEAN
  BY Zenon DEF Init
<1>2. TypeOK
  BY <1>1 DEF Init, TypeOK, Components, Channels
<1>3. NewFromNext /\ OpenBeforeShutdown /\ OpenUpToClosing
  BY DEF Init, NewFromNext, OpenBeforeShutdown, OpenUpToClosing, Components
<1>4. ClosedAtReturn /\ WorkersHaveComponents /\ ReadyWhileRunning
  BY DEF Init, ClosedAtReturn, WorkersHaveComponents, ReadyWhileRunning
<1>. QED
  BY <1>2, <1>3, <1>4 DEF IInv

(* A step that leaves the components, the loop variables and readiness      *)
(* alone, and does not enter another stage than "shutdown" from an earlier  *)
(* one, keeps the invariant.                                                *)
LEMMA QuietStep ==
  ASSUME IInv, TypeOK', UNCHANGED <<next, state, closing, ready>>,
         worker' \subseteq worker,
         pc' = pc \/ (pc = "waiting" /\ pc' = "shutdown")
                  \/ (pc = "starting" /\ pc' = "shutdown" /\ ~ready)
  PROVE  IInv'
BY DEF IInv, NewFromNext, OpenBeforeShutdown, OpenUpToClosing, ClosedAtReturn,
       WorkersHaveComponents, ReadyWhileRunning, Started

(* The prefix that was started grows by one.                                *)
LEMMA StartKeeps ==
  ASSUME IInv, StartComponent
  PROVE  IInv'
<1>. USE DEF IInv, StartComponent, Components
<1>1. TypeOK'
  BY DEF TypeOK, env
<1>2. NewFromNext' /\ OpenBeforeShutdown' /\ OpenUpToClosing' /\ ClosedAtReturn'
  BY DEF TypeOK, NewFromNext, OpenBeforeShutdown, OpenUpToClosing, ClosedAtReturn
<1>3. WorkersHaveComponents' /\ ReadyWhileRunning'
  BY DEF TypeOK, WorkersHaveComponents, ReadyWhileRunning, Started
<1>. QED
  BY <1>1, <1>2, <1>3

(* Readiness is announced by a Run that goes on to wait.                    *)
LEMMA ReadyKeeps ==
  ASSUME IInv, AnnounceReady
  PROVE  IInv'
BY DEF IInv, AnnounceReady, TypeOK, env, NewFromNext, OpenBeforeShutdown, OpenUpToClosing,
       ClosedAtReturn, WorkersHaveComponents, ReadyWhileRunning, Started

(* When shutdown begins, closing is the last component that was started.    *)
LEMMA ShutdownKeeps ==
  ASSUME IInv, BeginShutdown
  PROVE  IInv'
<1>. USE DEF IInv, BeginShutdown, Components
<1>1. Started = 1..(next - 1)
  BY DEF TypeOK, NewFromNext, OpenBeforeShutdown, Started
<1>2. Cardinality(Started) = next - 1
  BY <1>1, FS_Interval DEF TypeOK
<1>3. TypeOK'
  <2>1. closing' \in 0..N
    BY <1>2 DEF TypeOK
  <2>2. ready' \in BOOLEAN
    BY Zenon
  <2>. QED
    BY <2>1, <2>2 DEF TypeOK, env
<1>4. OpenUpToClosing'
  BY <1>2 DEF TypeOK, NewFromNext, OpenBeforeShutdown, OpenUpToClosing
<1>5. /\ NewFromNext' /\ OpenBeforeShutdown' /\ ClosedAtReturn'
      /\ WorkersHaveComponents' /\ ReadyWhileRunning'
  BY DEF NewFromNext, OpenBeforeShutdown, ClosedAtReturn, WorkersHaveComponents,
         ReadyWhileRunning, Started, env
<1>. QED
  BY <1>3, <1>4, <1>5

(* The last of the open components is closed, when its worker is gone.      *)
LEMMA CloseKeeps ==
  ASSUME IInv, CloseComponent
  PROVE  IInv'
<1>. USE DEF IInv, CloseComponent, Components
<1>1. TypeOK'
  BY DEF TypeOK, env
<1>2. NewFromNext' /\ OpenBeforeShutdown' /\ ClosedAtReturn' /\ ReadyWhileRunning'
  BY DEF TypeOK, NewFromNext, OpenBeforeShutdown, OpenUpToClosing, ClosedAtReturn,
         ReadyWhileRunning
<1>3. OpenUpToClosing'
  BY DEF TypeOK, NewFromNext, OpenUpToClosing
<1>4. WorkersHaveComponents'
  BY DEF TypeOK, WorkersHaveComponents, Started, env
<1>. QED
  BY <1>1, <1>2, <1>3, <1>4

(* Run returns when nothing is left to close.                               *)
LEMMA FinishKeeps ==
  ASSUME IInv, FinishShutdown
  PROVE  IInv'
<1>. USE DEF IInv, FinishShutdown, Components
<1>1. TypeOK'
  BY DEF TypeOK, env
<1>2. ClosedAtReturn'
  BY DEF TypeOK, OpenUpToClosing, ClosedAtReturn, Started
<1>3. /\ NewFromNext' /\ OpenBeforeShutdown' /\ OpenUpToClosing'
      /\ WorkersHaveComponents' /\ ReadyWhileRunning'
  BY DEF NewFromNext, OpenBeforeShutdown, OpenUpToClosing, WorkersHaveComponents,
         ReadyWhileRunning, Started, env
<1>. QED
  BY <1>1, <1>2, <1>3

(* Every step keeps the invariant.                                          *)
LEMMA NextIInv == IInv /\ [Next]_vars => IInv'
<1>. SUFFICES ASSUME IInv, [Next]_vars
              PROVE  IInv'
  OBVIOUS
<1>1. CASE StartComponent
  BY <1>1, StartKeeps
<1>2. CASE StartFails
  <2>1. TypeOK' /\ pc = "starting" /\ pc' = "shutdown" /\ ~ready
    BY <1>2 DEF StartFails, Stop, IInv, TypeOK, ReadyWhileRunning
  <2>. QED
    BY <1>2, <2>1, QuietStep DEF StartFails
<1>3. CASE AnnounceReady
  BY <1>3, ReadyKeeps
<1>4. CASE RootIsDone
  BY <1>4, QuietStep DEF RootIsDone, Stop, IInv, TypeOK
<1>5. ASSUME NEW c \in Components, TerminalError(c)
      PROVE  IInv'
  BY <1>5, QuietStep DEF TerminalError, Stop, IInv, TypeOK
<1>6. ASSUME NEW c \in Components, IgnoreNormalEnd(c)
      PROVE  IInv'
  BY <1>6, QuietStep DEF IgnoreNormalEnd, IInv, TypeOK, env
<1>7. CASE BeginShutdown
  BY <1>7, ShutdownKeeps
<1>8. CASE CloseComponent
  BY <1>8, CloseKeeps
<1>9. CASE FinishShutdown
  BY <1>9, FinishKeeps
<1>10. CASE Signal
  BY <1>10, QuietStep DEF Signal, IInv, TypeOK
<1>11. ASSUME NEW c \in Components, ServingEnds(c)
       PROVE  IInv'
  BY <1>11, QuietStep DEF ServingEnds, IInv, TypeOK, Channels
<1>12. ASSUME NEW c \in Components, WorkerExits(c)
       PROVE  IInv'
  BY <1>12, QuietStep DEF WorkerExits, IInv, TypeOK
<1>13. CASE DeadlinePasses
  BY <1>13, QuietStep DEF DeadlinePasses, IInv, TypeOK, env
<1>14. CASE UNCHANGED vars
  BY <1>14, QuietStep DEF vars, env, IInv, TypeOK
<1>. QED
  BY <1>1, <1>2, <1>3, <1>4, <1>5, <1>6, <1>7, <1>8, <1>9, <1>10, <1>11, <1>12, <1>13, <1>14
     DEF Next, Run

(* The invariant holds in every reachable state.                            *)
LEMMA SpecIInv == Spec => []IInv
BY InitIInv, NextIInv, PTL DEF Spec

-----------------------------------------------------------------------------
(* A component is closed only after everything that was started after it,   *)
(* for any number of components: the code closes started[len-1] first.      *)
THEOREM ClosesInReverse == Spec => []ClosedAfterItsDependents
<1>1. IInv => ClosedAfterItsDependents
  BY DEF IInv, TypeOK, NewFromNext, OpenBeforeShutdown, OpenUpToClosing, ClosedAtReturn, Started,
         ClosedAfterItsDependents, Components
<1>. QED
  BY <1>1, SpecIInv, PTL

(* When Run returns every component it started is closed, their workers are *)
(* gone, and readiness is withdrawn, whatever signals, errors and deadlines *)
(* came together.                                                           *)
THEOREM RunLeavesNothing == Spec => []NothingOutlivesRun
<1>1. IInv => NothingOutlivesRun
  BY DEF IInv, ClosedAtReturn, WorkersHaveComponents, ReadyWhileRunning, NothingOutlivesRun
<1>. QED
  BY <1>1, SpecIInv, PTL

(* While Run closes components, the root context is done, so that every     *)
(* worker that a Close waits for has been told to end: each way into        *)
(* shutdown calls stop(), or has seen the signal.                           *)
THEOREM WorkersAreTold == Spec => [](pc \in {"shutdown", "closing", "returned"} => rootDone)
<1>. DEFINE Told == pc \in {"shutdown", "closing", "returned"} => rootDone
<1>1. Init => Told
  BY DEF Init
<1>2. Told /\ [Next]_vars => Told'
  BY DEF Next, Run, vars, env, StartComponent, StartFails, AnnounceReady, RootIsDone,
         TerminalError, IgnoreNormalEnd, BeginShutdown, CloseComponent, FinishShutdown, Signal,
         ServingEnds, WorkerExits, DeadlinePasses, Stop
<1>. QED
  BY <1>1, <1>2, PTL DEF Spec

-----------------------------------------------------------------------------
(* The functions of Configuration and Foundation that go along a depth or a *)
(* text, under names of their own.                                          *)

Scanned(text, environ) ==
  CHOOSE after : after = [n \in Nat |->
    IF n = 0 THEN [rest |-> text, built |-> <<>>] ELSE Round(after[n - 1], environ)]

Expanded(environ) ==
  CHOOSE expanded : expanded = [n \in Nat |->
    IF n = 0 THEN [node \in Nodes |-> Invalid]
    ELSE [node \in Nodes |-> Expand(node, environ, expanded[n - 1])]]

Joined(text) ==
  CHOOSE joined : joined = [n \in Nat |->
    IF n = 0 THEN <<>> ELSE joined[n - 1] \o Piece(text, n)]

LEMMA ScanIs ==
  ASSUME NEW text, NEW environ
  PROVE  Scan(text, environ) = Scanned(text, environ)[Len(text)]
BY DEF Scan, Scanned

LEMMA ExpandScalarsIs ==
  ASSUME NEW root, NEW environ
  PROVE  ExpandScalars(root, environ) = Expanded(environ)[MaxDepth][root]
BY DEF ExpandScalars, Expanded

LEMMA SubstitutedIs ==
  ASSUME NEW text
  PROVE  Substituted(text) = Joined(text)[Len(text)]
BY DEF Substituted, Joined

(* Induction: a set with 0, and with k + 1 whenever it has k, has every     *)
(* natural number.                                                          *)
LEMMA Induction ==
  ASSUME NEW S, 0 \in S, \A k \in Nat : k \in S => k + 1 \in S
  PROVE  \A k \in Nat : k \in S
<1>. DEFINE missed == {k \in Nat : k \notin S}
<1>1. SUFFICES ASSUME missed # {} PROVE FALSE
  OBVIOUS
<1>2. PICK x \in missed : \A y \in missed : ~(<<y, x>> \in OpToRel(<, Nat))
  <2>1. missed \subseteq Nat
    OBVIOUS
  <2>. QED
    BY <1>1, <2>1, NatLessThanWellFounded, WFMin, Zenon
<1>3. x \in Nat /\ x # 0 /\ x \notin S
  OBVIOUS
<1>4. x - 1 \in Nat /\ (x - 1) + 1 = x
  BY <1>3
<1>5. x - 1 \in missed
  BY <1>3, <1>4
<1>6. <<x - 1, x>> \in Nat \X Nat /\ <<x - 1, x>>[1] < <<x - 1, x>>[2]
  BY <1>3, <1>4
<1>. HIDE DEF missed
<1>7. <<x - 1, x>> \in OpToRel(<, Nat)
  BY <1>6 DEF OpToRel
<1>. QED
  BY <1>2, <1>5, <1>7

LEMMA ScanUnfold ==
  ASSUME NEW text, NEW environ
  PROVE  /\ Scanned(text, environ)[0] = [rest |-> text, built |-> <<>>]
         /\ \A n \in Nat : Scanned(text, environ)[n + 1] = Round(Scanned(text, environ)[n], environ)
<1>. DEFINE First == [rest |-> text, built |-> <<>>]
            Level(n, S) == Round(S, environ)
            Body(f) == [n \in Nat |-> IF n = 0 THEN First ELSE Level(n, f[n - 1])]
            Upto(n, g) == g = [k \in 0..n |-> IF k = 0 THEN First ELSE Level(k, g[k - 1])]
<1>1. Scanned(text, environ) = CHOOSE f : f = Body(f)
  BY DEF Scanned
<1>2. ASSUME NEW n \in Nat PROVE Level(n + 1, Scanned(text, environ)[n]) = Round(Scanned(text, environ)[n], environ)
  OBVIOUS
<1>. HIDE DEF First, Level
<1>3. \A n \in Nat : \E g : Upto(n, g)
  <2>. DEFINE S == {n \in Nat : \E g : Upto(n, g)}
  <2>1. 0 \in S
    <3>. DEFINE g == [k \in 0..0 |-> First]
    <3>1. Upto(0, g)
      OBVIOUS
    <3>. QED
      BY <3>1
  <2>2. ASSUME NEW n \in Nat, n \in S PROVE n + 1 \in S
    <3>1. PICK g : Upto(n, g)
      BY <2>2
    <3>. DEFINE h == [k \in 0..(n + 1) |-> IF k <= n THEN g[k] ELSE Level(k, g[n])]
    <3>2. ASSUME NEW k \in 0..(n + 1)
          PROVE  h[k] = IF k = 0 THEN First ELSE Level(k, h[k - 1])
      <4>1. CASE k = 0
        BY <3>1, <4>1
      <4>2. CASE k \in 1..n
        <5>1. k - 1 \in 0..(n + 1) /\ k - 1 <= n /\ k \in 0..n /\ k <= n /\ k # 0
          BY <4>2
        <5>2. g[k] = Level(k, g[k - 1])
          BY <3>1, <5>1
        <5>. QED
          BY <5>1, <5>2
      <4>3. CASE k = n + 1
        <5>1. k - 1 = n /\ n \in 0..(n + 1) /\ n <= n /\ ~(k <= n) /\ k # 0
          BY <4>3
        <5>. QED
          BY <5>1
      <4>. QED
        BY <4>1, <4>2, <4>3
    <3>3. Upto(n + 1, h)
      <4>1. h = [k \in 0..(n + 1) |-> h[k]]
        OBVIOUS
      <4>2. [k \in 0..(n + 1) |-> h[k]]
              = [k \in 0..(n + 1) |-> IF k = 0 THEN First ELSE Level(k, h[k - 1])]
        <5>. HIDE DEF h
        <5>. QED
          BY <3>2, Zenon
      <4>. HIDE DEF h
      <4>. QED
        BY <4>1, <4>2, Zenon
    <3>4. n + 1 \in Nat
      OBVIOUS
    <3>. HIDE DEF h, Upto
    <3>. QED
      BY <3>3, <3>4
  <2>. HIDE DEF S
  <2>3. \A n \in Nat : n \in S
    BY <2>1, <2>2, Induction
  <2>. QED
    BY <2>3 DEF S
<1>4. ASSUME NEW m \in Nat, NEW n \in Nat, NEW g, NEW h, Upto(m, g), Upto(n, h)
      PROVE  \A k \in Nat : k <= m /\ k <= n => g[k] = h[k]
  <2>. DEFINE S == {k \in Nat : k <= m /\ k <= n => g[k] = h[k]}
  <2>1. 0 \in S
    <3>1. 0 \in 0..m /\ 0 \in 0..n
      OBVIOUS
    <3>. QED
      BY <1>4, <3>1
  <2>2. ASSUME NEW k \in Nat, k \in S PROVE k + 1 \in S
    <3>. SUFFICES ASSUME k + 1 <= m, k + 1 <= n PROVE g[k + 1] = h[k + 1]
      OBVIOUS
    <3>1. k + 1 \in 0..m /\ k + 1 \in 0..n /\ (k + 1) - 1 = k /\ k + 1 # 0 /\ g[k] = h[k]
      BY <2>2
    <3>. QED
      BY <1>4, <3>1
  <2>3. \A k \in Nat : k \in S
    <3>. HIDE DEF S
    <3>. QED
      BY <2>1, <2>2, Induction
  <2>. QED
    BY <2>3
<1>. DEFINE f == [n \in Nat |-> (CHOOSE g : Upto(n, g))[n]]
<1>5. ASSUME NEW n \in Nat PROVE f[n] = IF n = 0 THEN First ELSE Level(n, f[n - 1])
  <2>1. PICK g : Upto(n, g) /\ f[n] = g[n]
    <3>. HIDE DEF Upto
    <3>. QED
      BY <1>3
  <2>2. g[n] = IF n = 0 THEN First ELSE Level(n, g[n - 1])
    BY <2>1
  <2>3. CASE n # 0
    <3>1. n - 1 \in Nat /\ n - 1 <= n /\ n - 1 <= n - 1
      BY <2>3
    <3>2. PICK h : Upto(n - 1, h) /\ f[n - 1] = h[n - 1]
      <4>. HIDE DEF Upto
      <4>. QED
        BY <1>3, <3>1
    <3>3. g[n - 1] = h[n - 1]
      <4>. HIDE DEF Upto, f
      <4>. QED
        BY <1>4, <2>1, <3>1, <3>2
    <3>. HIDE DEF Upto, f
    <3>. QED
      BY <2>1, <2>2, <3>2, <3>3
  <2>. QED
    BY <2>1, <2>2, <2>3
<1>6. f = Body(f)
  <2>1. f = [n \in Nat |-> f[n]]
    OBVIOUS
  <2>. HIDE DEF f
  <2>. QED
    BY <1>5, <2>1
<1>7. Scanned(text, environ) = Body(Scanned(text, environ))
  <2>. HIDE DEF Body, f
  <2>. QED
    BY <1>1, <1>6
<1>8. \A n \in Nat : n + 1 \in Nat /\ n + 1 # 0 /\ (n + 1) - 1 = n
  OBVIOUS
<1>9. /\ Body(Scanned(text, environ))[0] = First
      /\ \A n \in Nat : Body(Scanned(text, environ))[n + 1] = Level(n + 1, Scanned(text, environ)[n])
  BY <1>8
<1>10. Scanned(text, environ)[0] = First /\ \A n \in Nat : Scanned(text, environ)[n + 1] = Level(n + 1, Scanned(text, environ)[n])
  <2>. HIDE DEF Body
  <2>. QED
    BY <1>7, <1>9
<1>. QED
  BY <1>2, <1>10 DEF First

LEMMA ExpandUnfold ==
  ASSUME NEW environ
  PROVE  /\ Expanded(environ)[0] = [node \in Nodes |-> Invalid]
         /\ \A n \in Nat : Expanded(environ)[n + 1] = 
              [node \in Nodes |-> Expand(node, environ, Expanded(environ)[n])]
<1>. DEFINE First == [node \in Nodes |-> Invalid]
            Level(n, S) == [node \in Nodes |-> Expand(node, environ, S)]
            Body(f) == [n \in Nat |-> IF n = 0 THEN First ELSE Level(n, f[n - 1])]
            Upto(n, g) == g = [k \in 0..n |-> IF k = 0 THEN First ELSE Level(k, g[k - 1])]
<1>1. Expanded(environ) = CHOOSE f : f = Body(f)
  BY DEF Expanded
<1>2. ASSUME NEW n \in Nat PROVE Level(n + 1, Expanded(environ)[n]) = 
              [node \in Nodes |-> Expand(node, environ, Expanded(environ)[n])]
  OBVIOUS
<1>. HIDE DEF First, Level
<1>3. \A n \in Nat : \E g : Upto(n, g)
  <2>. DEFINE S == {n \in Nat : \E g : Upto(n, g)}
  <2>1. 0 \in S
    <3>. DEFINE g == [k \in 0..0 |-> First]
    <3>1. Upto(0, g)
      OBVIOUS
    <3>. QED
      BY <3>1
  <2>2. ASSUME NEW n \in Nat, n \in S PROVE n + 1 \in S
    <3>1. PICK g : Upto(n, g)
      BY <2>2
    <3>. DEFINE h == [k \in 0..(n + 1) |-> IF k <= n THEN g[k] ELSE Level(k, g[n])]
    <3>2. ASSUME NEW k \in 0..(n + 1)
          PROVE  h[k] = IF k = 0 THEN First ELSE Level(k, h[k - 1])
      <4>1. CASE k = 0
        BY <3>1, <4>1
      <4>2. CASE k \in 1..n
        <5>1. k - 1 \in 0..(n + 1) /\ k - 1 <= n /\ k \in 0..n /\ k <= n /\ k # 0
          BY <4>2
        <5>2. g[k] = Level(k, g[k - 1])
          BY <3>1, <5>1
        <5>. QED
          BY <5>1, <5>2
      <4>3. CASE k = n + 1
        <5>1. k - 1 = n /\ n \in 0..(n + 1) /\ n <= n /\ ~(k <= n) /\ k # 0
          BY <4>3
        <5>. QED
          BY <5>1
      <4>. QED
        BY <4>1, <4>2, <4>3
    <3>3. Upto(n + 1, h)
      <4>1. h = [k \in 0..(n + 1) |-> h[k]]
        OBVIOUS
      <4>2. [k \in 0..(n + 1) |-> h[k]]
              = [k \in 0..(n + 1) |-> IF k = 0 THEN First ELSE Level(k, h[k - 1])]
        <5>. HIDE DEF h
        <5>. QED
          BY <3>2, Zenon
      <4>. HIDE DEF h
      <4>. QED
        BY <4>1, <4>2, Zenon
    <3>4. n + 1 \in Nat
      OBVIOUS
    <3>. HIDE DEF h, Upto
    <3>. QED
      BY <3>3, <3>4
  <2>. HIDE DEF S
  <2>3. \A n \in Nat : n \in S
    BY <2>1, <2>2, Induction
  <2>. QED
    BY <2>3 DEF S
<1>4. ASSUME NEW m \in Nat, NEW n \in Nat, NEW g, NEW h, Upto(m, g), Upto(n, h)
      PROVE  \A k \in Nat : k <= m /\ k <= n => g[k] = h[k]
  <2>. DEFINE S == {k \in Nat : k <= m /\ k <= n => g[k] = h[k]}
  <2>1. 0 \in S
    <3>1. 0 \in 0..m /\ 0 \in 0..n
      OBVIOUS
    <3>. QED
      BY <1>4, <3>1
  <2>2. ASSUME NEW k \in Nat, k \in S PROVE k + 1 \in S
    <3>. SUFFICES ASSUME k + 1 <= m, k + 1 <= n PROVE g[k + 1] = h[k + 1]
      OBVIOUS
    <3>1. k + 1 \in 0..m /\ k + 1 \in 0..n /\ (k + 1) - 1 = k /\ k + 1 # 0 /\ g[k] = h[k]
      BY <2>2
    <3>. QED
      BY <1>4, <3>1
  <2>3. \A k \in Nat : k \in S
    <3>. HIDE DEF S
    <3>. QED
      BY <2>1, <2>2, Induction
  <2>. QED
    BY <2>3
<1>. DEFINE f == [n \in Nat |-> (CHOOSE g : Upto(n, g))[n]]
<1>5. ASSUME NEW n \in Nat PROVE f[n] = IF n = 0 THEN First ELSE Level(n, f[n - 1])
  <2>1. PICK g : Upto(n, g) /\ f[n] = g[n]
    <3>. HIDE DEF Upto
    <3>. QED
      BY <1>3
  <2>2. g[n] = IF n = 0 THEN First ELSE Level(n, g[n - 1])
    BY <2>1
  <2>3. CASE n # 0
    <3>1. n - 1 \in Nat /\ n - 1 <= n /\ n - 1 <= n - 1
      BY <2>3
    <3>2. PICK h : Upto(n - 1, h) /\ f[n - 1] = h[n - 1]
      <4>. HIDE DEF Upto
      <4>. QED
        BY <1>3, <3>1
    <3>3. g[n - 1] = h[n - 1]
      <4>. HIDE DEF Upto, f
      <4>. QED
        BY <1>4, <2>1, <3>1, <3>2
    <3>. HIDE DEF Upto, f
    <3>. QED
      BY <2>1, <2>2, <3>2, <3>3
  <2>. QED
    BY <2>1, <2>2, <2>3
<1>6. f = Body(f)
  <2>1. f = [n \in Nat |-> f[n]]
    OBVIOUS
  <2>. HIDE DEF f
  <2>. QED
    BY <1>5, <2>1
<1>7. Expanded(environ) = Body(Expanded(environ))
  <2>. HIDE DEF Body, f
  <2>. QED
    BY <1>1, <1>6
<1>8. \A n \in Nat : n + 1 \in Nat /\ n + 1 # 0 /\ (n + 1) - 1 = n
  OBVIOUS
<1>9. /\ Body(Expanded(environ))[0] = First
      /\ \A n \in Nat : Body(Expanded(environ))[n + 1] = Level(n + 1, Expanded(environ)[n])
  BY <1>8
<1>10. Expanded(environ)[0] = First /\ \A n \in Nat : Expanded(environ)[n + 1] = Level(n + 1, Expanded(environ)[n])
  <2>. HIDE DEF Body
  <2>. QED
    BY <1>7, <1>9
<1>. QED
  BY <1>2, <1>10 DEF First

LEMMA JoinUnfold ==
  ASSUME NEW text
  PROVE  /\ Joined(text)[0] = <<>>
         /\ \A n \in Nat : Joined(text)[n + 1] = Joined(text)[n] \o Piece(text, n + 1)
<1>. DEFINE First == <<>>
            Level(n, S) == S \o Piece(text, n)
            Body(f) == [n \in Nat |-> IF n = 0 THEN First ELSE Level(n, f[n - 1])]
            Upto(n, g) == g = [k \in 0..n |-> IF k = 0 THEN First ELSE Level(k, g[k - 1])]
<1>1. Joined(text) = CHOOSE f : f = Body(f)
  BY DEF Joined
<1>2. ASSUME NEW n \in Nat PROVE Level(n + 1, Joined(text)[n]) = Joined(text)[n] \o Piece(text, n + 1)
  OBVIOUS
<1>. HIDE DEF First, Level
<1>3. \A n \in Nat : \E g : Upto(n, g)
  <2>. DEFINE S == {n \in Nat : \E g : Upto(n, g)}
  <2>1. 0 \in S
    <3>. DEFINE g == [k \in 0..0 |-> First]
    <3>1. Upto(0, g)
      OBVIOUS
    <3>. QED
      BY <3>1
  <2>2. ASSUME NEW n \in Nat, n \in S PROVE n + 1 \in S
    <3>1. PICK g : Upto(n, g)
      BY <2>2
    <3>. DEFINE h == [k \in 0..(n + 1) |-> IF k <= n THEN g[k] ELSE Level(k, g[n])]
    <3>2. ASSUME NEW k \in 0..(n + 1)
          PROVE  h[k] = IF k = 0 THEN First ELSE Level(k, h[k - 1])
      <4>1. CASE k = 0
        BY <3>1, <4>1
      <4>2. CASE k \in 1..n
        <5>1. k - 1 \in 0..(n + 1) /\ k - 1 <= n /\ k \in 0..n /\ k <= n /\ k # 0
          BY <4>2
        <5>2. g[k] = Level(k, g[k - 1])
          BY <3>1, <5>1
        <5>. QED
          BY <5>1, <5>2
      <4>3. CASE k = n + 1
        <5>1. k - 1 = n /\ n \in 0..(n + 1) /\ n <= n /\ ~(k <= n) /\ k # 0
          BY <4>3
        <5>. QED
          BY <5>1
      <4>. QED
        BY <4>1, <4>2, <4>3
    <3>3. Upto(n + 1, h)
      <4>1. h = [k \in 0..(n + 1) |-> h[k]]
        OBVIOUS
      <4>2. [k \in 0..(n + 1) |-> h[k]]
              = [k \in 0..(n + 1) |-> IF k = 0 THEN First ELSE Level(k, h[k - 1])]
        <5>. HIDE DEF h
        <5>. QED
          BY <3>2, Zenon
      <4>. HIDE DEF h
      <4>. QED
        BY <4>1, <4>2, Zenon
    <3>4. n + 1 \in Nat
      OBVIOUS
    <3>. HIDE DEF h, Upto
    <3>. QED
      BY <3>3, <3>4
  <2>. HIDE DEF S
  <2>3. \A n \in Nat : n \in S
    BY <2>1, <2>2, Induction
  <2>. QED
    BY <2>3 DEF S
<1>4. ASSUME NEW m \in Nat, NEW n \in Nat, NEW g, NEW h, Upto(m, g), Upto(n, h)
      PROVE  \A k \in Nat : k <= m /\ k <= n => g[k] = h[k]
  <2>. DEFINE S == {k \in Nat : k <= m /\ k <= n => g[k] = h[k]}
  <2>1. 0 \in S
    <3>1. 0 \in 0..m /\ 0 \in 0..n
      OBVIOUS
    <3>. QED
      BY <1>4, <3>1
  <2>2. ASSUME NEW k \in Nat, k \in S PROVE k + 1 \in S
    <3>. SUFFICES ASSUME k + 1 <= m, k + 1 <= n PROVE g[k + 1] = h[k + 1]
      OBVIOUS
    <3>1. k + 1 \in 0..m /\ k + 1 \in 0..n /\ (k + 1) - 1 = k /\ k + 1 # 0 /\ g[k] = h[k]
      BY <2>2
    <3>. QED
      BY <1>4, <3>1
  <2>3. \A k \in Nat : k \in S
    <3>. HIDE DEF S
    <3>. QED
      BY <2>1, <2>2, Induction
  <2>. QED
    BY <2>3
<1>. DEFINE f == [n \in Nat |-> (CHOOSE g : Upto(n, g))[n]]
<1>5. ASSUME NEW n \in Nat PROVE f[n] = IF n = 0 THEN First ELSE Level(n, f[n - 1])
  <2>1. PICK g : Upto(n, g) /\ f[n] = g[n]
    <3>. HIDE DEF Upto
    <3>. QED
      BY <1>3
  <2>2. g[n] = IF n = 0 THEN First ELSE Level(n, g[n - 1])
    BY <2>1
  <2>3. CASE n # 0
    <3>1. n - 1 \in Nat /\ n - 1 <= n /\ n - 1 <= n - 1
      BY <2>3
    <3>2. PICK h : Upto(n - 1, h) /\ f[n - 1] = h[n - 1]
      <4>. HIDE DEF Upto
      <4>. QED
        BY <1>3, <3>1
    <3>3. g[n - 1] = h[n - 1]
      <4>. HIDE DEF Upto, f
      <4>. QED
        BY <1>4, <2>1, <3>1, <3>2
    <3>. HIDE DEF Upto, f
    <3>. QED
      BY <2>1, <2>2, <3>2, <3>3
  <2>. QED
    BY <2>1, <2>2, <2>3
<1>6. f = Body(f)
  <2>1. f = [n \in Nat |-> f[n]]
    OBVIOUS
  <2>. HIDE DEF f
  <2>. QED
    BY <1>5, <2>1
<1>7. Joined(text) = Body(Joined(text))
  <2>. HIDE DEF Body, f
  <2>. QED
    BY <1>1, <1>6
<1>8. \A n \in Nat : n + 1 \in Nat /\ n + 1 # 0 /\ (n + 1) - 1 = n
  OBVIOUS
<1>9. /\ Body(Joined(text))[0] = First
      /\ \A n \in Nat : Body(Joined(text))[n + 1] = Level(n + 1, Joined(text)[n])
  BY <1>8
<1>10. Joined(text)[0] = First /\ \A n \in Nat : Joined(text)[n + 1] = Level(n + 1, Joined(text)[n])
  <2>. HIDE DEF Body
  <2>. QED
    BY <1>7, <1>9
<1>. QED
  BY <1>2, <1>10 DEF First

-----------------------------------------------------------------------------
(* The scan replaces every placeholder, once.                               *)

(* What the scan has done when k words are behind it.                       *)
Behind(text, scan, k) ==
  /\ k \in 0..Len(text)
  /\ scan = [rest |-> scan.rest, built |-> scan.built]
  /\ scan.rest \in Seq(STRING) /\ Len(scan.rest) = Len(text) - k
  /\ \A i \in 1..Len(scan.rest) : scan.rest[i] = text[k + i]
  /\ scan.built \in Seq(STRING) /\ scan.built = Joined(text)[k]
  /\ \A i \in {k, k - 1} : i >= 1 => text[i] # Opening

LEMMA WordIsTaken ==
  ASSUME NEW text \in Seq(STRING), NEW scan, NEW k, Behind(text, scan, k),
         scan.rest # <<>>, Head(scan.rest) # Opening
  PROVE  Behind(text, [rest |-> Tail(scan.rest), built |-> Append(scan.built, Head(scan.rest))], k + 1)
<1>. DEFINE rest == scan.rest
            word == text[k + 1]
<1>1. /\ k \in Nat /\ k < Len(text) /\ Len(text) \in Nat
      /\ rest \in Seq(STRING) /\ Len(rest) = Len(text) - k /\ Len(rest) >= 1
      /\ \A i \in 1..Len(rest) : rest[i] = text[k + i]
  BY DEF Behind
<1>2. Head(rest) = word /\ word \in STRING /\ word # Opening
  <2>1. 1 \in 1..Len(rest) /\ Head(rest) = rest[1] /\ rest[1] \in STRING
    BY <1>1
  <2>2. rest[1] = word
    BY <1>1, <2>1
  <2>. QED
    BY <2>1, <2>2
<1>3. Tail(rest) \in Seq(STRING) /\ Len(Tail(rest)) = Len(text) - (k + 1)
  <2>1. rest # <<>>
    BY <1>1
  <2>2. Tail(rest) \in Seq(STRING) /\ Len(Tail(rest)) = Len(rest) - 1
    BY <1>1, <2>1, HeadTailProperties
  <2>. QED
    BY <1>1, <2>2
<1>4. \A i \in 1..Len(Tail(rest)) : Tail(rest)[i] = text[(k + 1) + i]
  <2>. SUFFICES ASSUME NEW i \in 1..Len(Tail(rest)) PROVE Tail(rest)[i] = text[(k + 1) + i]
    OBVIOUS
  <2>1. Tail(rest)[i] = rest[i + 1] /\ i + 1 \in 1..Len(rest) /\ k + (i + 1) = (k + 1) + i
    BY <1>1
  <2>. QED
    BY <1>1, <2>1
<1>5. Piece(text, k + 1) = <<word>>
  <2>1. \A j \in {1, 2} : ~(k + 1 > j /\ text[(k + 1) - j] = Opening)
    BY <1>1 DEF Behind
  <2>. QED
    BY <1>2, <2>1 DEF Piece
<1>6. Joined(text)[k + 1] = scan.built \o <<word>>
  BY <1>1, <1>5, JoinUnfold DEF Behind
<1>7. scan.built \in Seq(STRING)
  BY DEF Behind
<1>8. Append(scan.built, word) \in Seq(STRING) /\ Append(scan.built, word) = scan.built \o <<word>>
  <2>. HIDE DEF word
  <2>1. Append(scan.built, word) \in Seq(STRING)
    BY <1>2, <1>7
  <2>. QED
    BY <1>2, <1>7, <2>1, AppendIsConcat
<1>9. \A i \in {k + 1, (k + 1) - 1} : i >= 1 => text[i] # Opening
  BY <1>1, <1>2 DEF Behind
<1>10. PICK after : after = [rest |-> Tail(rest), built |-> Append(scan.built, word)]
  OBVIOUS
<1>11. /\ after = [rest |-> after.rest, built |-> after.built]
       /\ after.rest = Tail(rest) /\ after.built = Append(scan.built, word)
  BY <1>10
<1>12. k + 1 \in 0..Len(text)
  BY <1>1
<1>13. after.built = Joined(text)[k + 1]
  BY <1>6, <1>8, <1>11
<1>14. Behind(text, after, k + 1)
  BY <1>3, <1>4, <1>8, <1>9, <1>11, <1>12, <1>13 DEF Behind
<1>. QED
  BY <1>2, <1>10, <1>14

LEMMA ClosingIsNotOpening == Closing # Opening
BY Zenon DEF Opening, Closing

LEMMA PlaceholderIsTaken ==
  ASSUME environment \in Environments,
         NEW text \in Seq(STRING), NEW scan, NEW k, Behind(text, scan, k),
         scan.rest[1] = Opening, Len(scan.rest) >= 3,
         scan.rest[2] \in DOMAIN environment, scan.rest[3] = Closing
  PROVE  Behind(text, [rest  |-> SubSeq(scan.rest, 4, Len(scan.rest)),
                       built |-> scan.built \o environment[scan.rest[2]]], k + 3)
<1>. DEFINE rest == scan.rest
            left == SubSeq(rest, 4, Len(rest))
            value == environment[rest[2]]
<1>1. /\ k \in Nat /\ k + 3 <= Len(text) /\ Len(text) \in Nat
      /\ rest \in Seq(STRING) /\ Len(rest) = Len(text) - k /\ Len(rest) >= 3
      /\ \A i \in 1..Len(rest) : rest[i] = text[k + i]
  BY DEF Behind
<1>2. text[k + 1] = Opening /\ text[k + 2] = rest[2] /\ text[k + 3] = Closing
  <2>1. 1 \in 1..Len(rest) /\ 2 \in 1..Len(rest) /\ 3 \in 1..Len(rest)
    BY <1>1
  <2>2. rest[1] = text[k + 1] /\ rest[2] = text[k + 2] /\ rest[3] = text[k + 3]
    BY <1>1, <2>1
  <2>. QED
    BY <2>2
<1>3. value \in Seq(STRING) /\ rest[2] # Opening
  BY EnvironmentsAssumption
<1>4. left \in Seq(STRING) /\ Len(left) = Len(text) - (k + 3)
  BY <1>1
<1>5. \A i \in 1..Len(left) : left[i] = text[(k + 3) + i]
  <2>. SUFFICES ASSUME NEW i \in 1..Len(left) PROVE left[i] = text[(k + 3) + i]
    OBVIOUS
  <2>1. i + 3 \in 1..Len(rest) /\ k + (i + 3) = (k + 3) + i
    <3>1. PICK size \in Nat : size = Len(text)
      BY <1>1
    <3>2. Len(rest) = size - k /\ i \in 1..(size - (k + 3))
      BY <1>1, <1>4, <3>1
    <3>. QED
      BY <1>1, <3>2
  <2>2. left[i] = rest[i + 3]
    <3>1. i \in Nat /\ i \in 1..((Len(rest) - 4) + 1) /\ (4 + i) - 1 = i + 3
      BY <1>1, <1>4
    <3>2. left[i] = rest[(4 + i) - 1]
      BY <1>1, <3>1, SubSeqProperties
    <3>. QED
      BY <3>1, <3>2
  <2>. QED
    BY <1>1, <2>1, <2>2
<1>6. Piece(text, k + 1) = value
  <2>1. (k + 1) + 1 = k + 2
    BY <1>1
  <2>2. Piece(text, k + 1) = environment[text[(k + 1) + 1]]
    BY <1>2 DEF Piece
  <2>. QED
    BY <1>2, <2>1, <2>2
<1>7. Piece(text, k + 2) = <<>>
  <2>1. k + 2 > 1 /\ (k + 2) - 1 = k + 1
    BY <1>1
  <2>. QED
    BY <1>2, <1>3, <2>1 DEF Piece
<1>8. Piece(text, k + 3) = <<>>
  <2>1. k + 3 > 2 /\ (k + 3) - 2 = k + 1
    BY <1>1
  <2>2. text[k + 3] # Opening
    BY <1>2, ClosingIsNotOpening
  <2>3. \E j \in {1, 2} : k + 3 > j /\ text[(k + 3) - j] = Opening
    BY <1>2, <2>1
  <2>. QED
    BY <2>2, <2>3, Zenon DEF Piece
<1>9. scan.built \in Seq(STRING) /\ scan.built = Joined(text)[k]
  BY DEF Behind
<1>10. Joined(text)[k + 1] = scan.built \o value
  <2>1. Joined(text)[k + 1] = Joined(text)[k] \o Piece(text, k + 1)
    BY <1>1, JoinUnfold
  <2>. HIDE DEF value
  <2>. QED
    BY <1>6, <1>9, <2>1
<1>11. Joined(text)[k + 2] = (scan.built \o value) \o <<>>
  <2>1. k + 1 \in Nat /\ (k + 1) + 1 = k + 2
    BY <1>1
  <2>. QED
    BY <1>7, <1>10, <2>1, JoinUnfold
<1>12. Joined(text)[k + 3] = ((scan.built \o value) \o <<>>) \o <<>>
  <2>1. k + 2 \in Nat /\ (k + 2) + 1 = k + 3
    BY <1>1
  <2>. QED
    BY <1>8, <1>11, <2>1, JoinUnfold
<1>13. scan.built \o value \in Seq(STRING)
  BY <1>3, <1>9
<1>14. Joined(text)[k + 3] = scan.built \o value
  BY <1>12, <1>13, ConcatEmptySeq
<1>15. \A i \in {k + 3, (k + 3) - 1} : i >= 1 => text[i] # Opening
  <2>1. (k + 3) - 1 = k + 2
    BY <1>1
  <2>. QED
    BY <1>2, <1>3, <2>1, ClosingIsNotOpening
<1>16. PICK after : after = [rest |-> left, built |-> scan.built \o value]
  OBVIOUS
<1>17. /\ after = [rest |-> after.rest, built |-> after.built]
       /\ after.rest = left /\ after.built = scan.built \o value
  BY <1>16
<1>18. k + 3 \in 0..Len(text)
  BY <1>1
<1>19. Behind(text, after, k + 3)
  <2>. HIDE DEF left, value
  <2>. QED
    BY <1>4, <1>5, <1>13, <1>14, <1>15, <1>17, <1>18 DEF Behind
<1>. QED
  BY <1>16, <1>19

LEMMA ScanIsBehind ==
  ASSUME environment \in Environments, NEW text \in Seq(STRING)
  PROVE  \A n \in Nat : \E k \in Nat : Behind(text, Scanned(text, environment)[n], k)
<1>. DEFINE S == {n \in Nat : \E k \in Nat : Behind(text, Scanned(text, environment)[n], k)}
<1>1. 0 \in S
  <2>1. Scanned(text, environment)[0] = [rest |-> text, built |-> <<>>] /\ Joined(text)[0] = <<>>
    BY ScanUnfold, JoinUnfold
  <2>2. Behind(text, [rest |-> text, built |-> <<>>], 0)
    BY <2>1 DEF Behind
  <2>. QED
    BY <2>1, <2>2
<1>2. ASSUME NEW n \in Nat, n \in S PROVE n + 1 \in S
  <2>1. PICK scan : scan = Scanned(text, environment)[n]
    OBVIOUS
  <2>2. PICK k \in Nat : Behind(text, scan, k)
    BY <1>2, <2>1
  <2>3. Scanned(text, environment)[n + 1] = Round(scan, environment)
    BY <2>1, ScanUnfold
  <2>4. \E j \in Nat : Behind(text, Round(scan, environment), j)
    <3>1. CASE scan.rest # <<>> /\ Head(scan.rest) # Opening
      <4>1. Behind(text, Round(scan, environment), k + 1)
        BY <2>2, <3>1, WordIsTaken DEF Round
      <4>. QED
        BY <4>1
    <3>2. CASE /\ ~(scan.rest # <<>> /\ Head(scan.rest) # Opening)
               /\ Len(scan.rest) >= 3
               /\ scan.rest[2] \in DOMAIN environment
               /\ scan.rest[3] = Closing
      <4>1. scan.rest \in Seq(STRING)
        BY <2>2 DEF Behind
      <4>2. scan.rest[1] = Opening
        BY <3>2, <4>1
      <4>3. Behind(text, Round(scan, environment), k + 3)
        BY <2>2, <3>2, <4>2, PlaceholderIsTaken DEF Round
      <4>. QED
        BY <4>3
    <3>3. CASE /\ ~(scan.rest # <<>> /\ Head(scan.rest) # Opening)
               /\ ~(Len(scan.rest) >= 3 /\ scan.rest[2] \in DOMAIN environment /\ scan.rest[3] = Closing)
      BY <2>2, <3>3 DEF Round
    <3>. QED
      BY <3>1, <3>2, <3>3
  <2>. QED
    BY <2>3, <2>4
<1>. HIDE DEF S
<1>3. \A n \in Nat : n \in S
  BY <1>1, <1>2, Induction
<1>. QED
  BY <1>3 DEF S

(* A text that expands has its placeholders replaced.                       *)
LEMMA ExpandedText ==
  ASSUME environment \in Environments, NEW text \in Seq(STRING),
         ExpandString(text, environment) # Invalid
  PROVE  ExpandString(text, environment) = Str(Substituted(text))
<1>1. PICK scan : scan = Scan(text, environment) /\ scan.rest = <<>>
  BY DEF ExpandString
<1>2. Len(text) \in Nat /\ scan = Scanned(text, environment)[Len(text)]
  BY <1>1, ScanIs
<1>3. PICK k \in Nat : Behind(text, scan, k)
  BY <1>2, ScanIsBehind
<1>4. k = Len(text)
  BY <1>1, <1>2, <1>3 DEF Behind
<1>5. scan.built = Substituted(text)
  BY <1>3, <1>4, SubstitutedIs DEF Behind
<1>. QED
  BY <1>1, <1>5 DEF ExpandString

-----------------------------------------------------------------------------
(* A node that expands keeps its kind, its keys and its order.              *)

(* What a node is expanded to, its children having been expanded to depth m.*)
ExpandsTo(node, out, m) ==
  /\ out.kind = node.kind
  /\ node.kind = "str" => out.text = Substituted(node.text)
  /\ node.kind = "map" =>
       /\ out.of = [i \in DOMAIN node.of |->
            <<node.of[i][1], Expanded(environment)[m][node.of[i][2]]>>]
       /\ \A i \in DOMAIN node.of : Expanded(environment)[m][node.of[i][2]] # Invalid
  /\ node.kind = "seq" =>
       /\ out.of = [i \in DOMAIN node.of |-> Expanded(environment)[m][node.of[i]]]
       /\ \A i \in DOMAIN node.of : Expanded(environment)[m][node.of[i]] # Invalid

LEMMA ExpandedNode ==
  ASSUME environment \in Environments, NEW n \in Nat, NEW node \in Nodes,
         NEW out, out = Expanded(environment)[n][node], out # Invalid
  PROVE  \E m \in Nat : ExpandsTo(node, out, m)
<1>1. n # 0
  BY ExpandUnfold
<1>2. PICK m \in Nat : n = m + 1
  <2>1. n - 1 \in Nat /\ n = (n - 1) + 1
    BY <1>1
  <2>. QED
    BY <2>1
<1>3. PICK expanded : expanded = Expanded(environment)[m]
  OBVIOUS
<1>4. out = Expand(node, environment, expanded)
  <2>1. Expanded(environment)[m + 1] = [x \in Nodes |-> Expand(x, environment, expanded)]
    BY <1>3, ExpandUnfold
  <2>. QED
    BY <1>2, <2>1
<1>5. IsNode(node)
  BY NodesAssumption
<1>6. CASE node.kind = "str"
  <2>1. node.text \in Seq(STRING)
    BY <1>5, <1>6 DEF IsNode
  <2>2. out = Str(Substituted(node.text))
    BY <1>4, <1>6, <2>1, ExpandedText DEF Expand
  <2>3. out.kind = "str" /\ out.text = Substituted(node.text)
    BY <2>2 DEF Str
  <2>. QED
    BY <1>2, <1>6, <2>3 DEF ExpandsTo
<1>7. CASE node.kind = "map"
  <2>1. \A i \in DOMAIN node.of : expanded[node.of[i][2]] # Invalid
    BY <1>4, <1>7 DEF Expand, Children
  <2>2. out = [kind |-> "map",
               of |-> [i \in DOMAIN node.of |-> <<node.of[i][1], expanded[node.of[i][2]]>>]]
    BY <1>4, <1>7 DEF Expand
  <2>3. /\ out.kind = "map"
        /\ out.of = [i \in DOMAIN node.of |-> <<node.of[i][1], expanded[node.of[i][2]]>>]
    BY <2>2
  <2>4. /\ out.of = [i \in DOMAIN node.of |->
             <<node.of[i][1], Expanded(environment)[m][node.of[i][2]]>>]
        /\ \A i \in DOMAIN node.of : Expanded(environment)[m][node.of[i][2]] # Invalid
    BY <1>3, <2>1, <2>3, Zenon
  <2>5. ExpandsTo(node, out, m)
    BY <1>7, <2>3, <2>4 DEF ExpandsTo
  <2>. QED
    BY <2>5
<1>8. CASE node.kind = "seq"
  <2>1. \A i \in DOMAIN node.of : expanded[node.of[i]] # Invalid
    BY <1>4, <1>8 DEF Expand, Children
  <2>2. out = [kind |-> "seq", of |-> [i \in DOMAIN node.of |-> expanded[node.of[i]]]]
    BY <1>4, <1>8 DEF Expand
  <2>. QED
    BY <1>2, <1>3, <1>8, <2>1, <2>2 DEF ExpandsTo
<1>9. CASE node.kind = "other"
  <2>1. out = node
    BY <1>4, <1>9 DEF Expand
  <2>. QED
    BY <1>2, <1>9, <2>1 DEF ExpandsTo
<1>. QED
  BY <1>5, <1>6, <1>7, <1>8, <1>9 DEF IsNode

(* The values of a mapping's keys are those of the document, expanded.      *)
LEMMA ExpandedMember ==
  ASSUME environment \in Environments, NEW n \in Nat, NEW node \in Nodes, node.kind = "map",
         NEW out, out = Expanded(environment)[n][node], out # Invalid
  PROVE  \E m \in Nat :
           /\ Keys(out) = Keys(node)
           /\ \A key \in Keys(node) :
                /\ Member(node, key) \in Nodes
                /\ Member(out, key) = Expanded(environment)[m][Member(node, key)]
                /\ Member(out, key) # Invalid
<1>1. PICK m \in Nat : ExpandsTo(node, out, m)
  BY ExpandedNode, Zenon
<1>2. /\ DOMAIN out.of = DOMAIN node.of
      /\ \A i \in DOMAIN node.of :
           /\ out.of[i][1] = node.of[i][1]
           /\ out.of[i][2] = Expanded(environment)[m][node.of[i][2]]
           /\ out.of[i][2] # Invalid
  BY <1>1 DEF ExpandsTo
<1>3. Keys(out) = Keys(node)
  BY <1>2 DEF Keys
<1>4. \A i \in DOMAIN node.of : node.of[i][2] \in Nodes
  <2>1. node.of \in Seq(STRING \X Nodes)
    BY NodesAssumption DEF IsNode
  <2>. QED
    BY <2>1
<1>5. ASSUME NEW key \in Keys(node)
      PROVE  /\ Member(node, key) \in Nodes
             /\ Member(out, key) = Expanded(environment)[m][Member(node, key)]
             /\ Member(out, key) # Invalid
  <2>1. PICK i : i = CHOOSE j \in DOMAIN node.of : node.of[j][1] = key
    OBVIOUS
  <2>2. i \in DOMAIN node.of
    BY <2>1 DEF Keys
  <2>3. i = CHOOSE j \in DOMAIN out.of : out.of[j][1] = key
    BY <1>2, <2>1, Zenon
  <2>. QED
    BY <1>2, <1>4, <2>1, <2>2, <2>3 DEF Member
<1>. QED
  BY <1>3, <1>5

LEMMA ExpandedScalar ==
  ASSUME environment \in Environments, NEW n \in Nat, NEW node \in Nodes, node.kind = "map",
         NEW out, out = Expanded(environment)[n][node], out # Invalid,
         NEW key \in Keys(out), Member(out, key).kind = "str"
  PROVE  Member(out, key).text = ScalarAt(node, key)
<1>1. PICK m \in Nat :
        /\ Member(node, key) \in Nodes
        /\ Member(out, key) = Expanded(environment)[m][Member(node, key)]
        /\ Member(out, key) # Invalid
  BY ExpandedMember
<1>2. PICK scalar, value :
        /\ scalar \in Nodes /\ scalar = Member(node, key) /\ value = Member(out, key)
        /\ value = Expanded(environment)[m][scalar] /\ value # Invalid /\ value.kind = "str"
  BY <1>1
<1>3. PICK k \in Nat : ExpandsTo(scalar, value, k)
  BY <1>2, ExpandedNode, Zenon
<1>. QED
  BY <1>2, <1>3 DEF ScalarAt, ExpandsTo

-----------------------------------------------------------------------------
(* What is accepted holds the document's own strings and Providers.         *)

(* An accepted name or key of a Provider was declared: without its key the  *)
(* text is empty, and no empty name is known and no empty key is accepted.  *)
LEMMA DeclaredText ==
  ASSUME environment \in Environments, NEW n \in Nat, NEW node \in Nodes,
         NEW out, out = Expanded(environment)[n][node], out # Invalid,
         NEW key, HasStrings(out, {"name", "api_key"}), key \in {"name", "api_key"},
         TrimSpace(StringOrDefault(out, key, <<>>)) # <<>>
  PROVE  StringOrDefault(out, key, <<>>) = ScalarAt(node, key)
<1>1. node.kind = "map"
  <2>1. PICK m \in Nat : ExpandsTo(node, out, m)
    BY ExpandedNode, Zenon
  <2>. QED
    BY <2>1 DEF ExpandsTo, HasStrings
<1>2. key \in Keys(out)
  <2>1. TrimSpace(<<>>) = <<>>
    BY DEF TrimSpace
  <2>. QED
    BY <2>1 DEF StringOrDefault
<1>3. Member(out, key).kind = "str"
  BY <1>2 DEF HasStrings
<1>. QED
  BY <1>1, <1>2, <1>3, ExpandedScalar DEF StringOrDefault

(* A function on 1..n is a list of length n.                                *)
LEMMA LengthOfList ==
  ASSUME NEW n \in Nat, NEW list, DOMAIN list = 1..n, list = [i \in DOMAIN list |-> list[i]]
  PROVE  Len(list) = n
<1>. DEFINE values == {list[i] : i \in DOMAIN list}
<1>1. list \in [1..n -> values]
  BY Zenon
<1>2. list \in Seq(values)
  <2>. HIDE DEF values
  <2>. QED
    BY <1>1, SeqDef
<1>3. DOMAIN list = 1..Len(list) /\ Len(list) \in Nat
  <2>. HIDE DEF values
  <2>. QED
    BY <1>2
<1>. QED
  BY <1>3

(* The Providers that are accepted are those of the list, in its order.     *)
LEMMA DeclaredProviders ==
  ASSUME environment \in Environments, NEW n \in Nat, NEW node \in Nodes,
         NEW out, out = Expanded(environment)[n][node], out # Invalid, out.kind = "seq",
         \A i \in DOMAIN out.of : HasStrings(out.of[i], {"name", "api_key"}),
         ValidateProviders(ProvidersOf(out.of))
  PROVE  /\ Len(ProvidersOf(out.of)) = Len(node.of)
         /\ \A i \in DOMAIN node.of :
              /\ ProvidersOf(out.of)[i].name = TrimSpace(ScalarAt(node.of[i], "name"))
              /\ ProvidersOf(out.of)[i].apiKey = ScalarAt(node.of[i], "api_key")
<1>1. PICK m \in Nat : ExpandsTo(node, out, m)
  BY ExpandedNode, Zenon
<1>2. /\ DOMAIN out.of = DOMAIN node.of
      /\ \A i \in DOMAIN node.of :
           /\ out.of[i] = Expanded(environment)[m][node.of[i]]
           /\ out.of[i] # Invalid
  BY <1>1 DEF ExpandsTo
<1>3. PICK providers : providers = ProvidersOf(out.of)
  OBVIOUS
<1>4. node.of \in Seq(Nodes)
  BY <1>1, NodesAssumption DEF IsNode, ExpandsTo
<1>5. Len(providers) = Len(node.of)
  <2>1. DOMAIN node.of = 1..Len(node.of) /\ Len(node.of) \in Nat
    BY <1>4
  <2>2. DOMAIN providers = 1..Len(node.of)
    BY <1>2, <1>3, <2>1 DEF ProvidersOf
  <2>3. providers = [i \in DOMAIN providers |-> providers[i]]
    BY <1>3 DEF ProvidersOf
  <2>. QED
    BY <2>1, <2>2, <2>3, LengthOfList
<1>6. ASSUME NEW i \in DOMAIN node.of
      PROVE  /\ providers[i].name = TrimSpace(ScalarAt(node.of[i], "name"))
             /\ providers[i].apiKey = ScalarAt(node.of[i], "api_key")
  <2>1. PICK provider, text, secret :
          /\ provider = out.of[i]
          /\ text = StringOrDefault(provider, "name", <<>>)
          /\ secret = StringOrDefault(provider, "api_key", <<>>)
    OBVIOUS
  <2>2. /\ i \in DOMAIN providers
        /\ providers[i].name = TrimSpace(text) /\ providers[i].apiKey = secret
    BY <1>2, <1>3, <2>1 DEF ProvidersOf
  <2>3. TrimSpace(text) \in {<<"deepseek">>, <<"minimax">>} /\ TrimSpace(secret) # <<>>
    <3>1. ValidateProviders(providers)
      BY <1>3
    <3>2. /\ providers[i].name \in {<<"deepseek">>, <<"minimax">>}
          /\ TrimSpace(providers[i].apiKey) # <<>>
      BY <2>2, <3>1, Zenon DEF ValidateProviders
    <3>. QED
      BY <2>2, <3>2
  <2>4. TrimSpace(text) # <<>>
    <3>1. \A name \in STRING : <<name>> # <<>>
      OBVIOUS
    <3>2. <<"deepseek">> # <<>> /\ <<"minimax">> # <<>>
      BY <3>1
    <3>. QED
      BY <2>3, <3>2, Zenon
  <2>5. PICK declared \in Nodes :
          /\ declared = node.of[i]
          /\ provider = Expanded(environment)[m][declared] /\ provider # Invalid
          /\ HasStrings(provider, {"name", "api_key"})
    <3>1. node.of[i] \in Nodes
      BY <1>4
    <3>2. HasStrings(out.of[i], {"name", "api_key"})
      BY <1>2
    <3>. QED
      BY <1>2, <2>1, <3>1, <3>2
  <2>6. text = ScalarAt(declared, "name")
    <3>1. TrimSpace(StringOrDefault(provider, "name", <<>>)) # <<>>
      BY <2>1, <2>4
    <3>2. StringOrDefault(provider, "name", <<>>) = ScalarAt(declared, "name")
      BY <2>5, <3>1, DeclaredText
    <3>. QED
      BY <2>1, <3>2
  <2>7. secret = ScalarAt(declared, "api_key")
    <3>1. TrimSpace(StringOrDefault(provider, "api_key", <<>>)) # <<>>
      BY <2>1, <2>3
    <3>2. StringOrDefault(provider, "api_key", <<>>) = ScalarAt(declared, "api_key")
      BY <2>5, <3>1, DeclaredText
    <3>. QED
      BY <2>1, <3>2
  <2>. QED
    BY <2>2, <2>5, <2>6, <2>7
<1>. QED
  BY <1>3, <1>5, <1>6

(* EnvironmentIsData, of a document and what was loaded from it.            *)
LEMMA AcceptedHoldsItsDocument ==
  ASSUME environment \in Environments, NEW root \in Nodes, root.kind = "map",
         NEW loaded, loaded = LoadServerYAML(root, environment), loaded # Refused
  PROVE  /\ "log_format" \in Keys(root) => loaded.logFormat = ScalarAt(root, "log_format")
         /\ "shutdown_timeout" \in Keys(root) =>
              loaded.shutdownTimeout = ScalarAt(root, "shutdown_timeout")
         /\ LET declared == IF "providers" \in Keys(root) THEN Member(root, "providers").of ELSE <<>>
            IN  /\ Len(loaded.providers) = Len(declared)
                /\ \A i \in DOMAIN declared :
                     /\ loaded.providers[i].name = TrimSpace(ScalarAt(declared[i], "name"))
                     /\ loaded.providers[i].apiKey = ScalarAt(declared[i], "api_key")
<1>1. PICK out : out = ExpandScalars(root, environment)
  OBVIOUS
<1>2. /\ out # Invalid /\ ValidateYAMLShape(out)
      /\ loaded = Validated(ServerConfig(out))
  <2>1. root # NoDocument /\ root # Invalid
    BY DEF NoDocument, Invalid
  <2>. QED
    BY <1>1, <2>1 DEF LoadServerYAML, IsSingleDocument
<1>3. loaded = ServerConfig(out) /\ ValidateProviders(loaded.providers)
  BY <1>2 DEF Validated, ValidateServerConfig
<1>4. out = Expanded(environment)[MaxDepth][root]
  BY <1>1, ExpandScalarsIs
<1>5. PICK m \in Nat :
        /\ Keys(out) = Keys(root)
        /\ \A key \in Keys(root) :
             /\ Member(root, key) \in Nodes
             /\ Member(out, key) = Expanded(environment)[m][Member(root, key)]
             /\ Member(out, key) # Invalid
  BY <1>2, <1>4, ExpandedMember
<1>6. ASSUME NEW key \in Keys(root), key \in {"listen_address", "log_format", "shutdown_timeout"}
      PROVE  Member(out, key).text = ScalarAt(root, key)
  <2>1. key \in Keys(out) /\ Member(out, key).kind = "str"
    BY <1>2, <1>5, <1>6 DEF ValidateYAMLShape, HasStrings
  <2>. QED
    BY <1>2, <1>4, <2>1, ExpandedScalar
<1>7. "log_format" \in Keys(root) => loaded.logFormat = ScalarAt(root, "log_format")
  BY <1>3, <1>5, <1>6 DEF ServerConfig, StringOrDefault
<1>8. "shutdown_timeout" \in Keys(root) =>
        loaded.shutdownTimeout = ScalarAt(root, "shutdown_timeout")
  BY <1>3, <1>5, <1>6 DEF ServerConfig, StringOrDefault
<1>9. CASE "providers" \in Keys(root)
  <2>1. PICK list, providers :
          /\ list \in Nodes /\ list = Member(root, "providers") /\ providers = Member(out, "providers")
          /\ providers = Expanded(environment)[m][list] /\ providers # Invalid
    BY <1>5, <1>9
  <2>2. /\ providers.kind = "seq"
        /\ \A i \in DOMAIN providers.of : HasStrings(providers.of[i], {"name", "api_key"})
    BY <1>2, <1>5, <1>9, <2>1 DEF ValidateYAMLShape
  <2>3. loaded.providers = ProvidersOf(providers.of)
    BY <1>3, <1>5, <1>9, <2>1 DEF ServerConfig
  <2>4. /\ Len(ProvidersOf(providers.of)) = Len(list.of)
        /\ \A i \in DOMAIN list.of :
             /\ ProvidersOf(providers.of)[i].name = TrimSpace(ScalarAt(list.of[i], "name"))
             /\ ProvidersOf(providers.of)[i].apiKey = ScalarAt(list.of[i], "api_key")
    BY <1>3, <2>1, <2>2, <2>3, DeclaredProviders
  <2>. QED
    BY <1>7, <1>8, <1>9, <2>1, <2>3, <2>4
<1>10. CASE "providers" \notin Keys(root)
  <2>1. loaded.providers = <<>>
    BY <1>3, <1>5, <1>10 DEF ServerConfig
  <2>. QED
    BY <1>7, <1>8, <1>10, <2>1
<1>. QED
  BY <1>9, <1>10

-----------------------------------------------------------------------------
(* A configuration is kept together with what it was loaded from.           *)
KeptWithItsSource ==
  /\ ~assembled => yaml \in Documents /\ environment \in Environments
  /\ config # Nothing => ~assembled /\ config = LoadServerYAML(yaml, environment)

(* What a variable holds stays data in every configuration that is loaded,  *)
(* for every document, every environment and every depth: no variable adds  *)
(* a Provider, a key or a placeholder, or turns a string into anything else.*)
THEOREM VariablesAreData == FoundationSpec => []EnvironmentIsData
<1>1. FoundationInit => KeptWithItsSource
  BY DEF FoundationInit, KeptWithItsSource
<1>2. KeptWithItsSource /\ [FoundationNext]_foundationVars => KeptWithItsSource'
  <2>. SUFFICES ASSUME KeptWithItsSource, [FoundationNext]_foundationVars PROVE KeptWithItsSource'
    OBVIOUS
  <2>1. CASE LoadConfiguration
    BY <2>1 DEF KeptWithItsSource, LoadConfiguration
  <2>2. CASE Assemble
    BY <2>2 DEF KeptWithItsSource, Assemble
  <2>3. CASE Running(Next)
    BY <2>3 DEF KeptWithItsSource, Running, options
  <2>4. CASE UNCHANGED foundationVars
    BY <2>4 DEF KeptWithItsSource, foundationVars, options
  <2>. QED
    BY <2>1, <2>2, <2>3, <2>4 DEF FoundationNext
<1>3. KeptWithItsSource => EnvironmentIsData
  <2>. SUFFICES ASSUME KeptWithItsSource, config \notin {Nothing, Refused}, yaml.kind = "map"
                PROVE  EnvironmentIsData
    BY DEF EnvironmentIsData
  <2>1. environment \in Environments /\ config = LoadServerYAML(yaml, environment)
    BY DEF KeptWithItsSource
  <2>2. yaml \in Nodes
    BY DocumentsAssumption DEF KeptWithItsSource, NoDocument, Invalid
  <2>. QED
    BY <2>1, <2>2, AcceptedHoldsItsDocument DEF EnvironmentIsData
<1>. QED
  BY <1>1, <1>2, <1>3, PTL DEF FoundationSpec

(* The Application a foundation assembles runs as AppLifecycle says, from   *)
(* its initial state on: loading and assembling take no step of it.         *)
THEOREM AssembledApplicationRuns == FoundationSpec => Spec
<1>1. FoundationInit => Init
  BY DEF FoundationInit
<1>2. [FoundationNext]_foundationVars => [Next]_vars
  BY DEF FoundationNext, LoadConfiguration, Assemble, Running, foundationVars
<1>. QED
  BY <1>1, <1>2, PTL DEF FoundationSpec, Spec

(* So what was proved of its shutdown holds of every foundation.            *)
THEOREM AssembledClosesInReverse ==
  FoundationSpec => [](ClosedAfterItsDependents /\ NothingOutlivesRun)
BY AssembledApplicationRuns, ClosesInReverse, RunLeavesNothing, PTL
=============================================================================
