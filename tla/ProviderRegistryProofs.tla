------------------------ MODULE ProviderRegistryProofs ------------------------
(* Theorems about ProviderRegistry, for every set of Profiles, Providers and*)
(* calls, and about the loads of Profiles that ProfileBinding puts before   *)
(* it, for every set of files, versions and variables.                      *)
EXTENDS ProfileBinding, TLAPS

USE ProviderOfAssumption, CallersAssumption, SubjectAssumption, NoneAssumption

(* A call that is past its look at the factories has seen, for every model *)
(* it may make, the factory that is still registered.                      *)
SeenIsCurrent ==
  \A c \in Callers : \A v \in Providers : seen[c][v] # None => factories[v] = seen[c][v]

FactoryFound ==
  \A b \in Binders : pc[b] \in {"construct", "store"} => seen[b][ProviderOf[Subject[b]]] # None

(* The models a rebuild has made are its own, by registered factories, and *)
(* once it has published them they are all there.                          *)
RebuiltIsOwn ==
  \A u \in Rebuilders : \A f \in Profiles :
    rebuilt[u][f] # None =>
      /\ f \in Subject[u]
      /\ rebuilt[u][f].by = u
      /\ rebuilt[u][f].factory = factories[ProviderOf[f]]

(* A model in the registry that comes from a rebuild shows that it is done.*)
PublishedIsDone ==
  \A f \in Profiles : models[f] # None /\ models[f].by \in Rebuilders => pc[models[f].by] = "done"

IInv ==
  /\ TypeOK /\ SeenIsCurrent /\ FactoryFound /\ RebuiltIsOwn /\ PublishedIsDone
  /\ SnapshotIsWhole /\ ModelsUseTheirFactory

(* The invariant holds initially.                                          *)
LEMMA InitIInv == Init => IInv
BY DEF Init, IInv, TypeOK, SeenIsCurrent, FactoryFound, RebuiltIsOwn, PublishedIsDone,
       SnapshotIsWhole, ModelsUseTheirFactory, NoModels, Callers

(* A step that changes nothing but where its call is, and does not end one *)
(* as done, keeps the invariant: refusals and failures.                    *)
LEMMA CallEnds ==
  ASSUME IInv, NEW c \in Callers, pc[c] # "done", Goto(c, "failed"),
         UNCHANGED <<factories, models, seen, rebuilt>>
  PROVE  IInv'
<1>. USE DEF IInv, Goto
<1>1. TypeOK'
  BY DEF TypeOK
<1>2. SeenIsCurrent' /\ RebuiltIsOwn' /\ SnapshotIsWhole' /\ ModelsUseTheirFactory'
  BY DEF SeenIsCurrent, RebuiltIsOwn, SnapshotIsWhole, ModelsUseTheirFactory
<1>3. FactoryFound'
  BY DEF FactoryFound, TypeOK, Callers
<1>4. PublishedIsDone'
  BY DEF PublishedIsDone, TypeOK, Callers
<1>. QED
  BY <1>1, <1>2, <1>3, <1>4

(* RegisterFactory adds a factory where none was.                          *)
LEMMA FactoryStep ==
  ASSUME IInv, NEW r \in Registrars, RegisterFactory(r)
  PROVE  IInv'
<1>. DEFINE v == Subject[r]
<1>1. CASE factories[v] # None
  BY <1>1, CallEnds DEF RegisterFactory, Callers, At
<1>2. CASE factories[v] = None
  <2>. factories' = [factories EXCEPT ![v] = r] /\ Goto(r, "done")
    BY <1>2 DEF RegisterFactory
  <2>. /\ v \in Providers /\ r \in Callers /\ r \notin Binders \cup Rebuilders
       /\ UNCHANGED <<models, seen, rebuilt>> /\ TypeOK
    BY DEF RegisterFactory, Callers, IInv
  <2>1. \A w \in Providers : factories[w] # None => factories'[w] = factories[w]
    BY <1>2 DEF TypeOK
  <2>2. TypeOK'
    BY DEF TypeOK, Goto
  <2>3. SeenIsCurrent'
    BY <2>1 DEF IInv, SeenIsCurrent, TypeOK
  <2>4. FactoryFound' /\ PublishedIsDone'
    BY DEF IInv, FactoryFound, PublishedIsDone, TypeOK, Goto, Callers
  <2>5. RebuiltIsOwn'
    <3>1. ASSUME NEW u \in Rebuilders, NEW f \in Profiles, rebuilt[u][f] # None
          PROVE  rebuilt[u][f].factory # None
      BY <3>1 DEF TypeOK, Model, Callers
    <3>. QED
      BY <2>1, <3>1 DEF IInv, RebuiltIsOwn
  <2>6. SnapshotIsWhole'
    BY DEF IInv, SnapshotIsWhole
  <2>7. ModelsUseTheirFactory'
    <3>1. ASSUME NEW f \in Profiles, models[f] # None
          PROVE  models[f].factory # None
      BY <3>1 DEF TypeOK, Model, Callers
    <3>. QED
      BY <2>1, <3>1 DEF IInv, ModelsUseTheirFactory
  <2>. QED
    BY <2>2, <2>3, <2>4, <2>5, <2>6, <2>7 DEF IInv
<1>. QED
  BY <1>1, <1>2

(* The model a call makes of a factory it has seen.                        *)
LEMMA MadeByType ==
  ASSUME IInv, NEW c \in Callers, NEW f \in Profiles, seen[c][ProviderOf[f]] # None
  PROVE  /\ MadeBy(c, f) \in Model /\ MadeBy(c, f) # None
         /\ MadeBy(c, f).by = c
         /\ MadeBy(c, f).factory = factories[ProviderOf[f]]
<1>1. seen[c][ProviderOf[f]] \in Registrars
  BY DEF IInv, TypeOK
<1>2. factories[ProviderOf[f]] = seen[c][ProviderOf[f]]
  BY DEF IInv, SeenIsCurrent
<1>. QED
  BY <1>1, <1>2 DEF MadeBy, Model

(* The looks a binding takes before it has a model to store.               *)
LEMMA LookStep ==
  ASSUME IInv, NEW b \in Binders, LookUp(b) \/ ConstructOne(b)
  PROVE  IInv'
<1>. b \in Callers /\ Subject[b] \in Profiles /\ b \notin Rebuilders /\ TypeOK
  BY DEF Callers, IInv
<1>. UNCHANGED <<factories, models, rebuilt>>
  BY DEF LookUp, ConstructOne
<1>. DEFINE own == seen'[b][ProviderOf[Subject[b]]]
<1>a. seen' = seen \/ seen' = [seen EXCEPT ![b] = factories]
  BY DEF LookUp, ConstructOne
<1>b. PICK s \in {"construct", "store", "failed"} :
        pc' = [pc EXCEPT ![b] = s] /\ (s # "failed" => own # None)
  <2>1. CASE LookUp(b)
    BY <2>1 DEF LookUp, Goto, TypeOK
  <2>2. CASE ConstructOne(b)
    BY <2>2 DEF ConstructOne, At, Goto, IInv, FactoryFound
  <2>. QED
    BY <2>1, <2>2
<1>c. pc[b] # "done"
  BY DEF LookUp, ConstructOne, At
<1>d. \A d \in Callers \ {b} : pc'[d] = pc[d] /\ seen'[d] = seen[d]
  BY <1>a, <1>b DEF TypeOK
<1>e. seen' \in [Callers -> [Providers -> Registrars \cup {None}]]
  BY <1>a DEF TypeOK
<1>1. TypeOK'
  BY <1>b, <1>e DEF TypeOK
<1>2. SeenIsCurrent'
  BY <1>a, <1>d DEF IInv, SeenIsCurrent, TypeOK
<1>3. FactoryFound'
  BY <1>b, <1>d DEF IInv, FactoryFound, TypeOK, Callers
<1>4. PublishedIsDone'
  BY <1>c, <1>d DEF IInv, PublishedIsDone, TypeOK, Callers
<1>5. RebuiltIsOwn' /\ SnapshotIsWhole' /\ ModelsUseTheirFactory'
  BY DEF IInv, RebuiltIsOwn, SnapshotIsWhole, ModelsUseTheirFactory
<1>. QED
  BY <1>1, <1>2, <1>3, <1>4, <1>5 DEF IInv

(* A binding is stored only where no model is, so it breaks no snapshot.   *)
LEMMA StoreStep ==
  ASSUME IInv, NEW b \in Binders, Store(b)
  PROVE  IInv'
<1>. DEFINE f == Subject[b]
<1>. b \in Callers /\ f \in Profiles /\ b \notin Rebuilders /\ TypeOK
  BY DEF Callers, IInv
<1>1. CASE models[f] # None
  BY <1>1, CallEnds DEF Store, At
<1>2. CASE models[f] = None
  <2>. DEFINE m == MadeBy(b, f)
  <2>. /\ models' = [models EXCEPT ![f] = m] /\ Goto(b, "done")
       /\ UNCHANGED <<factories, seen, rebuilt>>
    BY <1>2 DEF Store
  <2>1. m \in Model /\ m # None /\ m.by = b /\ m.factory = factories[ProviderOf[f]]
    BY MadeByType DEF IInv, FactoryFound, Store, At
  <2>. HIDE DEF m
  <2>2. TypeOK'
    BY <2>1 DEF TypeOK, Goto
  <2>3. SeenIsCurrent' /\ RebuiltIsOwn'
    BY DEF IInv, SeenIsCurrent, RebuiltIsOwn
  <2>4. FactoryFound'
    BY DEF IInv, FactoryFound, TypeOK, Goto, Callers
  <2>5. PublishedIsDone'
    BY <2>1 DEF IInv, PublishedIsDone, TypeOK, Goto, Callers
  <2>6. SnapshotIsWhole'
    BY <1>2, <2>1 DEF IInv, SnapshotIsWhole, TypeOK
  <2>7. ModelsUseTheirFactory'
    BY <2>1 DEF IInv, ModelsUseTheirFactory, TypeOK
  <2>. QED
    BY <2>2, <2>3, <2>4, <2>5, <2>6, <2>7 DEF IInv
<1>. QED
  BY <1>1, <1>2

(* A rebuild takes its copy of the factories.                              *)
LEMMA CopyStep ==
  ASSUME IInv, NEW u \in Rebuilders, CopyFactories(u)
  PROVE  IInv'
<1>. u \in Callers /\ u \notin Binders /\ TypeOK
  BY DEF Callers, IInv
<1>. seen' = [seen EXCEPT ![u] = factories] /\ UNCHANGED <<factories, models, rebuilt>>
  BY DEF CopyFactories
<1>. pc[u] # "done" /\ pc' = [pc EXCEPT ![u] = "construct"]
  BY DEF CopyFactories, At, Goto
<1>1. TypeOK'
  BY DEF TypeOK
<1>2. SeenIsCurrent'
  BY DEF IInv, SeenIsCurrent, TypeOK
<1>3. FactoryFound'
  BY DEF IInv, FactoryFound, TypeOK, Callers
<1>4. PublishedIsDone'
  BY DEF IInv, PublishedIsDone, TypeOK, Callers
<1>5. RebuiltIsOwn' /\ SnapshotIsWhole' /\ ModelsUseTheirFactory'
  BY DEF IInv, RebuiltIsOwn, SnapshotIsWhole, ModelsUseTheirFactory
<1>. QED
  BY <1>1, <1>2, <1>3, <1>4, <1>5 DEF IInv

(* A rebuild makes one more model: nobody sees it yet.                     *)
LEMMA ConstructNextStep ==
  ASSUME IInv, NEW u \in Rebuilders, ConstructNext(u)
  PROVE  IInv'
<1>. u \in Callers /\ TypeOK /\ pc[u] = "construct"
  BY DEF Callers, IInv, ConstructNext, At
<1>. UNCHANGED <<pc, factories, models, seen>>
  BY DEF ConstructNext
<1>1. PICK f \in Missing(u) : /\ seen[u][ProviderOf[f]] # None
                              /\ rebuilt' = [rebuilt EXCEPT ![u][f] = MadeBy(u, f)]
  BY DEF ConstructNext
<1>. f \in Subject[u] /\ f \in Profiles /\ rebuilt[u][f] = None
  BY <1>1 DEF Missing
<1>. DEFINE m == MadeBy(u, f)
<1>2. m \in Model /\ m # None /\ m.by = u /\ m.factory = factories[ProviderOf[f]]
  BY <1>1, MadeByType
<1>3. rebuilt' = [rebuilt EXCEPT ![u][f] = m]
  BY <1>1
<1>. HIDE DEF m
<1>4. TypeOK'
  BY <1>2, <1>3 DEF TypeOK
<1>5. SeenIsCurrent' /\ FactoryFound' /\ PublishedIsDone' /\ ModelsUseTheirFactory'
  BY DEF IInv, SeenIsCurrent, FactoryFound, PublishedIsDone, ModelsUseTheirFactory
<1>6. RebuiltIsOwn'
  BY <1>2, <1>3 DEF IInv, RebuiltIsOwn, TypeOK
<1>7. SnapshotIsWhole'
  <2>1. ASSUME NEW w \in Rebuilders, NEW g \in Profiles, models[g] # None, models[g].by = w
        PROVE  rebuilt'[w] = rebuilt[w]
    <3>1. w # u
      BY <2>1 DEF IInv, PublishedIsDone
    <3>. QED
      BY <3>1, <1>3 DEF TypeOK, Callers
  <2>. QED
    BY <2>1 DEF IInv, SnapshotIsWhole
<1>. QED
  BY <1>4, <1>5, <1>6, <1>7 DEF IInv

(* A rebuild publishes all its models at once.                             *)
LEMMA PublishStep ==
  ASSUME IInv, NEW u \in Rebuilders, Publish(u)
  PROVE  IInv'
<1>. u \in Callers /\ u \notin Binders /\ TypeOK
  BY DEF Callers, IInv
<1>. /\ models' = rebuilt[u] /\ UNCHANGED <<factories, seen, rebuilt>>
     /\ pc' = [pc EXCEPT ![u] = "done"]
  BY DEF Publish, Goto
<1>1. TypeOK'
  BY DEF TypeOK
<1>2. SeenIsCurrent' /\ RebuiltIsOwn'
  BY DEF IInv, SeenIsCurrent, RebuiltIsOwn
<1>3. FactoryFound'
  BY DEF IInv, FactoryFound, TypeOK, Callers
<1>4. \A f \in Profiles : models'[f] # None =>
        models'[f].by = u /\ models'[f].factory = factories[ProviderOf[f]]
  BY DEF IInv, RebuiltIsOwn
<1>5. PublishedIsDone' /\ ModelsUseTheirFactory'
  BY <1>4 DEF PublishedIsDone, ModelsUseTheirFactory, TypeOK
<1>6. \A g \in Subject[u] : rebuilt[u][g] # None
  BY DEF Publish, Missing
<1>7. SnapshotIsWhole'
  BY <1>4, <1>6 DEF SnapshotIsWhole
<1>. QED
  BY <1>1, <1>2, <1>3, <1>5, <1>7 DEF IInv

(* Every step keeps the invariant.                                         *)
LEMMA StepIInv == IInv /\ [Next]_vars => IInv'
<1>. SUFFICES ASSUME IInv, [Next]_vars
              PROVE  IInv'
  OBVIOUS
<1>1. CASE UNCHANGED vars
  BY <1>1 DEF vars, IInv, TypeOK, SeenIsCurrent, FactoryFound, RebuiltIsOwn, PublishedIsDone,
              SnapshotIsWhole, ModelsUseTheirFactory
<1>2. ASSUME NEW c \in Callers, Refuse(c)
      PROVE  IInv'
  BY <1>2, CallEnds DEF Refuse, At
<1>3. ASSUME NEW r \in Registrars, Refuse(r) \/ RegisterFactory(r)
      PROVE  IInv'
  BY <1>2, <1>3, FactoryStep DEF Callers
<1>4. ASSUME NEW b \in Binders, Bind(b)
      PROVE  IInv'
  <2>1. CASE Refuse(b)
    BY <2>1, <1>2 DEF Callers
  <2>2. CASE LookUp(b) \/ ConstructOne(b)
    BY <2>2, LookStep
  <2>3. CASE ConstructFails(b)
    BY <2>3, CallEnds DEF ConstructFails, At, Callers
  <2>4. CASE Store(b)
    BY <2>4, StoreStep
  <2>. QED
    BY <1>4, <2>1, <2>2, <2>3, <2>4 DEF Bind
<1>5. ASSUME NEW u \in Rebuilders, Rebuild(u)
      PROVE  IInv'
  <2>1. CASE Refuse(u)
    BY <2>1, <1>2 DEF Callers
  <2>2. CASE CopyFactories(u)
    BY <2>2, CopyStep
  <2>3. CASE ConstructNext(u)
    BY <2>3, ConstructNextStep
  <2>4. CASE RebuildFails(u)
    BY <2>4, CallEnds DEF RebuildFails, At, Callers
  <2>5. CASE Publish(u)
    BY <2>5, PublishStep
  <2>. QED
    BY <1>5, <2>1, <2>2, <2>3, <2>4, <2>5 DEF Rebuild
<1>. QED
  BY <1>1, <1>3, <1>4, <1>5 DEF Next

-----------------------------------------------------------------------------
(* The invariant holds in every reachable state of the registry.           *)
THEOREM InductiveInvariant == Spec => []IInv
<1>. QED
  BY InitIInv, StepIInv, PTL DEF Spec

(* Every variable of the registry keeps its type.                          *)
THEOREM TypeCorrect == Spec => []TypeOK
<1>1. IInv => TypeOK
  BY DEF IInv
<1>. QED
  BY <1>1, InductiveInvariant, PTL

(* However many rebuilds and bindings run at once, readers never see a part*)
(* of a rebuild: BindProfiles publishes all of its models or none.         *)
THEOREM SnapshotsAreWhole == Spec => []SnapshotIsWhole
<1>1. IInv => SnapshotIsWhole
  BY DEF IInv
<1>. QED
  BY <1>1, InductiveInvariant, PTL

(* Every model was made by the factory its Provider still has, although the*)
(* factory was looked up under a lock that has long been given back.       *)
THEOREM FactoriesKept == Spec => []ModelsUseTheirFactory
<1>1. IInv => ModelsUseTheirFactory
  BY DEF IInv
<1>. QED
  BY <1>1, InductiveInvariant, PTL

(* No binding, registration or failed rebuild replaces or removes a model: *)
(* only the publication of a rebuild does.                                 *)
THEOREM OnlyRebuildsReplace == Spec => BoundUntilRebuild
<1>. DEFINE Kept == \A f \in Profiles : models[f] # None /\ models'[f] # models[f] =>
                      \E u \in Rebuilders : At(u, "construct") /\ pc'[u] = "done"
<1>1. ASSUME IInv, [Next]_vars
      PROVE  [Kept]_vars
  <2>1. CASE UNCHANGED vars
    BY <2>1
  <2>2. ASSUME NEW b \in Binders, Store(b)
        PROVE  Kept
    BY <2>2, <1>1 DEF Store, IInv, TypeOK
  <2>3. ASSUME NEW u \in Rebuilders, Publish(u)
        PROVE  Kept
    BY <2>3, <1>1 DEF Publish, Goto, IInv, TypeOK, Callers
  <2>4. CASE UNCHANGED models
    BY <2>4
  <2>5. \/ UNCHANGED vars \/ UNCHANGED models
        \/ \E b \in Binders : Store(b)
        \/ \E u \in Rebuilders : Publish(u)
    BY <1>1 DEF Next, Bind, Rebuild, Refuse, RegisterFactory, LookUp, ConstructOne,
                ConstructFails, CopyFactories, ConstructNext, RebuildFails
  <2>. QED
    BY <2>1, <2>2, <2>3, <2>4, <2>5
<1>. QED
  BY <1>1, InductiveInvariant, PTL DEF Spec, BoundUntilRebuild

-----------------------------------------------------------------------------
(* The registry and the Profile loader together.                           *)

(* With what a load returns for its input, the registry does nothing that  *)
(* it does not do by itself: what is proved of Spec holds of BindingSpec.  *)
THEOREM BindingRefinesRegistry == BindingSpec => Spec
<1>1. BindingInit => Init
  BY DEF BindingInit
<1>2. [BindingNext]_bindingVars => [Next]_vars
  <2>. SUFFICES ASSUME [BindingNext]_bindingVars PROVE [Next]_vars
    OBVIOUS
  <2>1. CASE \E l \in Loads : LoadStep(l) \/ \E c \in Binders \cup Rebuilders : Hand(c, l)
    BY <2>1 DEF LoadStep, Hand
  <2>2. CASE \E r \in Registrars : RegisterStep(r)
    BY <2>2 DEF RegisterStep, Next
  <2>3. CASE \E b \in Binders : BindGiven(b)
    BY <2>3 DEF BindGiven, Next
  <2>4. CASE \E u \in Rebuilders : RebuildGiven(u)
    BY <2>4 DEF RebuildGiven, Next
  <2>5. CASE UNCHANGED bindingVars
    BY <2>5 DEF bindingVars
  <2>. QED
    BY <2>1, <2>2, <2>3, <2>4, <2>5 DEF BindingNext
<1>. QED
  BY <1>1, <1>2, PTL DEF BindingSpec, Spec

(* What a Profile's consumers ask of it.                                   *)
Usable(profile) ==
  /\ profile.provider \in DeclaredProviders
  /\ profile.maxIterations >= 1 /\ profile.historyTurns >= 1

(* A number that a decoded document gives is an integer.                   *)
LEMMA IntegerDecoded ==
  ASSUME NEW items, DecodesStrictly(items), NEW field \in IntegerFields, NEW default \in Int
  PROVE  ValueOr(items, field, default) \in Int
<1>1. CASE ~Given(items, field)
  BY <1>1 DEF ValueOr
<1>2. CASE Given(items, field)
  <2>. DEFINE found == CHOOSE i \in DOMAIN items : items[i].field = field
  <2>1. found \in DOMAIN items /\ items[found].field = field
    BY <1>2 DEF Given
  <2>2. items[found].value \in Int
    BY <2>1 DEF DecodesStrictly
  <2>. QED
    BY <1>2, <2>2 DEF ValueOr
<1>. QED
  BY <1>1, <1>2

(* What loadFile returns without an error is usable.                       *)
LEMMA LoadedIsUsable ==
  ASSUME NEW text, LoadFile(text) # Fault
  PROVE  Usable(LoadFile(text))
<1>. DEFINE items == ExpandEnvironment(text)
<1>. /\ DecodesStrictly(items) /\ Validates(items)
     /\ LoadFile(text) = ProfileOf(items)
  BY DEF LoadFile
<1>. HIDE DEF items
<1>. DEFINE iterations == ValueOr(items, "settings.max_iterations", 10)
            turns == ValueOr(items, "settings.max_history_turns", 20)
<1>1. iterations \in Int /\ turns \in Int
  BY IntegerDecoded DEF IntegerFields
<1>2. iterations > 0 /\ turns > 0
  BY DEF Validates
<1>3. /\ ProfileOf(items).provider \in DeclaredProviders
      /\ ProfileOf(items).maxIterations = iterations
      /\ ProfileOf(items).historyTurns = turns
  BY DEF Validates, ProfileOf
<1>. HIDE DEF iterations, turns
<1>4. iterations >= 1 /\ turns >= 1
  BY <1>1, <1>2
<1>. QED
  BY <1>3, <1>4 DEF Usable

IsSequence(s) == s \in Seq({s[i] : i \in DOMAIN s})

LEMMA AppendIsSequence ==
  ASSUME NEW s, IsSequence(s), NEW e
  PROVE  /\ IsSequence(Append(s, e))
         /\ Len(s) \in Nat /\ DOMAIN s = 1..Len(s)
         /\ DOMAIN Append(s, e) = 1..(Len(s) + 1)
         /\ \A i \in 1..Len(s) : Append(s, e)[i] = s[i]
         /\ Append(s, e)[Len(s) + 1] = e
<1>. DEFINE S == {s[i] : i \in DOMAIN s} \cup {e}
            t == Append(s, e)
            n == Len(s) + 1
<1>1. \A i \in DOMAIN s : s[i] \in S
  OBVIOUS
<1>2. /\ s \in Seq({s[i] : i \in DOMAIN s})
      /\ Len(s) \in Nat /\ DOMAIN s = 1..Len(s)
  BY DEF IsSequence
<1>3. s \in Seq(S) /\ e \in S
  BY <1>1, <1>2
<1>. HIDE DEF S
<1>4. /\ t \in Seq(S) /\ Len(t) = n
      /\ \A i \in 1..Len(s) : t[i] = s[i]
      /\ t[n] = e
  BY <1>2, <1>3
<1>5. DOMAIN t = 1..n
  BY <1>4
<1>. HIDE DEF t
<1>6. t \in [1..n -> {t[i] : i \in DOMAIN t}]
  BY <1>4, <1>5
<1>7. IsSequence(t)
  BY <1>2, <1>6 DEF IsSequence
<1>. QED
  BY <1>2, <1>4, <1>5, <1>7 DEF t

(* Snapshots and hand-overs: every registered Profile is usable and found  *)
(* by its name, whatever the load still has to read.                       *)
SnapshotsUsable ==
  /\ DOMAIN snapshot = Loads
  /\ \A l \in Loads :
       /\ IsSequence(snapshot[l])
       /\ \A i \in DOMAIN snapshot[l] : Usable(snapshot[l][i])
       /\ \A i, j \in DOMAIN snapshot[l] :
            snapshot[l][i].name = snapshot[l][j].name => i = j

GivenLoads ==
  /\ DOMAIN given = Binders \cup Rebuilders
  /\ \A c \in Binders \cup Rebuilders : given[c] # None => given[c] \in Loads

(* A load registers a Profile at the end, usable and with a name of its    *)
(* own, or leaves its snapshot as it is.                                   *)
LEMMA LoadKeepsUsable ==
  ASSUME SnapshotsUsable, NEW l \in Loads, Load(l)
  PROVE  SnapshotsUsable'
<1>1. CASE snapshot' = snapshot
  BY <1>1 DEF SnapshotsUsable
<1>2. CASE snapshot' # snapshot
  <2>1. PICK loaded :
          /\ \E text : loaded = LoadFile(text)
          /\ loaded # Fault /\ ~Registered(l, loaded.name)
          /\ snapshot' = [snapshot EXCEPT ![l] = Append(@, loaded)]
    BY <1>2 DEF Load, ReadDirectory, FinishLoad, LoadNext, Admit, Register, Diagnose
  <2>2. Usable(loaded)
    BY <2>1, LoadedIsUsable
  <2>. DEFINE s == snapshot[l]
  <2>3. IsSequence(s)
    BY DEF SnapshotsUsable
  <2>4. \A i \in DOMAIN s : Usable(s[i]) /\ s[i].name # loaded.name
    BY <2>1 DEF SnapshotsUsable, Registered
  <2>5. snapshot'[l] = Append(s, loaded) /\ DOMAIN snapshot' = Loads
    BY <2>1 DEF SnapshotsUsable
  <2>6. \A k \in Loads : k # l => snapshot'[k] = snapshot[k]
    BY <2>1 DEF SnapshotsUsable
  <2>7. \A i, j \in DOMAIN s : s[i].name = s[j].name => i = j
    BY DEF SnapshotsUsable
  <2>. DEFINE t == Append(s, loaded)
              n == Len(s)
  <2>8. /\ IsSequence(t)
        /\ n \in Nat /\ DOMAIN s = 1..n
        /\ DOMAIN t = 1..(n + 1)
        /\ \A i \in 1..n : t[i] = s[i]
        /\ t[n + 1] = loaded
    BY <2>3, AppendIsSequence
  <2>. HIDE DEF s, t, n
  <2>9. \A i \in DOMAIN t : Usable(t[i])
    BY <2>2, <2>4, <2>8
  <2>10. \A i, j \in DOMAIN t : t[i].name = t[j].name => i = j
    BY <2>4, <2>7, <2>8
  <2>11. ASSUME NEW k \in Loads
         PROVE  /\ IsSequence(snapshot'[k])
                /\ \A i \in DOMAIN snapshot'[k] : Usable(snapshot'[k][i])
                /\ \A i, j \in DOMAIN snapshot'[k] :
                     snapshot'[k][i].name = snapshot'[k][j].name => i = j
    <3>1. CASE k = l
      BY <3>1, <2>5, <2>8, <2>9, <2>10 DEF t
    <3>2. CASE k # l
      BY <3>2, <2>6 DEF SnapshotsUsable
    <3>. QED
      BY <3>1, <3>2
  <2>. QED
    BY <2>5, <2>11 DEF SnapshotsUsable, IsSequence, Usable
<1>. QED
  BY <1>1, <1>2

(* Every load builds a snapshot of usable Profiles, each with a name of its*)
(* own, and what a binding call is given is such a snapshot.               *)
THEOREM SnapshotsInvariant == BindingSpec => [](SnapshotsUsable /\ GivenLoads)
<1>1. BindingInit => SnapshotsUsable /\ GivenLoads
  BY DEF BindingInit, LoaderInit, SnapshotsUsable, GivenLoads, IsSequence
<1>2. SnapshotsUsable /\ GivenLoads /\ [BindingNext]_bindingVars
        => SnapshotsUsable' /\ GivenLoads'
  <2>. SUFFICES ASSUME SnapshotsUsable, GivenLoads, [BindingNext]_bindingVars
                PROVE  SnapshotsUsable' /\ GivenLoads'
    OBVIOUS
  <2>1. CASE \E l \in Loads : LoadStep(l)
    BY <2>1, LoadKeepsUsable DEF LoadStep, GivenLoads
  <2>2. CASE \E l \in Loads : \E c \in Binders \cup Rebuilders : Hand(c, l)
    <3>1. SnapshotsUsable'
      BY <2>2 DEF Hand, loaderVars, SnapshotsUsable
    <3>2. GivenLoads'
      BY <2>2 DEF Hand, GivenLoads
    <3>. QED
      BY <3>1, <3>2
  <2>3. CASE UNCHANGED <<loaderVars, given>>
    BY <2>3 DEF loaderVars, SnapshotsUsable, GivenLoads
  <2>. QED
    BY <2>1, <2>2, <2>3
       DEF BindingNext, RegisterStep, BindGiven, RebuildGiven, bindingVars
<1>. QED
  BY <1>1, <1>2, PTL DEF BindingSpec

(* A Profile that BindProfile or BindProfiles is given is all that its     *)
(* consumers take for granted: its Provider is declared under the very name*)
(* it keeps, and its limits are at least one.  The name finds it again,    *)
(* because no two Profiles of a snapshot share one.                        *)
THEOREM BoundProfilesAreUsable == BindingSpec => []ProfilesAreUsable
<1>1. SnapshotsUsable /\ GivenLoads => ProfilesAreUsable
  <2>. SUFFICES ASSUME SnapshotsUsable, GivenLoads,
                       NEW c \in Binders \cup Rebuilders, given[c] # None,
                       NEW i \in DOMAIN snapshot[given[c]]
                PROVE  /\ Declared(c, snapshot[given[c]][i].name)
                       /\ snapshot[given[c]][i].maxIterations >= 1
                       /\ snapshot[given[c]][i].historyTurns >= 1
    BY DEF ProfilesAreUsable
  <2>. DEFINE profiles == snapshot[given[c]]
  <2>1. \A j \in DOMAIN profiles : Usable(profiles[j])
    BY DEF SnapshotsUsable, GivenLoads
  <2>. DEFINE found == CHOOSE j \in DOMAIN profiles : profiles[j].name = profiles[i].name
  <2>2. found \in DOMAIN profiles
    OBVIOUS
  <2>3. Declared(c, profiles[i].name)
    BY <2>1, <2>2 DEF Declared, Selected, Usable
  <2>. QED
    BY <2>1, <2>3 DEF Usable
<1>. QED
  BY <1>1, SnapshotsInvariant, PTL

-----------------------------------------------------------------------------
(* The order of the files.                                                  *)

(* The same values at the positions are listed by the same sequence.        *)
LEMMA EnumeratesSame ==
  ASSUME NEW t, NEW v, NEW w, NEW P, \A i \in P : w[i] = v[i], Enumerates(t, v, P)
  PROVE  Enumerates(t, w, P)
<1>1. PICK at \in [DOMAIN t -> P] :
        /\ \A j, k \in DOMAIN t : j < k => at[j] < at[k]
        /\ \A i \in P : \E k \in DOMAIN t : at[k] = i
        /\ \A k \in DOMAIN t : t[k] = v[at[k]]
  BY DEF Enumerates
<1>2. \A k \in DOMAIN t : t[k] = w[at[k]]
  BY <1>1
<1>. QED
  BY <1>1, <1>2 DEF Enumerates

(* One more value, at a position behind the others, is listed at the end.   *)
LEMMA EnumeratesNext ==
  ASSUME NEW n \in Nat, NEW P \in SUBSET (1..n), NEW t, IsSequence(t), NEW v, NEW w,
         \A i \in P : w[i] = v[i], Enumerates(t, v, P)
  PROVE  Enumerates(Append(t, w[n + 1]), w, P \cup {n + 1})
<1>. DEFINE m == Len(t)
            u == Append(t, w[n + 1])
            Q == P \cup {n + 1}
<1>1. PICK at \in [DOMAIN t -> P] :
        /\ \A j, k \in DOMAIN t : j < k => at[j] < at[k]
        /\ \A i \in P : \E k \in DOMAIN t : at[k] = i
        /\ \A k \in DOMAIN t : t[k] = v[at[k]]
  BY DEF Enumerates
<1>2. /\ m \in Nat /\ DOMAIN t = 1..m /\ DOMAIN u = 1..(m + 1)
      /\ \A k \in 1..m : u[k] = t[k]
      /\ u[m + 1] = w[n + 1]
  BY AppendIsSequence
<1>. HIDE DEF m, u
<1>. DEFINE next == [k \in 1..(m + 1) |-> IF k = m + 1 THEN n + 1 ELSE at[k]]
<1>3. ASSUME NEW k \in 1..m
      PROVE  next[k] = at[k] /\ at[k] \in P /\ at[k] \in 1..n
  <2>1. k \in 1..(m + 1) /\ k # m + 1
    BY <1>2
  <2>2. next[k] = at[k]
    BY <2>1
  <2>3. at[k] \in P
    BY <1>1, <1>2
  <2>. QED
    BY <2>2, <2>3
<1>4. next[m + 1] = n + 1
  BY <1>2
<1>5. next \in [1..(m + 1) -> Q]
  <2>1. \A k \in 1..(m + 1) : k \in 1..m \/ k = m + 1
    BY <1>2
  <2>2. \A k \in 1..(m + 1) : next[k] \in Q
    BY <1>3, <1>4, <2>1
  <2>. QED
    BY <2>2
<1>6. DOMAIN next = 1..(m + 1)
  OBVIOUS
<1>. HIDE DEF next
<1>7. ASSUME NEW j \in 1..(m + 1), NEW k \in 1..(m + 1), j < k
      PROVE  next[j] < next[k]
  <2>1. j \in 1..m
    BY <1>2, <1>7
  <2>2. CASE k \in 1..m
    BY <1>1, <1>2, <1>3, <1>7, <2>1, <2>2
  <2>3. CASE k = m + 1
    BY <1>3, <1>4, <2>1, <2>3
  <2>. QED
    BY <1>2, <2>2, <2>3
<1>8. ASSUME NEW i \in Q PROVE \E k \in 1..(m + 1) : next[k] = i
  <2>1. CASE i = n + 1
    BY <1>2, <1>4, <2>1
  <2>2. CASE i \in P
    <3>1. PICK k \in 1..m : at[k] = i
      BY <1>1, <1>2, <2>2
    <3>2. k \in 1..(m + 1) /\ next[k] = i
      BY <1>2, <1>3, <3>1
    <3>. QED
      BY <3>2
  <2>. QED
    BY <2>1, <2>2
<1>9. ASSUME NEW k \in 1..(m + 1) PROVE u[k] = w[next[k]]
  <2>1. CASE k \in 1..m
    <3>1. u[k] = t[k] /\ t[k] = v[at[k]] /\ next[k] = at[k] /\ at[k] \in P
      BY <1>1, <1>2, <1>3, <2>1
    <3>. QED
      BY <3>1
  <2>2. CASE k = m + 1
    BY <1>2, <1>4, <2>2
  <2>. QED
    BY <1>2, <2>1, <2>2
<1>10. Enumerates(u, w, Q)
  <2>1. next \in [DOMAIN u -> Q]
    BY <1>2, <1>5, Zenon
  <2>2. \A j, k \in DOMAIN u : j < k => next[j] < next[k]
    BY <1>2, <1>7, Zenon
  <2>3. \A i \in Q : \E k \in DOMAIN u : next[k] = i
    BY <1>2, <1>8, Zenon
  <2>4. \A k \in DOMAIN u : u[k] = w[next[k]]
    BY <1>2, <1>9, Zenon
  <2>. QED
    BY <2>1, <2>2, <2>3, <2>4, Zenon DEF Enumerates
<1>. QED
  BY <1>10 DEF u

(* What a load has read, as sequences of their own.                         *)
FirstsOf(o) ==
  {i \in DOMAIN o :
     /\ o[i].loaded # Fault
     /\ \A j \in DOMAIN o :
          o[j].loaded # Fault /\ o[j].loaded.name = o[i].loaded.name => o[i].path <= o[j].path}

Declares(o, name) == \E i \in DOMAIN o : o[i].loaded # Fault /\ o[i].loaded.name = name

(* Whether a file is the first of its name is settled when it is read: no   *)
(* file comes before those that were read.                                  *)
LEMMA FirstsGrow ==
  ASSUME NEW o, IsSequence(o), NEW e, e.path \in Nat,
         \A i \in DOMAIN o : o[i].path \in Nat /\ o[i].path < e.path
  PROVE  FirstsOf(Append(o, e)) =
           FirstsOf(o) \cup (IF e.loaded # Fault /\ ~Declares(o, e.loaded.name)
                               THEN {Len(o) + 1} ELSE {})
<1>. DEFINE n == Len(o)
            p == Append(o, e)
<1>1. /\ n \in Nat /\ DOMAIN o = 1..n /\ DOMAIN p = 1..(n + 1)
      /\ \A i \in 1..n : p[i] = o[i]
      /\ p[n + 1] = e
  BY AppendIsSequence
<1>. HIDE DEF n, p
<1>2. ASSUME NEW i \in 1..n
      PROVE  i \in FirstsOf(p) <=> i \in FirstsOf(o)
  <2>1. i \in 1..(n + 1) /\ p[i] = o[i] /\ \A j \in 1..n : p[j] = o[j] /\ j \in 1..(n + 1)
    BY <1>1
  <2>2. o[i].path <= e.path
    BY <1>1
  <2>3. ASSUME i \in FirstsOf(o), NEW j \in 1..(n + 1),
               p[j].loaded # Fault, p[j].loaded.name = p[i].loaded.name
        PROVE  p[i].path <= p[j].path
    <3>1. CASE j \in 1..n
      BY <1>1, <2>1, <2>3, <3>1 DEF FirstsOf
    <3>2. CASE j = n + 1
      BY <1>1, <2>1, <2>2, <3>2
    <3>. QED
      BY <1>1, <3>1, <3>2
  <2>4. i \in FirstsOf(o) => i \in FirstsOf(p)
    BY <1>1, <2>1, <2>3 DEF FirstsOf
  <2>5. i \in FirstsOf(p) => i \in FirstsOf(o)
    BY <1>1, <2>1 DEF FirstsOf
  <2>. QED
    BY <2>4, <2>5
<1>3. n + 1 \in FirstsOf(p) <=> e.loaded # Fault /\ ~Declares(o, e.loaded.name)
  <2>1. n + 1 \in 1..(n + 1) /\ \A j \in 1..n : p[j] = o[j] /\ j \in 1..(n + 1)
    BY <1>1
  <2>2. ASSUME n + 1 \in FirstsOf(p)
        PROVE  e.loaded # Fault /\ ~Declares(o, e.loaded.name)
    <3>1. e.loaded # Fault
      BY <1>1, <2>2 DEF FirstsOf
    <3>2. ASSUME NEW j \in 1..n, o[j].loaded # Fault, o[j].loaded.name = e.loaded.name
          PROVE  FALSE
      <4>1. e.path <= o[j].path
        BY <1>1, <2>1, <2>2, <3>2 DEF FirstsOf
      <4>. QED
        BY <1>1, <4>1
    <3>. QED
      BY <1>1, <3>1, <3>2 DEF Declares
  <2>3. ASSUME e.loaded # Fault, ~Declares(o, e.loaded.name)
        PROVE  n + 1 \in FirstsOf(p)
    <3>1. ASSUME NEW j \in 1..(n + 1), p[j].loaded # Fault, p[j].loaded.name = e.loaded.name
          PROVE  e.path <= p[j].path
      <4>1. CASE j \in 1..n
        BY <1>1, <2>3, <3>1, <4>1 DEF Declares
      <4>2. CASE j = n + 1
        BY <1>1, <4>2
      <4>. QED
        BY <1>1, <4>1, <4>2
    <3>. QED
      BY <1>1, <2>1, <2>3, <3>1 DEF FirstsOf
  <2>. QED
    BY <2>2, <2>3
<1>4. FirstsOf(p) \subseteq 1..(n + 1) /\ FirstsOf(o) \subseteq 1..n
  BY <1>1 DEF FirstsOf
<1>5. 1..(n + 1) = 1..n \cup {n + 1} /\ n + 1 \notin 1..n
  BY <1>1
<1>6. FirstsOf(p) = FirstsOf(o) \cup (IF e.loaded # Fault /\ ~Declares(o, e.loaded.name)
                                       THEN {n + 1} ELSE {})
  BY <1>2, <1>3, <1>4, <1>5
<1>. QED
  BY <1>6 DEF n, p

-----------------------------------------------------------------------------
(* The invariant of a load: it reads in the order of the paths, ...         *)
ReadsInOrder(l) ==
  /\ IsSequence(outcome[l]) /\ IsSequence(snapshot[l]) /\ IsSequence(diagnostics[l])
  /\ pending[l] \in Seq(Nat)
  /\ stage[l] = "called" => outcome[l] = <<>>
  /\ \A i \in DOMAIN outcome[l] :
       /\ outcome[l][i].path \in Nat
       /\ \A k \in DOMAIN pending[l] : outcome[l][i].path < pending[l][k]
  /\ \A j, k \in DOMAIN pending[l] : j < k => pending[l][j] < pending[l][k]

Loadeds(o) == [i \in DOMAIN o |-> o[i].loaded]
Paths(o) == [i \in DOMAIN o |-> o[i].path]

(* ... and keeps of what it has read the first valid file of every name.    *)
KeepsFirsts(l) ==
  /\ Enumerates(snapshot[l], Loadeds(outcome[l]), FirstsOf(outcome[l]))
  /\ Enumerates(diagnostics[l], Paths(outcome[l]), DOMAIN outcome[l] \ FirstsOf(outcome[l]))
  /\ \A i \in DOMAIN outcome[l] :
       outcome[l][i].loaded # Fault => Registered(l, outcome[l][i].loaded.name)

LoadersInv ==
  /\ DOMAIN stage = Loads /\ DOMAIN pending = Loads /\ DOMAIN outcome = Loads
  /\ DOMAIN snapshot = Loads /\ DOMAIN diagnostics = Loads
  /\ \A l \in Loads : ReadsInOrder(l) /\ KeepsFirsts(l)

LEMMA InitLoadersInv == LoaderInit => LoadersInv
<1>. SUFFICES ASSUME LoaderInit, NEW l \in Loads
              PROVE  ReadsInOrder(l) /\ KeepsFirsts(l)
  BY DEF LoaderInit, LoadersInv
<1>1. /\ stage[l] = "called" /\ pending[l] = <<>> /\ outcome[l] = <<>>
      /\ snapshot[l] = <<>> /\ diagnostics[l] = <<>>
  BY DEF LoaderInit
<1>2. DOMAIN outcome[l] = {} /\ DOMAIN pending[l] = {} /\ DOMAIN snapshot[l] = {}
      /\ DOMAIN diagnostics[l] = {}
  BY <1>1
<1>3. ReadsInOrder(l)
  BY <1>1, <1>2 DEF ReadsInOrder, IsSequence
<1>4. FirstsOf(outcome[l]) = {}
  BY <1>2 DEF FirstsOf
<1>5. \A t, v : DOMAIN t = {} => Enumerates(t, v, {})
  <2>. TAKE t, v
  <2>. SUFFICES ASSUME DOMAIN t = {} PROVE Enumerates(t, v, {})
    OBVIOUS
  <2>. DEFINE at == [k \in DOMAIN t |-> k]
  <2>1. at \in [DOMAIN t -> {}]
    OBVIOUS
  <2>. QED
    BY <2>1 DEF Enumerates
<1>6. DOMAIN outcome[l] \ FirstsOf(outcome[l]) = {}
  BY <1>2
<1>. QED
  BY <1>2, <1>3, <1>4, <1>5, <1>6, Zenon DEF KeepsFirsts

(* A name is registered when some file that was read declares it.           *)
LEMMA RegisteredIsDeclared ==
  ASSUME NEW l \in Loads, KeepsFirsts(l), NEW name
  PROVE  Registered(l, name) <=> Declares(outcome[l], name)
<1>1. ASSUME Registered(l, name) PROVE Declares(outcome[l], name)
  <2>1. PICK k \in DOMAIN snapshot[l] : snapshot[l][k].name = name
    BY <1>1 DEF Registered
  <2>2. PICK at \in [DOMAIN snapshot[l] -> FirstsOf(outcome[l])] :
          \A j \in DOMAIN snapshot[l] : snapshot[l][j] = Loadeds(outcome[l])[at[j]]
    BY DEF KeepsFirsts, Enumerates
  <2>3. at[k] \in FirstsOf(outcome[l])
    BY <2>1, <2>2
  <2>4. at[k] \in DOMAIN outcome[l] /\ outcome[l][at[k]].loaded # Fault
    BY <2>3 DEF FirstsOf
  <2>5. outcome[l][at[k]].loaded = snapshot[l][k]
    BY <2>1, <2>2, <2>4 DEF Loadeds
  <2>. QED
    BY <2>1, <2>4, <2>5 DEF Declares
<1>2. ASSUME Declares(outcome[l], name) PROVE Registered(l, name)
  BY <1>2 DEF Declares, KeepsFirsts
<1>. QED
  BY <1>1, <1>2

(* The next file is read behind all the others.                             *)
LEMMA NextInOrder ==
  ASSUME NEW l \in Loads, LoadersInv, LoadNext(l)
  PROVE  /\ pending[l] # <<>>
         /\ \E e : /\ e.path = Head(pending[l])
                   /\ outcome'[l] = Append(outcome[l], e)
                   /\ Admit(l, e.path, e.loaded)
         /\ pending'[l] = Tail(pending[l]) /\ stage'[l] = "loading"
<1>1. PICK loaded :
        /\ outcome' = [outcome EXCEPT ![l] =
             Append(@, [path |-> Head(pending[l]), loaded |-> loaded])]
        /\ Admit(l, Head(pending[l]), loaded)
  BY DEF LoadNext
<1>. DEFINE e == [path |-> Head(pending[l]), loaded |-> loaded]
<1>2. e.path = Head(pending[l]) /\ e.loaded = loaded
  OBVIOUS
<1>3. outcome'[l] = Append(outcome[l], e)
  BY <1>1 DEF LoadersInv
<1>4. pending[l] # <<>> /\ pending'[l] = Tail(pending[l]) /\ stage'[l] = "loading"
  BY DEF LoadNext, LoadersInv
<1>5. Admit(l, e.path, e.loaded)
  BY <1>1, <1>2
<1>. HIDE DEF e
<1>. QED
  BY <1>2, <1>3, <1>4, <1>5

LEMMA LoadNextKeeps ==
  ASSUME NEW l \in Loads, LoadersInv, LoadNext(l)
  PROVE  ReadsInOrder(l)' /\ KeepsFirsts(l)'
<1>1. PICK e : /\ e.path = Head(pending[l])
               /\ outcome'[l] = Append(outcome[l], e)
               /\ Admit(l, e.path, e.loaded)
  BY NextInOrder
<1>2. pending[l] # <<>> /\ pending'[l] = Tail(pending[l]) /\ stage'[l] = "loading"
  BY NextInOrder
<1>. /\ ReadsInOrder(l) /\ KeepsFirsts(l)
     /\ l \in DOMAIN snapshot /\ l \in DOMAIN diagnostics
  BY DEF LoadersInv
<1>. DEFINE o == outcome[l]
            n == Len(o)
            p == Append(o, e)
            q == pending[l]
            first == e.loaded # Fault /\ ~Declares(o, e.loaded.name)
<1>3. /\ IsSequence(o) /\ IsSequence(snapshot[l]) /\ IsSequence(diagnostics[l])
      /\ q \in Seq(Nat) /\ q # <<>>
      /\ \A i \in DOMAIN o : o[i].path \in Nat /\ \A k \in DOMAIN q : o[i].path < q[k]
      /\ \A j, k \in DOMAIN q : j < k => q[j] < q[k]
  BY <1>2 DEF ReadsInOrder
<1>4. /\ IsSequence(p)
      /\ n \in Nat /\ DOMAIN o = 1..n /\ DOMAIN p = 1..(n + 1)
      /\ \A i \in 1..n : p[i] = o[i]
      /\ p[n + 1] = e
  BY <1>3, AppendIsSequence
<1>5. /\ 1 \in DOMAIN q /\ e.path = q[1] /\ e.path \in Nat
      /\ Tail(q) \in Seq(Nat)
      /\ \A k \in DOMAIN Tail(q) : k + 1 \in DOMAIN q /\ Tail(q)[k] = q[k + 1] /\ 1 < k + 1
  <2>. HIDE DEF q
  <2>1. Len(q) \in Nat /\ DOMAIN q = 1..Len(q) /\ Len(q) >= 1
    BY <1>3
  <2>2. e.path = q[1]
    BY <1>1, <1>3 DEF q
  <2>3. Tail(q) \in Seq(Nat) /\ DOMAIN Tail(q) = 1..(Len(q) - 1)
    BY <1>3, <2>1
  <2>4. \A k \in 1..(Len(q) - 1) : k + 1 \in 1..Len(q) /\ Tail(q)[k] = q[k + 1] /\ 1 < k + 1
    BY <1>3, <2>1
  <2>. QED
    BY <1>3, <2>1, <2>2, <2>3, <2>4
<1>6. \A i \in DOMAIN o : o[i].path \in Nat /\ o[i].path < e.path
  BY <1>3, <1>5
<1>7. FirstsOf(p) = FirstsOf(o) \cup (IF first THEN {n + 1} ELSE {})
  BY <1>3, <1>5, <1>6, FirstsGrow
<1>8. first <=> e.loaded # Fault /\ ~Registered(l, e.loaded.name)
  BY RegisteredIsDeclared
<1>9. FirstsOf(o) \subseteq 1..n
  BY <1>4 DEF FirstsOf
<1>10. /\ Enumerates(snapshot[l], Loadeds(o), FirstsOf(o))
       /\ Enumerates(diagnostics[l], Paths(o), DOMAIN o \ FirstsOf(o))
  BY DEF KeepsFirsts
<1>. HIDE DEF o, n, p, q, first
<1>11. \A i \in 1..n : Loadeds(p)[i] = Loadeds(o)[i] /\ Paths(p)[i] = Paths(o)[i]
  BY <1>4 DEF Loadeds, Paths
<1>12. Loadeds(p)[n + 1] = e.loaded /\ Paths(p)[n + 1] = e.path
  BY <1>4 DEF Loadeds, Paths
<1>13. n + 1 \notin 1..n /\ 1..(n + 1) = 1..n \cup {n + 1}
  BY <1>4
<1>14. /\ IsSequence(snapshot'[l]) /\ IsSequence(diagnostics'[l])
       /\ Enumerates(snapshot'[l], Loadeds(p), FirstsOf(p))
       /\ Enumerates(diagnostics'[l], Paths(p), DOMAIN p \ FirstsOf(p))
  <2>1. CASE first
    <3>1. snapshot' = [snapshot EXCEPT ![l] = Append(@, e.loaded)] /\ diagnostics' = diagnostics
      BY <1>1, <1>8, <2>1 DEF Admit, Register
    <3>2. snapshot'[l] = Append(snapshot[l], e.loaded)
      BY <3>1
    <3>3. IsSequence(snapshot'[l])
      BY <1>3, <3>2, AppendIsSequence
    <3>4. Enumerates(Append(snapshot[l], Loadeds(p)[n + 1]), Loadeds(p), FirstsOf(o) \cup {n + 1})
      BY <1>3, <1>4, <1>9, <1>10, <1>11, EnumeratesNext
    <3>5. FirstsOf(p) = FirstsOf(o) \cup {n + 1}
      BY <1>7, <2>1
    <3>6. Enumerates(snapshot'[l], Loadeds(p), FirstsOf(p))
      BY <1>12, <3>2, <3>4, <3>5
    <3>7. DOMAIN p \ FirstsOf(p) = DOMAIN o \ FirstsOf(o)
      BY <1>4, <1>13, <3>5
    <3>8. \A i \in DOMAIN o \ FirstsOf(o) : Paths(p)[i] = Paths(o)[i]
      BY <1>4, <1>11
    <3>9. Enumerates(diagnostics[l], Paths(p), DOMAIN o \ FirstsOf(o))
      BY <1>10, <3>8, EnumeratesSame
    <3>. QED
      BY <1>3, <3>1, <3>3, <3>6, <3>7, <3>9
  <2>2. CASE ~first
    <3>1. snapshot' = snapshot /\ diagnostics' = [diagnostics EXCEPT ![l] = Append(@, e.path)]
      BY <1>1, <1>8, <2>2 DEF Admit, Diagnose
    <3>2. diagnostics'[l] = Append(diagnostics[l], e.path)
      BY <3>1
    <3>3. IsSequence(diagnostics'[l])
      BY <1>3, <3>2, AppendIsSequence
    <3>4. FirstsOf(p) = FirstsOf(o)
      BY <1>7, <2>2
    <3>5. \A i \in FirstsOf(o) : Loadeds(p)[i] = Loadeds(o)[i]
      BY <1>9, <1>11
    <3>6. Enumerates(snapshot[l], Loadeds(p), FirstsOf(p))
      BY <1>10, <3>4, <3>5, EnumeratesSame
    <3>. DEFINE others == DOMAIN o \ FirstsOf(o)
    <3>7. others \in SUBSET (1..n) /\ \A i \in others : Paths(p)[i] = Paths(o)[i]
      BY <1>4, <1>11
    <3>8. Enumerates(diagnostics[l], Paths(o), others)
      BY <1>10
    <3>9. DOMAIN p \ FirstsOf(p) = others \cup {n + 1}
      BY <1>4, <1>9, <1>13, <3>4
    <3>. HIDE DEF others
    <3>10. Enumerates(Append(diagnostics[l], Paths(p)[n + 1]), Paths(p), others \cup {n + 1})
      BY <1>3, <1>4, <3>7, <3>8, EnumeratesNext
    <3>11. Enumerates(diagnostics'[l], Paths(p), DOMAIN p \ FirstsOf(p))
      BY <1>12, <3>2, <3>9, <3>10
    <3>. QED
      BY <1>3, <3>1, <3>3, <3>6, <3>11
  <2>. QED
    BY <2>1, <2>2
<1>. DEFINE Held(name) == \E k \in DOMAIN snapshot'[l] : snapshot'[l][k].name = name
<1>15. \A name : Declares(o, name) => Held(name)
  <2>. SUFFICES ASSUME NEW name, Declares(o, name) PROVE Held(name)
    OBVIOUS
  <2>1. PICK k \in DOMAIN snapshot[l] : snapshot[l][k].name = name
    BY RegisteredIsDeclared DEF Registered, o
  <2>2. snapshot'[l] = snapshot[l] \/ snapshot'[l] = Append(snapshot[l], e.loaded)
    BY <1>1 DEF Admit, Register, Diagnose
  <2>3. k \in DOMAIN snapshot'[l] /\ snapshot'[l][k] = snapshot[l][k]
    <3>1. CASE snapshot'[l] = snapshot[l]
      BY <3>1
    <3>2. CASE snapshot'[l] = Append(snapshot[l], e.loaded)
      BY <1>3, <2>1, <3>2, AppendIsSequence
    <3>. QED
      BY <2>2, <3>1, <3>2
  <2>. QED
    BY <2>1, <2>3
<1>16. e.loaded # Fault => Held(e.loaded.name)
  <2>1. CASE Declares(o, e.loaded.name)
    BY <1>15, <2>1
  <2>2. CASE e.loaded # Fault /\ ~Declares(o, e.loaded.name)
    <3>1. snapshot'[l] = Append(snapshot[l], e.loaded)
      BY <1>1, <1>8, <2>2 DEF Admit, Register, first
    <3>2. /\ Len(snapshot[l]) + 1 \in DOMAIN snapshot'[l]
          /\ snapshot'[l][Len(snapshot[l]) + 1] = e.loaded
      BY <1>3, <3>1, AppendIsSequence
    <3>. QED
      BY <3>2
  <2>. QED
    BY <2>1, <2>2
<1>. HIDE DEF Held
<1>17. outcome'[l] = p
  BY <1>1 DEF o, p
<1>18. ASSUME NEW i \in DOMAIN p, p[i].loaded # Fault
       PROVE  Held(p[i].loaded.name)
  <2>1. CASE i \in 1..n
    <3>1. Declares(o, p[i].loaded.name)
      BY <1>4, <1>18, <2>1 DEF Declares
    <3>. QED
      BY <1>15, <3>1
  <2>2. CASE i = n + 1
    BY <1>4, <1>16, <1>18, <2>2
  <2>. QED
    BY <1>4, <1>13, <2>1, <2>2
<1>19. KeepsFirsts(l)'
  BY <1>14, <1>17, <1>18 DEF KeepsFirsts, Held, Registered
<1>20. ReadsInOrder(l)'
  <2>. DEFINE t == Tail(q)
  <2>1. pending'[l] = t
    BY <1>2 DEF q
  <2>2. ASSUME NEW i \in 1..(n + 1), NEW k \in DOMAIN t
        PROVE  p[i].path \in Nat /\ p[i].path < t[k]
    <3>1. k + 1 \in DOMAIN q /\ t[k] = q[k + 1] /\ 1 < k + 1
      BY <1>5
    <3>2. CASE i \in 1..n
      BY <1>3, <1>4, <3>1, <3>2
    <3>3. CASE i = n + 1
      BY <1>3, <1>4, <1>5, <3>1, <3>3
    <3>. QED
      BY <1>13, <3>2, <3>3
  <2>3. \A i \in 1..(n + 1) : p[i].path \in Nat
    BY <1>3, <1>4, <1>5, <1>13
  <2>4. ASSUME NEW j \in DOMAIN t, NEW k \in DOMAIN t, j < k
        PROVE  t[j] < t[k]
    <3>1. DOMAIN t \subseteq Int
      BY <1>5
    <3>2. j + 1 < k + 1
      BY <2>4, <3>1
    <3>. QED
      BY <1>3, <1>5, <3>2
  <2>5. t \in Seq(Nat)
    BY <1>5
  <2>. HIDE DEF t
  <2>. QED
    BY <1>2, <1>4, <1>14, <1>17, <2>1, <2>2, <2>3, <2>4, <2>5 DEF ReadsInOrder
<1>. QED
  BY <1>19, <1>20

(* What is done to one load leaves the others alone.                        *)
LEMMA SameLoad ==
  ASSUME NEW l \in Loads, ReadsInOrder(l), KeepsFirsts(l),
         outcome'[l] = outcome[l], snapshot'[l] = snapshot[l],
         diagnostics'[l] = diagnostics[l], pending'[l] = pending[l],
         stage'[l] = stage[l] \/ stage'[l] # "called"
  PROVE  ReadsInOrder(l)' /\ KeepsFirsts(l)'
<1>1. ReadsInOrder(l)'
  BY DEF ReadsInOrder, IsSequence
<1>2. KeepsFirsts(l)'
  BY Zenon DEF KeepsFirsts, Registered
<1>. QED
  BY <1>1, <1>2

LEMMA LoadKeepsLoaders ==
  ASSUME NEW l \in Loads, LoadersInv, Load(l)
  PROVE  LoadersInv'
<1>1. /\ DOMAIN stage' = Loads /\ DOMAIN pending' = Loads /\ DOMAIN outcome' = Loads
      /\ DOMAIN snapshot' = Loads /\ DOMAIN diagnostics' = Loads
  <2>1. /\ stage' = stage \/ \E where : stage' = [stage EXCEPT ![l] = where]
        /\ pending' = pending \/ \E s : pending' = [pending EXCEPT ![l] = s]
        /\ outcome' = outcome \/ \E s : outcome' = [outcome EXCEPT ![l] = s]
        /\ snapshot' = snapshot \/ \E s : snapshot' = [snapshot EXCEPT ![l] = s]
        /\ diagnostics' = diagnostics \/ \E s : diagnostics' = [diagnostics EXCEPT ![l] = s]
    BY DEF Load, ReadDirectory, LoadNext, FinishLoad, Enter, Admit, Register, Diagnose
  <2>. QED
    BY <2>1 DEF LoadersInv
<1>2. ASSUME NEW k \in Loads, k # l
      PROVE  ReadsInOrder(k)' /\ KeepsFirsts(k)'
  <2>1. /\ outcome'[k] = outcome[k] /\ snapshot'[k] = snapshot[k]
        /\ diagnostics'[k] = diagnostics[k] /\ pending'[k] = pending[k]
        /\ stage'[k] = stage[k]
    BY <1>2 DEF LoadersInv, Load, ReadDirectory, LoadNext, FinishLoad, Enter, Admit, Register,
                Diagnose
  <2>. QED
    BY <2>1, SameLoad DEF LoadersInv
<1>3. ReadsInOrder(l)' /\ KeepsFirsts(l)'
  <2>1. CASE LoadNext(l)
    BY <2>1, LoadNextKeeps
  <2>2. CASE FinishLoad(l) \/ (ReadDirectory(l) /\ pending' = pending)
    <3>1. /\ outcome'[l] = outcome[l] /\ snapshot'[l] = snapshot[l]
          /\ diagnostics'[l] = diagnostics[l] /\ pending'[l] = pending[l]
      BY <2>2 DEF FinishLoad, ReadDirectory
    <3>2. stage'[l] # "called"
      BY <2>2 DEF FinishLoad, ReadDirectory, Enter, LoadersInv
    <3>. QED
      BY <3>1, <3>2, SameLoad DEF LoadersInv
  <2>3. CASE ReadDirectory(l) /\ pending' # pending
    <3>1. PICK paths \in Listings : pending' = [pending EXCEPT ![l] = paths]
      BY <2>3 DEF ReadDirectory
    <3>2. pending'[l] = paths /\ outcome' = outcome /\ snapshot' = snapshot
          /\ diagnostics' = diagnostics
      BY <2>3, <3>1 DEF ReadDirectory, LoadersInv
    <3>3. paths \in Seq(Nat) /\ \A i, j \in DOMAIN paths : i < j => paths[i] < paths[j]
      <4>1. PICK n \in 0..Cardinality(YAMLPaths) : paths \in [1..n -> YAMLPaths]
        BY DEF Listings
      <4>2. n \in Nat
        BY <4>1
      <4>3. paths \in [1..n -> Nat]
        BY <4>1, YAMLPathsAssumption
      <4>4. paths \in Seq(Nat)
        BY <4>2, <4>3
      <4>. QED
        BY <4>4 DEF Listings
    <3>4. outcome[l] = <<>> /\ DOMAIN outcome[l] = {}
      BY <2>3 DEF ReadDirectory, LoadersInv, ReadsInOrder
    <3>5. ReadsInOrder(l) /\ KeepsFirsts(l)
      BY DEF LoadersInv
    <3>6. ReadsInOrder(l)'
      BY <3>2, <3>3, <3>4, <3>5 DEF ReadsInOrder, IsSequence
    <3>7. KeepsFirsts(l)'
      BY <3>2, <3>5, Zenon DEF KeepsFirsts, Registered
    <3>. QED
      BY <3>6, <3>7
  <2>. QED
    BY <2>1, <2>2, <2>3 DEF Load
<1>. QED
  BY <1>1, <1>2, <1>3 DEF LoadersInv

(* Every load reads in the order of the paths, and keeps of what it has     *)
(* read so far the first valid file of every name.                          *)
THEOREM LoadersInvariant == BindingSpec => []LoadersInv
<1>1. BindingInit => LoadersInv
  BY InitLoadersInv DEF BindingInit
<1>2. LoadersInv /\ [BindingNext]_bindingVars => LoadersInv'
  <2>. SUFFICES ASSUME LoadersInv, [BindingNext]_bindingVars PROVE LoadersInv'
    OBVIOUS
  <2>1. CASE \E l \in Loads : LoadStep(l)
    BY <2>1, LoadKeepsLoaders DEF LoadStep
  <2>2. CASE UNCHANGED loaderVars
    <3>1. /\ outcome' = outcome /\ snapshot' = snapshot /\ diagnostics' = diagnostics
          /\ pending' = pending /\ stage' = stage
      BY <2>2 DEF loaderVars
    <3>2. \A l \in Loads : ReadsInOrder(l)' /\ KeepsFirsts(l)'
      BY <3>1, SameLoad DEF LoadersInv
    <3>. QED
      BY <3>1, <3>2 DEF LoadersInv
  <2>. QED
    BY <2>1, <2>2 DEF BindingNext, Hand, RegisterStep, BindGiven, RebuildGiven, bindingVars
<1>. QED
  BY <1>1, <1>2, PTL DEF BindingSpec

(* A snapshot holds, of every name that some file declared validly, the     *)
(* Profile of the first such file in the order of the paths, and every      *)
(* other listed file has its one diagnostic, whatever goes wrong in the     *)
(* other files and however the loads interleave with bindings.              *)
THEOREM FirstValidWins == BindingSpec => []FirstValidProfileWins
<1>1. LoadersInv => FirstValidProfileWins
  <2>. SUFFICES ASSUME LoadersInv, NEW l \in Loads
                PROVE  LET all == DOMAIN outcome[l] IN
                         /\ Enumerates(snapshot[l], [i \in all |-> outcome[l][i].loaded], Firsts(l))
                         /\ Enumerates(diagnostics[l], [i \in all |-> outcome[l][i].path],
                                       all \ Firsts(l))
    BY DEF FirstValidProfileWins
  <2>1. Firsts(l) = FirstsOf(outcome[l])
    BY DEF Firsts, FirstsOf
  <2>2. KeepsFirsts(l)
    BY DEF LoadersInv
  <2>. QED
    BY <2>1, <2>2, Zenon DEF KeepsFirsts, Loadeds, Paths
<1>. QED
  BY <1>1, LoadersInvariant, PTL
=============================================================================
