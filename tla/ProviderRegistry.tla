--------------------------- MODULE ProviderRegistry ---------------------------
(***************************************************************************)
(* The Registry of Provider factories and of the model of each Profile,    *)
(* used by several goroutines: RegisterFactory, BindProfile and            *)
(* BindProfiles.  The registry's lock is not held while a factory builds a *)
(* model, so the registry may change between what a binding read and what  *)
(* it writes.  Model, the one reader, sees `models` as it is.  Factories   *)
(* (constructors of connectors) are outside the repository.                *)
(***************************************************************************)
EXTENDS Naturals

CONSTANTS
  Profiles,    \* Profile names
  Providers,   \* Provider names
  ProviderOf,  \* the Provider each Profile selects
  Registrars,  \* calls of RegisterFactory
  Binders,     \* calls of BindProfile
  Rebuilders,  \* calls of BindProfiles
  Subject,     \* the Provider of a registrar, the Profile of a binder and the
               \* Profiles of a rebuilder
  None

Callers == Registrars \cup Binders \cup Rebuilders

ASSUME ProviderOfAssumption == ProviderOf \in [Profiles -> Providers]
ASSUME CallersAssumption ==
  /\ Registrars \cap Binders = {} /\ Registrars \cap Rebuilders = {}
  /\ Binders \cap Rebuilders = {} /\ None \notin Callers
ASSUME SubjectAssumption ==
  /\ \A r \in Registrars : Subject[r] \in Providers
  /\ \A b \in Binders : Subject[b] \in Profiles
  /\ \A u \in Rebuilders : Subject[u] \subseteq Profiles

VARIABLES
  pc,         \* where each call is
  factories,  \* the registrar whose factory each Provider has, or None
  models,     \* the model bound to each Profile, or None
  seen,       \* the factories a call has read
  rebuilt     \* the models a rebuild has made so far, by Profile

vars == <<pc, factories, models, seen, rebuilt>>

(* A model is known by the call that had it made and by the factory.       *)
Model == [by : Callers, factory : Registrars]

ASSUME NoneAssumption == None \notin Model

NoModels == [f \in Profiles |-> None]

TypeOK ==
  /\ pc \in [Callers -> {"called", "construct", "store", "done", "failed"}]
  /\ factories \in [Providers -> Registrars \cup {None}]
  /\ models \in [Profiles -> Model \cup {None}]
  /\ seen \in [Callers -> [Providers -> Registrars \cup {None}]]
  /\ rebuilt \in [Callers -> [Profiles -> Model \cup {None}]]

Init ==
  /\ pc = [c \in Callers |-> "called"]
  /\ factories = [v \in Providers |-> None]
  /\ models = NoModels
  /\ seen = [c \in Callers |-> [v \in Providers |-> None]]
  /\ rebuilt = [c \in Callers |-> NoModels]

-----------------------------------------------------------------------------
At(c, stage) == pc[c] = stage
Goto(c, stage) == pc' = [pc EXCEPT ![c] = stage]

(* Missing or mismatching arguments.                                       *)
Refuse(c) ==
  /\ At(c, "called")
  /\ Goto(c, "failed")
  /\ UNCHANGED <<factories, models, seen, rebuilt>>

(* RegisterFactory, all of it under the lock.                              *)
RegisterFactory(r) ==
  /\ At(r, "called")
  /\ \/ /\ factories[Subject[r]] = None
        /\ factories' = [factories EXCEPT ![Subject[r]] = r]
        /\ Goto(r, "done")
     \/ /\ factories[Subject[r]] # None
        /\ Goto(r, "failed")
        /\ UNCHANGED factories
  /\ UNCHANGED <<models, seen, rebuilt>>

-----------------------------------------------------------------------------
(* BindProfile.                                                            *)

(* One look under the read lock, at the model and at the factory.          *)
LookUp(b) ==
  /\ At(b, "called")
  /\ seen' = [seen EXCEPT ![b] = factories]
  /\ LET found == models[Subject[b]] = None /\ factories[ProviderOf[Subject[b]]] # None
     IN  \/ found /\ Goto(b, "construct")
         \/ ~found /\ Goto(b, "failed")
  /\ UNCHANGED <<factories, models, rebuilt>>

MadeBy(c, f) == [by |-> c, factory |-> seen[c][ProviderOf[f]]]

(* A factory call that fails, or returns no model.                         *)
ConstructFails(b) ==
  /\ At(b, "construct")
  /\ Goto(b, "failed")
  /\ UNCHANGED <<factories, models, seen, rebuilt>>

ConstructOne(b) ==
  /\ At(b, "construct")
  /\ Goto(b, "store")
  /\ UNCHANGED <<factories, models, seen, rebuilt>>

(* Mutant: the Profile is not looked at again.                             *)
StoreUnchecked(b) ==
  /\ At(b, "store")
  /\ models' = [models EXCEPT ![Subject[b]] = MadeBy(b, Subject[b])]
  /\ Goto(b, "done")
  /\ UNCHANGED <<factories, seen, rebuilt>>

(* Under the lock again: somebody may have bound the Profile meanwhile.    *)
Store(b) ==
  /\ At(b, "store")
  /\ \/ /\ models[Subject[b]] = None
        /\ models' = [models EXCEPT ![Subject[b]] = MadeBy(b, Subject[b])]
        /\ Goto(b, "done")
     \/ /\ models[Subject[b]] # None
        /\ Goto(b, "failed")
        /\ UNCHANGED models
  /\ UNCHANGED <<factories, seen, rebuilt>>

-----------------------------------------------------------------------------
(* BindProfiles.                                                           *)

CopyFactories(u) ==
  /\ At(u, "called")
  /\ seen' = [seen EXCEPT ![u] = factories]
  /\ Goto(u, "construct")
  /\ UNCHANGED <<factories, models, rebuilt>>

Missing(u) == {f \in Subject[u] : rebuilt[u][f] = None}

(* One factory call per Profile.  (Profiles come in the registry's order;  *)
(* here in any.)                                                           *)
ConstructNext(u) ==
  /\ At(u, "construct")
  /\ \E f \in Missing(u) :
       /\ seen[u][ProviderOf[f]] # None
       /\ rebuilt' = [rebuilt EXCEPT ![u][f] = MadeBy(u, f)]
  /\ UNCHANGED <<pc, factories, models, seen>>

(* A Provider that is not declared or has no factory, or a factory that    *)
(* fails or returns no model, ends the rebuild.                            *)
RebuildFails(u) ==
  /\ At(u, "construct")
  /\ Missing(u) # {}
  /\ Goto(u, "failed")
  /\ UNCHANGED <<factories, models, seen, rebuilt>>

(* Mutant: the models that were made are added to those that are there.    *)
PublishMerged(u) ==
  /\ At(u, "construct")
  /\ Missing(u) = {}
  /\ models' = [f \in Profiles |-> IF models[f] = None THEN rebuilt[u][f] ELSE models[f]]
  /\ Goto(u, "done")
  /\ UNCHANGED <<factories, seen, rebuilt>>

(* The whole snapshot is replaced, whatever it holds by now.               *)
Publish(u) ==
  /\ At(u, "construct")
  /\ Missing(u) = {}
  /\ models' = rebuilt[u]
  /\ Goto(u, "done")
  /\ UNCHANGED <<factories, seen, rebuilt>>

-----------------------------------------------------------------------------
Bind(b) == Refuse(b) \/ LookUp(b) \/ ConstructOne(b) \/ ConstructFails(b) \/ Store(b)

Rebuild(u) ==
  \/ Refuse(u) \/ CopyFactories(u) \/ ConstructNext(u) \/ RebuildFails(u) \/ Publish(u)

Next ==
  \/ \E r \in Registrars : Refuse(r) \/ RegisterFactory(r)
  \/ \E b \in Binders : Bind(b)
  \/ \E u \in Rebuilders : Rebuild(u)

Spec == Init /\ [][Next]_vars

-----------------------------------------------------------------------------
(* Properties.                                                             *)

(* What readers see is one rebuild or none, never a part of one or a       *)
(* mixture of two: if any model comes from a rebuild, all its Profiles have*)
(* the models of that rebuild.  (The single assignment of BindProfiles;    *)
(* "atomically rebuilds the complete model snapshot".)                     *)
SnapshotIsWhole ==
  \A u \in Rebuilders : \A f \in Profiles :
    (models[f] # None /\ models[f].by = u) =>
      \A g \in Subject[u] : models[g] = rebuilt[u][g] /\ models[g] # None

(* Only a rebuild that succeeds replaces or removes a model.  (The second  *)
(* look in BindProfile; "a failed rebuild leaves the previous snapshot     *)
(* untouched".)                                                            *)
BoundUntilRebuild ==
  [][\A f \in Profiles : models[f] # None /\ models'[f] # models[f] =>
       \E u \in Rebuilders : At(u, "construct") /\ pc'[u] = "done"]_vars

(* Every model in the registry was made by the factory its Provider has,   *)
(* however long ago the call that made it looked the factory up.           *)
(* (RegisterFactory never overwrites.)                                     *)
ModelsUseTheirFactory ==
  \A f \in Profiles : models[f] # None => models[f].factory = factories[ProviderOf[f]]
=============================================================================
