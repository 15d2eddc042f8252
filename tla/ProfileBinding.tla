---------------------------- MODULE ProfileBinding ----------------------------
(***************************************************************************)
(* The Profile loader and the Provider registry together: BindProfile and  *)
(* BindProfiles are given what a call of LoadDirectory has returned, and   *)
(* the declarations of the configuration that the load was checked against.*)
(* A second load may have read other files, so the bindings and rebuilds   *)
(* that race may be of different snapshots.                                *)
(***************************************************************************)
EXTENDS ProviderRegistry, ProfileLoader

VARIABLE given   \* the load whose snapshot each binding call has, or None

bindingVars == <<vars, loaderVars, given>>

BindingInit ==
  /\ Init
  /\ LoaderInit
  /\ given = [c \in Binders \cup Rebuilders |-> None]

-----------------------------------------------------------------------------
(* The caller hands a snapshot, or a Profile of one, to the registry.      *)
Hand(c, l) ==
  /\ At(c, "called")
  /\ given[c] = None
  /\ stage[l] = "done"
  /\ IF c \in Rebuilders THEN Subject[c] = Names(l) ELSE Subject[c] \in Names(l)
  /\ given' = [given EXCEPT ![c] = l]
  /\ UNCHANGED <<vars, loaderVars>>

Selected(c, f) ==
  LET profiles == snapshot[given[c]]
  IN  profiles[CHOOSE i \in DOMAIN profiles : profiles[i].name = f]

(* There is a declaration with the name that the Profile selects.          *)
Declared(c, f) == Selected(c, f).provider \in DeclaredProviders

BindGiven(b) ==
  /\ given[b] # None
  /\ Bind(b)
  /\ pc'[b] # "failed" => Declared(b, Subject[b])
  /\ UNCHANGED <<loaderVars, given>>

RebuildGiven(u) ==
  /\ given[u] # None
  /\ Rebuild(u)
  /\ \A f \in Subject[u] : rebuilt'[u][f] # rebuilt[u][f] => Declared(u, f)
  /\ UNCHANGED <<loaderVars, given>>

LoadStep(l) ==
  /\ Load(l)
  /\ UNCHANGED <<vars, given>>

RegisterStep(r) ==
  /\ Refuse(r) \/ RegisterFactory(r)
  /\ UNCHANGED <<loaderVars, given>>

BindingNext ==
  \/ \E l \in Loads : LoadStep(l) \/ \E c \in Binders \cup Rebuilders : Hand(c, l)
  \/ \E r \in Registrars : RegisterStep(r)
  \/ \E b \in Binders : BindGiven(b)
  \/ \E u \in Rebuilders : RebuildGiven(u)

BindingSpec == BindingInit /\ [][BindingNext]_bindingVars

-----------------------------------------------------------------------------
(* Properties.                                                             *)

(* A Profile of a snapshot is all that its consumers take for granted: the *)
(* registry finds the declaration of its Provider by the exact name, and   *)
(* the ReAct loop and the prompt builder get limits of at least one.       *)
(* (validateProfile compares and keeps the same trimmed name; BindProfiles *)
(* looks it up untrimmed.)                                                 *)
ProfilesAreUsable ==
  \A c \in Binders \cup Rebuilders : given[c] # None =>
    LET profiles == snapshot[given[c]] IN
      \A i \in DOMAIN profiles :
        /\ Declared(c, profiles[i].name)
        /\ profiles[i].maxIterations >= 1 /\ profiles[i].historyTurns >= 1
=============================================================================
