------------------------- MODULE WorkspaceInitProofs -------------------------
(* Theorems about WorkspaceInit, for any number of runs, directories and    *)
(* files, and about those who read the workspace meanwhile.                 *)
EXTENDS WorkspaceReaders, TLAPS

USE DirectoriesAssumption, FilesAssumption, ParentAssumption

(* A directory that a run has made and is about to give its mode.          *)
Fresh == IF strict THEN "unset" ELSE "directory"

(* What is at a path fits the kind of its target.                          *)
EntriesFit ==
  \A t \in Targets :
    /\ entry[t] # "partial"
    /\ entry[t] = "unset" => strict
    /\ IF IsDirectory(t) THEN entry[t] # "template" ELSE entry[t] \notin {"unset", "directory"}

Making(p) == pc[p] \in {"chmod", "undo"}

(* Only the run that made a directory changes or removes it.               *)
OneMaker ==
  /\ \A p \in Inits : Making(p) => entry[target[p]] = Fresh
  /\ \A p, q \in Inits : Making(p) /\ Making(q) /\ target[p] = target[q] => p = q

(* The target of a run fits what it is doing.                              *)
StageFits(p) ==
  /\ pc[p] \in {"mkdir", "chmod", "undo"} => target[p] \in Targets /\ IsDirectory(target[p])
  /\ pc[p] \in {"temp", "fill", "link", "unlink", "give_way", "recheck", "discard"} =>
       target[p] \in Targets /\ ~IsDirectory(target[p])
  /\ pc[p] = "unlink" => entry[target[p]] = "template"
  /\ pc[p] \in {"give_way", "recheck"} => entry[target[p]] # "absent"
  /\ pc[p] = "done" => target[p] \notin Targets

TempFits(p) ==
  /\ pc[p] = "link" => temp[p] = "complete"
  /\ temp[p] # "none" /\ p \notin stuck =>
       pc[p] \in {"fill", "link", "unlink", "give_way", "discard", "crashed"}

(* What a run has dealt with is there, but for directories taken back.     *)
Lost(t) == ~strict /\ t \in undone

Behind(p) == \A t \in Targets : t < target[p] => Accepted(t) \/ Lost(t)

FailedForAReason(p) ==
  /\ pc[p] \in {"discard", "undo"} => p \in ioError
  /\ pc[p] = "failed" =>
       p \in ioError \/ strict \/ undone # {} \/ \E t \in Targets : entry[t] = "foreign"

Local(p) == StageFits(p) /\ TempFits(p) /\ Behind(p) /\ FailedForAReason(p)

IInv == TypeOK /\ EntriesFit /\ OneMaker /\ \A p \in Inits : Local(p)

-----------------------------------------------------------------------------
(* The invariant holds initially.                                          *)
LEMMA InitIInv == Init => IInv
<1>. SUFFICES ASSUME Init PROVE IInv
  OBVIOUS
<1>1. TypeOK
  BY DEF Init, TypeOK, Entries, Targets
<1>2. EntriesFit /\ OneMaker
  BY DEF Init, EntriesFit, OneMaker, Making
<1>3. \A p \in Inits : Local(p)
  <2>. TAKE p \in Inits
  <2>1. pc[p] = "idle" /\ target[p] = 1 /\ temp[p] = "none"
    BY DEF Init
  <2>2. Behind(p)
    BY <2>1 DEF Behind, Targets
  <2>. QED
    BY <2>1, <2>2 DEF Local, StageFits, TempFits, FailedForAReason
<1>. QED
  BY <1>1, <1>2, <1>3 DEF IInv

(* What a step leaves as it is for the runs that do not take it.           *)
Keeps ==
  /\ strict' = strict
  /\ ioError \subseteq ioError' /\ stuck \subseteq stuck' /\ undone \subseteq undone'
  /\ \A t \in Targets : NeverReplaced(t)
  /\ \A t \in Targets : Accepted(t) => Accepted(t)' \/ Lost(t)'

(* Such a step disturbs no run that does not take it.                      *)
LEMMA OthersKeep ==
  ASSUME IInv, Keeps, NEW q \in Inits,
         pc'[q] = pc[q], target'[q] = target[q], temp'[q] = temp[q]
  PROVE  Local(q)'
<1>. Local(q) /\ TypeOK /\ target[q] \in 1..(Directories + Files + 1)
  BY DEF IInv, TypeOK
<1>1. StageFits(q)'
  <2>. ASSUME NEW t \in Targets, entry[t] # "absent", ~IsDirectory(t)
       PROVE  entry'[t] = entry[t]
    BY DEF Keeps, NeverReplaced, IInv, EntriesFit, TypeOK, Entries
  <2>. QED
    BY DEF Local, StageFits, Keeps, NeverReplaced, IsDirectory
<1>2. TempFits(q)'
  BY DEF Local, TempFits, Keeps
<1>3. Behind(q)'
  BY DEF Local, Behind, Keeps, Lost
<1>4. FailedForAReason(q)'
  BY DEF Local, FailedForAReason, Keeps, NeverReplaced
<1>. QED
  BY <1>1, <1>2, <1>3, <1>4 DEF Local

(* A run that moves on without touching any path: what remains to be shown *)
(* is what the invariant says of that run.                                 *)
LEMMA QuietStep ==
  ASSUME IInv, NEW p \in Inits, UNCHANGED <<entry, strict, undone>>,
         pc'[p] # "chmod", pc'[p] = "undo" => Making(p) /\ target' = target,
         \A q \in Inits \ {p} :
           pc'[q] = pc[q] /\ target'[q] = target[q] /\ temp'[q] = temp[q],
         ioError \subseteq ioError', stuck \subseteq stuck',
         TypeOK', Local(p)'
  PROVE  IInv'
<1>. TypeOK
  BY DEF IInv
<1>1. EntriesFit'
  BY DEF IInv, EntriesFit, IsDirectory
<1>2. OneMaker'
  <2>1. \A q \in Inits : Making(q)' => Making(q) /\ target'[q] = target[q]
    BY DEF Making, TypeOK
  <2>. QED
    BY <2>1 DEF IInv, OneMaker, Fresh
<1>3. Keeps
  BY DEF Keeps, NeverReplaced, Accepted, IsDirectory
<1>4. \A q \in Inits \ {p} : Local(q)'
  BY <1>3, OthersKeep DEF TypeOK
<1>. QED
  BY <1>1, <1>2, <1>4 DEF IInv

(* A run goes on to the next target when this one is there.                *)
LEMMA MovesOn ==
  ASSUME IInv, NEW p \in Inits, target[p] \in Targets, NextTarget(p),
         \A t \in Targets : t = target[p] => Accepted(t)',
         strict' = strict, undone' = undone,
         \A t \in Targets : Accepted(t) => Accepted(t)',
         temp'[p] = "none" \/ p \in stuck'
  PROVE  Local(p)'
<1>. TypeOK /\ Local(p)
  BY DEF IInv
<1>. pc'[p] = "inspect" /\ target'[p] = target[p] + 1
  BY DEF NextTarget, Goto, TypeOK
<1>1. Behind(p)'
  <2>1. ASSUME NEW t \in Targets, t < target[p] + 1
        PROVE  t = target[p] \/ t < target[p]
    BY <2>1 DEF Targets, TypeOK
  <2>. QED
    BY <2>1 DEF Local, Behind, Lost
<1>. QED
  BY <1>1 DEF Local, StageFits, TempFits, FailedForAReason

(* A run fails or goes on to the next thing it does with the same target.  *)
LEMMA Stays ==
  ASSUME IInv, NEW p \in Inits, UNCHANGED <<entry, strict, target, undone>>,
         pc'[p] # "chmod", pc'[p] = "undo" => Making(p),
         \A q \in Inits \ {p} : pc'[q] = pc[q] /\ temp'[q] = temp[q],
         ioError \subseteq ioError', stuck \subseteq stuck',
         TypeOK', StageFits(p)', TempFits(p)', FailedForAReason(p)'
  PROVE  IInv'
<1>1. Local(p)'
  BY DEF IInv, Local, Behind, Lost, Accepted
<1>. QED
  BY <1>1, QuietStep

(* A path that is there and not accepted is the user's, or a directory     *)
(* without its mode.                                                       *)
LEMMA Refused ==
  ASSUME IInv, NEW t \in Targets, ~Accepted(t), entry[t] # "absent"
  PROVE  strict \/ entry[t] = "foreign"
BY DEF IInv, TypeOK, EntriesFit, Accepted, Entries

(* The directory a target is in comes before it.                           *)
LEMMA ParentThere ==
  ASSUME IInv, NEW p \in Inits, target[p] \in Targets
  PROVE  Exists(Parent[target[p]]) \/ undone # {}
<1>. DEFINE u == Parent[target[p]]
<1>1. CASE u = 0
  BY <1>1 DEF Exists
<1>2. CASE u # 0
  <2>1. u \in Targets /\ u < target[p]
    BY <1>2 DEF Targets
  <2>2. Accepted(u) \/ undone # {}
    BY <2>1 DEF IInv, Local, Behind, Lost
  <2>3. Accepted(u) => entry[u] # "absent"
    BY DEF Accepted
  <2>. QED
    BY <2>1, <2>2, <2>3 DEF Exists
<1>. QED
  BY <1>1, <1>2

-----------------------------------------------------------------------------
(* The steps that touch no path, one lemma each.                           *)

(* A call fails for a reason of its own before there is a temporary file.  *)
LEMMA FailsAtOnce ==
  ASSUME IInv, NEW p \in Inits, IOFails(p, "failed"),
         pc[p] \in {"inspect", "mkdir", "temp", "recheck"},
         UNCHANGED <<entry, strict, target, temp, stuck, undone>>
  PROVE  IInv'
<1>. TypeOK /\ Local(p)
  BY DEF IInv
<1>1. TypeOK'
  BY DEF IOFails, Goto, TypeOK, Finished
<1>2. StageFits(p)' /\ TempFits(p)' /\ FailedForAReason(p)'
  BY DEF IOFails, Goto, TypeOK, Local, StageFits, TempFits, FailedForAReason
<1>. QED
  BY <1>1, <1>2, Stays DEF IOFails, Goto, TypeOK

(* The temporary file cannot be removed.                                   *)
LEMMA FailsWithTemp ==
  ASSUME IInv, NEW p \in Inits, RemoveTempFails(p), UNCHANGED <<entry, strict, target, undone>>
  PROVE  IInv'
<1>. TypeOK /\ Local(p)
  BY DEF IInv
<1>1. TypeOK'
  BY DEF RemoveTempFails, IOFails, Goto, TypeOK, Finished
<1>2. StageFits(p)' /\ TempFits(p)' /\ FailedForAReason(p)'
  BY DEF RemoveTempFails, IOFails, Goto, TypeOK, StageFits, TempFits, FailedForAReason
<1>. QED
  BY <1>1, <1>2, Stays DEF RemoveTempFails, IOFails, Goto, TypeOK

(* What is at the target when it was looked at is not accepted.            *)
LEMMA FailsRefusing ==
  ASSUME IInv, NEW p \in Inits, Goto(p, "failed"), target[p] \in Targets,
         ~Accepted(target[p]), entry[target[p]] # "absent", temp[p] = "none" \/ p \in stuck,
         UNCHANGED <<entry, strict, target, temp, ioError, stuck, undone>>
  PROVE  IInv'
<1>. TypeOK
  BY DEF IInv
<1>1. TypeOK'
  BY DEF Goto, TypeOK, Finished
<1>2. StageFits(p)' /\ TempFits(p)'
  BY DEF Goto, TypeOK, StageFits, TempFits
<1>3. FailedForAReason(p)'
  BY Refused DEF FailedForAReason, Goto, TypeOK
<1>. QED
  BY <1>1, <1>2, <1>3, Stays DEF Goto, TypeOK

(* The directory the target is to be in is not there (any more).           *)
LEMMA FailsWithoutParent ==
  ASSUME IInv, NEW p \in Inits, Goto(p, "failed"), pc[p] \in {"mkdir", "temp"},
         ~Exists(Parent[target[p]]),
         UNCHANGED <<entry, strict, target, temp, ioError, stuck, undone>>
  PROVE  IInv'
<1>. TypeOK /\ Local(p)
  BY DEF IInv
<1>1. TypeOK'
  BY DEF Goto, TypeOK, Finished
<1>2. StageFits(p)' /\ TempFits(p)'
  BY DEF Goto, TypeOK, Local, StageFits, TempFits
<1>3. FailedForAReason(p)'
  BY ParentThere DEF FailedForAReason, Local, StageFits, Goto, TypeOK
<1>. QED
  BY <1>1, <1>2, <1>3, Stays DEF Goto, TypeOK

(* The next target, after one whose path is not touched by this step.      *)
LEMMA GoesOn ==
  ASSUME IInv, NEW p \in Inits, target[p] \in Targets, NextTarget(p), Accepted(target[p]),
         temp'[p] = "none" \/ p \in stuck,
         \A q \in Inits \ {p} : temp'[q] = temp[q],
         temp' \in [Inits -> {"none", "partial", "complete"}],
         UNCHANGED <<entry, strict, ioError, stuck, undone>>
  PROVE  IInv'
<1>. TypeOK
  BY DEF IInv
<1>1. TypeOK'
  BY DEF NextTarget, Goto, TypeOK, Targets
<1>2. Local(p)'
  <2>1. \A t \in Targets : Accepted(t) => Accepted(t)'
    BY DEF Accepted
  <2>. QED
    BY <2>1, MovesOn
<1>. QED
  BY <1>1, <1>2, QuietStep DEF NextTarget, Goto, TypeOK

-----------------------------------------------------------------------------
(* The steps that touch no path.                                           *)

(* The actions that leave the target, the paths and `stuck` as they are and*)
(* move a run between stages that say nothing of the path.                 *)
LEMMA PlainStep ==
  ASSUME IInv, NEW p \in Inits,
         Begin(p) \/ Report(p) \/ MkdirExists(p) \/ Fill(p) \/ Crash(p)
  PROVE  IInv'
<1>. TypeOK /\ Local(p) /\ target[p] \in 1..(Directories + Files + 1)
  BY DEF IInv, TypeOK
<1>. UNCHANGED <<entry, strict, target, stuck, undone>>
  BY DEF Begin, Report, MkdirExists, Fill, Crash
<1>1. TypeOK'
  BY DEF Begin, Report, MkdirExists, Fill, Crash, IOFails, Goto, TypeOK, Finished
<1>2. StageFits(p)' /\ TempFits(p)' /\ FailedForAReason(p)'
  BY DEF Begin, Report, MkdirExists, Fill, Crash, IOFails, Goto, At, TypeOK, Finished,
         Local, StageFits, TempFits, FailedForAReason
<1>. QED
  BY <1>1, <1>2, Stays DEF Begin, Report, MkdirExists, Fill, Crash, IOFails, Goto, TypeOK

(* What Lstat finds, for each of its outcomes.                             *)
LEMMA InspectStep ==
  ASSUME IInv, NEW p \in Inits, Inspect(p)
  PROVE  IInv'
<1>. TypeOK /\ Local(p) /\ target[p] \in Targets /\ pc[p] = "inspect"
  BY DEF IInv, Inspect, At
<1>. UNCHANGED <<entry, strict, temp, stuck, undone>>
  BY DEF Inspect
<1>0. temp[p] = "none" \/ p \in stuck
  BY DEF Local, TempFits
<1>1. CASE Accepted(target[p]) /\ NextTarget(p) /\ UNCHANGED ioError
  BY <1>0, <1>1, GoesOn DEF TypeOK
<1>2. CASE ~Accepted(target[p]) /\ Exists(target[p]) /\ Goto(p, "failed")
           /\ UNCHANGED <<target, ioError>>
  BY <1>0, <1>2, FailsRefusing DEF Exists, Targets
<1>3. CASE Goto(p, IF IsDirectory(target[p]) THEN "mkdir" ELSE "temp")
           /\ UNCHANGED <<target, ioError>>
  <2>1. TypeOK'
    BY <1>3 DEF Goto, TypeOK
  <2>2. StageFits(p)' /\ TempFits(p)' /\ FailedForAReason(p)'
    BY <1>3 DEF Goto, TypeOK, Local, StageFits, TempFits, FailedForAReason, IsDirectory
  <2>. QED
    BY <1>3, <2>1, <2>2, Stays DEF Goto, TypeOK
<1>4. CASE IOFails(p, "failed") /\ UNCHANGED target
  BY <1>4, FailsAtOnce
<1>. QED
  BY <1>1, <1>2, <1>3, <1>4 DEF Inspect

(* A temporary file, beside a target that was not there.                   *)
LEMMA CreateTempStep ==
  ASSUME IInv, NEW p \in Inits, CreateTemp(p)
  PROVE  IInv'
<1>. TypeOK /\ Local(p) /\ pc[p] = "temp"
  BY DEF IInv, CreateTemp, At
<1>. UNCHANGED <<entry, strict, target, stuck, undone>>
  BY DEF CreateTemp
<1>1. CASE temp' = [temp EXCEPT ![p] = "partial"] /\ Goto(p, "fill") /\ UNCHANGED ioError
  <2>1. TypeOK'
    BY <1>1 DEF Goto, TypeOK
  <2>2. StageFits(p)' /\ TempFits(p)' /\ FailedForAReason(p)'
    BY <1>1 DEF Goto, TypeOK, Local, StageFits, TempFits, FailedForAReason
  <2>. QED
    BY <1>1, <2>1, <2>2, Stays DEF Goto, TypeOK
<1>2. CASE ~Exists(Parent[target[p]]) /\ Goto(p, "failed") /\ UNCHANGED <<temp, ioError>>
  BY <1>2, FailsWithoutParent
<1>3. CASE IOFails(p, "failed") /\ UNCHANGED temp
  BY <1>3, FailsAtOnce
<1>. QED
  BY <1>1, <1>2, <1>3 DEF CreateTemp

(* The temporary file is removed, after Link or instead of it.             *)
LEMMA RemoveStep ==
  ASSUME IInv, NEW p \in Inits, Unlink(p) \/ GiveWay(p) \/ Discard(p)
  PROVE  IInv'
<1>. TypeOK /\ Local(p)
  BY DEF IInv
<1>1. CASE RemoveTempFails(p) /\ UNCHANGED target
  BY <1>1, FailsWithTemp DEF Unlink, GiveWay, Discard
<1>2. CASE Unlink(p) /\ RemoveTemp(p) /\ NextTarget(p)
  <2>1. target[p] \in Targets /\ Accepted(target[p])
    BY <1>2 DEF Unlink, At, Local, StageFits, Accepted
  <2>. QED
    BY <1>2, <2>1, GoesOn DEF Unlink, RemoveTemp, NextTarget, Goto, RemoveTempFails, IOFails, TypeOK
<1>3. CASE GiveWay(p) /\ RemoveTemp(p) /\ Goto(p, "recheck") /\ UNCHANGED <<ioError, stuck>>
  <2>1. TypeOK'
    BY <1>3 DEF GiveWay, RemoveTemp, Goto, TypeOK
  <2>2. StageFits(p)' /\ TempFits(p)' /\ FailedForAReason(p)'
    BY <1>3 DEF GiveWay, RemoveTemp, Goto, At, TypeOK, Local, StageFits, TempFits, FailedForAReason
  <2>. QED
    BY <1>3, <2>1, <2>2, Stays DEF GiveWay, RemoveTemp, Goto, TypeOK
<1>4. CASE Discard(p) /\ RemoveTemp(p) /\ Goto(p, "failed") /\ UNCHANGED <<ioError, stuck>>
  <2>1. TypeOK'
    BY <1>4 DEF Discard, RemoveTemp, Goto, TypeOK, Finished
  <2>2. StageFits(p)' /\ TempFits(p)'
    BY <1>4 DEF Discard, RemoveTemp, Goto, TypeOK, StageFits, TempFits
  <2>3. FailedForAReason(p)'
    BY <1>4 DEF Discard, At, Goto, TypeOK, Local, FailedForAReason
  <2>. QED
    BY <1>4, <2>1, <2>2, <2>3, Stays DEF Discard, RemoveTemp, Goto, TypeOK
<1>. QED
  BY <1>1, <1>2, <1>3, <1>4 DEF Unlink, GiveWay, Discard

(* What another run published is looked at.                                *)
LEMMA RecheckStep ==
  ASSUME IInv, NEW p \in Inits, Recheck(p)
  PROVE  IInv'
<1>. TypeOK /\ Local(p) /\ pc[p] = "recheck" /\ UNCHANGED <<entry, strict, temp, stuck, undone>>
  BY DEF IInv, Recheck, At
<1>1. target[p] \in Targets /\ entry[target[p]] # "absent" /\ (temp[p] = "none" \/ p \in stuck)
  BY DEF Local, StageFits, TempFits
<1>2. CASE Accepted(target[p]) /\ NextTarget(p) /\ UNCHANGED ioError
  BY <1>1, <1>2, GoesOn DEF TypeOK
<1>3. CASE ~Accepted(target[p]) /\ Goto(p, "failed") /\ UNCHANGED <<target, ioError>>
  BY <1>1, <1>3, FailsRefusing
<1>4. CASE IOFails(p, "failed") /\ UNCHANGED target
  BY <1>4, FailsAtOnce
<1>. QED
  BY <1>2, <1>3, <1>4 DEF Recheck

-----------------------------------------------------------------------------
(* The steps that change a path.                                           *)

(* A path that was free is used by this run, or by the user.               *)
LEMMA FreePathKeeps ==
  ASSUME IInv, NEW t \in Targets, entry[t] = "absent", NEW what, Place(t, what),
         strict' = strict, ioError \subseteq ioError', stuck' = stuck, undone' = undone
  PROVE  Keeps
<1>. TypeOK
  BY DEF IInv
<1>1. \A u \in Targets : entry[u] # "absent" => entry'[u] = entry[u]
  BY DEF Place, TypeOK
<1>. QED
  BY <1>1 DEF Keeps, NeverReplaced, Accepted

(* A new directory is its maker's until it has its mode.                   *)
LEMMA MkdirStep ==
  ASSUME IInv, NEW p \in Inits, Mkdir(p)
  PROVE  IInv'
<1>. DEFINE t == target[p]
<1>. TypeOK /\ Local(p) /\ pc[p] = "mkdir" /\ UNCHANGED <<strict, target, temp, stuck, undone>>
  BY DEF IInv, Mkdir, At
<1>0. t \in Targets /\ IsDirectory(t)
  BY DEF Local, StageFits
<1>1. CASE Place(t, Fresh) /\ Goto(p, "chmod") /\ UNCHANGED ioError
  <2>1. entry[t] = "absent"
    BY <1>0 DEF Mkdir, Exists
  <2>2. entry' = [entry EXCEPT ![t] = Fresh] /\ Fresh' = Fresh /\ Fresh \in {"unset", "directory"}
    BY <1>1 DEF Place, Fresh
  <2>3. TypeOK'
    BY <1>1, <2>2 DEF Goto, TypeOK, Entries
  <2>4. EntriesFit'
    BY <1>0, <2>2 DEF IInv, EntriesFit, IsDirectory, Fresh, TypeOK
  <2>5. OneMaker'
    <3>1. \A q \in Inits : Making(q) => target[q] # t
      BY <2>1 DEF IInv, OneMaker, Fresh
    <3>2. \A q \in Inits : Making(q)' = (Making(q) \/ q = p)
      BY <1>1 DEF Making, Goto, TypeOK
    <3>3. entry'[t] = Fresh
      BY <1>0, <2>2 DEF TypeOK
    <3>4. \A q \in Inits : Making(q) => entry'[target[q]] = Fresh
      BY <2>2, <3>1 DEF IInv, OneMaker, TypeOK
    <3>. QED
      BY <2>2, <3>1, <3>2, <3>3, <3>4 DEF IInv, OneMaker
  <2>6. Keeps
    BY <1>0, <1>1, <2>1, FreePathKeeps DEF Fresh
  <2>7. Local(p)'
    <3>1. StageFits(p)' /\ TempFits(p)' /\ FailedForAReason(p)'
      BY <1>0, <1>1 DEF Goto, TypeOK, Local, StageFits, TempFits, FailedForAReason, IsDirectory
    <3>2. Behind(p)'
      BY <2>6 DEF Keeps, Local, Behind, Lost
    <3>. QED
      BY <3>1, <3>2 DEF Local
  <2>8. \A q \in Inits \ {p} : Local(q)'
    BY <1>1, <2>6, OthersKeep DEF Goto, TypeOK
  <2>. QED
    BY <2>3, <2>4, <2>5, <2>7, <2>8 DEF IInv
<1>2. CASE ~Exists(Parent[t]) /\ Goto(p, "failed") /\ UNCHANGED <<entry, ioError>>
  BY <1>2, FailsWithoutParent
<1>3. CASE IOFails(p, "failed") /\ UNCHANGED entry
  BY <1>3, FailsAtOnce
<1>. QED
  BY <1>1, <1>2, <1>3 DEF Mkdir, Fresh

(* A directory that has its mode is accepted by every run from then on.    *)
LEMMA ChmodStep ==
  ASSUME IInv, NEW p \in Inits, Chmod(p)
  PROVE  IInv'
<1>. DEFINE t == target[p]
<1>. TypeOK /\ Local(p) /\ pc[p] = "chmod" /\ UNCHANGED <<strict, temp, stuck, undone>>
  BY DEF IInv, Chmod, At
<1>0. t \in Targets /\ IsDirectory(t) /\ entry[t] = Fresh /\ Fresh \in {"unset", "directory"}
  BY DEF Local, StageFits, IInv, OneMaker, Making, Fresh
<1>1. CASE Place(t, "directory") /\ NextTarget(p) /\ UNCHANGED ioError
  <2>1. entry' = [entry EXCEPT ![t] = "directory"] /\ target' = [target EXCEPT ![p] = t + 1]
        /\ pc' = [pc EXCEPT ![p] = "inspect"] /\ Fresh' = Fresh
    BY <1>1 DEF Place, NextTarget, Goto, Fresh
  <2>2. TypeOK'
    BY <1>0, <1>1, <2>1 DEF TypeOK, Entries, Targets
  <2>3. EntriesFit'
    BY <1>0, <2>1 DEF IInv, EntriesFit, IsDirectory, TypeOK
  <2>4. \A q \in Inits : Making(q)' => Making(q) /\ target'[q] = target[q] /\ target[q] # t
    BY <2>1 DEF IInv, OneMaker, Making, TypeOK
  <2>5. OneMaker'
    <3>1. \A q \in Inits : Making(q)' => entry'[target'[q]] = Fresh
      BY <2>1, <2>4 DEF IInv, OneMaker, TypeOK
    <3>. QED
      BY <2>1, <2>4, <3>1 DEF IInv, OneMaker
  <2>6. \A u \in Targets : Accepted(u) => Accepted(u)'
    BY <1>0, <2>1 DEF Accepted, TypeOK
  <2>7. Keeps
    BY <1>0, <1>1, <2>1, <2>6 DEF Keeps, NeverReplaced, TypeOK
  <2>8. Local(p)'
    <3>1. \A u \in Targets : u = target[p] => Accepted(u)'
      BY <1>0, <2>1 DEF Accepted, IsDirectory, TypeOK
    <3>2. temp'[p] = "none" \/ p \in stuck'
      BY DEF Local, TempFits
    <3>. QED
      BY <1>0, <1>1, <2>6, <3>1, <3>2, MovesOn
  <2>9. \A q \in Inits \ {p} : Local(q)'
    BY <2>1, <2>7, OthersKeep DEF TypeOK
  <2>. QED
    BY <2>2, <2>3, <2>5, <2>8, <2>9 DEF IInv
<1>2. CASE IOFails(p, "undo") /\ UNCHANGED <<entry, target>>
  <2>1. TypeOK'
    BY <1>2 DEF IOFails, Goto, TypeOK
  <2>2. StageFits(p)' /\ TempFits(p)' /\ FailedForAReason(p)'
    BY <1>0, <1>2 DEF IOFails, Goto, TypeOK, Local, StageFits, TempFits, FailedForAReason,
                      IsDirectory
  <2>. QED
    BY <1>2, <2>1, <2>2, Stays DEF IOFails, Goto, TypeOK, Making
<1>. QED
  BY <1>1, <1>2 DEF Chmod

(* A directory is taken back: accepted by others only without a umask.     *)
LEMMA UndoMkdirStep ==
  ASSUME IInv, NEW p \in Inits, UndoMkdir(p)
  PROVE  IInv'
<1>. DEFINE t == target[p]
<1>. TypeOK /\ Local(p) /\ pc[p] = "undo" /\ pc' = [pc EXCEPT ![p] = "failed"]
     /\ UNCHANGED <<strict, target, temp, ioError, stuck>>
  BY DEF IInv, UndoMkdir, At, Goto
<1>0. t \in Targets /\ IsDirectory(t) /\ entry[t] = Fresh /\ p \in ioError
  BY DEF Local, StageFits, FailedForAReason, IInv, OneMaker, Making
<1>1. StageFits(p)' /\ TempFits(p)' /\ FailedForAReason(p)'
  BY <1>0 DEF TypeOK, Local, StageFits, TempFits, FailedForAReason
<1>2. CASE Place(t, "absent") /\ undone' = undone \cup {t}
  <2>1. entry' = [entry EXCEPT ![t] = "absent"] /\ Fresh' = Fresh
    BY <1>2 DEF Place, Fresh
  <2>2. TypeOK'
    <3>1. t \in 1..Directories
      BY <1>0 DEF IsDirectory, Targets
    <3>2. entry' \in [Targets -> Entries]
      BY <2>1 DEF TypeOK, Entries
    <3>. QED
      BY <1>2, <3>1, <3>2 DEF TypeOK, Finished
  <2>3. EntriesFit'
    BY <1>0, <2>1 DEF IInv, EntriesFit, IsDirectory, TypeOK
  <2>4. \A q \in Inits : Making(q)' => Making(q) /\ target[q] # t
    BY <1>0 DEF IInv, OneMaker, Making, TypeOK
  <2>5. OneMaker'
    <3>1. \A q \in Inits : Making(q)' => entry'[target[q]] = Fresh
      BY <2>1, <2>4 DEF IInv, OneMaker, TypeOK
    <3>. QED
      BY <2>1, <2>4, <3>1 DEF IInv, OneMaker
  <2>6. Keeps
    <3>1. \A u \in Targets : Accepted(u) => Accepted(u)' \/ Lost(u)'
      BY <1>0, <1>2, <2>1 DEF Accepted, Lost, Fresh, TypeOK
    <3>2. \A u \in Targets : NeverReplaced(u)
      BY <1>0, <2>1 DEF NeverReplaced, Fresh, TypeOK
    <3>. QED
      BY <1>2, <3>1, <3>2 DEF Keeps
  <2>7. Behind(p)'
    BY <2>6 DEF Keeps, Local, Behind, Lost
  <2>8. \A q \in Inits \ {p} : Local(q)'
    BY <2>6, OthersKeep DEF TypeOK
  <2>. QED
    BY <1>1, <2>2, <2>3, <2>5, <2>7, <2>8 DEF IInv, Local
<1>3. CASE UNCHANGED <<entry, undone>>
  <2>1. TypeOK'
    BY <1>3 DEF TypeOK, Finished
  <2>. QED
    BY <1>1, <1>3, <2>1, Stays DEF TypeOK
<1>. QED
  BY <1>2, <1>3 DEF UndoMkdir

(* A complete file is published where nothing was.                         *)
LEMMA LinkStep ==
  ASSUME IInv, NEW p \in Inits, Link(p)
  PROVE  IInv'
<1>. DEFINE t == target[p]
<1>. TypeOK /\ Local(p) /\ pc[p] = "link" /\ UNCHANGED <<strict, target, temp, stuck, undone>>
  BY DEF IInv, Link, At
<1>0. t \in Targets /\ ~IsDirectory(t) /\ Published(p) = "template"
  BY DEF Local, StageFits, TempFits, Published
<1>1. CASE ~Exists(t) /\ Place(t, Published(p)) /\ Goto(p, "unlink") /\ UNCHANGED ioError
  <2>1. entry[t] = "absent" /\ entry' = [entry EXCEPT ![t] = "template"] /\ Fresh' = Fresh
    BY <1>0, <1>1 DEF Exists, Place, Fresh
  <2>2. TypeOK'
    BY <1>1, <2>1 DEF Goto, TypeOK, Entries
  <2>3. EntriesFit'
    BY <1>0, <2>1 DEF IInv, EntriesFit, IsDirectory, TypeOK
  <2>4. \A q \in Inits : Making(q)' => Making(q) /\ target[q] # t
    BY <1>1, <2>1 DEF IInv, OneMaker, Making, Fresh, Goto, TypeOK
  <2>5. OneMaker'
    <3>1. \A q \in Inits : Making(q)' => entry'[target[q]] = Fresh
      BY <2>1, <2>4 DEF IInv, OneMaker, TypeOK
    <3>. QED
      BY <2>1, <2>4, <3>1 DEF IInv, OneMaker
  <2>6. Keeps
    BY <1>0, <1>1, <2>1, FreePathKeeps
  <2>7. Local(p)'
    <3>1. StageFits(p)'
      BY <1>0, <1>1, <2>1 DEF Goto, StageFits, IsDirectory, TypeOK
    <3>2. TempFits(p)' /\ FailedForAReason(p)'
      BY <1>1 DEF Goto, TypeOK, TempFits, FailedForAReason
    <3>3. Behind(p)'
      BY <2>6 DEF Keeps, Local, Behind, Lost
    <3>. QED
      BY <3>1, <3>2, <3>3 DEF Local
  <2>8. \A q \in Inits \ {p} : Local(q)'
    BY <1>1, <2>6, OthersKeep DEF Goto, TypeOK
  <2>. QED
    BY <2>2, <2>3, <2>5, <2>7, <2>8 DEF IInv
<1>2. CASE Exists(t) /\ Goto(p, "give_way") /\ UNCHANGED <<entry, ioError>>
  <2>1. TypeOK'
    BY <1>2 DEF Goto, TypeOK
  <2>2. StageFits(p)' /\ TempFits(p)' /\ FailedForAReason(p)'
    BY <1>0, <1>2 DEF Goto, TypeOK, StageFits, TempFits, FailedForAReason, IsDirectory, Exists,
                      Targets
  <2>. QED
    BY <1>2, <2>1, <2>2, Stays DEF Goto, TypeOK
<1>3. CASE IOFails(p, "discard") /\ UNCHANGED entry
  <2>1. TypeOK'
    BY <1>3 DEF IOFails, Goto, TypeOK
  <2>2. StageFits(p)' /\ TempFits(p)' /\ FailedForAReason(p)'
    BY <1>0, <1>3 DEF IOFails, Goto, TypeOK, StageFits, TempFits, FailedForAReason, IsDirectory
  <2>. QED
    BY <1>3, <2>1, <2>2, Stays DEF IOFails, Goto, TypeOK
<1>. QED
  BY <1>1, <1>2, <1>3 DEF Link

(* The user makes a file where nothing was.                                *)
LEMMA UserStep ==
  ASSUME IInv, NEW t \in Targets, UserCreates(t)
  PROVE  IInv'
<1>. TypeOK /\ UNCHANGED <<strict, pc, target, temp, ioError, stuck, undone>>
  BY DEF IInv, UserCreates
<1>1. PICK what \in {"user", "foreign"} : Place(t, what)
  BY DEF UserCreates
<1>2. entry[t] = "absent" /\ entry' = [entry EXCEPT ![t] = what] /\ Fresh' = Fresh
  <2>1. ~Exists(t)
    BY DEF UserCreates
  <2>2. entry[t] = "absent"
    BY <2>1 DEF Exists
  <2>. QED
    BY <1>1, <2>2 DEF Place, Fresh
<1>3. TypeOK'
  BY <1>2 DEF TypeOK, Entries
<1>4. EntriesFit'
  BY <1>2 DEF IInv, EntriesFit, IsDirectory, TypeOK
<1>5. OneMaker'
  BY <1>2 DEF IInv, OneMaker, Making, Fresh, TypeOK
<1>6. Keeps
  BY <1>1, <1>2, FreePathKeeps
<1>7. \A q \in Inits : Local(q)'
  BY <1>6, OthersKeep
<1>. QED
  BY <1>3, <1>4, <1>5, <1>7 DEF IInv

-----------------------------------------------------------------------------
(* Every step keeps the invariant.                                         *)
LEMMA StepIInv == IInv /\ [Next]_vars => IInv'
<1>. SUFFICES ASSUME IInv, [Next]_vars
              PROVE  IInv'
  OBVIOUS
<1>1. CASE UNCHANGED vars
  <2>1. TypeOK'
    BY <1>1 DEF vars, IInv, TypeOK
  <2>2. EntriesFit' /\ OneMaker'
    BY <1>1 DEF vars, IInv, EntriesFit, OneMaker, Making, Fresh
  <2>3. Keeps
    BY <1>1 DEF vars, Keeps, NeverReplaced, Accepted
  <2>4. \A q \in Inits : Local(q)'
    BY <1>1, <2>3, OthersKeep DEF vars
  <2>. QED
    BY <2>1, <2>2, <2>4 DEF IInv
<1>2. ASSUME NEW p \in Inits, Begin(p) \/ Step(p) \/ Crash(p)
      PROVE  IInv'
  <2>1. CASE Begin(p) \/ Report(p) \/ MkdirExists(p) \/ Fill(p) \/ Crash(p)
    BY <2>1, PlainStep
  <2>2. CASE Inspect(p)
    BY <2>2, InspectStep
  <2>3. CASE Mkdir(p)
    BY <2>3, MkdirStep
  <2>4. CASE Chmod(p)
    BY <2>4, ChmodStep
  <2>5. CASE UndoMkdir(p)
    BY <2>5, UndoMkdirStep
  <2>6. CASE CreateTemp(p)
    BY <2>6, CreateTempStep
  <2>7. CASE Link(p)
    BY <2>7, LinkStep
  <2>8. CASE Unlink(p) \/ GiveWay(p) \/ Discard(p)
    BY <2>8, RemoveStep
  <2>9. CASE Recheck(p)
    BY <2>9, RecheckStep
  <2>. QED
    BY <1>2, <2>1, <2>2, <2>3, <2>4, <2>5, <2>6, <2>7, <2>8, <2>9 DEF Step
<1>3. ASSUME NEW t \in Targets, UserCreates(t)
      PROVE  IInv'
  BY <1>3, UserStep
<1>. QED
  BY <1>1, <1>2, <1>3 DEF Next

-----------------------------------------------------------------------------
(* The invariant holds in every reachable state.                           *)
THEOREM InductiveInvariant == Spec => []IInv
<1>. QED
  BY InitIInv, StepIInv, PTL DEF Spec

(* No file under its final name is incomplete, however runs die, fail and  *)
(* overlap.                                                                *)
THEOREM NoPartialFile == Spec => []OnlyCompleteFiles
<1>1. IInv => OnlyCompleteFiles
  BY DEF IInv, EntriesFit, OnlyCompleteFiles
<1>. QED
  BY <1>1, InductiveInvariant, PTL

(* A run that succeeds has left, or found, everything there.               *)
THEOREM SuccessIsComplete == Spec => []SuccessMeansInitialized
<1>1. IInv => SuccessMeansInitialized
  <2>. SUFFICES ASSUME IInv, NEW p \in Inits, pc[p] = "done", NEW t \in Targets
                PROVE  Accepted(t) \/ Lost(t)
    BY DEF SuccessMeansInitialized, Lost
  <2>1. t < target[p]
    BY DEF IInv, Local, StageFits, TypeOK, Targets
  <2>. QED
    BY <2>1 DEF IInv, Local, Behind
<1>. QED
  BY <1>1, InductiveInvariant, PTL

(* Whatever earlier or simultaneous runs left behind is no reason to fail. *)
THEOREM FailureHasAReason == Spec => []RepeatedInitSucceeds
<1>1. IInv => RepeatedInitSucceeds
  BY DEF IInv, Local, FailedForAReason, RepeatedInitSucceeds
<1>. QED
  BY <1>1, InductiveInvariant, PTL

(* Only a run that dies, or cannot remove it, leaves its temporary file.   *)
THEOREM NoLitter == Spec => []NoTemporaryFileLeft
<1>1. IInv => NoTemporaryFileLeft
  BY DEF IInv, Local, TempFits, NoTemporaryFileLeft
<1>. QED
  BY <1>1, InductiveInvariant, PTL

(* What a step leaves at the paths: no file is replaced, and what init can  *)
(* use stays, but for a directory taken back.                               *)
LEMMA PathsKept ==
  ASSUME IInv, [Next]_vars
  PROVE  /\ strict' = strict /\ undone \subseteq undone'
         /\ \A t \in Targets : NeverReplaced(t)
         /\ \A t \in Targets : Accepted(t) => Accepted(t)' \/ Lost(t)'
<1>1. TypeOK /\ OneMaker /\ \A p \in Inits : Local(p)
  BY DEF IInv
<1>2. CASE UNCHANGED <<entry, strict, undone>>
  BY <1>2 DEF NeverReplaced, Accepted
<1>3. ASSUME NEW u \in Targets, entry[u] = "absent", NEW what, Place(u, what),
             UNCHANGED <<strict, undone>>
      PROVE  /\ \A t \in Targets : NeverReplaced(t)
             /\ \A t \in Targets : Accepted(t) => Accepted(t)'
  <2>1. \A t \in Targets : entry[t] # "absent" => entry'[t] = entry[t]
    BY <1>1, <1>3 DEF Place, TypeOK
  <2>. QED
    BY <2>1 DEF NeverReplaced, Accepted
<1>4. ASSUME NEW p \in Inits, Chmod(p) \/ UndoMkdir(p), ~UNCHANGED entry
      PROVE  /\ strict' = strict /\ undone \subseteq undone'
             /\ \A t \in Targets : NeverReplaced(t)
             /\ \A t \in Targets : Accepted(t) => Accepted(t)' \/ Lost(t)'
  <2>1. target[p] \in Targets /\ IsDirectory(target[p]) /\ entry[target[p]] = Fresh
    BY <1>1, <1>4 DEF Chmod, UndoMkdir, At, OneMaker, Making, Local, StageFits
  <2>2. \A t \in Targets : t # target[p] => entry'[t] = entry[t]
    BY <1>1, <1>4 DEF Chmod, UndoMkdir, Place, TypeOK
  <2>3. \/ entry'[target[p]] = "directory" /\ UNCHANGED <<strict, undone>>
        \/ strict' = strict /\ undone' = undone \cup {target[p]}
    BY <1>1, <1>4, <2>1 DEF Chmod, UndoMkdir, Place, TypeOK
  <2>4. \A t \in Targets : NeverReplaced(t)
    BY <2>1, <2>2 DEF NeverReplaced, Fresh
  <2>5. ASSUME NEW t \in Targets, Accepted(t)
        PROVE  Accepted(t)' \/ Lost(t)'
    <3>1. CASE t # target[p]
      BY <2>2, <2>5, <3>1 DEF Accepted
    <3>2. CASE t = target[p]
      <4>1. ~strict
        BY <2>1, <2>5, <3>2 DEF Accepted, Fresh
      <4>. QED
        BY <2>1, <2>3, <3>2, <4>1 DEF Accepted, Lost
    <3>. QED
      BY <3>1, <3>2
  <2>. QED
    BY <2>3, <2>4, <2>5
<1>5. ASSUME NEW p \in Inits, Mkdir(p) \/ Link(p), ~UNCHANGED entry
      PROVE  /\ target[p] \in Targets /\ entry[target[p]] = "absent"
             /\ \E what : Place(target[p], what)
             /\ UNCHANGED <<strict, undone>>
  <2>1. target[p] \in Targets
    BY <1>1, <1>5 DEF Mkdir, Link, At, Local, StageFits
  <2>2. ~Exists(target[p])
    BY <1>5 DEF Mkdir, Link
  <2>3. entry[target[p]] = "absent"
    BY <2>1, <2>2 DEF Exists
  <2>. QED
    BY <1>5, <2>1, <2>3 DEF Mkdir, Link
<1>6. ASSUME NEW t \in Targets, UserCreates(t)
      PROVE  entry[t] = "absent" /\ (\E what : Place(t, what)) /\ UNCHANGED <<strict, undone>>
  <2>1. ~Exists(t)
    BY <1>6 DEF UserCreates
  <2>2. entry[t] = "absent"
    BY <2>1 DEF Exists
  <2>. QED
    BY <1>6, <2>2 DEF UserCreates
<1>7. \/ UNCHANGED <<entry, strict, undone>>
      \/ \E t \in Targets : UserCreates(t)
      \/ \E p \in Inits : ~UNCHANGED entry /\ (Mkdir(p) \/ Link(p))
      \/ \E p \in Inits : ~UNCHANGED entry /\ (Chmod(p) \/ UndoMkdir(p))
      \/ UNCHANGED <<entry, strict>> /\ undone \subseteq undone'
  <2>1. ASSUME NEW p \in Inits, Begin(p) \/ Step(p) \/ Crash(p)
        PROVE  \/ UNCHANGED <<entry, strict, undone>>
               \/ ~UNCHANGED entry /\ (Mkdir(p) \/ Link(p))
               \/ ~UNCHANGED entry /\ (Chmod(p) \/ UndoMkdir(p))
               \/ UNCHANGED <<entry, strict>> /\ undone \subseteq undone'
    BY <2>1 DEF Begin, Step, Crash, Report, Inspect, MkdirExists, CreateTemp, Fill,
                Unlink, GiveWay, Recheck, Discard, Mkdir, Link, Chmod, UndoMkdir
  <2>. QED
    BY <2>1 DEF Next, vars
<1>8. CASE UNCHANGED <<entry, strict>> /\ undone \subseteq undone'
  BY <1>8 DEF NeverReplaced, Accepted
<1>. QED
  BY <1>2, <1>3, <1>4, <1>5, <1>6, <1>7, <1>8

(* Nothing of the user's, and no file that is there, is ever replaced.     *)
THEOREM NothingReplaced == Spec => NonDestructive
<1>1. IInv /\ [Next]_vars => [\A t \in Targets : NeverReplaced(t)]_vars
  BY PathsKept
<1>. QED
  BY <1>1, InductiveInvariant, PTL DEF Spec, NonDestructive

-----------------------------------------------------------------------------
(* Readers.                                                                *)

USE ReferencesAssumption

(* Readers leave the workspace alone: what is proved of init alone holds   *)
(* beside them.                                                            *)
THEOREM ReadersOnlyRead == ReadersSpec => Spec
<1>1. ReadersInit => Init
  BY DEF ReadersInit
<1>2. [ReadersNext]_<<vars, readerVars>> => [Next]_vars
  BY DEF ReadersNext, Read, Initialize
<1>. QED
  BY <1>1, <1>2, PTL DEF ReadersSpec, Spec

(* A file that is there, of init or of the user.                           *)
FileThere(t) == t \in Targets /\ ~IsDirectory(t) /\ entry[t] # "absent"

(* What the reader has seen so far.                                        *)
SeenStatus ==
  reading = "status" /\ reader # "not_initialized" =>
    \A t \in Targets \ unchecked : Accepted(t) \/ Lost(t)

SeenSections ==
  /\ Len(sections) <= Len(Asked)
  /\ \A i \in 1..Len(sections) :
       \/ FileThere(Asked[i]) /\ sections[i] = entry[Asked[i]]
       \/ sections[i] = "empty" /\ Defaulted

ReaderInv ==
  /\ references \in Seq(Nat) /\ sections \in Seq(Entries \cup {"empty"})
  /\ SeenStatus /\ SeenSections
  /\ reader = "initialized" => reading = "status" /\ unchecked = {}
  /\ reader \in {"next", "read", "loaded", "refused"} => reading # "status"
  /\ reader = "loaded" => Len(sections) = Len(Asked)
  /\ reader = "read" => Len(sections) < Len(Asked) /\ FileThere(Current)

(* What init does while the reader waits changes nothing it has seen.      *)
LEMMA InitKeepsReader ==
  ASSUME IInv, [Next]_vars, UNCHANGED readerVars, ReaderInv
  PROVE  ReaderInv'
<1>1. \A t : FileThere(t) => FileThere(t)' /\ entry'[t] = entry[t]
  <2>. SUFFICES ASSUME NEW t \in Targets, FileThere(t)
                PROVE  FileThere(t)' /\ entry'[t] = entry[t]
    BY DEF FileThere
  <2>1. entry[t] \in {"user", "foreign", "template"}
    BY DEF IInv, TypeOK, Entries, EntriesFit, FileThere
  <2>. QED
    BY <2>1, PathsKept DEF NeverReplaced, FileThere, IsDirectory
<1>2. SeenStatus'
  BY PathsKept DEF ReaderInv, SeenStatus, readerVars, Lost
<1>3. SeenSections'
  BY <1>1 DEF ReaderInv, SeenSections, readerVars, Asked, Defaulted
<1>. QED
  BY <1>1, <1>2, <1>3 DEF ReaderInv, readerVars, Asked, Defaulted, Current

(* Nor does reading on.                                                    *)
LEMMA ReadKeepsReader ==
  ASSUME IInv, Read, ReaderInv
  PROVE  ReaderInv'
<1>0. /\ entry' = entry /\ strict' = strict /\ undone' = undone
      /\ reading' = reading /\ references' = references
  BY DEF Read, vars, CheckTarget, ReportStatus, FindRoot, LookUp, ReadReference, FinishReferences
<1>1. CASE CheckTarget \/ ReportStatus
  <2>1. /\ sections' = sections /\ reader = "called" /\ reading = "status"
        /\ reader' \notin {"next", "read", "loaded", "refused"}
    BY <1>1 DEF CheckTarget, ReportStatus, Reader
  <2>2. SeenSections'
    BY <1>0, <2>1 DEF ReaderInv, SeenSections, Asked, Defaulted, FileThere, IsDirectory
  <2>3. SeenStatus' /\ (reader' = "initialized" => unchecked' = {})
    BY <1>0, <1>1, <2>1 DEF ReaderInv, SeenStatus, CheckTarget, ReportStatus, Reader, Accepted, Lost
  <2>. QED
    BY <1>0, <2>1, <2>2, <2>3 DEF ReaderInv
<1>2. CASE FindRoot \/ LookUp \/ ReadReference \/ FinishReferences
  <2>1. reading # "status"
    BY <1>2 DEF ReaderInv, FindRoot, LookUp, ReadReference, FinishReferences
  <2>2. /\ references \in Seq(Nat) /\ sections \in Seq(Entries \cup {"empty"})
        /\ Asked \in Seq(Nat) /\ Asked' = Asked /\ (Defaulted' <=> Defaulted)
    BY <1>0 DEF ReaderInv, Asked, Defaulted
  <2>3. \A t : FileThere(t)' <=> FileThere(t)
    BY <1>0 DEF FileThere, IsDirectory
  <2>4. CASE LoadFails
    BY <1>0, <2>1, <2>2, <2>4 DEF LoadFails, Reader, ReaderInv, SeenStatus, SeenSections
  <2>5. CASE UNCHANGED sections /\ ~LoadFails
    <3>1. /\ reader' \in {"next", "read", "loaded", "refused"}
          /\ reader' = "loaded" => Len(sections) = Len(Asked)
          /\ reader' = "read" => Len(sections) < Len(Asked) /\ FileThere(Current)
      <4>1. CASE FindRoot \/ FinishReferences
        BY <4>1 DEF FindRoot, FinishReferences, Reader
      <4>2. CASE LookUp
        <5>1. CASE Reader("read")
          BY <2>5, <4>2, <5>1 DEF LookUp, Reader, FileThere, Exists
        <5>2. CASE UNCHANGED reader
          BY <4>2, <5>2 DEF LookUp, Reader
        <5>. QED
          BY <2>5, <4>2, <5>1, <5>2 DEF LookUp
      <4>3. CASE ReadReference
        BY <2>2, <2>5, <4>3 DEF ReadReference, AddSection, Reader
      <4>. QED
        BY <1>2, <4>1, <4>2, <4>3
    <3>2. SeenSections'
      BY <1>0, <2>2, <2>3, <2>5 DEF ReaderInv, SeenSections
    <3>3. Current' = Current
      BY <2>2, <2>5 DEF Current
    <3>. QED
      BY <1>0, <2>1, <2>2, <2>3, <2>5, <3>1, <3>2, <3>3 DEF ReaderInv, SeenStatus
  <2>6. ASSUME NEW content \in Entries \cup {"empty"}, AddSection(content), reader' = "next",
               Len(sections) < Len(Asked),
               \/ FileThere(Current) /\ content = entry[Current]
               \/ content = "empty" /\ Defaulted
        PROVE  ReaderInv'
    <3>1. /\ sections' \in Seq(Entries \cup {"empty"}) /\ Len(sections') = Len(sections) + 1
          /\ \A i \in 1..Len(sections) : sections'[i] = sections[i]
          /\ sections'[Len(sections) + 1] = content
      BY <2>2, <2>6 DEF AddSection
    <3>2. Len(sections) \in Nat /\ Len(Asked) \in Nat
      BY <2>2
    <3>3. ASSUME NEW i \in 1..Len(sections')
          PROVE  \/ FileThere(Asked[i]) /\ sections'[i] = entry[Asked[i]]
                 \/ sections'[i] = "empty" /\ Defaulted
      <4>1. CASE i \in 1..Len(sections)
        BY <3>1, <4>1 DEF ReaderInv, SeenSections
      <4>2. CASE i = Len(sections) + 1
        BY <2>6, <3>1, <4>2 DEF Current
      <4>. QED
        BY <3>1, <3>2, <4>1, <4>2
    <3>4. Len(sections') <= Len(Asked)
      BY <2>6, <3>1, <3>2
    <3>5. SeenSections'
      BY <1>0, <2>2, <2>3, <3>3, <3>4 DEF SeenSections
    <3>. QED
      BY <1>0, <2>1, <2>2, <2>6, <3>1, <3>5 DEF ReaderInv, SeenStatus
  <2>7. CASE ~LoadFails /\ ~UNCHANGED sections
    <3>1. CASE LookUp
      <4>1. AddSection("empty") /\ Defaulted /\ reader' = "next" /\ Len(sections) < Len(Asked)
        BY <2>7, <3>1 DEF LookUp
      <4>. QED
        BY <2>6, <4>1
    <3>2. CASE ReadReference
      <4>1. /\ AddSection(entry[Current]) /\ reader' = "next" /\ Len(sections) < Len(Asked)
            /\ FileThere(Current)
        BY <2>7, <3>2 DEF ReadReference, Reader, ReaderInv
      <4>2. entry[Current] \in Entries
        BY <4>1 DEF IInv, TypeOK, FileThere
      <4>. QED
        BY <2>6, <4>1, <4>2
    <3>. QED
      BY <1>2, <2>7, <3>1, <3>2 DEF FindRoot, FinishReferences
  <2>. QED
    BY <2>4, <2>5, <2>7
<1>. QED
  BY <1>1, <1>2 DEF Read

(* Every report of a reader is true when it is made, and stays true.       *)
THEOREM ReportsStayTrue == ReadersSpec => []WhatReadersSawStaysTrue
<1>1. ReadersInit => ReaderInv
  <2>. SUFFICES ASSUME ReadersInit PROVE ReaderInv
    OBVIOUS
  <2>1. references \in Seq(Nat)
    <3>1. CASE reading = "status"
      BY <3>1 DEF ReadersInit
    <3>2. CASE reading \in {"bootstrap", "skills"}
      <4>1. ReferenceLists[reading] \in SUBSET Seq(Nat)
        BY <3>2
      <4>. QED
        BY <3>2, <4>1 DEF ReadersInit
    <3>. QED
      BY <3>1, <3>2 DEF ReadersInit
  <2>2. Asked \in Seq(Nat)
    BY <2>1 DEF Asked
  <2>. QED
    BY <2>1, <2>2 DEF ReadersInit, ReaderInv, SeenStatus, SeenSections
<1>2. IInv /\ ReaderInv /\ [ReadersNext]_<<vars, readerVars>> => ReaderInv'
  <2>. SUFFICES ASSUME IInv, ReaderInv, [ReadersNext]_<<vars, readerVars>> PROVE ReaderInv'
    OBVIOUS
  <2>1. CASE Read
    BY <2>1, ReadKeepsReader
  <2>2. CASE [Next]_vars /\ UNCHANGED readerVars
    BY <2>2, InitKeepsReader
  <2>. QED
    BY <2>1, <2>2 DEF ReadersNext, Initialize
<1>3. IInv /\ ReaderInv => WhatReadersSawStaysTrue
  <2>. SUFFICES ASSUME IInv, ReaderInv PROVE WhatReadersSawStaysTrue
    OBVIOUS
  <2>1. StatusStaysTrue
    BY DEF ReaderInv, SeenStatus, StatusStaysTrue, Lost
  <2>2. SnapshotStaysTrue
    BY DEF ReaderInv, SeenSections, SnapshotStaysTrue, FileThere, IInv, EntriesFit
  <2>. QED
    BY <2>1, <2>2 DEF WhatReadersSawStaysTrue
<1>. QED
  BY <1>1, <1>2, <1>3, ReadersOnlyRead, InductiveInvariant, PTL DEF ReadersSpec
=============================================================================
