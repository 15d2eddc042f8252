---------------------------- MODULE WorkspaceInit ----------------------------
(***************************************************************************)
(* `oryxos init` on one workspace: several runs of initializeWorkspace, one*)
(* after the other or at once, each of which may die between any two calls *)
(* to the file system, while the user may create files of their own.  One  *)
(* action per file system call; every call may fail.                       *)
(*                                                                         *)
(* Targets are numbered in the order of creation: the workspace root, its  *)
(* directories, then the files.                                            *)
(***************************************************************************)
EXTENDS Naturals

CONSTANTS
  Inits,        \* runs of init
  Directories,  \* number of directories, the root included
  Files,        \* number of files
  Parent        \* the directory each target is in; 0 for the root

Targets == 1..(Directories + Files)

ASSUME DirectoriesAssumption == Directories \in Nat \ {0}
ASSUME FilesAssumption == Files \in Nat
ASSUME ParentAssumption ==
  /\ Parent \in [Targets -> 0..Directories]
  /\ \A t \in Targets : Parent[t] < t /\ (Parent[t] = 0) = (t = 1)

VARIABLES
  entry,    \* what is at each target's path
  strict,   \* the umask takes permission bits that a workspace directory needs
  pc,       \* where each run is
  target,   \* the target it deals with
  temp,     \* its temporary file: "none", "partial" or "complete"
  ioError,  \* runs in which a file system call failed by itself
  stuck,    \* runs whose temporary file could not be removed
  undone    \* directories removed again because Chmod failed

vars == <<entry, strict, pc, target, temp, ioError, stuck, undone>>

(* "user" is a file or a directory with mode 0750 of the user, "foreign"   *)
(* anything else that init did not make and cannot use; a directory of init*)
(* is "unset" until it has its mode, and a file of init could be "partial".*)
Entries == {"absent", "user", "foreign", "unset", "directory", "partial", "template"}

Finished == {"done", "failed", "crashed"}

TypeOK ==
  /\ entry \in [Targets -> Entries]
  /\ strict \in BOOLEAN
  /\ pc \in [Inits -> {"idle", "inspect", "mkdir", "chmod", "undo", "temp", "fill", "link",
                       "unlink", "give_way", "recheck", "discard"} \cup Finished]
  /\ target \in [Inits -> 1..(Directories + Files + 1)]
  /\ temp \in [Inits -> {"none", "partial", "complete"}]
  /\ ioError \subseteq Inits /\ stuck \subseteq Inits
  /\ undone \subseteq 1..Directories

Exists(t) == t \in {0} \cup {u \in Targets : entry[u] # "absent"}

(* Any workspace the user may have: what is in a directory needs it.       *)
Init ==
  /\ entry \in [Targets -> {"absent", "user", "foreign"}]
  /\ \A t \in {u \in Targets : Exists(u)} : Exists(Parent[t])
  /\ strict \in BOOLEAN
  /\ pc = [p \in Inits |-> "idle"]
  /\ target = [p \in Inits |-> 1]
  /\ temp = [p \in Inits |-> "none"]
  /\ ioError = {} /\ stuck = {} /\ undone = {}

-----------------------------------------------------------------------------
At(p, stage) == pc[p] = stage
Goto(p, stage) == pc' = [pc EXCEPT ![p] = stage]

Place(t, what) == entry' = [entry EXCEPT ![t] = what]

IsDirectory(t) == t <= Directories

(* Exists already, and is what init needs.                                 *)
Accepted(t) ==
  entry[t] \in {"user"} \cup (IF IsDirectory(t) THEN {"directory"} ELSE {"partial", "template"})

Empty(t) ==
  /\ \A u \in Targets : Parent[u] = t => ~Exists(u)
  /\ \A q \in Inits : temp[q] # "none" => Parent[target[q]] # t

NextTarget(p) ==
  /\ target' = [target EXCEPT ![p] = @ + 1]
  /\ Goto(p, "inspect")

(* A call fails for a reason of its own.                                   *)
IOFails(p, stage) ==
  /\ ioError' = ioError \cup {p}
  /\ Goto(p, stage)

Begin(p) ==
  /\ At(p, "idle")
  /\ Goto(p, "inspect")
  /\ UNCHANGED <<entry, strict, target, temp, ioError, stuck, undone>>

(* All targets are dealt with; the report may fail to be written.          *)
Report(p) ==
  /\ At(p, "inspect")
  /\ target[p] \notin Targets
  /\ \/ Goto(p, "done") /\ UNCHANGED ioError
     \/ IOFails(p, "failed")
  /\ UNCHANGED <<entry, strict, target, temp, stuck, undone>>

(* Mutant: whatever is there is accepted.                                  *)
InspectExistence(p) ==
  LET t == target[p] IN
    /\ At(p, "inspect")
    /\ t \in Targets
    /\ \/ Exists(t) /\ NextTarget(p) /\ UNCHANGED ioError
       \/ /\ ~Exists(t)
          /\ Goto(p, IF IsDirectory(t) THEN "mkdir" ELSE "temp")
          /\ UNCHANGED <<target, ioError>>
       \/ IOFails(p, "failed") /\ UNCHANGED target
    /\ UNCHANGED <<entry, strict, temp, stuck, undone>>

(* Lstat, and what it finds: a target that exists is used as it is or      *)
(* refused, never changed.                                                 *)
Inspect(p) ==
  LET t == target[p] IN
    /\ At(p, "inspect")
    /\ t \in Targets
    /\ \/ Accepted(t) /\ NextTarget(p) /\ UNCHANGED ioError
       \/ /\ ~Accepted(t)
          /\ Goto(p, IF Exists(t) THEN "failed" ELSE IF IsDirectory(t) THEN "mkdir" ELSE "temp")
          /\ UNCHANGED <<target, ioError>>
       \/ IOFails(p, "failed") /\ UNCHANGED target
    /\ UNCHANGED <<entry, strict, temp, stuck, undone>>

-----------------------------------------------------------------------------
(* ensureWorkspaceDirectory.                                               *)

Mkdir(p) ==
  /\ At(p, "mkdir")
  /\ ~Exists(target[p])
  /\ \/ /\ Exists(Parent[target[p]])
        /\ Place(target[p], IF strict THEN "unset" ELSE "directory")
        /\ Goto(p, "chmod")
        /\ UNCHANGED ioError
     \/ /\ ~Exists(Parent[target[p]])
        /\ Goto(p, "failed")
        /\ UNCHANGED <<entry, ioError>>
     \/ IOFails(p, "failed") /\ UNCHANGED entry
  /\ UNCHANGED <<strict, target, temp, stuck, undone>>

(* Mutant: Mkdir is called again.                                          *)
MkdirAgain(p) ==
  /\ At(p, "mkdir")
  /\ Exists(target[p])
  /\ Goto(p, "mkdir")
  /\ UNCHANGED <<entry, strict, target, temp, ioError, stuck, undone>>

(* Somebody was faster: the path is looked at again.                       *)
MkdirExists(p) ==
  /\ At(p, "mkdir")
  /\ Exists(target[p])
  /\ Goto(p, "inspect")
  /\ UNCHANGED <<entry, strict, target, temp, ioError, stuck, undone>>

Chmod(p) ==
  /\ At(p, "chmod")
  /\ \/ Place(target[p], "directory") /\ NextTarget(p) /\ UNCHANGED ioError
     \/ IOFails(p, "undo") /\ UNCHANGED <<entry, target>>
  /\ UNCHANGED <<strict, temp, stuck, undone>>

(* The directory is removed again, if nothing is in it and Remove succeeds.*)
UndoMkdir(p) ==
  /\ At(p, "undo")
  /\ \/ /\ Empty(target[p])
        /\ Place(target[p], "absent")
        /\ undone' = undone \cup {target[p]}
     \/ UNCHANGED <<entry, undone>>
  /\ Goto(p, "failed")
  /\ UNCHANGED <<strict, target, temp, ioError, stuck>>

-----------------------------------------------------------------------------
(* createWorkspaceFile.                                                    *)

CreateTemp(p) ==
  /\ At(p, "temp")
  /\ \/ /\ Exists(Parent[target[p]])
        /\ temp' = [temp EXCEPT ![p] = "partial"]
        /\ Goto(p, "fill")
        /\ UNCHANGED ioError
     \/ /\ ~Exists(Parent[target[p]])
        /\ Goto(p, "failed")
        /\ UNCHANGED <<temp, ioError>>
     \/ IOFails(p, "failed") /\ UNCHANGED temp
  /\ UNCHANGED <<entry, strict, target, stuck, undone>>

(* Mutant: a short write goes unnoticed.                                   *)
FillUnchecked(p) ==
  /\ At(p, "fill")
  /\ temp' \in {temp, [temp EXCEPT ![p] = "complete"]}
  /\ Goto(p, "link")
  /\ UNCHANGED <<entry, strict, target, ioError, stuck, undone>>

(* Chmod, Write, Sync and Close of the temporary file.                     *)
Fill(p) ==
  /\ At(p, "fill")
  /\ \/ /\ temp' = [temp EXCEPT ![p] = "complete"]
        /\ Goto(p, "link")
        /\ UNCHANGED ioError
     \/ IOFails(p, "discard") /\ UNCHANGED temp
  /\ UNCHANGED <<entry, strict, target, stuck, undone>>

Published(p) == IF temp[p] = "complete" THEN "template" ELSE "partial"

(* Mutant: Rename instead of Link.                                         *)
LinkReplaces(p) ==
  /\ At(p, "link")
  /\ \/ /\ Place(target[p], Published(p))
        /\ Goto(p, "unlink")
        /\ UNCHANGED ioError
     \/ IOFails(p, "discard") /\ UNCHANGED entry
  /\ UNCHANGED <<strict, target, temp, stuck, undone>>

(* Link publishes the file under its name unless something has that name.  *)
Link(p) ==
  /\ At(p, "link")
  /\ \/ /\ ~Exists(target[p])
        /\ Place(target[p], Published(p))
        /\ Goto(p, "unlink")
        /\ UNCHANGED ioError
     \/ Exists(target[p]) /\ Goto(p, "give_way") /\ UNCHANGED <<entry, ioError>>
     \/ IOFails(p, "discard") /\ UNCHANGED entry
  /\ UNCHANGED <<strict, target, temp, stuck, undone>>

(* Remove of the temporary file.                                           *)
RemoveTemp(p) == temp' = [temp EXCEPT ![p] = "none"]

RemoveTempFails(p) ==
  /\ stuck' = stuck \cup {p}
  /\ IOFails(p, "failed")
  /\ UNCHANGED temp

Unlink(p) ==
  /\ At(p, "unlink")
  /\ \/ RemoveTemp(p) /\ NextTarget(p) /\ UNCHANGED <<ioError, stuck>>
     \/ RemoveTempFails(p) /\ UNCHANGED target
  /\ UNCHANGED <<entry, strict, undone>>

(* Mutant: the file of the faster run is an error.                         *)
GiveWayFailing(p) ==
  /\ At(p, "give_way")
  /\ \/ RemoveTemp(p) /\ Goto(p, "failed") /\ UNCHANGED <<ioError, stuck>>
     \/ RemoveTempFails(p)
  /\ UNCHANGED <<entry, strict, target, undone>>

(* Somebody else published the file: the temporary one is removed, and what*)
(* is there now is looked at.                                              *)
GiveWay(p) ==
  /\ At(p, "give_way")
  /\ \/ RemoveTemp(p) /\ Goto(p, "recheck") /\ UNCHANGED <<ioError, stuck>>
     \/ RemoveTempFails(p)
  /\ UNCHANGED <<entry, strict, target, undone>>

Recheck(p) ==
  /\ At(p, "recheck")
  /\ \/ Accepted(target[p]) /\ NextTarget(p) /\ UNCHANGED ioError
     \/ ~Accepted(target[p]) /\ Goto(p, "failed") /\ UNCHANGED <<target, ioError>>
     \/ IOFails(p, "failed") /\ UNCHANGED target
  /\ UNCHANGED <<entry, strict, temp, stuck, undone>>

(* cleanupBeforePublication.                                               *)
Discard(p) ==
  /\ At(p, "discard")
  /\ \/ RemoveTemp(p) /\ Goto(p, "failed") /\ UNCHANGED <<ioError, stuck>>
     \/ RemoveTempFails(p)
  /\ UNCHANGED <<entry, strict, target, undone>>

-----------------------------------------------------------------------------
(* The process dies; what it made stays.                                   *)
Crash(p) ==
  /\ pc[p] \notin {"idle"} \cup Finished
  /\ Goto(p, "crashed")
  /\ UNCHANGED <<entry, strict, target, temp, ioError, stuck, undone>>

UserCreates(t) ==
  /\ ~Exists(t)
  /\ Exists(Parent[t])
  /\ \E what \in {"user", "foreign"} : Place(t, what)
  /\ UNCHANGED <<strict, pc, target, temp, ioError, stuck, undone>>

Step(p) ==
  \/ Report(p) \/ Inspect(p) \/ Mkdir(p) \/ MkdirExists(p) \/ Chmod(p) \/ UndoMkdir(p)
  \/ CreateTemp(p) \/ Fill(p) \/ Link(p) \/ Unlink(p) \/ GiveWay(p) \/ Recheck(p) \/ Discard(p)

Next ==
  \/ \E p \in Inits : Begin(p) \/ Step(p) \/ Crash(p)
  \/ \E t \in Targets : UserCreates(t)

Spec == Init /\ [][Next]_vars

(* A run that has begun goes on, and its file system calls return.         *)
Fairness == \A p \in Inits : WF_vars(Step(p))

FairSpec == Spec /\ Fairness

-----------------------------------------------------------------------------
(* Properties.                                                             *)

(* init never changes or removes what the user made, and never replaces a  *)
(* file that is there, also when the user or another run makes it between  *)
(* init's look and its write.  (Link instead of Rename; foundation design: *)
(* "idempotent and non-destructive".)                                      *)
NeverReplaced(t) ==
  (entry[t] \in {"user", "foreign", "partial", "template"}) => entry'[t] = entry[t]

NonDestructive == [][\A t \in Targets : NeverReplaced(t)]_vars

(* A file under its final name has its complete content, whenever a run    *)
(* dies or a write fails.  (Link only after Close; the temporary file.)    *)
OnlyCompleteFiles == \A t \in Targets : entry[t] # "partial"

(* When init succeeds, everything it is to make is there and stays there.  *)
(* The one exception: a directory another run made under a permissive      *)
(* umask, and took away again when its own Chmod failed.  (UndoMkdir after *)
(* the directory was acceptable to others.)                                *)
SuccessMeansInitialized ==
  \A p \in Inits : pc[p] = "done" =>
    \A t \in Targets : Accepted(t) \/ (~strict /\ t \in undone)

(* init is safe to repeat and to run twice at once: whatever earlier runs  *)
(* left behind, it fails only by an error of the file system, by something *)
(* the user put in its way, or by a directory without its mode, which only *)
(* a umask that takes bits away, or an undone Mkdir, leaves to see.        *)
(* (ErrExist of Mkdir and Link; foundation design: "idempotent".)          *)
RepeatedInitSucceeds ==
  \A p \in Inits : pc[p] = "failed" =>
    p \in ioError \/ strict \/ undone # {} \/ \E t \in Targets : entry[t] = "foreign"

(* A run that ends by itself leaves no temporary file, unless removing it  *)
(* failed.  (The cleanup on every error return of createWorkspaceFile.)    *)
NoTemporaryFileLeft ==
  \A p \in Inits : pc[p] \in {"done", "failed"} /\ temp[p] # "none" => p \in stuck

(* Every run that begins ends, although Mkdir is retried while others make *)
(* and remove the directory.                                               *)
EveryInitEnds == \A p \in Inits : pc[p] # "idle" ~> pc[p] \in Finished
=============================================================================
