--------------------------- MODULE WorkspaceReaders ---------------------------
(***************************************************************************)
(* Those who read a workspace while init is making it: WorkspaceStatus,    *)
(* and the loaders of Bootstrap files and Skills.  They look at one target *)
(* after the other, so that what they report was never true at one instant;*)
(* the question is what of it stays true.  A reader changes nothing, so one*)
(* of any kind beside any number of inits stands for all.                  *)
(***************************************************************************)
EXTENDS WorkspaceInit, Sequences

CONSTANTS
  DefaultReferences,  \* the Bootstrap files read if none is named
  ReferenceLists,     \* the lists of references each loader may be given
  SkillFiles          \* the files named SKILL.md

ASSUME ReferencesAssumption ==
  /\ DefaultReferences \in Seq(Nat)
  /\ ReferenceLists \in [{"bootstrap", "skills"} -> SUBSET Seq(Nat)]

VARIABLES
  reading,     \* what the reader does: "status", "bootstrap" or "skills"
  references,  \* the list a loader was given; 0 stands for one that is no path inside the root
  reader,      \* where the reader is
  unchecked,   \* the targets WorkspaceStatus has not looked at
  sections     \* what a loader has read, in order

readerVars == <<reading, references, reader, unchecked, sections>>

ReadersInit ==
  /\ Init
  /\ reading \in {"status", "bootstrap", "skills"}
  /\ references \in (IF reading = "status" THEN {<<>>} ELSE ReferenceLists[reading])
  /\ reader = "called"
  /\ unchecked = (IF reading = "status" THEN Targets ELSE {})
  /\ sections = <<>>

Reader(stage) == reader' = stage

-----------------------------------------------------------------------------
(* WorkspaceStatus.                                                        *)

(* The root and the directories in order, then the files in any.           *)
NextToCheck(t) ==
  /\ t \in unchecked
  /\ \A u \in unchecked : u < t => ~IsDirectory(u)

(* Lstat of one target: it must be there and have its shape.               *)
CheckTarget ==
  /\ reading = "status" /\ reader = "called"
  /\ \E t \in Targets :
       /\ NextToCheck(t)
       /\ \/ Accepted(t) /\ unchecked' = unchecked \ {t} /\ UNCHANGED reader
          \/ Reader("not_initialized") /\ unchecked' = {}
  /\ UNCHANGED <<reading, references, sections>>

ReportStatus ==
  /\ reading = "status" /\ reader = "called"
  /\ unchecked = {}
  /\ Reader("initialized")
  /\ UNCHANGED <<reading, references, unchecked, sections>>

-----------------------------------------------------------------------------
(* The loaders.                                                            *)

Defaulted == reading = "bootstrap" /\ references = <<>>

Asked == IF Defaulted THEN DefaultReferences ELSE references

Current == Asked[Len(sections) + 1]

(* An empty snapshot is returned with the error.                           *)
LoadFails ==
  /\ Reader("refused")
  /\ sections' = <<>>

AddSection(content) == sections' = Append(sections, content)

(* canonicalRoot.                                                          *)
FindRoot ==
  /\ reading # "status" /\ reader = "called"
  /\ \/ Exists(1) /\ Reader("next")
     \/ Reader("refused")
  /\ UNCHANGED <<reading, references, unchecked, sections>>

(* Load of Skills: the file's name, and no reference twice.                *)
SkillRefused(reference) ==
  /\ reading = "skills"
  /\ \/ reference \notin SkillFiles
     \/ \E i \in DOMAIN sections : references[i] = reference

(* Mutant: whatever is missing has an empty section.                       *)
LookUpLenient ==
  /\ reader = "next"
  /\ Len(sections) < Len(Asked)
  /\ \/ LoadFails
     \/ Current = 0 /\ LoadFails
     \/ Current # 0 /\ ~Exists(Current) /\ AddSection("empty") /\ UNCHANGED reader
     \/ /\ Current # 0 /\ Exists(Current) /\ ~IsDirectory(Current) /\ ~SkillRefused(Current)
        /\ Reader("read")
        /\ UNCHANGED sections
  /\ UNCHANGED <<reading, references, unchecked>>

(* confinedExistingPath.  What is missing, or a link to nowhere, is no     *)
(* error among the default references; a link to a file inside the root is *)
(* as good as the file, and what is no regular file is refused.            *)
LookUp ==
  /\ reader = "next"
  /\ Len(sections) < Len(Asked)
  /\ \/ LoadFails
     \/ /\ Defaulted
        /\ ~Exists(Current) \/ entry[Current] = "foreign"
        /\ AddSection("empty")
        /\ UNCHANGED reader
     \/ /\ Current # 0 /\ Exists(Current) /\ ~IsDirectory(Current) /\ ~SkillRefused(Current)
        /\ Reader("read")
        /\ UNCHANGED sections
  /\ UNCHANGED <<reading, references, unchecked>>

(* os.ReadFile of the path that was found.                                 *)
ReadReference ==
  /\ reader = "read"
  /\ \/ LoadFails
     \/ AddSection(entry[Current]) /\ Reader("next")
  /\ UNCHANGED <<reading, references, unchecked>>

FinishReferences ==
  /\ reader = "next"
  /\ Len(sections) = Len(Asked)
  /\ Reader("loaded")
  /\ UNCHANGED <<reading, references, unchecked, sections>>

-----------------------------------------------------------------------------
Read ==
  /\ CheckTarget \/ ReportStatus \/ FindRoot \/ LookUp \/ ReadReference \/ FinishReferences
  /\ UNCHANGED vars

Initialize == Next /\ UNCHANGED readerVars

ReadersNext == Read \/ Initialize

ReadersFairness == \A p \in Inits : WF_<<vars, readerVars>>(Step(p) /\ UNCHANGED readerVars)

ReadersSpec ==
  ReadersInit /\ [][ReadersNext]_<<vars, readerVars>> /\ ReadersFairness

-----------------------------------------------------------------------------
(* Properties.                                                             *)

(* A status of "initialized" is and stays true, although its targets were  *)
(* looked at one by one while others made them, but for a directory that   *)
(* was taken away again when its Chmod failed.  (WorkspaceStatus against   *)
(* every step of init.)                                                    *)
StatusStaysTrue ==
  reader = "initialized" =>
    \A t \in Targets : Accepted(t) \/ (~strict /\ t \in undone)

(* A loaded snapshot has a section for every reference, in order; it is    *)
(* what is at that path, then and later, and never part of a template, or  *)
(* it is empty, for a default reference that was missing.  (The loaders    *)
(* against the publication of files by Link.)                              *)
SnapshotStaysTrue ==
  reader = "loaded" =>
    /\ Len(sections) = Len(Asked)
    /\ \A i \in DOMAIN sections :
         \/ sections[i] = entry[Asked[i]] /\ sections[i] # "partial"
         \/ sections[i] = "empty" /\ Defaulted

WhatReadersSawStaysTrue == StatusStaysTrue /\ SnapshotStaysTrue
=============================================================================
