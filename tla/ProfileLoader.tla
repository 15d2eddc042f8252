---------------------------- MODULE ProfileLoader ----------------------------
(***************************************************************************)
(* Loader.LoadDirectory: the Profile files of a directory become one       *)
(* immutable snapshot, in the order of their paths, while the user goes on *)
(* editing.  A load lists the directory once and reads each listed file    *)
(* once, so that an editor at work shows only in what the listing and each *)
(* reading return; both are chosen anew for every load.                    *)
(*                                                                         *)
(* The text of a file is a sequence of items.  Most set a field; "broken"  *)
(* is no YAML, "separator" begins another document, and an item with a     *)
(* member `env` has a placeholder for its value.  The text of a variable   *)
(* takes the place of its placeholder before anything is parsed: it gives  *)
(* a value, and what follows its first line is items like any other.       *)
(***************************************************************************)
EXTENDS Integers, Sequences, SequencesExt

CONSTANTS
  Loads,         \* calls of LoadDirectory
  YAMLPaths,     \* the paths ending in .yaml or .yml, numbered in lexical order
  TextsAt,       \* the texts the file at each path may have, in a sequence
  Environment,   \* the value, and the items after it, of each variable set
  TrimSpace,     \* strings.TrimSpace on the values used
  DeclaredProviders,
  Fault          \* what loadFile returns for an invalid file

ASSUME YAMLPathsAssumption == YAMLPaths \subseteq Nat

VARIABLES
  stage,        \* where each load is
  pending,      \* the paths it has listed and not read yet
  outcome,      \* what loadFile has returned for each path it read
  snapshot,     \* the Profiles registered, in order
  diagnostics   \* the paths skipped, in order

loaderVars == <<stage, pending, outcome, snapshot, diagnostics>>

LoaderInit ==
  /\ stage = [l \in Loads |-> "called"]
  /\ pending = [l \in Loads |-> <<>>]
  /\ outcome = [l \in Loads |-> <<>>]
  /\ snapshot = [l \in Loads |-> <<>>]
  /\ diagnostics = [l \in Loads |-> <<>>]

-----------------------------------------------------------------------------
(* loadFile.                                                               *)

KnownFields ==
  {"name", "provider.name", "provider.model", "provider.temperature",
   "settings.max_iterations", "settings.max_history_turns", "bootstrap"}

HasPlaceholder(item) == "env" \in DOMAIN item

(* One pass over the text, comments included; what a variable brings in is *)
(* not looked at again.                                                    *)
ExpandEnvironment(text) ==
  FlattenSeq([i \in DOMAIN text |->
    IF HasPlaceholder(text[i])
      THEN LET set == Environment[text[i].env]
           IN  <<[field |-> text[i].field, value |-> set.value]>> \o set.more
      ELSE <<text[i]>>])

Expands(text) ==
  \A i \in DOMAIN text : HasPlaceholder(text[i]) => text[i].env \in DOMAIN Environment

Fields(items) == SelectSeq(items, LAMBDA item : item.field # "comment")

IntegerFields == {"settings.max_iterations", "settings.max_history_turns"}

(* One YAML document, with known fields only and each of them once, and a  *)
(* number where one is asked for.                                          *)
DecodesStrictly(items) ==
  /\ Fields(items) # <<>>
  /\ \A i \in DOMAIN items : items[i].field \in KnownFields \cup {"comment"}
  /\ \A i \in DOMAIN items : items[i].field \in IntegerFields => items[i].value \in Int
  /\ \A i, j \in DOMAIN Fields(items) :
       Fields(items)[i].field = Fields(items)[j].field => i = j

Given(items, field) == \E i \in DOMAIN items : items[i].field = field

ValueOr(items, field, default) ==
  IF Given(items, field)
    THEN items[CHOOSE i \in DOMAIN items : items[i].field = field].value
    ELSE default

(* Mutant: the Provider's name is compared without its spaces and kept with*)
(* them.                                                                   *)
ProfileUntrimmed(items) ==
  [name          |-> TrimSpace[ValueOr(items, "name", "")],
   provider      |-> ValueOr(items, "provider.name", ""),
   maxIterations |-> ValueOr(items, "settings.max_iterations", 10),
   historyTurns  |-> ValueOr(items, "settings.max_history_turns", 20)]

ProfileOf(items) ==
  [name          |-> TrimSpace[ValueOr(items, "name", "")],
   provider      |-> TrimSpace[ValueOr(items, "provider.name", "")],
   maxIterations |-> ValueOr(items, "settings.max_iterations", 10),
   historyTurns  |-> ValueOr(items, "settings.max_history_turns", 20)]

Validates(items) ==
  /\ TrimSpace[ValueOr(items, "name", "")] # ""
  /\ TrimSpace[ValueOr(items, "provider.name", "")] \in DeclaredProviders
  /\ TrimSpace[ValueOr(items, "provider.model", "")] # ""
  /\ ValueOr(items, "provider.temperature", "finite") = "finite"
  /\ ValueOr(items, "settings.max_iterations", 10) > 0
  /\ ValueOr(items, "settings.max_history_turns", 20) > 0

LoadFile(text) ==
  IF /\ Expands(text)
     /\ DecodesStrictly(ExpandEnvironment(text))
     /\ Validates(ExpandEnvironment(text))
    THEN ProfileOf(ExpandEnvironment(text))
    ELSE Fault

-----------------------------------------------------------------------------
(* LoadDirectory.                                                          *)

Enter(l, where) == stage' = [stage EXCEPT ![l] = where]

(* The listings that there may be, sorted.                                 *)
Listings ==
  {paths \in UNION {[1..n -> YAMLPaths] : n \in 0..Cardinality(YAMLPaths)} :
     \A i, j \in DOMAIN paths : i < j => paths[i] < paths[j]}

(* os.ReadDir fails, or lists what there is.  Directories and other files  *)
(* are passed over, and paths are sorted.                                  *)
ReadDirectory(l) ==
  /\ stage[l] = "called"
  /\ \/ /\ \E paths \in Listings : pending' = [pending EXCEPT ![l] = paths]
        /\ Enter(l, "loading")
     \/ /\ Enter(l, "failed")
        /\ UNCHANGED pending
  /\ UNCHANGED <<outcome, snapshot, diagnostics>>

Registered(l, name) == \E i \in DOMAIN snapshot[l] : snapshot[l][i].name = name

Register(l, profile) ==
  /\ snapshot' = [snapshot EXCEPT ![l] = Append(@, profile)]
  /\ UNCHANGED diagnostics

Diagnose(l, path) ==
  /\ diagnostics' = [diagnostics EXCEPT ![l] = Append(@, path)]
  /\ UNCHANGED snapshot

(* Mutant: a later file of the same name takes the earlier one's place.    *)
AdmitLast(l, path, loaded) ==
  IF loaded # Fault /\ Registered(l, loaded.name)
    THEN /\ snapshot' = [snapshot EXCEPT ![l] =
              [i \in DOMAIN @ |-> IF @[i].name = loaded.name THEN loaded ELSE @[i]]]
         /\ UNCHANGED diagnostics
    ELSE IF loaded = Fault THEN Diagnose(l, path) ELSE Register(l, loaded)

Admit(l, path, loaded) ==
  \/ loaded # Fault /\ ~Registered(l, loaded.name) /\ Register(l, loaded)
  \/ loaded # Fault /\ Registered(l, loaded.name) /\ Diagnose(l, path)
  \/ loaded = Fault /\ Diagnose(l, path)

(* The next listed file: os.ReadFile fails, or returns what is there now.  *)
LoadNext(l) ==
  /\ stage[l] = "loading"
  /\ pending[l] # <<>>
  /\ LET path == Head(pending[l]) IN
       \E loaded \in {Fault} \cup {LoadFile(TextsAt[path][i]) : i \in DOMAIN TextsAt[path]} :
         /\ outcome' = [outcome EXCEPT ![l] = Append(@, [path |-> path, loaded |-> loaded])]
         /\ Admit(l, path, loaded)
  /\ pending' = [pending EXCEPT ![l] = Tail(@)]
  /\ UNCHANGED stage

FinishLoad(l) ==
  /\ stage[l] = "loading"
  /\ pending[l] = <<>>
  /\ Enter(l, "done")
  /\ UNCHANGED <<pending, outcome, snapshot, diagnostics>>

Load(l) == ReadDirectory(l) \/ LoadNext(l) \/ FinishLoad(l)

LoaderNext == \E l \in Loads : Load(l)

Names(l) == {snapshot[l][i].name : i \in DOMAIN snapshot[l]}

-----------------------------------------------------------------------------
(* Properties.                                                             *)

(* The sequence lists the values at the given positions, in ascending order*)
(* and each of them once.                                                  *)
Enumerates(sequence, values, positions) ==
  \E at \in [DOMAIN sequence -> positions] :
    /\ \A j, k \in DOMAIN sequence : j < k => at[j] < at[k]
    /\ \A i \in positions : \E k \in DOMAIN sequence : at[k] = i
    /\ \A k \in DOMAIN sequence : sequence[k] = values[at[k]]

(* The files that are valid and precede every other valid file that        *)
(* declares the same name.                                                 *)
Firsts(l) ==
  {i \in DOMAIN outcome[l] :
     /\ outcome[l][i].loaded # Fault
     /\ \A j \in DOMAIN outcome[l] :
          outcome[l][j].loaded # Fault /\ outcome[l][j].loaded.name = outcome[l][i].loaded.name
            => outcome[l][i].path <= outcome[l][j].path}

(* A snapshot is what the files' outcomes say whatever else went wrong in  *)
(* the directory: of every name that some file declared validly it holds   *)
(* the Profile of the first such file, in the order of the paths, and      *)
(* every other listed file has its one diagnostic.  (The continues of      *)
(* LoadDirectory; spec 001, "Profile files are independent failure         *)
(* boundaries", "Duplicate Profile names do not overwrite".)               *)
FirstValidProfileWins ==
  \A l \in Loads : stage[l] = "done" =>
    LET all == DOMAIN outcome[l] IN
      /\ Enumerates(snapshot[l], [i \in all |-> outcome[l][i].loaded], Firsts(l))
      /\ Enumerates(diagnostics[l], [i \in all |-> outcome[l][i].path], all \ Firsts(l))
=============================================================================
