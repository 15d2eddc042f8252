-------------------------- MODULE MCProfileBinding --------------------------
(* A small instance of ProfileBinding for TLC.                              *)
EXTENDS ProfileBinding

CONSTANTS r1, r2, r3, b1, u1, u2, NoNumber

OneProviderEach == "f1" :> "v1" @@ "f2" :> "v2"

(* Two registrars of one Provider, a binder of one Profile, a rebuild of    *)
(* both Profiles and one of the other Profile alone.                        *)
SubjectOfEach ==
  r1 :> "v1" @@ r2 :> "v1" @@ r3 :> "v2" @@ b1 :> "f1" @@ u1 :> {"f1", "f2"} @@ u2 :> {"f2"}

Spaceless ==
  [w \in {"f1", "f2", "v1", "v2", "v3", "m", ""} |-> w]
    @@ " f1" :> "f1" @@ "v2 " :> "v2" @@ " " :> ""

Variables ==
  "MODEL" :> [value |-> "m", more |-> <<>>]
    @@ "WORD" :> [value |-> NoNumber, more |-> <<>>]
    @@ "LINES" :> [value |-> "m", more |-> <<[field |-> "name", value |-> "f2"]>>]

Set(field, value) == [field |-> field, value |-> value]
Env(field, name) == [field |-> field, env |-> name]

Minimal(name, provider) ==
  <<Set("name", name), Set("provider.name", provider), Set("provider.model", "m")>>

(* The first file declares f1, the second f1 or f2, each in several ways,   *)
(* most of which are faults.                                                *)
FirstTexts ==
  <<Minimal("f1", "v1"),
   Minimal("f1", "v3"),
   Minimal("f1", "v1") \o <<Set("settings.max_iterations", 0)>>,
   Minimal("f1", "v1") \o <<Set("settings.max_iterations", 3), Set("separator", "")>>,
   Minimal("f1", "v1") \o <<Set("settings.max_history_turns", -1)>>,
   Minimal("f1", "v1") \o <<Env("settings.max_history_turns", "WORD")>>,
   Minimal("f1", "v1") \o <<Set("provider.api_key", "m")>>>>

SecondTexts ==
  <<Minimal(" f1", "v1") \o <<Set("settings.max_iterations", 3)>>,
   <<Set("name", "f2"), Set("provider.name", "v2 "), Env("provider.model", "MODEL")>>,
   <<Set("provider.name", "v2 "), Env("provider.model", "LINES")>>,
   Minimal("f2", "v2") \o <<Env("comment", "LINES")>>,
   Minimal("f2", "v2") \o <<Env("comment", "UNSET")>>,
   Minimal("f2", "v2 ") \o <<Set("provider.temperature", "nan")>>,
   Minimal(" ", "v1"),
   <<>> >>

TextsOfEach == <<FirstTexts, SecondTexts>>

AnyLoadFirst == Permutations(Loads)
=============================================================================
