----------------------------- MODULE Foundation -----------------------------
(***************************************************************************)
(* NewFoundation and the Application it assembles: the configuration is    *)
(* loaded from the document and the environment of the process, and only a *)
(* configuration that is accepted makes an Application, which then runs.   *)
(* (The serve command passes no document, so that its configuration is the *)
(* default one; whoever else assembles a foundation may pass any.)         *)
(***************************************************************************)
EXTENDS AppLifecycle, Configuration

CONSTANTS
  Documents,     \* the documents there may be
  Environments,  \* the environments there may be
  Nothing        \* what is not there yet, or not kept any longer

ASSUME DocumentsAssumption == Documents \subseteq Nodes \cup {NoDocument, Invalid}
(* validEnvironmentName: the beginning of a placeholder names no variable. *)
ASSUME EnvironmentsAssumption ==
  \A e \in Environments : Opening \notin DOMAIN e /\ e \in [DOMAIN e -> Seq(STRING)]

VARIABLES
  yaml,         \* options.ServerYAML
  environment,  \* what LookupEnv finds
  config,       \* what LoadServerYAML returned
  assembled     \* NewFoundation has returned the Application

options == <<yaml, environment, config>>
foundationVars == <<vars, options, assembled>>

FoundationInit ==
  /\ Init
  /\ yaml \in Documents
  /\ environment \in Environments
  /\ config = Nothing
  /\ assembled = FALSE

LoadConfiguration ==
  /\ config = Nothing
  /\ ~assembled
  /\ config' = LoadServerYAML(yaml, environment)
  /\ UNCHANGED <<vars, yaml, environment, assembled>>

(* Logger, observer, server and Application are made in one go; what they  *)
(* were made from is not looked at again.                                  *)
Assemble ==
  /\ config \notin {Nothing, Refused}
  /\ assembled' = TRUE
  /\ yaml' = Nothing /\ environment' = Nothing /\ config' = Nothing
  /\ UNCHANGED vars

(* A step of the Application.                                              *)
Running(step) ==
  /\ assembled
  /\ step
  /\ UNCHANGED <<options, assembled>>

FoundationNext == LoadConfiguration \/ Assemble \/ Running(Next)

FoundationFairness ==
  /\ WF_foundationVars(Running(Run))
  /\ WF_foundationVars(Running(DeadlinePasses))
  /\ WF_foundationVars(Running(expired /\ CloseComponent))
  /\ \A c \in Components : WF_foundationVars(Running(WorkerExits(c)))

FoundationSpec == FoundationInit /\ [][FoundationNext]_foundationVars /\ FoundationFairness

-----------------------------------------------------------------------------
(* Properties.                                                             *)

(* The words of a text, each placeholder replaced by its variable's words. *)
Piece(text, i) ==
  IF text[i] = Opening THEN environment[text[i + 1]]
  ELSE IF \E k \in {1, 2} : i > k /\ text[i - k] = Opening THEN <<>>
  ELSE <<text[i]>>

Substituted(text) ==
  LET joined[i \in Nat] == IF i = 0 THEN <<>> ELSE joined[i - 1] \o Piece(text, i)
  IN  joined[Len(text)]

ScalarAt(node, key) == Substituted(Member(node, key).text)

(* What a variable holds is data: an accepted configuration has the        *)
(* Providers that the document declares, in their order, and each of its   *)
(* strings is the document's with its placeholders replaced, once.  No     *)
(* variable adds a key, a Provider or another placeholder, or turns a      *)
(* string into something else.  (expandScalars after decoding, the single  *)
(* scan of expandString, the check of the shape after the expansion.)      *)
EnvironmentIsData ==
  config \notin {Nothing, Refused} /\ yaml.kind = "map" =>
    /\ "log_format" \in Keys(yaml) => config.logFormat = ScalarAt(yaml, "log_format")
    /\ "shutdown_timeout" \in Keys(yaml) =>
         config.shutdownTimeout = ScalarAt(yaml, "shutdown_timeout")
    /\ LET declared == IF "providers" \in Keys(yaml) THEN Member(yaml, "providers").of ELSE <<>>
       IN  /\ Len(config.providers) = Len(declared)
           /\ \A i \in DOMAIN declared :
                /\ config.providers[i].name = TrimSpace(ScalarAt(declared[i], "name"))
                /\ config.providers[i].apiKey = ScalarAt(declared[i], "api_key")
=============================================================================
