---------------------------- MODULE Configuration ----------------------------
(***************************************************************************)
(* config.LoadServerYAML: the process configuration from a YAML document   *)
(* and the environment.  A document is a tree of nodes, or none, or no YAML*)
(* (or several documents).  A text is a sequence of words: "${" and "}" are*)
(* words of their own, the space is the word " ", and the environment gives*)
(* the variables that are set, and whose names are valid, their texts.     *)
(***************************************************************************)
EXTENDS Integers, Sequences, FiniteSetsExt

CONSTANTS
  Nodes,              \* YAML nodes, and what they contain
  MaxDepth,           \* of the documents a parser accepts (10000 in yaml.v3)
  ListenAddresses,    \* the texts that are a host and a port from 1 to 65535
  PositiveDurations,  \* the texts time.ParseDuration makes a positive duration
  Refused             \* what is returned for a document that is refused

ASSUME MaxDepthAssumption == MaxDepth \in Nat

(* A mapping has pairs of a key and a node; "other" is null, a number, a   *)
(* Boolean or an alias.                                                    *)
IsNode(node) ==
  \/ node \in [kind : {"map"}, of : Seq(STRING \X Nodes)]
  \/ node \in [kind : {"seq"}, of : Seq(Nodes)]
  \/ node \in [kind : {"str"}, text : Seq(STRING)]
  \/ node \in [kind : {"other"}]

ASSUME NodesAssumption == \A node \in Nodes : IsNode(node)

NoDocument == [kind |-> "empty"]
Invalid == [kind |-> "invalid"]

(* decodeSingleDocument.                                                   *)
IsSingleDocument(yaml) == yaml # Invalid

Children(node) ==
  CASE node.kind = "map" -> {node.of[i][2] : i \in DOMAIN node.of}
    [] node.kind = "seq" -> {node.of[i] : i \in DOMAIN node.of}
    [] OTHER -> {}

(* The nodes of at most n levels where no mapping has a key twice.  (The   *)
(* parser has refused what is deeper, so no depth is lost.)                *)
DistinctKeys[n \in Nat] ==
  IF n = 0 THEN {}
  ELSE LET distinct == DistinctKeys[n - 1]
       IN  {node \in Nodes :
              /\ node.kind = "map" =>
                   \A i, j \in DOMAIN node.of : node.of[i][1] = node.of[j][1] => i = j
              /\ Children(node) \subseteq distinct}

WithDistinctKeys == DistinctKeys[MaxDepth]

RejectDuplicateKeys(node) == node \notin WithDistinctKeys

-----------------------------------------------------------------------------
(* expand.go.                                                              *)

Opening == "${"
Closing == "}"

(* One round of the scan: a word, or a placeholder whose variable is set.  *)
(* Any other "${" is malformed, and the scan does not get past it.         *)
Round(scan, env) ==
  LET rest == scan.rest
  IN  IF rest # <<>> /\ Head(rest) # Opening
        THEN [rest |-> Tail(rest), built |-> Append(scan.built, Head(rest))]
      ELSE IF Len(rest) >= 3 /\ rest[2] \in DOMAIN env /\ rest[3] = Closing
        THEN [rest |-> SubSeq(rest, 4, Len(rest)), built |-> scan.built \o env[rest[2]]]
      ELSE scan

(* One scan from left to right.                                            *)
Scan(text, env) ==
  LET after[n \in Nat] ==
        IF n = 0 THEN [rest |-> text, built |-> <<>>] ELSE Round(after[n - 1], env)
  IN  after[Len(text)]

Str(text) == [kind |-> "str", text |-> text]

(* Mutant: placeholders in the text put in are replaced as well.           *)
ExpandAgain(text, env) ==
  LET scan == Scan(Scan(text, env).built, env)
  IN  IF Scan(text, env).rest = <<>> /\ scan.rest = <<>> THEN Str(scan.built) ELSE Invalid

ExpandString(text, env) ==
  LET scan == Scan(text, env) IN IF scan.rest = <<>> THEN Str(scan.built) ELSE Invalid

(* Keys, and scalars that are not strings, are left alone.                 *)
Expand(node, env, expanded) ==
  IF node.kind = "str" THEN ExpandString(node.text, env)
  ELSE IF \E child \in Children(node) : expanded[child] = Invalid THEN Invalid
  ELSE CASE node.kind = "map" ->
              [kind |-> "map", of |-> [i \in DOMAIN node.of |->
                 <<node.of[i][1], expanded[node.of[i][2]]>>]]
         [] node.kind = "seq" ->
              [kind |-> "seq", of |-> [i \in DOMAIN node.of |-> expanded[node.of[i]]]]
         [] OTHER -> node

ExpandScalars(root, env) ==
  LET expanded[n \in Nat] ==
        IF n = 0 THEN [node \in Nodes |-> Invalid]
        ELSE [node \in Nodes |-> Expand(node, env, expanded[n - 1])]
  IN  expanded[MaxDepth][root]

-----------------------------------------------------------------------------
(* validateYAMLShape and decodeStrictRaw.  An expanded scalar is still a   *)
(* string after it has been encoded and decoded again, whatever its text.  *)

DefaultTimeouts ==
  [read_header_timeout |-> <<"5s">>, read_timeout |-> <<"30s">>,
   write_timeout |-> <<"5m">>, idle_timeout |-> <<"60s">>]

Timeouts == DOMAIN DefaultTimeouts

Keys(node) == {node.of[i][1] : i \in DOMAIN node.of}

Member(node, key) == node.of[CHOOSE i \in DOMAIN node.of : node.of[i][1] = key][2]

(* Those of the keys that are there have strings for values.               *)
HasStrings(node, keys) ==
  node.kind = "map" /\ \A key \in keys \cap Keys(node) : Member(node, key).kind = "str"

ValidateYAMLShape(root) ==
  /\ HasStrings(root, {"listen_address", "log_format", "shutdown_timeout"})
  /\ "http" \in Keys(root) => HasStrings(Member(root, "http"), Timeouts)
  /\ "providers" \in Keys(root) =>
       LET providers == Member(root, "providers")
       IN  /\ providers.kind = "seq"
           /\ \A i \in DOMAIN providers.of : HasStrings(providers.of[i], {"name", "api_key"})

DecodesStrictly(root) ==
  /\ Keys(root) \subseteq {"listen_address", "log_format", "shutdown_timeout", "http", "providers"}
  /\ "http" \in Keys(root) => Keys(Member(root, "http")) \subseteq Timeouts
  /\ "providers" \in Keys(root) =>
       \A i \in DOMAIN Member(root, "providers").of :
         Keys(Member(root, "providers").of[i]) \subseteq {"name", "api_key"}

-----------------------------------------------------------------------------
(* validateServerConfig.                                                   *)

StringOrDefault(node, key, default) ==
  IF key \in Keys(node) THEN Member(node, key).text ELSE default

Space == " "

TrimSpace(text) ==
  LET words == {i \in DOMAIN text : text[i] # Space}
  IN  IF words = {} THEN <<>> ELSE SubSeq(text, Min(words), Max(words))

NoMembers == [kind |-> "map", of |-> <<>>]

ProvidersOf(nodes) ==
  [i \in DOMAIN nodes |->
     [name   |-> TrimSpace(StringOrDefault(nodes[i], "name", <<>>)),
      apiKey |-> StringOrDefault(nodes[i], "api_key", <<>>)]]

ServerConfig(root) ==
  [listenAddress   |-> StringOrDefault(root, "listen_address", <<"127.0.0.1:8080">>),
   logFormat       |-> StringOrDefault(root, "log_format", <<"console">>),
   shutdownTimeout |-> StringOrDefault(root, "shutdown_timeout", <<"30s">>),
   timeouts        |-> LET http == IF "http" \in Keys(root) THEN Member(root, "http") ELSE NoMembers
                       IN  [t \in Timeouts |-> StringOrDefault(http, t, DefaultTimeouts[t])],
   providers       |-> IF "providers" \in Keys(root)
                         THEN ProvidersOf(Member(root, "providers").of) ELSE <<>>]

ValidateProviders(providers) ==
  /\ \A i \in DOMAIN providers :
       /\ providers[i].name \in {<<"deepseek">>, <<"minimax">>}
       /\ TrimSpace(providers[i].apiKey) # <<>>
  /\ \A i, j \in DOMAIN providers : providers[i].name = providers[j].name => i = j

ValidateServerConfig(config) ==
  /\ config.listenAddress \in ListenAddresses
  /\ config.logFormat \in {<<"console">>, <<"json">>}
  /\ config.shutdownTimeout \in PositiveDurations
  /\ \A t \in Timeouts : config.timeouts[t] \in PositiveDurations
  /\ ValidateProviders(config.providers)

Validated(config) == IF ValidateServerConfig(config) THEN config ELSE Refused

LoadServerYAML(yaml, env) ==
  IF ~IsSingleDocument(yaml) THEN Refused
  ELSE IF yaml = NoDocument THEN Validated(ServerConfig(NoMembers))
  ELSE LET root == ExpandScalars(yaml, env)
       IN  IF /\ ~RejectDuplicateKeys(yaml)
              /\ root # Invalid
              /\ ValidateYAMLShape(root)
              /\ DecodesStrictly(root)
             THEN Validated(ServerConfig(root))
             ELSE Refused
=============================================================================
