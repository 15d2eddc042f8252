----------------------------- MODULE MCFoundation -----------------------------
(* A small instance of Foundation for TLC.                                  *)
EXTENDS Foundation

Map(members) == [kind |-> "map", of |-> members]
List(nodes) == [kind |-> "seq", of |-> nodes]
Null == [kind |-> "other"]

HostPorts == {<<"127.0.0.1:8080">>}
Durations == {<<"5s">>, <<"30s">>, <<"60s">>, <<"5m">>}

Variable(name) == <<"${", name, "}">>

Provider(name, key) == Map(<<<<"name", Str(name)>>, <<"api_key", Str(key)>>>>)

Declaring(providers) == Map(<<<<"providers", List(providers)>>>>)

(* Names and keys that are plain, come from variables, or are malformed.    *)
ProviderNodes ==
  {Provider(name, key) : name \in {<<"deepseek">>, <<" ", "minimax">>, Variable("NAME")},
                         key \in {<<"k">>, <<"k">> \o Variable("KEY"), Variable("KEY") \o Variable("KEY"),
                                  Variable("NAME"), <<"${", "KEY">>, <<" ">>}}

(* One or two Providers, and documents that are wrong, or nearly, in one way.*)
YAMLDocuments ==
  {Declaring(<<p>>) : p \in ProviderNodes}
    \cup {Declaring(<<p, Provider(<<"deepseek">>, Variable("KEY"))>>) : p \in ProviderNodes}
    \cup {Map(<<<<"log_format", Str(text)>>, <<"shutdown_timeout", Str(Variable("TIME"))>>>>) :
            text \in {<<"json">>, Variable("FORMAT"), <<"xml">>}}
    \cup {Map(<<<<"http", node>>>>) :
            node \in {Null, Map(<<>>), Map(<<<<"read_timeout", Str(<<"0s">>)>>>>),
                      Map(<<<<"read_timeout", Str(Variable("TIME"))>>>>),
                      Map(<<<<"write", Str(<<"30s">>)>>>>)}}
    \cup {Map(<<<<"log_format", Str(<<"json">>)>>, <<"log_format", Str(<<"json">>)>>>>),
          Map(<<<<"listen_address", Str(<<"0.0.0.0">>)>>>>),
          Map(<<<<"log_format", Null>>>>),
          Map(<<<<"logs", Str(<<"json">>)>>>>),
          Map(<<<<"providers", Null>>>>),
          Map(<<<<"providers", List(<<Null>>)>>>>),
          Declaring(<<Map(<<<<"name", Str(<<"minimax">>)>>, <<"api_key", Null>>>>)>>),
          Declaring(<<Map(<<<<"name", Str(<<"minimax">>)>>, <<"base_url", Str(<<"k">>)>>>>)>>),
          List(<<>>), Null, NoDocument, Invalid}

(* A document has at most three levels, then strings.                       *)
Below(nodes) == UNION {Children(node) : node \in nodes}

YAMLNodes ==
  LET roots == YAMLDocuments \ {NoDocument, Invalid}
      members == Below(roots)
      elements == Below(members)
  IN  roots \cup members \cup elements \cup Below(elements)

(* Variables that are not set, plain, or whose text has a placeholder, a    *)
(* space, or what would be something else in a document.                    *)
ProcessEnvironments ==
  {[KEY |-> <<"k">>],
   [NAME |-> <<"minimax">>, KEY |-> Variable("NAME"), TIME |-> <<"30s">>],
   [NAME |-> <<"deepseek", " ">>, KEY |-> <<"null">>, FORMAT |-> <<"json">>, TIME |-> <<"0s">>],
   [NAME |-> Variable("KEY"), KEY |-> <<" ", "k">>, FORMAT |-> <<>>, TIME |-> <<"60s">>]}
=============================================================================
