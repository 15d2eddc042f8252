---------------------------- MODULE MCAgentRuntime ----------------------------
(* Small instances of AgentRuntime for TLC.                                 *)
EXTENDS AgentRuntime, TLC

CONSTANTS i1, i2, s1, t1, t2

(* Every message has the same size, so Budget counts messages.              *)
UnitSize(m) == 1

OneSession == [i \in Invocations |-> s1]

DistinctTexts == i1 :> t1 @@ i2 :> t2

(* Exchanging invocations together with their texts changes nothing.        *)
Symmetry ==
  {p \in Permutations({i1, i2, t1, t2}) :
     \A i \in Invocations : p[i] \in Invocations /\ p[TextOf[i]] = TextOf[p[i]]}

SameText == [i \in Invocations |-> t1]
=============================================================================
