\* One logical tool call under every policy, with cancellation and timeouts.
SPECIFICATION FairSpec
INVARIANTS
  SideEffectAtMostOnce
PROPERTIES
  ExecuteIsAudited
CHECK_DEADLOCK FALSE
