\* Every small document in several environments; then three components, any of
\* which may fail to start, serve or close.
CONSTANTS
  N = 3
  ListenAddresses <- HostPorts
  PositiveDurations <- Durations
  Nodes <- YAMLNodes
  MaxDepth = 4
  Refused = Refused
  Nothing = Nothing
  Documents <- YAMLDocuments
  Environments <- ProcessEnvironments
SPECIFICATION FoundationSpec
INVARIANTS
  
  NothingOutlivesRun
  EnvironmentIsData
PROPERTIES
  RunEnds
CHECK_DEADLOCK FALSE
