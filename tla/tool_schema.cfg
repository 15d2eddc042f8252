\* Every schema of the MC module against every argument document, with
\* documents of at most seven levels and integers of two bits.
CONSTANTS
  Values <- MCValues
  Definitions <- MCDefinitions
  Arguments <- MCArguments
  MaxDepth = 7
  WordBits = 2
SPECIFICATION Spec
INVARIANTS
  NeverPanics
  AcceptedArgumentsConform
  
CHECK_DEADLOCK FALSE
