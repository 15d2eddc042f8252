\* What the next Recv returns after a completed stream was closed.
CONSTANTS
  Callers = {consumer, closer}
  Consumer = consumer
  NoCaller = NoCaller
  MaxChunks = 2
SPECIFICATION Spec
INVARIANTS
  EOFAfterCompletion
CHECK_DEADLOCK FALSE
