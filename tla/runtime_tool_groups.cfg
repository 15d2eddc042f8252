\* A failed run leaves tool calls without a result to the next run.
CONSTANTS
  i1 = i1
  i2 = i2
  s1 = s1
  t1 = t1
  t2 = t2
  NoText = NoText
  Invocations = {i1, i2}
  Sessions = {s1}
  SessionOf <- OneSession
  TextOf <- DistinctTexts
  MaxIterations = 1
  MaxCalls = 2
  Serial = TRUE
  Size <- UnitSize
  HistoryLimit = 1
  Budget = 6
SPECIFICATION Spec
CHECK_DEADLOCK FALSE
INVARIANTS
  EveryCallAnsweredBeforeNextModelCall
