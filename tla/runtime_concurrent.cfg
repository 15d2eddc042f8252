\* Two invocations at once on one Session.
CONSTANTS
  i1 = i1
  i2 = i2
  s1 = s1
  t1 = t1
  t2 = t2
  NoText = NoText
  Invocations = {i1, i2}
  Sessions = {s1}
  SessionOf <- OneSession
  TextOf <- DistinctTexts
  MaxIterations = 2
  MaxCalls = 1
  Serial = FALSE
  Size <- UnitSize
  HistoryLimit = 1
  Budget = 5
SPECIFICATION Spec
CHECK_DEADLOCK FALSE
SYMMETRY Symmetry
INVARIANTS
  AtMostOneRowLost
  IterationLimitIsExact
  CancelAllowsOneMoreModelCall
  SavedRunIsComplete
  PromptHoldsOwnTurn
