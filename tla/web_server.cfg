\* Two goroutines that start the server against two that close it, with two requests.
CONSTANTS
  Starters = {s1, s2}
  Closers = {k1, k2}
  Free = Free
  Done = Done
  Requests = {q1, q2}
  NoReply = NoReply
  MaxInt = 31
  MaxPage = 40
  MaxPageSize = 7
  DefaultPageSize = 7
  Queries <- MCQueries
SPECIFICATION HTTPSpec
INVARIANTS
  NothingServesAfterClose
  OneListenerServed
  
  
  PagesAreExact
PROPERTIES
  CloseReturns
CHECK_DEADLOCK FALSE
