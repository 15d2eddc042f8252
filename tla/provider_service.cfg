\* A Chat beside a stream with its consumer and a second goroutine that closes
\* it, for a Profile with two tools whose metadata changes once.
CONSTANTS
  Chats = {chat}
  TheStream = theStream
  Tools <- MCTools
  MaxEdition = 2
  Callers = {consumer, closer}
  Consumer = consumer
  NoCaller = NoCaller
  MaxChunks = 2
SPECIFICATION ServiceSpec
INVARIANTS
  
  OneRowPerStream
PROPERTIES
  ChatsAreAudited
  StreamIsAudited
  CancelReleasesEveryCall
CHECK_DEADLOCK FALSE
