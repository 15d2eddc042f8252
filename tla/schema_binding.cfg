\* A Chat whose connector refuses the Profile's tools.
CONSTANTS
  Chats = {chat}
  TheStream = theStream
  Tools <- MCTools
  MaxEdition = 1
  Callers = {consumer, closer}
  Consumer = consumer
  NoCaller = NoCaller
  MaxChunks = 1
SPECIFICATION ServiceSpec
INVARIANTS
  BindingFailureLeavesNoRow
CHECK_DEADLOCK FALSE
