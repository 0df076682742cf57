SPECIFICATION LedgerSpec
CONSTANTS
  None = None
  Sends <- Two
  Events <- Two
  Configs = 1
  RetryCount = 1
CHECK_DEADLOCK FALSE
INVARIANTS
  OneAtATime
  CompleteIsQuiet
  OrderFree
PROPERTIES
  SendEnds
