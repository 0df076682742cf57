SPECIFICATION FairSpec
CONSTANTS
  x1 = x1
  x2 = x2
  None = None
  Turns <- ThreeTurns
  Callers <- ThreeTurns
  Contexts = {x1, x2}
  MaximumHops = 1
CHECK_DEADLOCK FALSE
INVARIANTS
  ChainBounded
  ExitIsHonest
  OneExchange
PROPERTIES
  TurnsEnd
