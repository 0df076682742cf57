SPECIFICATION LoopSpec
CONSTANTS
  c1 = c1
  c2 = c2
  c3 = c3
  c4 = c4
  k1 = k1
  k2 = k2
  None = None
  Calls = {c1, c2, c3, c4}
  Keys = {k1, k2}
  KeyOf <- FourCalls
  AbortedEnter = TRUE
CHECK_DEADLOCK FALSE
INVARIANTS
  NoOvertaking
PROPERTIES
  ImplementsQueue
  AbortedLeaves
  WaiterServed
  EntryRemoved
