SPECIFICATION FairSpec
CONSTANTS
  c1 = c1
  c2 = c2
  k1 = k1
  k2 = k2
  p1 = p1
  p2 = p2
  Free = Free
  Store = Store
  Operations = {c1, c2}
  Entries = {k1, k2}
  Processes = {p1, p2}
  ProcessOf <- Apart
CHECK_DEADLOCK FALSE
INVARIANTS
  KeyExclusion
PROPERTIES
  UpdatesKept
  CallEnds
