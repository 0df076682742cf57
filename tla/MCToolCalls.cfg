SPECIFICATION FairSpec
CONSTANTS
  i1 = i1
  i2 = i2
  t1 = t1
  Calls = {i1, i2, t1}
  KindOf <- ThreeKinds
CHECK_DEADLOCK FALSE
INVARIANTS
  HonestReport
  CloseMeansQuiet
  NeverOmitted
PROPERTIES
  CallsEnd
