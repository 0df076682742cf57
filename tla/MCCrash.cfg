SPECIFICATION Spec
CONSTANTS
  m0 = m0
  m1 = m1
  m2 = m2
  x1 = x1
  x2 = x2
  None = None
  Messages = {m1, m2}
  Contexts = {x1}
  Conversations = {c1}
  ContextOf <- OneContext
  TaskLimit = 2
  JournalLimit = 2
  MaxCrashes = 1
  StorageFaults = TRUE
SYMMETRY Symmetric
VIEW Visible
INVARIANTS
  AtMostOneSend
  NoOverlap
  HonestOutcome
PROPERTIES
  SettledForever
  CleanRelease
  ImplementsInputs
