SPECIFICATION Spec
CONSTANTS
  m0 = m0
  m1 = m1
  m2 = m2
  x1 = x1
  x2 = x2
  None = None
  Messages = {m1}
  Contexts = {x1}
  Conversations = {c1}
  ContextOf <- Alone
  TaskLimit = 1
  JournalLimit = 1
  MaxCrashes = 1
  StorageFaults = FALSE
PROPERTIES
  CancelIntentSurvives
