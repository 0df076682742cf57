SPECIFICATION MCSpec
CONSTANTS
  m0 = m0
  m1 = m1
  m2 = m2
  x1 = x1
  x2 = x2
  None = None
  Messages = {m0, m1, m2}
  Contexts = {x1}
  Conversations = {c1}
  ContextOf <- AfterM0
  TaskLimit = 2
  JournalLimit = 3
  MaxCrashes = 1
  StorageFaults = FALSE
VIEW Visible
PROPERTIES
  AttemptSettles
