SPECIFICATION MCSpec
CONSTANTS
  m0 = m0
  m1 = m1
  m2 = m2
  s1 = s1
  s2 = s2
  x1 = x1
  None = None
  Messages = {m0, m1, m2}
  Scopes = {s1, s2}
  Scopings <- OneOrTwo
  Contexts = {x1}
  Abortable = {m1}
  MayDie = TRUE
CHECK_DEADLOCK FALSE
PROPERTIES
  NoBlindSubmission
  FinalStays
  Settles
