SPECIFICATION Spec
CONSTANTS
  m0 = m0
  m1 = m1
  m2 = m2
  s1 = s1
  s2 = s2
  x1 = x1
  None = None
  Messages = {m1, m2}
  Scopes = {s1, s2}
  Scopings <- OneOrTwo
  Contexts = {x1}
  Abortable = {}
  MayDie = TRUE
CHECK_DEADLOCK FALSE
PROPERTIES
  NoContextIsShared
