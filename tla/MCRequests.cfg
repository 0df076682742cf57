SPECIFICATION Spec
CONSTANTS
  r1 = r1
  r2 = r2
  r3 = r3
  k1 = k1
  k2 = k2
  t1 = t1
  t2 = t2
  m1 = m1
  m2 = m2
  Sends = {r1, r2, r3}
  Cancels = {k1, k2}
  Tasks = {t1, t2}
  TaskOf <- TwoTasks
  New = {r1}
  MessageOf <- Duplicate
  KindOf <- AllKinds
CHECK_DEADLOCK FALSE
INVARIANTS
  ReservationsHeld
  CompleteIsQuiet
  ExecutedOnce
  EventsAreConsumed
PROPERTIES
  TerminalStays
