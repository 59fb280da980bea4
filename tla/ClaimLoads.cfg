SPECIFICATION Spec
CONSTANTS
  t1 = t1
  t2 = t2
  m1 = m1
  m2 = m2
  o1 = o1
  Me = Me
  They = They
  Tab = {t1}
  Run = {1}
  Other = {o1}
  Room = {m1, m2}
  Windows <- MCWindows
  Week = 2
  MaxCount = 2
  MaxEnd = 2
  MaxVisits = 2
  MaxTime = 1
  MaxLost = 1
  Nothing = Nothing
  NoRow = NoRow
CHECK_DEADLOCK FALSE
INVARIANTS
  FailuresAreSeen
