SPECIFICATION FairSpec
CONSTANTS
  m0 = m0
  q1 = q1
  q2 = q2
  a1 = a1
  a2 = a2
  a3 = a3
  Attribute = {a1, a2, a3}
  Req = {m0, q1, q2}
  Earlier = {m0}
  Requests <- SomeRequests
  MaxNames = 2
  MaxFaults = 1
  NoRoom = NoRoom
  Absent = Absent
CHECK_DEADLOCK FALSE
INVARIANTS
  TypeOK
  SavedWhole
PROPERTIES
  RefusedLeavesNothing
  EveryRequestEnds
