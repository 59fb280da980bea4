SPECIFICATION CastSpec
CONSTANTS
  r1 = r1
  r2 = r2
  r3 = r3
  r4 = r4
  u1 = u1
  u2 = u2
  m1 = m1
  m2 = m2
  nowhere = nowhere
  User = {u1, u2}
  RoomId = {m1, m2, nowhere}
  Room = {m1, m2}
  Req = {r1, r2, r3}
  Earlier = {}
  Requests <- BookingRequests
  Week = 3
  MaxCount = 2
  MaxTime = 2
  MaxFaults = 0
  NoRow = NoRow
SYMMETRY AllAlike
CHECK_DEADLOCK FALSE
INVARIANTS
  TypeOK
  NoDoubleBooking
  SeriesAllOrNothing
  SomebodyGetsTheRoom
  AnswersAreTrue
  NeverBeyondOriginal
PROPERTIES
  ConflictsAreReal
  CancelledForGood
  OnlyTheNamedBooking
  TooLateOnArrival
  ImplementsLedger
