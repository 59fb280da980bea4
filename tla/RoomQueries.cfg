SPECIFICATION Spec
CONSTANTS
  m1 = m1
  m2 = m2
  projector = projector
  screen = screen
  b1 = b1
  b2 = b2
  Room = {m1, m2}
  Name = {projector, screen}
  BookingId = {b1, b2}
  Slots <- MCSlots
  Sizes = {1, 2}
  Searches <- MCSearches
  Day = 2
  Week = 4
  LastDay = 3
  MaxChanges = 2
  NoRow = NoRow
SYMMETRY Alike
CHECK_DEADLOCK FALSE
INVARIANTS
  TypeOK
  SearchIsAtomic
  DaysAddUp
  HoursFit
