---------------------------- MODULE MCRoomQueries ----------------------------
(* Two rooms, two attributes and two bookings over two weeks for TLC; the     *)
(* windows meet the ends of days and weeks, overlap and adjoin.               *)
EXTENDS RoomQueries, TLC

CONSTANTS m1, m2, projector, screen, b1, b2

Slot(s, e) == [start |-> s, end |-> e]

MCSlots == {Slot(1, 3), Slot(2, 3), Slot(3, 5), Slot(4, 6)}

For(s, e, n, names) == [start |-> s, end |-> e, least |-> n, names |-> names]

MCSearches ==
  {For(1, 3, 2, <<>>), For(3, 4, 1, <<projector>>), For(1, 4, 1, <<projector, screen>>),
   For(2, 4, 1, <<projector, projector>>), For(3, 3, 1, <<>>), For(1, 3, 0, <<>>)}

Alike == Permutations(Room) \cup Permutations(BookingId)
=============================================================================
