---------------------------- MODULE MCRoomCatalog ----------------------------
(* Small instances of RoomCatalog for TLC: a room with one attribute, and     *)
(* administrators who save it and create others.                              *)
EXTENDS RoomCatalog, TLC

CONSTANTS m0, q1, q2, a1, a2, a3

Create(names) == [op |-> "create", admin |-> TRUE, names |-> names]
Update(columns, names) ==
  [op |-> "update", admin |-> TRUE, room |-> m0, columns |-> columns, names |-> names]

\* What RoomForm sends, with a name twice too, and what else the API takes.
SomeRequests ==
  {Create(<< >>), Create(<<a1>>), Create(<<a2, a1>>), Create(<<a2, a2>>),
   Update(TRUE, << >>), Update(TRUE, <<a1>>), Update(TRUE, <<a1, a2>>),
   Update(TRUE, <<a3, a2>>), Update(TRUE, <<a3, a3>>), Update(TRUE, Absent),
   Update(FALSE, <<a2>>), Update(FALSE, << >>),
   [Update(TRUE, <<a1>>) EXCEPT !.admin = FALSE],
   [Update(FALSE, <<a2>>) EXCEPT !.room = q1]}

ClaimRequests == {Create(<<a1>>), Update(FALSE, <<a1>>), Update(FALSE, <<a2>>)}
=============================================================================
