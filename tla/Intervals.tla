------------------------------ MODULE Intervals ------------------------------
(* The booking window: a half-open interval of time, closed at its start and *)
(* open at its end.  Overlap is the && operator of the bookings_no_overlap   *)
(* constraint on tsrange(start_time, end_time, '[)'); the same operator       *)
(* decides availability in searchAvailableRooms.  ShareInstant says the same  *)
(* thing independently of the end points: two windows clash when some instant *)
(* lies in both.                                                              *)
EXTENDS Naturals

\* A window is any record with the fields start and end; here all of them are
\* instants counted in clock ticks.
Window == [start : Nat, end : Nat]

\* The windows that pass the endTime > startTime refinement of both schemas.
NonEmpty(x) == x.start < x.end

\* Mutant of Overlap: a window that begins before the other one is missed.
BeginsWithin(x, y) == y.start <= x.start /\ x.start < y.end

\* tsrange '[)' && tsrange '[)' for windows that are not empty.
Overlap(x, y) == x.start < y.end /\ y.start < x.end

Covers(x, t) == x.start <= t /\ t < x.end

ShareInstant(x, y) == \E t \in x.start .. x.end : Covers(x, t) /\ Covers(y, t)

=============================================================================
