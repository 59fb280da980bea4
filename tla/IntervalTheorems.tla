--------------------------- MODULE IntervalTheorems ---------------------------
(* The overlap operator of the constraint agrees with the plain meaning of a *)
(* clash, and the argument the comments of shortenBooking rest on.            *)
EXTENDS Intervals, TLAPS

\* tsrange(...) && tsrange(...) holds of two windows with a positive length
\* exactly when some instant lies in both: bookings_no_overlap forbids what it
\* should and nothing else, back-to-back bookings included.
THEOREM OverlapIsSharing ==
  ASSUME NEW x, NEW y,
         x.start \in Nat, x.end \in Nat, y.start \in Nat, y.end \in Nat,
         NonEmpty(x), NonEmpty(y)
  PROVE  Overlap(x, y) <=> ShareInstant(x, y)
<1>1. ASSUME Overlap(x, y) PROVE ShareInstant(x, y)
  <2> DEFINE later == IF x.start <= y.start THEN y.start ELSE x.start
  <2>1. later \in x.start .. x.end /\ Covers(x, later) /\ Covers(y, later)
    BY <1>1 DEF Overlap, NonEmpty, Covers
  <2>2. QED BY <2>1 DEF ShareInstant
<1>2. ASSUME ShareInstant(x, y) PROVE Overlap(x, y)
  <2>1. PICK t \in x.start .. x.end : Covers(x, t) /\ Covers(y, t)
    BY <1>2 DEF ShareInstant
  <2>2. QED BY <2>1 DEF Covers, Overlap
<1>3. QED BY <1>1, <1>2

\* A window that shares no instant with y shares none after it is shortened:
\* the reason shortenBooking gives for an ordinary UPDATE.
THEOREM ShorteningKeepsApart ==
  ASSUME NEW x, NEW y, NEW z,
         x.start \in Nat, x.end \in Nat, z.end \in Nat,
         z.start = x.start, z.end <= x.end,
         ~ShareInstant(x, y)
  PROVE  ~ShareInstant(z, y)
<1> SUFFICES ASSUME ShareInstant(z, y) PROVE FALSE
  OBVIOUS
<1>1. PICK t \in z.start .. z.end : Covers(z, t) /\ Covers(y, t)
  BY DEF ShareInstant
<1>2. t \in x.start .. x.end /\ Covers(x, t)
  BY <1>1 DEF Covers
<1>3. QED BY <1>1, <1>2 DEF ShareInstant

=============================================================================
