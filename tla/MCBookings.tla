------------------------------ MODULE MCBookings ------------------------------
(* Small instances of Bookings for TLC.  Each set of requests is the cast of *)
(* one question; the first moments of the model are within reach of the       *)
(* clock, so that bookings begin while requests are under way.                *)
EXTENDS BookingClaims, TLC

CONSTANTS r1, r2, r3, r4, u1, u2, m1, m2, nowhere

Create(u, m, s, e) ==
  [op |-> "create", user |-> u, room |-> m, start |-> s, end |-> e]

Series(u, m, s, e, n) ==
  [op |-> "series", user |-> u, room |-> m, start |-> s, end |-> e, count |-> n]

CancelOf(u, b) == [op |-> "cancel", user |-> u, target |-> b]

ShortenOf(u, b, e) == [op |-> "shorten", user |-> u, target |-> b, end |-> e]

First(r) == [by |-> r, week |-> 0]
Second(r) == [by |-> r, week |-> 1]

\* Bookings and series that touch, overlap, repeat each other a week later or
\* clash with themselves, a window that is empty and a room that is not there.
RaceRequests ==
  {Create(u1, m1, 1, 3), Create(u1, m1, 2, 5), Create(u1, m1, 4, 6),
   Create(u1, m1, 2, 2), Create(u1, nowhere, 1, 2), Create(u1, m2, 2, 5),
   Series(u1, m1, 1, 3, 2), Series(u1, m1, 2, 4, 2), Series(u1, m1, 1, 5, 2)}

\* A booking and a series of two weeks; what two users may ask of that booking
\* when r makes it, or want to put in the place it leaves.
Made == {Create(u1, m1, 2, 5), Series(u1, m1, 1, 3, 2)}

ChangesOf(r) ==
  {Create(u2, m1, 4, 6), CancelOf(u1, Second(r)), ShortenOf(u2, First(r), 3)}
  \cup {CancelOf(u, First(r)) : u \in {u1, u2}}
  \cup {ShortenOf(u1, First(r), e) : e \in {1, 2, 3, 4, 5}}

BookingRequests == RaceRequests \cup Made \cup UNION {ChangesOf(r) : r \in Req}

\* The casts of the run bookings: rivals for rooms, or one who books while others
\* change that booking.
RaceCast == [Req -> RaceRequests]
ChangeCast ==
  UNION {{[s \in Req |-> IF s = r THEN made ELSE changes[s]] :
             made \in Made, changes \in [Req \ {r} -> ChangesOf(r)]} : r \in Req}

CastInit == req \in RaceCast \cup ChangeCast /\ Init
CastSpec == CastInit /\ [][Next]_vars

\* One booking, shortenings of it to different ends, and a booking of the time
\* that a shortening frees.
ExtendRequests ==
  {Create(u1, m1, 2, 5), Create(u2, m1, 3, 5), CancelOf(u1, First(r1)),
   ShortenOf(u1, First(r1), 3), ShortenOf(u1, First(r1), 4)}

\* Creations that all want the same hour.
SameHourRequests ==
  {Create(u1, m1, 2, 4), Create(u2, m1, 3, 5), Series(u2, m1, 1, 4, 2)}

\* What a crash may catch halfway.
FaultRequests ==
  {Create(u1, m1, 2, 4), Series(u1, m1, 1, 3, 2), Series(u2, m1, 4, 6, 2),
   CancelOf(u1, First(r1)), CancelOf(u1, Second(r1)),
   ShortenOf(u1, First(r1), 3)}

AllAlike == Permutations(Req)
=============================================================================
