----------------------------- MODULE BookingClaims -----------------------------
(* What the repository says of the bookings module in its comments and tests *)
(* and the code does not keep: each claim has a counterexample.               *)
EXTENDS Bookings

\* "the check above GUARANTEES the window only shrinks": shortenBooking never
\* moves the end of a booking to a later time.  The check reads the row before
\* an await and the UPDATE does not repeat it.
ShorteningShrinks ==
  [][\A b \in BookingId :
       table[b] # NoRow => table'[b].end <= table[b].end]_vars

\* "Exactly one 201 (created) and one 409 (rejected as a conflict)": when no
\* database call fails, the losers of a race for a room are told of the
\* conflict.  The loser that the deadlock detector picks is not.
LosersGetConflict ==
  \A r \in Req : Inserts(r) /\ faults = 0 => answer[r] # "internal"

=============================================================================
