----------------------------- MODULE BookingLedger -----------------------------
(* What the bookings module promises, without requests, reads, transactions  *)
(* or clashes: a ledger of bookings that changes in three atomic ways.  A     *)
(* booking or a whole weekly series is entered, a booking is cancelled, or    *)
(* its end is moved - never past the end it was entered with, and never so    *)
(* that two confirmed bookings hold a room at the same instant.               *)
EXTENDS Intervals

CONSTANTS BookingId, Room, User, Week, MaxCount, NoRow

VARIABLES
  ledger,   \* the bookings
  entered   \* each booking as it was first entered

ledgerVars == <<ledger, entered>>

\* Two bookings hold a room together when some instant lies in both.
Collide(x, y) ==
  /\ x # NoRow /\ y # NoRow
  /\ x.status = "CONFIRMED" /\ y.status = "CONFIRMED"
  /\ x.room = y.room
  /\ ShareInstant(x, y)

CollisionFree(l) ==
  \A b, c \in BookingId : b # c => ~Collide(l[b], l[c])

NewEntry == {x \in [room : Room, user : User, start : Nat, end : Nat,
                    status : {"CONFIRMED"}] : NonEmpty(x)}

LedgerInit == CollisionFree(ledger) /\ entered = ledger

\* One booking, or the consecutive weeks of one series, under an id of which
\* nothing was entered before.
Reserve(by) ==
  LET first == ledger'[[by |-> by, week |-> 0]] IN
  /\ \A b \in BookingId : b.by = by => ledger[b] = NoRow
  /\ first \in NewEntry
  /\ \E n \in 1 .. MaxCount :
       ledger' = [b \in BookingId |->
                    IF b.by = by /\ b.week < n
                    THEN [first EXCEPT !.start = @ + b.week * Week,
                                       !.end = @ + b.week * Week]
                    ELSE ledger[b]]
  /\ entered' = [b \in BookingId |->
                   IF b.by = by THEN ledger'[b] ELSE entered[b]]

Cancel(b) ==
  /\ ledger[b] # NoRow
  /\ ledger' = [ledger EXCEPT ![b].status = "CANCELLED"]
  /\ UNCHANGED entered

\* The end moves to some e; the booking still has a length.
MoveEnd(b) ==
  LET e == ledger'[b].end IN
  /\ ledger[b] # NoRow
  /\ ledger' = [ledger EXCEPT ![b].end = e]
  /\ ledger[b].start < e /\ e <= entered[b].end
  /\ UNCHANGED entered

LedgerNext ==
  /\ CollisionFree(ledger')
  /\ \E b \in BookingId : Reserve(b.by) \/ Cancel(b) \/ MoveEnd(b)

LedgerSpec == LedgerInit /\ [][LedgerNext]_ledgerVars
=============================================================================
