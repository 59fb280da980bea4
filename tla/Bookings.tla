------------------------------- MODULE Bookings -------------------------------
(* The bookings module of the API: the four operations that change the       *)
(* bookings table (createBooking, cancelBooking, shortenBooking and           *)
(* createSeries), each run by its own HTTP request, against one PostgreSQL    *)
(* database at READ COMMITTED that enforces bookings_no_overlap.              *)
(*                                                                            *)
(* A request is a process.  Between two of its database calls the Node        *)
(* process serves other requests, so every await is a point where another     *)
(* request, the clock or a crash may come in.  What a statement has written   *)
(* and not committed is in dirty; the committed table is in table.            *)
EXTENDS Intervals

CONSTANTS
  User,       \* the users that can be authenticated
  RoomId,     \* the well-formed room ids a request may carry
  Room,       \* those of them that are in the rooms table
  Req,        \* the requests
  Earlier,    \* the requests that were answered before the model starts
  Requests,   \* what a request may ask for
  Week,       \* the ticks of a week
  MaxCount,   \* the most occurrences a series may have (52 in the schema)
  MaxTime,    \* bound on the clock
  MaxFaults,  \* bound on crashes and failed database calls
  NoRow       \* no such row

Weeks == 0 .. MaxCount - 1

\* The id of a row is a fresh randomUUID(): it is named here after the request
\* that inserts it and the week of the series (0 for a one-off booking).
BookingId == [by : Req, week : Weeks]

Row == [room : Room, user : User, start : Nat, end : Nat,
        status : {"CONFIRMED", "CANCELLED"}]

\* What a request asks for, with the caller's id that authenticate adds.
Request ==
  [op : {"create"}, user : User, room : RoomId, start : Nat, end : Nat]
  \cup [op : {"series"}, user : User, room : RoomId, start : Nat, end : Nat,
        count : 1 .. MaxCount]
  \cup [op : {"cancel"}, user : User, target : BookingId]
  \cup [op : {"shorten"}, user : User, target : BookingId, end : Nat]

ASSUME RoomsAssumption == Room \subseteq RoomId
ASSUME RequestsAssumption == Requests \subseteq Request
ASSUME EarlierAssumption == Earlier \subseteq Req
ASSUME WeekAssumption == Week \in Nat \ {0}
ASSUME CountAssumption == MaxCount \in Nat \ {0}
ASSUME NoRowAssumption == NoRow \notin Row

VARIABLES
  now,      \* the clock that new Date() reads
  req,      \* what each request asks for; fixed from the start
  pc,       \* the call each request waits for
  at,       \* the clock when the request arrived (history)
  week,     \* the loop variable of createSeries
  table,    \* the committed rows of the bookings table
  dirty,    \* the row versions written by each open transaction
  answer,   \* the HTTP answer of each request
  severed,  \* the requests whose client connection died with the API process
  faults    \* how many crashes and failed calls there have been

vars == <<now, req, pc, at, week, table, dirty, answer, severed, faults>>

Calls == {"idle", "check", "write", "verify", "commit", "done"}

Answers == {"none", "created", "noContent", "ok", "invalid", "notFound",
            "forbidden", "alreadyStarted", "notAShorten", "conflict", "internal"}

Success == {"created", "noContent", "ok"}

Clean == [b \in BookingId |-> NoRow]

-----------------------------------------------------------------------------
(* Requests and the rows they are about *)

Inserts(r) == req[r].op \in {"create", "series"}

Count(q) == IF q.op = "series" THEN q.count ELSE 1

\* The loop adds whole weeks to the start, and the duration to that.
Occurrence(q, w) ==
  [room |-> q.room, user |-> q.user, start |-> q.start + w * Week,
   end |-> q.end + w * Week, status |-> "CONFIRMED"]

\* The row that the next statement of r writes.
Target(r) ==
  IF Inserts(r) THEN [by |-> r, week |-> week[r]] ELSE req[r].target

Confirmed(x) == x # NoRow /\ x.status = "CONFIRMED"

\* Mutant of Conflict: a unique index on the room and the start instead of the
\* EXCLUDE constraint.
ConflictSameStart(x, y) ==
  Confirmed(x) /\ Confirmed(y) /\ x.room = y.room /\ x.start = y.start

\* Two row versions that bookings_no_overlap does not let stand together.
Conflict(x, y) ==
  Confirmed(x) /\ Confirmed(y) /\ x.room = y.room /\ Overlap(x, y)

InFlight(r) == pc[r] \in {"check", "write", "verify", "commit"}

-----------------------------------------------------------------------------
(* The transactions of PostgreSQL *)

\* The version of row c that the constraint check of r compares with: its own
\* if it wrote one, else the committed one, unless an open transaction of
\* another request is replacing it (then r has to wait, see Blockers).
Visible(r, c) ==
  IF dirty[r][c] # NoRow THEN dirty[r][c]
  ELSE IF \E s \in Req : dirty[s][c] # NoRow THEN NoRow ELSE table[c]

\* The version r has just written violates bookings_no_overlap.
Clashes(r) ==
  \E c \in BookingId \ {Target(r)} :
    Conflict(dirty[r][Target(r)], Visible(r, c))

\* The open transactions whose outcome the constraint check of r depends on:
\* they inserted a conflicting row or are replacing one.
Blockers(r) ==
  {s \in Req \ {r} : \E c \in BookingId \ {Target(r)} :
     /\ dirty[s][c] # NoRow
     /\ \/ Conflict(dirty[r][Target(r)], dirty[s][c])
        \/ Conflict(dirty[r][Target(r)], table[c])}

\* The holders of the row lock that an UPDATE has to take first.
LockHolders(r) == {s \in Req \ {r} : dirty[s][Target(r)] # NoRow}

WaitsFor(r) ==
  IF pc[r] = "write" THEN LockHolders(r)
  ELSE IF pc[r] = "verify" THEN Blockers(r) ELSE {}

\* r is on a cycle of the waits-for graph: next permutes a set with r in it.
OnWaitCycle(r) ==
  \E S \in SUBSET {s \in Req : WaitsFor(s) # {}} : \E next \in [S -> S] :
    /\ r \in S
    /\ \A s \in S : next[s] \in WaitsFor(s)
    /\ \A s, t \in S : next[s] = next[t] => s = t

-----------------------------------------------------------------------------
(* Answers *)

Goto(r, call) == pc' = [pc EXCEPT ![r] = call]

\* Mutant of Reply: an unexpected error is logged and not answered.
ReplyExpected(r, code) ==
  /\ Goto(r, "done")
  /\ answer' = [answer EXCEPT ![r] = IF r \in severed \/ code = "internal"
                                     THEN "none" ELSE code]

Reply(r, code) ==
  /\ Goto(r, "done")
  /\ answer' = [answer EXCEPT ![r] = IF r \in severed THEN "none" ELSE code]

\* The transaction of r is over and its uncommitted versions are gone.
Finish(r, code) ==
  /\ dirty' = [dirty EXCEPT ![r] = Clean]
  /\ Reply(r, code)

\* How PostgreSQL ends a statement: exclusion_violation, deadlock_detected, or
\* an error of another kind.
SqlStates == {"23P01", "40P01", "other"}

\* Mutant of ErrorCode: every failed raw query is taken for a conflict (P2010
\* without a look at the SQLSTATE it carries).
ErrorCodeOfRaw(r, state) ==
  IF Inserts(r) /\ state # "other" THEN "conflict" ELSE "internal"

\* errorHandler knows an exclusion violation only in the shape a raw INSERT
\* reports it; from the typed update of shortenBooking it is an unexpected
\* error, and so is every other error of the database.
ErrorCode(r, state) ==
  IF Inserts(r) /\ state = "23P01" THEN "conflict" ELSE "internal"

SuccessCode(r) ==
  CASE Inserts(r)              -> "created"
    [] req[r].op = "cancel"    -> "noContent"
    [] req[r].op = "shorten"   -> "ok"

-----------------------------------------------------------------------------
(* The clock and the steps of a request *)

Tick ==
  /\ now < MaxTime
  /\ now' = now + 1
  /\ UNCHANGED <<req, pc, at, week, table, dirty, answer, severed, faults>>

\* The schemas' refinements, evaluated when the request arrives.
Valid(r) == Inserts(r) => NonEmpty(req[r]) /\ now < req[r].start

\* The request passes authenticate and validate, and the service sends its
\* first query; or the schema refuses it.
Arrive(r) ==
  /\ pc[r] = "idle"
  /\ at' = [at EXCEPT ![r] = now]
  /\ \/ Valid(r) /\ Goto(r, "check") /\ UNCHANGED answer
     \/ ~Valid(r) /\ Reply(r, "invalid")
  /\ UNCHANGED <<now, req, week, table, dirty, severed, faults>>

\* Mutant of CheckRoom: the room is taken to exist.
CheckNoRoom(r) ==
  /\ pc[r] = "check"
  /\ Inserts(r)
  /\ Goto(r, "write")
  /\ UNCHANGED <<now, req, at, week, table, dirty, answer, severed, faults>>

\* assertRoomExists.
CheckRoom(r) ==
  /\ pc[r] = "check"
  /\ Inserts(r)
  /\ \/ req[r].room \in Room /\ Goto(r, "write") /\ UNCHANGED answer
     \/ req[r].room \notin Room /\ Reply(r, "notFound")
  /\ UNCHANGED <<now, req, at, week, table, dirty, severed, faults>>

\* Mutants of Verdict: without the owner check, without the check of the start,
\* and without the comparison with the current end.
VerdictForAnyUser(r, x) ==
  IF x = NoRow THEN "notFound"
  ELSE IF x.start <= now THEN "alreadyStarted"
  ELSE IF req[r].op = "shorten" /\ ~(x.start < req[r].end /\ req[r].end < x.end)
       THEN "notAShorten"
  ELSE "pass"

VerdictAtAnyTime(r, x) ==
  IF x = NoRow THEN "notFound"
  ELSE IF x.user # req[r].user THEN "forbidden"
  ELSE IF req[r].op = "shorten" /\ ~(x.start < req[r].end /\ req[r].end < x.end)
       THEN "notAShorten"
  ELSE "pass"

VerdictForAnyEnd(r, x) ==
  IF x = NoRow THEN "notFound"
  ELSE IF x.user # req[r].user THEN "forbidden"
  ELSE IF x.start <= now THEN "alreadyStarted"
  ELSE IF req[r].op = "shorten" /\ req[r].end <= x.start THEN "notAShorten"
  ELSE "pass"

\* What getOwnedBooking, assertNotAlreadyStarted and the two checks of
\* shortenBooking say of the row x they read, in their order.
Verdict(r, x) ==
  IF x = NoRow THEN "notFound"
  ELSE IF x.user # req[r].user THEN "forbidden"
  ELSE IF x.start <= now THEN "alreadyStarted"
  ELSE IF req[r].op = "shorten" /\ ~(x.start < req[r].end /\ req[r].end < x.end)
       THEN "notAShorten"
  ELSE "pass"

\* findUnique reads the committed row; the checks follow without an await.
CheckBooking(r) ==
  LET verdict == Verdict(r, table[req[r].target]) IN
  /\ pc[r] = "check"
  /\ ~Inserts(r)
  /\ \/ verdict = "pass" /\ Goto(r, "write") /\ UNCHANGED answer
     \/ verdict # "pass" /\ Reply(r, verdict)
  /\ UNCHANGED <<now, req, at, week, table, dirty, severed, faults>>

\* Mutant of NewVersion: shortenBooking saves the whole row as it was read.
NewVersionWhole(r) ==
  CASE Inserts(r)            -> Occurrence(req[r], week[r])
    [] req[r].op = "cancel"  -> [table[req[r].target] EXCEPT !.status = "CANCELLED"]
    [] req[r].op = "shorten" -> [table[req[r].target] EXCEPT !.end = req[r].end,
                                                            !.status = "CONFIRMED"]

\* INSERT a confirmed row; UPDATE the status, or the end time, of the row's
\* newest committed version, whatever it was when it was read.
NewVersion(r) ==
  CASE Inserts(r)            -> Occurrence(req[r], week[r])
    [] req[r].op = "cancel"  -> [table[req[r].target] EXCEPT !.status = "CANCELLED"]
    [] req[r].op = "shorten" -> [table[req[r].target] EXCEPT !.end = req[r].end]

\* The statement locks its row and puts the new version in the table.
Write(r) ==
  /\ pc[r] = "write"
  /\ LockHolders(r) = {}
  /\ dirty' = [dirty EXCEPT ![r][Target(r)] = NewVersion(r)]
  /\ Goto(r, "verify")
  /\ UNCHANGED <<now, req, at, week, table, answer, severed, faults>>

\* Mutants of Pass: the loop inserts through prisma instead of tx, so that every
\* occurrence commits on its own; the loop stops one week early.
PassEach(r) ==
  /\ pc[r] = "verify"
  /\ Blockers(r) = {}
  /\ ~Clashes(r)
  /\ \/ /\ Inserts(r) /\ week[r] + 1 < Count(req[r])
        /\ week' = [week EXCEPT ![r] = @ + 1]
        /\ table' = [table EXCEPT ![Target(r)] = dirty[r][Target(r)]]
        /\ dirty' = [dirty EXCEPT ![r] = Clean]
        /\ Goto(r, "write")
     \/ /\ ~(Inserts(r) /\ week[r] + 1 < Count(req[r]))
        /\ UNCHANGED <<week, table, dirty>>
        /\ Goto(r, "commit")
  /\ UNCHANGED <<now, req, at, answer, severed, faults>>

PassEarly(r) ==
  /\ pc[r] = "verify"
  /\ Blockers(r) = {}
  /\ ~Clashes(r)
  /\ \/ /\ Inserts(r) /\ week[r] + 2 < Count(req[r])
        /\ week' = [week EXCEPT ![r] = @ + 1]
        /\ Goto(r, "write")
     \/ /\ ~(Inserts(r) /\ week[r] + 2 < Count(req[r]))
        /\ UNCHANGED week
        /\ Goto(r, "commit")
  /\ UNCHANGED <<now, req, at, table, dirty, answer, severed, faults>>

\* The constraint check of that version finds no conflict: the loop of
\* createSeries goes on to the next week, or the transaction commits.
Pass(r) ==
  /\ pc[r] = "verify"
  /\ Blockers(r) = {}
  /\ ~Clashes(r)
  /\ \/ /\ Inserts(r) /\ week[r] + 1 < Count(req[r])
        /\ week' = [week EXCEPT ![r] = @ + 1]
        /\ Goto(r, "write")
     \/ /\ ~(Inserts(r) /\ week[r] + 1 < Count(req[r]))
        /\ UNCHANGED week
        /\ Goto(r, "commit")
  /\ UNCHANGED <<now, req, at, table, dirty, answer, severed, faults>>

\* 23P01: the constraint check finds a conflict.
Violate(r) ==
  /\ pc[r] = "verify"
  /\ Clashes(r)
  /\ Finish(r, ErrorCode(r, "23P01"))
  /\ UNCHANGED <<now, req, at, week, table, severed, faults>>

\* 40P01: the deadlock detector ends the wait of a request on a cycle.
Deadlock(r) ==
  /\ pc[r] = "verify"
  /\ OnWaitCycle(r)
  /\ Finish(r, ErrorCode(r, "40P01"))
  /\ UNCHANGED <<now, req, at, week, table, severed, faults>>

\* The transaction becomes durable.  The answer is an error all the same when
\* the connection to the database breaks before the acknowledgement.
Commit(r) ==
  /\ pc[r] = "commit"
  /\ table' = [b \in BookingId |->
                 IF dirty[r][b] # NoRow THEN dirty[r][b] ELSE table[b]]
  /\ \/ Finish(r, SuccessCode(r)) /\ UNCHANGED faults
     \/ /\ faults < MaxFaults /\ faults' = faults + 1
        /\ Finish(r, ErrorCode(r, "other"))
  /\ UNCHANGED <<now, req, at, week, severed>>

\* A database call rejects: no connection in the pool, a broken connection, or
\* the time limit of an interactive transaction.
CallFails(r) ==
  /\ InFlight(r)
  /\ faults < MaxFaults
  /\ faults' = faults + 1
  /\ Finish(r, ErrorCode(r, "other"))
  /\ UNCHANGED <<now, req, at, week, table, severed>>

\* The API process stops and starts again.  The database rolls back the open
\* interactive transactions; a single statement that has been sent (orphans)
\* may still run to its commit, with nobody left to answer.
Crash ==
  /\ faults < MaxFaults
  /\ faults' = faults + 1
  /\ \E orphans \in SUBSET {r \in Req : pc[r] \in {"write", "verify", "commit"}
                                        /\ req[r].op # "series"} :
       LET lost == {r \in Req : InFlight(r)} \ orphans IN
       /\ pc' = [r \in Req |-> IF r \in lost THEN "done" ELSE pc[r]]
       /\ dirty' = [r \in Req |-> IF r \in lost THEN Clean ELSE dirty[r]]
  /\ severed' = severed \cup {r \in Req : InFlight(r)}
  /\ UNCHANGED <<now, req, at, week, table, answer>>

-----------------------------------------------------------------------------

\* The rows that the requests of Earlier left in the table.
EarlierRow(b) ==
  IF b.by \in Earlier /\ b.week < Count(req[b.by])
  THEN Occurrence(req[b.by], b.week) ELSE NoRow

Init ==
  /\ now = 0
  /\ req \in [Req -> Requests]
  /\ \A r \in Earlier : /\ Inserts(r) /\ req[r].room \in Room
                        /\ NonEmpty(req[r]) /\ 0 < req[r].start
  /\ pc = [r \in Req |-> IF r \in Earlier THEN "done" ELSE "idle"]
  /\ at = [r \in Req |-> 0]
  /\ week = [r \in Req |-> 0]
  /\ table = [b \in BookingId |-> EarlierRow(b)]
  /\ \A b, c \in BookingId : b # c => ~Conflict(table[b], table[c])
  /\ dirty = [r \in Req |-> Clean]
  /\ answer = [r \in Req |-> IF r \in Earlier THEN "created" ELSE "none"]
  /\ severed = {}
  /\ faults = 0

Step(r) ==
  \/ CheckRoom(r) \/ CheckBooking(r) \/ Write(r)
  \/ Pass(r) \/ Violate(r) \/ Deadlock(r) \/ Commit(r)

Next ==
  \/ Tick
  \/ \E r \in Req : Arrive(r) \/ Step(r) \/ CallFails(r)
  \/ Crash

Spec == Init /\ [][Next]_vars

\* While Node and PostgreSQL have a request they can serve, they serve one; the
\* deadlock detector runs.
FairSpec == Spec /\ WF_vars(\E r \in Req : Step(r))

-----------------------------------------------------------------------------
(* Properties *)

\* Every variable keeps its type: in particular the table holds only rows of
\* existing rooms, and an open transaction writes only such rows.
TypeOK ==
  /\ now \in Nat
  /\ req \in [Req -> Requests]
  /\ pc \in [Req -> Calls]
  /\ at \in [Req -> Nat]
  /\ week \in [Req -> Weeks]
  /\ table \in [BookingId -> Row \cup {NoRow}]
  /\ dirty \in [Req -> [BookingId -> Row \cup {NoRow}]]
  /\ answer \in [Req -> Answers]
  /\ severed \subseteq Req
  /\ faults \in Nat

\* No room is held by two confirmed bookings at the same instant, whatever
\* inserts, cancellations, shortenings, crashes and failures came together:
\* the guarantee of bookings_no_overlap that the whole service relies on.
NoDoubleBooking ==
  \A b, c \in BookingId :
    b # c /\ Confirmed(table[b]) /\ Confirmed(table[c])
          /\ table[b].room = table[c].room
    => ~ShareInstant(table[b], table[c])

\* A series is in the table with all its occurrences or with none of them,
\* also when an occurrence clashes, a call fails or the process crashes halfway
\* through the loop of createSeries.
SeriesAllOrNothing ==
  \A r \in Req : req[r].op = "series" =>
    LET there == {w \in Weeks : table[[by |-> r, week |-> w]] # NoRow} IN
    there = {} \/ there = 0 .. req[r].count - 1

\* The answer tells the truth about the table.  A 201 means that every row is
\* there, for the caller and at the time asked for; a 4xx to a creation means
\* that none is; a 204 means that the booking is cancelled and stays so.
AnswersAreTrue ==
  \A r \in Req :
    LET rows == {[by |-> r, week |-> w] : w \in 0 .. Count(req[r]) - 1} IN
    /\ answer[r] = "created" => \A b \in rows :
         /\ table[b] # NoRow
         /\ table[b].user = req[r].user /\ table[b].room = req[r].room
         /\ table[b].start = Occurrence(req[r], b.week).start
    /\ Inserts(r) /\ answer[r] \notin Success \cup {"none", "internal"} =>
         \A b \in rows : table[b] = NoRow
    /\ answer[r] = "noContent" => table[req[r].target].status = "CANCELLED"

\* However shortenings and cancellations of one booking interleave, its start
\* stays, it keeps a positive length, and it never ends later than it did when
\* it was booked.
NeverBeyondOriginal ==
  \A b \in BookingId : table[b] # NoRow =>
    LET booked == Occurrence(req[b.by], b.week) IN
    /\ table[b].start = booked.start
    /\ table[b].start < table[b].end /\ table[b].end <= booked.end

\* No operation brings a cancelled booking back, not even a shortening that
\* read it before it was cancelled.
CancelledForGood ==
  [][\A b \in BookingId :
       table[b] # NoRow /\ table[b].status = "CANCELLED"
       => table'[b] # NoRow /\ table'[b].status = "CANCELLED"]_vars

\* A step changes at most one existing booking, at the request of its owner
\* that names it; siblings in a series and other users' bookings stay as they
\* are, and so do the room, the owner and the start of the one that changes.
OnlyTheNamedBooking ==
  [][\A b \in BookingId :
       table[b] # NoRow /\ table'[b] # table[b] =>
         /\ \E r \in Req : /\ pc[r] = "commit" /\ ~Inserts(r)
                           /\ req[r].target = b
                           /\ req[r].user = table[b].user
         /\ table'[b] # NoRow
         /\ table'[b].user = table[b].user /\ table'[b].room = table[b].room
         /\ \A c \in BookingId \ {b} : table'[c] = table[c]]_vars

\* A request that arrives when the booking has begun never changes it, and no
\* booking is entered by a request that arrived after its start, however long
\* the calls of the request take.
TooLateOnArrival ==
  [][\A b \in BookingId :
       table'[b] # table[b] =>
         \E r \in Req : /\ pc[r] = "commit" /\ pc'[r] = "done"
                        /\ at[r] < table'[b].start]_vars

\* A BOOKING_CONFLICT is answered only when a committed confirmed booking is in
\* the way, or the weeks of the series are in each other's way: never because
\* of a row that may yet be rolled back.
ConflictsAreReal ==
  [][\A r \in Req :
       answer'[r] = "conflict" /\ answer[r] # "conflict" =>
         LET wanted == {Occurrence(req[r], w) : w \in 0 .. Count(req[r]) - 1} IN
         \/ \E x \in wanted, b \in BookingId : Conflict(x, table[b])
         \/ \E x, y \in wanted : x # y /\ Conflict(x, y)]_vars

\* When creations want overlapping times of one room, no series clashes with
\* itself and nothing else happens, one of them gets it: neither the constraint
\* nor the deadlock detector turns all of them away, as the concurrency test
\* asks ("not two 409s").
SomebodyGetsTheRoom ==
  LET rivals == {r \in Req : pc[r] = "done" /\ answer[r] # "invalid"} IN
  ( /\ faults = 0 /\ rivals # {}
    /\ \A r \in Req : pc[r] = "done" /\ Inserts(r) /\ req[r].room \in Room
    /\ \A r \in Req : Count(req[r]) = 1 \/ req[r].end - req[r].start <= Week
    /\ \A r, s \in rivals : req[r].room = req[s].room
                             /\ ShareInstant(req[r], req[s]) )
  => \E r \in rivals : \A s \in rivals : answer[s] = "created" <=> s = r

\* Every accepted request is answered in the end, unless its client was cut off
\* by a crash: nobody waits for ever on a lock, on another transaction's
\* pending booking or on a cycle of them.
EveryRequestAnswered ==
  <>[](\A r \in Req :
         \/ pc[r] = "idle"
         \/ pc[r] = "done" /\ (answer[r] # "none" \/ r \in severed))

\* The service implements the ledger: every transaction, however it is
\* interleaved, looks like one atomic change of the committed table.
Ledger == INSTANCE BookingLedger WITH
  ledger <- table,
  entered <- [b \in BookingId |->
                IF table[b] = NoRow THEN NoRow
                ELSE Occurrence(req[b.by], b.week)]

ImplementsLedger == Ledger!LedgerSpec

=============================================================================
