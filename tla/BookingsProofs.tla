---------------------------- MODULE BookingsProofs ----------------------------
(* Proofs about Bookings for every number of users, rooms and requests, every *)
(* length of a week and of a series, and any number of faults.                *)
EXTENDS Bookings, IntervalTheorems

-----------------------------------------------------------------------------
(* The inductive invariant *)

Admits == {"write", "verify", "commit"}

\* What the schema and the first query have established for a request that is
\* still under way.  Requests do not change, and neither does the window that
\* a booking was entered with, so no other request can take it back.
AdmittedOK ==
  \A r \in Req :
    /\ pc[r] \in Admits \cup {"check"} /\ Inserts(r) => NonEmpty(req[r])
    /\ pc[r] \in Admits /\ Inserts(r) => req[r].room \in Room
    /\ pc[r] \in Admits /\ ~Inserts(r) =>
         LET b == req[r].target
             booked == Occurrence(req[b.by], b.week) IN
         /\ table[b] # NoRow
         /\ req[r].op = "shorten" =>
              booked.start < req[r].end /\ req[r].end <= booked.end

\* A version of row b is of a row that some request inserts, and lies within
\* the window that it was entered with.
Within(b, x) ==
  LET booked == Occurrence(req[b.by], b.week) IN
  x # NoRow => /\ Inserts(b.by)
               /\ x.start = booked.start
               /\ x.start < x.end /\ x.end <= booked.end

WindowsOK ==
  \A b \in BookingId : /\ Within(b, table[b])
                       /\ \A r \in Req : Within(b, dirty[r][b])

\* Two open transactions never write the same row.
LocksOK ==
  \A b \in BookingId : \A r, s \in Req :
    dirty[r][b] # NoRow /\ dirty[s][b] # NoRow => r = s

\* A version that r has written and the constraint check has let through.
Passed(r, b) ==
  /\ dirty[r][b] # NoRow
  /\ ~(pc[r] = "verify" /\ b = Target(r))

\* A checked version clashes with no committed row that r is not replacing, and
\* with no other checked version: whichever transaction commits first, the
\* other may commit too.
ChecksOK ==
  \A r \in Req, b \in BookingId : Passed(r, b) =>
    /\ \A c \in BookingId \ {b} :
         dirty[r][c] = NoRow => ~Conflict(dirty[r][b], table[c])
    /\ \A s \in Req, c \in BookingId \ {b} :
         Passed(s, c) => ~Conflict(dirty[r][b], dirty[s][c])

TableOK == \A b, c \in BookingId : b # c => ~Conflict(table[b], table[c])

IInv == TypeOK /\ AdmittedOK /\ WindowsOK /\ LocksOK /\ ChecksOK /\ TableOK

-----------------------------------------------------------------------------
(* Lemmas on the data *)

\* The constraint treats the two rows of a pair alike.
LEMMA ConflictSymmetric ==
  ASSUME NEW x, NEW y
  PROVE  Conflict(x, y) <=> Conflict(y, x)
BY DEF Conflict, Overlap

LEMMA NoRowNoConflict ==
  ASSUME NEW x PROVE ~Conflict(NoRow, x) /\ ~Conflict(x, NoRow)
BY DEF Conflict, Confirmed

\* A request carries the fields of its operation.
LEMMA RequestFields ==
  ASSUME TypeOK, NEW r \in Req
  PROVE  /\ req[r].op \in {"create", "series", "cancel", "shorten"}
         /\ req[r].user \in User
         /\ Inserts(r) => /\ req[r].room \in RoomId
                          /\ req[r].start \in Nat /\ req[r].end \in Nat
         /\ ~Inserts(r) => req[r].target \in BookingId
         /\ req[r].op = "shorten" => req[r].end \in Nat
BY RequestsAssumption DEF TypeOK, Request, Inserts

LEMMA WeekShift ==
  ASSUME NEW w \in Weeks
  PROVE  w * Week \in Nat
BY WeekAssumption, CountAssumption DEF Weeks

LEMMA OccurrenceIsRow ==
  ASSUME TypeOK, NEW r \in Req, NEW w \in Weeks, Inserts(r), req[r].room \in Room
  PROVE  Occurrence(req[r], w) \in Row
BY RequestFields, WeekShift DEF Occurrence, Row

LEMMA TargetIsId ==
  ASSUME TypeOK, NEW r \in Req
  PROVE  Target(r) \in BookingId
BY RequestFields DEF Target, BookingId, TypeOK

-----------------------------------------------------------------------------
(* Steps that many actions share *)

\* A step that leaves the rows alone and only moves requests between calls.
LEMMA MovesOnly ==
  ASSUME IInv, TypeOK', AdmittedOK',
         UNCHANGED <<req, week, table, dirty>>,
         \A r \in Req : pc'[r] = "verify" <=> pc[r] = "verify"
  PROVE  IInv'
<1>1. \A r \in Req, b \in BookingId : Passed(r, b)' <=> Passed(r, b)
  BY DEF Passed, Target, Inserts
<1>2. WindowsOK' /\ LocksOK' /\ TableOK'
  BY DEF IInv, WindowsOK, Within, Occurrence, Inserts, LocksOK, TableOK,
         Conflict, Confirmed
<1>3. ChecksOK'
  BY <1>1 DEF IInv, ChecksOK, Conflict, Confirmed
<1>4. QED BY <1>2, <1>3 DEF IInv

\* A step that ends the requests in S and rolls their transactions back.
LEMMA RollsBack ==
  ASSUME IInv, TypeOK', NEW S \in SUBSET Req,
         UNCHANGED <<req, week, table>>,
         dirty' = [r \in Req |-> IF r \in S THEN Clean ELSE dirty[r]],
         \A r \in Req : pc'[r] = IF r \in S THEN "done" ELSE pc[r]
  PROVE  IInv'
<1>1. \A r \in Req, b \in BookingId :
        dirty'[r][b] = NoRow \/ dirty'[r][b] = dirty[r][b]
  BY DEF Clean
<1>2. \A r \in Req, b \in BookingId :
        Passed(r, b)' => r \notin S /\ Passed(r, b)
  BY DEF Passed, Target, Inserts, Clean
<1>3. AdmittedOK'
  BY DEF IInv, AdmittedOK, Admits, Inserts, Occurrence
<1>4. WindowsOK'
  BY <1>1 DEF IInv, WindowsOK, Within, Occurrence, Inserts
<1>5. LocksOK'
  BY <1>1 DEF IInv, LocksOK
<1>6. ChecksOK'
  <2> SUFFICES ASSUME NEW r \in Req, NEW b \in BookingId, Passed(r, b)'
               PROVE  /\ \A c \in BookingId \ {b} :
                           dirty'[r][c] = NoRow => ~Conflict(dirty'[r][b], table'[c])
                      /\ \A s \in Req, c \in BookingId \ {b} :
                           Passed(s, c)' => ~Conflict(dirty'[r][b], dirty'[s][c])
    BY DEF ChecksOK, Conflict, Confirmed
  <2>1. r \notin S /\ Passed(r, b) /\ dirty'[r] = dirty[r]
    BY <1>2
  <2>2. \A s \in Req, c \in BookingId :
          Passed(s, c)' => Passed(s, c) /\ dirty'[s] = dirty[s]
    BY <1>2
  <2>3. QED BY <2>1, <2>2 DEF IInv, ChecksOK
<1>7. TableOK'
  BY DEF IInv, TableOK, Conflict, Confirmed
<1>8. QED BY <1>3, <1>4, <1>5, <1>6, <1>7 DEF IInv

\* The same for one request, as the actions write it.
LEMMA FinishRollsBack ==
  ASSUME IInv, TypeOK', NEW r \in Req, NEW code, Finish(r, code),
         UNCHANGED <<req, week, table>>
  PROVE  IInv'
<1>1. dirty' = [s \in Req |-> IF s \in {r} THEN Clean ELSE dirty[s]]
  BY DEF Finish, IInv, TypeOK
<1>2. \A s \in Req : pc'[s] = IF s \in {r} THEN "done" ELSE pc[s]
  BY DEF Finish, Reply, Goto, IInv, TypeOK
<1>3. QED BY <1>1, <1>2, RollsBack

-----------------------------------------------------------------------------
(* Types *)

LEMMA InitType == Init => TypeOK
<1> SUFFICES ASSUME Init PROVE TypeOK
  OBVIOUS
<1>1. ASSUME NEW b \in BookingId PROVE EarlierRow(b) \in Row \cup {NoRow}
  <2>1. CASE b.by \in Earlier /\ b.week < Count(req[b.by])
    <3>1. b.by \in Req /\ b.week \in Weeks /\ req \in [Req -> Requests]
      BY DEF BookingId, Init
    <3>2. Inserts(b.by) /\ req[b.by].room \in Room
      BY <2>1 DEF Init
    <3>3. req[b.by] \in Request
      BY <3>1, RequestsAssumption
    <3>4. b.week * Week \in Nat
      BY <3>1, WeekShift
    <3>5. Occurrence(req[b.by], b.week) \in Row
      BY <3>2, <3>3, <3>4 DEF Occurrence, Row, Request, Inserts
    <3>6. QED BY <2>1, <3>5 DEF EarlierRow
  <2>2. QED BY <2>1 DEF EarlierRow
<1>2. table \in [BookingId -> Row \cup {NoRow}]
  BY <1>1 DEF Init
<1>3. week \in [Req -> Weeks]
  BY CountAssumption DEF Init, Weeks
<1>4. QED
  BY <1>2, <1>3 DEF Init, TypeOK, Clean, Calls, Answers

\* What a request writes is a row.
LEMMA NewVersionIsRow ==
  ASSUME TypeOK, AdmittedOK, NEW r \in Req, pc[r] \in Admits
  PROVE  NewVersion(r) \in Row
<1>1. CASE Inserts(r)
  <2>1. NewVersion(r) = Occurrence(req[r], week[r])
    BY <1>1 DEF NewVersion, Inserts
  <2>2. week[r] \in Weeks /\ req[r].room \in Room
    BY <1>1 DEF TypeOK, AdmittedOK
  <2>3. QED BY <1>1, <2>1, <2>2, OccurrenceIsRow
<1>2. CASE ~Inserts(r)
  <2>1. table[req[r].target] \in Row
    BY <1>2, RequestFields DEF TypeOK, AdmittedOK
  <2>2. req[r].op = "cancel" \/ (req[r].op = "shorten" /\ req[r].end \in Nat)
    BY <1>2, RequestFields DEF Inserts
  <2>3. CASE req[r].op = "cancel"
    <3>1. NewVersion(r) = [table[req[r].target] EXCEPT !.status = "CANCELLED"]
      BY <1>2, <2>3 DEF NewVersion, Inserts
    <3>2. QED BY <2>1, <3>1 DEF Row
  <2>4. CASE req[r].op = "shorten"
    <3>1. NewVersion(r) = [table[req[r].target] EXCEPT !.end = req[r].end]
      BY <1>2, <2>4 DEF NewVersion, Inserts
    <3>2. QED BY <2>1, <2>2, <2>4, <3>1 DEF Row
  <2>5. QED BY <2>2, <2>3, <2>4
<1>3. QED BY <1>1, <1>2

LEMMA FinishType ==
  ASSUME TypeOK, NEW r \in Req, NEW code \in Answers, Finish(r, code)
  PROVE  /\ dirty' \in [Req -> [BookingId -> Row \cup {NoRow}]]
         /\ pc' \in [Req -> Calls] /\ answer' \in [Req -> Answers]
BY DEF Finish, Reply, Goto, TypeOK, Clean, Calls, Answers

LEMMA TypeStep ==
  ASSUME TypeOK, AdmittedOK, [Next]_vars
  PROVE  TypeOK'
<1>1. CASE Tick
  BY <1>1 DEF Tick, TypeOK
<1>2. ASSUME NEW r \in Req, Arrive(r) PROVE TypeOK'
  BY <1>2 DEF Arrive, Goto, Reply, TypeOK, Calls, Answers
<1>3. ASSUME NEW r \in Req, CheckRoom(r) PROVE TypeOK'
  BY <1>3 DEF CheckRoom, Goto, Reply, TypeOK, Calls, Answers
<1>4. ASSUME NEW r \in Req, CheckBooking(r) PROVE TypeOK'
  <2>1. Verdict(r, table[req[r].target]) \in Answers \cup {"pass"}
    BY DEF Verdict, Answers
  <2>2. QED BY <1>4, <2>1 DEF CheckBooking, Goto, Reply, TypeOK, Calls, Answers
<1>5. ASSUME NEW r \in Req, Write(r) PROVE TypeOK'
  <2>1. NewVersion(r) \in Row
    BY <1>5, NewVersionIsRow DEF Write, Admits
  <2>2. Target(r) \in BookingId
    BY TargetIsId
  <2>3. QED BY <1>5, <2>1, <2>2 DEF Write, Goto, TypeOK, Calls
<1>6. ASSUME NEW r \in Req, Pass(r) PROVE TypeOK'
  <2>1. Inserts(r) /\ week[r] + 1 < Count(req[r]) => week[r] + 1 \in Weeks
    <3> SUFFICES ASSUME Inserts(r), week[r] + 1 < Count(req[r])
                 PROVE  week[r] + 1 \in Weeks
      OBVIOUS
    <3>1. Count(req[r]) \in 1 .. MaxCount
      BY RequestsAssumption, CountAssumption DEF TypeOK, Request, Count
    <3>2. QED BY <3>1, CountAssumption DEF TypeOK, Weeks
  <2>2. QED BY <1>6, <2>1 DEF Pass, Goto, TypeOK, Calls
<1>7. ASSUME NEW r \in Req, Violate(r) PROVE TypeOK'
  <2>1. ErrorCode(r, "23P01") \in Answers
    BY DEF ErrorCode, Answers
  <2>2. QED BY <1>7, <2>1, FinishType DEF Violate, TypeOK
<1>8. ASSUME NEW r \in Req, Deadlock(r) PROVE TypeOK'
  <2>1. ErrorCode(r, "40P01") \in Answers
    BY DEF ErrorCode, Answers
  <2>2. QED BY <1>8, <2>1, FinishType DEF Deadlock, TypeOK
<1>9. ASSUME NEW r \in Req, Commit(r) PROVE TypeOK'
  <2>1. table' \in [BookingId -> Row \cup {NoRow}]
    BY <1>9 DEF Commit, TypeOK
  <2>2. SuccessCode(r) \in Answers /\ ErrorCode(r, "other") \in Answers
    BY RequestFields DEF SuccessCode, ErrorCode, Inserts, Answers
  <2>3. faults' \in Nat
    BY <1>9 DEF Commit, TypeOK
  <2>4. QED BY <1>9, <2>1, <2>2, <2>3, FinishType DEF Commit, TypeOK
<1>10. ASSUME NEW r \in Req, CallFails(r) PROVE TypeOK'
  <2>1. ErrorCode(r, "other") \in Answers
    BY DEF ErrorCode, Answers
  <2>2. QED BY <1>10, <2>1, FinishType DEF CallFails, TypeOK
<1>11. CASE Crash
  BY <1>11 DEF Crash, TypeOK, Calls, Clean
<1>12. CASE UNCHANGED vars
  BY <1>12 DEF vars, TypeOK
<1>13. QED
  BY <1>1, <1>2, <1>3, <1>4, <1>5, <1>6, <1>7, <1>8, <1>9, <1>10, <1>11, <1>12
     DEF Next, Step

-----------------------------------------------------------------------------
(* The steps of a request *)

\* What the first query lets through is admitted.
LEMMA CheckStep ==
  ASSUME IInv, TypeOK', NEW r \in Req, CheckRoom(r) \/ CheckBooking(r)
  PROVE  IInv'
<1>1. \A s \in Req \ {r} : pc'[s] = pc[s]
  BY DEF CheckRoom, CheckBooking, Goto, Reply, IInv, TypeOK
<1>2. pc[r] = "check" /\ pc'[r] \in {"write", "done"}
  BY DEF CheckRoom, CheckBooking, Goto, Reply, IInv, TypeOK
<1>3. UNCHANGED <<req, week, table, dirty>>
  BY DEF CheckRoom, CheckBooking
<1>4. pc'[r] = "write" /\ Inserts(r) => req[r].room \in Room
  BY DEF CheckRoom, CheckBooking, Goto, Reply, IInv, TypeOK
<1>5. ASSUME pc'[r] = "write", ~Inserts(r)
      PROVE  LET b == req[r].target
                 booked == Occurrence(req[b.by], b.week) IN
             /\ table[b] # NoRow
             /\ req[r].op = "shorten" =>
                  booked.start < req[r].end /\ req[r].end <= booked.end
  <2> DEFINE b == req[r].target
             booked == Occurrence(req[b.by], b.week)
  <2>1. CheckBooking(r)
    BY <1>5 DEF CheckRoom
  <2>2. Verdict(r, table[b]) = "pass"
    BY <2>1, <1>5 DEF CheckBooking, Goto, Reply, IInv, TypeOK
  <2>3. table[b] # NoRow
    BY <2>2 DEF Verdict
  <2>4. ASSUME req[r].op = "shorten"
        PROVE  booked.start < req[r].end /\ req[r].end <= booked.end
    <3>1. table[b].start < req[r].end /\ req[r].end < table[b].end
      BY <2>2, <2>4 DEF Verdict
    <3>2. b \in BookingId /\ req[r].end \in Nat
      BY <1>5, <2>4, RequestFields DEF IInv
    <3>3. table[b].start = booked.start /\ table[b].end <= booked.end
          /\ Inserts(b.by)
      BY <2>3, <3>2 DEF IInv, WindowsOK, Within
    <3>4. table[b] \in Row /\ b.by \in Req /\ b.week \in Weeks
      BY <2>3, <3>2 DEF IInv, TypeOK, BookingId
    <3>5. booked.end \in Nat
      BY <3>3, <3>4, RequestFields, WeekShift DEF IInv, Occurrence
    <3>6. QED BY <3>1, <3>2, <3>3, <3>4, <3>5 DEF Row
  <2>5. QED BY <2>3, <2>4
<1>6. AdmittedOK'
  <2> SUFFICES ASSUME NEW s \in Req
               PROVE  /\ pc'[s] \in Admits \cup {"check"} /\ Inserts(s)
                           => NonEmpty(req[s])
                      /\ pc'[s] \in Admits /\ Inserts(s) => req[s].room \in Room
                      /\ pc'[s] \in Admits /\ ~Inserts(s) =>
                           LET b == req[s].target
                               booked == Occurrence(req[b.by], b.week) IN
                           /\ table[b] # NoRow
                           /\ req[s].op = "shorten" =>
                                booked.start < req[s].end /\ req[s].end <= booked.end
    BY <1>3 DEF AdmittedOK, Inserts, Occurrence, NonEmpty, Admits
  <2>1. CASE s = r
    BY <2>1, <1>2, <1>4, <1>5 DEF IInv, AdmittedOK, Admits
  <2>2. CASE s # r
    BY <2>2, <1>1 DEF IInv, AdmittedOK
  <2>3. QED BY <2>1, <2>2
<1>7. \A s \in Req : pc'[s] = "verify" <=> pc[s] = "verify"
  BY <1>1, <1>2
<1>8. QED BY <1>3, <1>6, <1>7, MovesOnly

\* A statement's own version is not yet checked, so it disturbs no checked one.
LEMMA WriteStep ==
  ASSUME IInv, TypeOK', NEW r \in Req, Write(r)
  PROVE  IInv'
<1> DEFINE b == Target(r)
<1>1. UNCHANGED <<req, week, table>> /\ pc[r] = "write"
  BY DEF Write
<1>2. b \in BookingId
  BY TargetIsId DEF IInv
<1>3. /\ dirty'[r][b] = NewVersion(r)
      /\ \A c \in BookingId \ {b} : dirty'[r][c] = dirty[r][c]
      /\ \A s \in Req \ {r} : dirty'[s] = dirty[s]
  BY <1>2 DEF Write, IInv, TypeOK
<1>4. pc'[r] = "verify" /\ \A s \in Req \ {r} : pc'[s] = pc[s]
  BY DEF Write, Goto, IInv, TypeOK
<1>5. NewVersion(r) # NoRow
  BY <1>1, NewVersionIsRow, NoRowAssumption DEF IInv, Admits
<1>6. \A s \in Req : Target(s)' = Target(s)
  BY <1>1 DEF Target, Inserts
<1>7. \A s \in Req, c \in BookingId :
        Passed(s, c)' => Passed(s, c) /\ dirty'[s][c] = dirty[s][c]
  <2> SUFFICES ASSUME NEW s \in Req, NEW c \in BookingId, Passed(s, c)'
               PROVE  Passed(s, c) /\ dirty'[s][c] = dirty[s][c]
    OBVIOUS
  <2>1. CASE s = r
    <3>1. c # b
      BY <2>1, <1>4, <1>6 DEF Passed
    <3>2. QED BY <2>1, <3>1, <1>1, <1>3 DEF Passed
  <2>2. CASE s # r
    BY <2>2, <1>3, <1>4, <1>6 DEF Passed
  <2>3. QED BY <2>1, <2>2
<1>8. AdmittedOK'
  BY <1>1, <1>4 DEF IInv, AdmittedOK, Admits, Inserts, Occurrence
<1>9. Within(b, NewVersion(r))
  <2>1. CASE Inserts(r)
    <3>1. NewVersion(r) = Occurrence(req[r], week[r])
      BY <2>1 DEF NewVersion, Inserts
    <3>2. b.by = r /\ b.week = week[r] /\ week[r] \in Weeks
      BY <2>1 DEF Target, IInv, TypeOK
    <3>3. NonEmpty(req[r]) /\ req[r].start \in Nat /\ req[r].end \in Nat
      BY <1>1, <2>1, RequestFields DEF IInv, AdmittedOK, Admits
    <3>4. week[r] * Week \in Nat
      BY <3>2, WeekShift
    <3>5. QED BY <2>1, <3>1, <3>2, <3>3, <3>4 DEF Within, Occurrence, NonEmpty
  <2>2. CASE ~Inserts(r)
    <3>1. b = req[r].target
      BY <2>2 DEF Target
    <3>2. /\ table[b] # NoRow
          /\ req[r].op = "shorten" =>
               /\ Occurrence(req[b.by], b.week).start < req[r].end
               /\ req[r].end <= Occurrence(req[b.by], b.week).end
      BY <1>1, <2>2, <3>1 DEF IInv, AdmittedOK, Admits
    <3>3. Within(b, table[b]) /\ table[b] \in Row
      BY <1>2, <3>2 DEF IInv, WindowsOK, TypeOK
    <3>4. req[r].op = "cancel" \/ req[r].op = "shorten"
      BY <2>2, RequestFields DEF IInv, Inserts
    <3>5. CASE req[r].op = "cancel"
      <4>1. NewVersion(r) = [table[b] EXCEPT !.status = "CANCELLED"]
        BY <2>2, <3>1, <3>5 DEF NewVersion, Inserts
      <4>2. QED BY <3>2, <3>3, <4>1 DEF Within, Row
    <3>6. CASE req[r].op = "shorten"
      <4>1. NewVersion(r) = [table[b] EXCEPT !.end = req[r].end]
        BY <2>2, <3>1, <3>6 DEF NewVersion, Inserts
      <4>2. QED BY <3>2, <3>3, <3>6, <4>1 DEF Within, Row
    <3>7. QED BY <3>4, <3>5, <3>6
  <2>3. QED BY <2>1, <2>2
<1>10. WindowsOK'
  <2> SUFFICES ASSUME NEW c \in BookingId, NEW s \in Req
               PROVE  Within(c, table[c]) /\ Within(c, dirty'[s][c])
    BY <1>1 DEF WindowsOK, Within, Occurrence, Inserts
  <2>1. Within(c, table[c]) /\ Within(c, dirty[s][c])
    BY DEF IInv, WindowsOK
  <2>2. CASE s = r /\ c = b
    BY <2>1, <2>2, <1>3, <1>9
  <2>3. CASE ~(s = r /\ c = b)
    BY <2>1, <2>3, <1>3
  <2>4. QED BY <2>2, <2>3
<1>11. LocksOK'
  <2>1. \A s \in Req \ {r} : dirty[s][b] = NoRow
    BY DEF Write, LockHolders
  <2>2. QED BY <2>1, <1>2, <1>3 DEF IInv, LocksOK
<1>12. ChecksOK'
  <2> SUFFICES ASSUME NEW s \in Req, NEW c \in BookingId, Passed(s, c)'
               PROVE  /\ \A d \in BookingId \ {c} :
                           dirty'[s][d] = NoRow => ~Conflict(dirty'[s][c], table[d])
                      /\ \A t \in Req, d \in BookingId \ {c} :
                           Passed(t, d)' => ~Conflict(dirty'[s][c], dirty'[t][d])
    BY <1>1 DEF ChecksOK, Conflict, Confirmed
  <2>1. Passed(s, c) /\ dirty'[s][c] = dirty[s][c]
    BY <1>7
  <2>2. \A d \in BookingId : dirty'[s][d] = NoRow => dirty[s][d] = NoRow
    BY <1>3, <1>5
  <2>3. QED BY <1>7, <2>1, <2>2 DEF IInv, ChecksOK
<1>13. TableOK'
  BY <1>1 DEF IInv, TableOK, Conflict, Confirmed
<1>14. QED BY <1>8, <1>10, <1>11, <1>12, <1>13 DEF IInv

\* The constraint check adds the version of Target(r) to the checked ones.  It
\* has seen every other version: the committed ones, its own, and, because
\* nothing blocks it, no conflicting one of an open transaction.
LEMMA PassStep ==
  ASSUME IInv, TypeOK', NEW r \in Req, Pass(r)
  PROVE  IInv'
<1> DEFINE b == Target(r)
<1>1. UNCHANGED <<req, table, dirty>> /\ pc[r] = "verify"
  BY DEF Pass
<1>2. pc'[r] \in {"write", "commit"} /\ \A s \in Req \ {r} : pc'[s] = pc[s]
  BY DEF Pass, Goto, IInv, TypeOK
<1>3. \A s \in Req \ {r} : week'[s] = week[s]
  BY DEF Pass, IInv, TypeOK
<1>4. b \in BookingId
  BY TargetIsId DEF IInv
<1>5. \A s \in Req, c \in BookingId :
        Passed(s, c)' => Passed(s, c) \/ (s = r /\ c = b /\ dirty[s][c] # NoRow)
  <2> SUFFICES ASSUME NEW s \in Req, NEW c \in BookingId, Passed(s, c)'
               PROVE  Passed(s, c) \/ (s = r /\ c = b /\ dirty[s][c] # NoRow)
    OBVIOUS
  <2>1. CASE s = r
    BY <2>1, <1>1 DEF Passed
  <2>2. CASE s # r
    BY <2>2, <1>1, <1>2, <1>3 DEF Passed, Target, Inserts
  <2>3. QED BY <2>1, <2>2
<1>6. \A c \in BookingId \ {b} :
        dirty[r][c] = NoRow => ~Conflict(dirty[r][b], table[c])
  <2> SUFFICES ASSUME NEW c \in BookingId \ {b}, dirty[r][c] = NoRow
               PROVE  ~Conflict(dirty[r][b], table[c])
    OBVIOUS
  <2>1. CASE \E s \in Req : dirty[s][c] # NoRow
    <3>1. PICK s \in Req : dirty[s][c] # NoRow
      BY <2>1
    <3>2. s # r /\ s \notin Blockers(r)
      BY <3>1 DEF Pass
    <3>3. QED BY <3>1, <3>2 DEF Blockers
  <2>2. CASE ~ \E s \in Req : dirty[s][c] # NoRow
    <3>1. Visible(r, c) = table[c]
      BY <2>2 DEF Visible
    <3>2. QED BY <3>1 DEF Pass, Clashes
  <2>3. QED BY <2>1, <2>2
<1>7. \A s \in Req, c \in BookingId \ {b} :
        dirty[s][c] # NoRow => ~Conflict(dirty[r][b], dirty[s][c])
  <2> SUFFICES ASSUME NEW s \in Req, NEW c \in BookingId \ {b}, dirty[s][c] # NoRow
               PROVE  ~Conflict(dirty[r][b], dirty[s][c])
    OBVIOUS
  <2>1. CASE s = r
    <3>1. Visible(r, c) = dirty[r][c]
      BY <2>1 DEF Visible
    <3>2. QED BY <2>1, <3>1 DEF Pass, Clashes
  <2>2. CASE s # r
    <3>1. s \notin Blockers(r)
      BY DEF Pass
    <3>2. QED BY <2>2, <3>1 DEF Blockers
  <2>3. QED BY <2>1, <2>2
<1>8. AdmittedOK'
  BY <1>1, <1>2 DEF IInv, AdmittedOK, Admits, Inserts, Occurrence
<1>9. WindowsOK' /\ LocksOK' /\ TableOK'
  BY <1>1 DEF IInv, WindowsOK, Within, Occurrence, Inserts, LocksOK, TableOK,
              Conflict, Confirmed
<1>10. ChecksOK'
  <2> SUFFICES ASSUME NEW s \in Req, NEW c \in BookingId, Passed(s, c)'
               PROVE  /\ \A d \in BookingId \ {c} :
                           dirty[s][d] = NoRow => ~Conflict(dirty[s][c], table[d])
                      /\ \A t \in Req, d \in BookingId \ {c} :
                           Passed(t, d)' => ~Conflict(dirty[s][c], dirty[t][d])
    BY <1>1 DEF ChecksOK, Conflict, Confirmed
  <2>1. CASE s = r /\ c = b
    <3>1. \A t \in Req, d \in BookingId : Passed(t, d)' => dirty[t][d] # NoRow
      BY <1>1 DEF Passed
    <3>2. QED BY <2>1, <3>1, <1>6, <1>7
  <2>2. CASE ~(s = r /\ c = b)
    <3>1. Passed(s, c)
      BY <2>2, <1>5
    <3>2. ASSUME NEW t \in Req, NEW d \in BookingId \ {c}, Passed(t, d)'
          PROVE  ~Conflict(dirty[s][c], dirty[t][d])
      <4>1. CASE Passed(t, d)
        BY <3>1, <4>1 DEF IInv, ChecksOK
      <4>2. CASE t = r /\ d = b
        <5>1. c \in BookingId \ {b} /\ dirty[s][c] # NoRow
          BY <4>2, <3>1 DEF Passed
        <5>2. ~Conflict(dirty[r][b], dirty[s][c])
          BY <5>1, <1>7
        <5>3. QED BY <4>2, <5>2, ConflictSymmetric
      <4>3. QED BY <3>2, <4>1, <4>2, <1>5
    <3>3. QED BY <3>1, <3>2 DEF IInv, ChecksOK
  <2>3. QED BY <2>1, <2>2
<1>11. QED BY <1>8, <1>9, <1>10 DEF IInv

\* All versions of a transaction that commits have been checked, against the
\* committed rows and against the checked versions of the other transactions.
LEMMA CommitStep ==
  ASSUME IInv, TypeOK', NEW r \in Req, Commit(r)
  PROVE  IInv'
<1>1. UNCHANGED <<req, week>> /\ pc[r] = "commit"
  BY DEF Commit
<1>2. \A b \in BookingId :
        table'[b] = IF dirty[r][b] # NoRow THEN dirty[r][b] ELSE table[b]
  BY DEF Commit
<1>3. /\ \A b \in BookingId : dirty'[r][b] = NoRow
      /\ \A s \in Req \ {r} : dirty'[s] = dirty[s]
  BY DEF Commit, Finish, Clean, IInv, TypeOK
<1>4. pc'[r] = "done" /\ \A s \in Req \ {r} : pc'[s] = pc[s]
  BY DEF Commit, Finish, Reply, Goto, IInv, TypeOK
<1>5. \A b \in BookingId : dirty[r][b] # NoRow => Passed(r, b)
  BY <1>1 DEF Passed
<1>6. \A s \in Req, b \in BookingId : Passed(s, b)' => s # r /\ Passed(s, b)
  BY <1>1, <1>3, <1>4 DEF Passed, Target, Inserts
<1>7. AdmittedOK'
  BY <1>1, <1>2, <1>4, RequestFields
     DEF IInv, AdmittedOK, Admits, Inserts, Occurrence
<1>8. WindowsOK'
  <2> SUFFICES ASSUME NEW b \in BookingId, NEW s \in Req
               PROVE  Within(b, table'[b]) /\ Within(b, dirty'[s][b])
    BY <1>1 DEF WindowsOK, Within, Occurrence, Inserts
  <2>1. Within(b, table[b]) /\ Within(b, dirty[r][b]) /\ Within(b, dirty[s][b])
    BY DEF IInv, WindowsOK
  <2>2. Within(b, table'[b])
    BY <2>1, <1>2
  <2>3. Within(b, dirty'[s][b])
    BY <2>1, <1>3 DEF Within
  <2>4. QED BY <2>2, <2>3
<1>9. LocksOK'
  BY <1>3 DEF IInv, LocksOK
<1>10. ChecksOK'
  <2> SUFFICES ASSUME NEW s \in Req, NEW b \in BookingId, Passed(s, b)'
               PROVE  /\ \A c \in BookingId \ {b} :
                           dirty'[s][c] = NoRow => ~Conflict(dirty'[s][b], table'[c])
                      /\ \A t \in Req, c \in BookingId \ {b} :
                           Passed(t, c)' => ~Conflict(dirty'[s][b], dirty'[t][c])
    BY DEF ChecksOK, Conflict, Confirmed
  <2>1. s # r /\ Passed(s, b) /\ dirty'[s] = dirty[s]
    BY <1>3, <1>6
  <2>2. ASSUME NEW c \in BookingId \ {b}, dirty'[s][c] = NoRow
        PROVE  ~Conflict(dirty'[s][b], table'[c])
    <3>1. CASE dirty[r][c] # NoRow
      <4>1. Passed(r, c) /\ table'[c] = dirty[r][c]
        BY <3>1, <1>2, <1>5
      <4>2. QED BY <2>1, <4>1 DEF IInv, ChecksOK
    <3>2. CASE dirty[r][c] = NoRow
      <4>1. table'[c] = table[c]
        BY <3>2, <1>2
      <4>2. QED BY <2>1, <2>2, <4>1 DEF IInv, ChecksOK
    <3>3. QED BY <3>1, <3>2
  <2>3. ASSUME NEW t \in Req, NEW c \in BookingId \ {b}, Passed(t, c)'
        PROVE  ~Conflict(dirty'[s][b], dirty'[t][c])
    <3>1. t # r /\ Passed(t, c) /\ dirty'[t] = dirty[t]
      BY <2>3, <1>3, <1>6
    <3>2. QED BY <2>1, <3>1 DEF IInv, ChecksOK
  <2>4. QED BY <2>2, <2>3
<1>11. TableOK'
  <2> SUFFICES ASSUME NEW b \in BookingId, NEW c \in BookingId, b # c
               PROVE  ~Conflict(table'[b], table'[c])
    BY DEF TableOK, Conflict, Confirmed
  <2>1. CASE dirty[r][b] # NoRow /\ dirty[r][c] # NoRow
    <3>1. Passed(r, b) /\ Passed(r, c)
      BY <2>1, <1>5
    <3>2. ~Conflict(dirty[r][b], dirty[r][c])
      BY <3>1 DEF IInv, ChecksOK
    <3>3. QED BY <2>1, <3>2, <1>2
  <2>2. CASE dirty[r][b] # NoRow /\ dirty[r][c] = NoRow
    <3>1. Passed(r, b)
      BY <2>2, <1>5
    <3>2. ~Conflict(dirty[r][b], table[c])
      BY <2>2, <3>1 DEF IInv, ChecksOK
    <3>3. QED BY <2>2, <3>2, <1>2
  <2>3. CASE dirty[r][b] = NoRow /\ dirty[r][c] # NoRow
    <3>1. Passed(r, c)
      BY <2>3, <1>5
    <3>2. ~Conflict(dirty[r][c], table[b])
      BY <2>3, <3>1 DEF IInv, ChecksOK
    <3>3. QED BY <2>3, <3>2, <1>2, ConflictSymmetric
  <2>4. CASE dirty[r][b] = NoRow /\ dirty[r][c] = NoRow
    BY <2>4, <1>2 DEF IInv, TableOK
  <2>5. QED BY <2>1, <2>2, <2>3, <2>4
<1>12. QED BY <1>7, <1>8, <1>9, <1>10, <1>11 DEF IInv

-----------------------------------------------------------------------------
(* The invariant *)

LEMMA InitInv == Init => IInv
<1> SUFFICES ASSUME Init PROVE IInv
  OBVIOUS
<1>1. TypeOK
  BY InitType
<1>2. \A r \in Req, b \in BookingId : dirty[r][b] = NoRow
  BY DEF Init, Clean
<1>3. AdmittedOK
  BY DEF Init, AdmittedOK, Admits
<1>4. WindowsOK
  <2> SUFFICES ASSUME NEW b \in BookingId PROVE Within(b, table[b])
    BY <1>2 DEF WindowsOK, Within
  <2>1. table[b] = EarlierRow(b)
    BY DEF Init
  <2>2. CASE b.by \in Earlier /\ b.week < Count(req[b.by])
    <3>1. table[b] = Occurrence(req[b.by], b.week)
      BY <2>1, <2>2 DEF EarlierRow
    <3>2. Inserts(b.by) /\ NonEmpty(req[b.by]) /\ b.by \in Req /\ b.week \in Weeks
      BY <2>2 DEF Init, BookingId
    <3>3. req[b.by].start \in Nat /\ req[b.by].end \in Nat /\ b.week * Week \in Nat
      BY <1>1, <3>2, RequestFields, WeekShift
    <3>4. QED BY <3>1, <3>2, <3>3 DEF Within, Occurrence, NonEmpty
  <2>3. CASE ~(b.by \in Earlier /\ b.week < Count(req[b.by]))
    BY <2>1, <2>3 DEF EarlierRow, Within
  <2>4. QED BY <2>2, <2>3
<1>5. LocksOK /\ ChecksOK
  BY <1>2 DEF LocksOK, ChecksOK, Passed
<1>6. TableOK
  BY DEF Init, TableOK
<1>7. QED BY <1>1, <1>3, <1>4, <1>5, <1>6 DEF IInv

LEMMA StepInv == IInv /\ [Next]_vars => IInv'
<1> SUFFICES ASSUME IInv, [Next]_vars PROVE IInv'
  OBVIOUS
<1>0. TypeOK'
  BY TypeStep DEF IInv
<1>1. CASE Tick \/ UNCHANGED vars
  <2>1. UNCHANGED <<req, pc, week, table, dirty>>
    BY <1>1 DEF Tick, vars
  <2>2. AdmittedOK'
    BY <2>1 DEF IInv, AdmittedOK, Inserts, Occurrence
  <2>3. QED BY <1>0, <2>1, <2>2, MovesOnly
<1>2. ASSUME NEW r \in Req, Arrive(r) PROVE IInv'
  <2>1. UNCHANGED <<req, week, table, dirty>>
    BY <1>2 DEF Arrive
  <2>2. /\ pc[r] = "idle" /\ pc'[r] \in {"check", "done"}
        /\ \A s \in Req \ {r} : pc'[s] = pc[s]
        /\ pc'[r] = "check" => Valid(r)
    BY <1>2 DEF Arrive, Goto, Reply, IInv, TypeOK
  <2>3. AdmittedOK'
    BY <2>1, <2>2 DEF IInv, AdmittedOK, Admits, Inserts, Valid, Occurrence
  <2>4. QED BY <1>0, <2>1, <2>2, <2>3, MovesOnly
<1>3. ASSUME NEW r \in Req, CheckRoom(r) \/ CheckBooking(r) PROVE IInv'
  BY <1>0, <1>3, CheckStep
<1>4. ASSUME NEW r \in Req, Write(r) PROVE IInv'
  BY <1>0, <1>4, WriteStep
<1>5. ASSUME NEW r \in Req, Pass(r) PROVE IInv'
  BY <1>0, <1>5, PassStep
<1>6. ASSUME NEW r \in Req, Violate(r) \/ Deadlock(r) \/ CallFails(r) PROVE IInv'
  BY <1>0, <1>6, FinishRollsBack DEF Violate, Deadlock, CallFails
<1>7. ASSUME NEW r \in Req, Commit(r) PROVE IInv'
  BY <1>0, <1>7, CommitStep
<1>8. CASE Crash
  <2>1. PICK orphans \in SUBSET Req :
          LET lost == {r \in Req : InFlight(r)} \ orphans IN
          /\ pc' = [r \in Req |-> IF r \in lost THEN "done" ELSE pc[r]]
          /\ dirty' = [r \in Req |-> IF r \in lost THEN Clean ELSE dirty[r]]
    BY <1>8 DEF Crash
  <2>2. UNCHANGED <<req, week, table>>
    BY <1>8 DEF Crash
  <2> DEFINE lost == {r \in Req : InFlight(r)} \ orphans
  <2>3. lost \in SUBSET Req
    OBVIOUS
  <2>4. \A r \in Req : pc'[r] = IF r \in lost THEN "done" ELSE pc[r]
    BY <2>1
  <2>5. dirty' = [r \in Req |-> IF r \in lost THEN Clean ELSE dirty[r]]
    BY <2>1
  <2> HIDE DEF lost
  <2>6. QED BY <1>0, <2>2, <2>3, <2>4, <2>5, RollsBack
<1>9. QED
  BY <1>1, <1>2, <1>3, <1>4, <1>5, <1>6, <1>7, <1>8 DEF Next, Step

LEMMA Inductive == Spec => []IInv
BY InitInv, StepInv, PTL DEF Spec

-----------------------------------------------------------------------------
(* The theorems *)

\* Every variable keeps its type in every behaviour.
THEOREM TypeCorrect == Spec => []TypeOK
<1>1. IInv => TypeOK
  BY DEF IInv
<1>2. QED BY <1>1, Inductive, PTL

\* No room is ever held by two confirmed bookings at the same instant.
THEOREM NeverDoubleBooked == Spec => []NoDoubleBooking
<1>1. IInv => NoDoubleBooking
  <2> SUFFICES ASSUME IInv, NEW b \in BookingId, NEW c \in BookingId,
                      b # c, Confirmed(table[b]), Confirmed(table[c]),
                      table[b].room = table[c].room
               PROVE  ~ShareInstant(table[b], table[c])
    BY DEF NoDoubleBooking
  <2>1. ~Overlap(table[b], table[c])
    BY DEF IInv, TableOK, Conflict
  <2>2. table[b] \in Row /\ table[c] \in Row
    BY DEF IInv, TypeOK, Confirmed
  <2>3. NonEmpty(table[b]) /\ NonEmpty(table[c])
    BY DEF IInv, WindowsOK, Within, Confirmed, NonEmpty
  <2>4. QED BY <2>1, <2>2, <2>3, OverlapIsSharing DEF Row
<1>2. QED BY <1>1, Inductive, PTL

\* No interleaving of shortenings moves a booking out of the window that it was
\* entered with or leaves it without a length.
THEOREM NeverOutgrown == Spec => []NeverBeyondOriginal
<1>1. IInv => NeverBeyondOriginal
  BY DEF IInv, WindowsOK, Within, NeverBeyondOriginal
<1>2. QED BY <1>1, Inductive, PTL

=============================================================================
