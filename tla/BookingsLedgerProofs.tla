------------------------- MODULE BookingsLedgerProofs -------------------------
(* Bookings implements BookingLedger, and its answers and its series are what *)
(* they should be, for every value of the constants.  The argument: what an   *)
(* open transaction has written is known exactly at every point of it, so a   *)
(* commit either enters all the occurrences of a request or changes the one   *)
(* booking that it names, and no other step touches the table.  The last part *)
(* is about refusals: each has a reason, and not every rival is refused.      *)
EXTENDS BookingsProofs

-----------------------------------------------------------------------------
(* The invariant *)

\* How many occurrences the open transaction of r has inserted.
Inserted(r) ==
  CASE pc[r] \in {"verify", "commit"} -> week[r] + 1
    [] pc[r] = "write" -> week[r]
    [] OTHER -> 0

\* What the transaction of r has written.  The new version of an existing
\* booking stays up to date because r holds its row lock.
DirtyOK(r) ==
  /\ pc[r] \in {"idle", "check"} => week[r] = 0
  /\ week[r] < Count(req[r])
  /\ pc[r] = "commit" /\ Inserts(r) => week[r] + 1 = Count(req[r])
  /\ Inserts(r) => \A b \in BookingId :
       dirty[r][b] = IF b.by = r /\ b.week < Inserted(r)
                     THEN Occurrence(req[r], b.week) ELSE NoRow
  /\ ~Inserts(r) => \A b \in BookingId :
       dirty[r][b] = IF pc[r] \in {"verify", "commit"} /\ b = req[r].target
                     THEN NewVersion(r) ELSE NoRow

NoRows(r) == \A b \in BookingId : b.by = r => table[b] = NoRow

AllRows(r) == \A b \in BookingId : b.by = r => (table[b] # NoRow <=> b.week < Count(req[r]))

\* The rows of a request come with its end, all of them or none.
RowsOK(r) ==
  /\ pc[r] # "done" => NoRows(r)
  /\ NoRows(r) \/ (Inserts(r) /\ AllRows(r))

\* A request under way arrived in time, and changes what is its user's.
MayOK(r) ==
  /\ at[r] <= now
  /\ Inserts(r) /\ pc[r] \in Admits \cup {"check"} => at[r] < req[r].start
  /\ ~Inserts(r) /\ pc[r] \in Admits =>
       /\ req[r].user = table[req[r].target].user
       /\ at[r] < table[req[r].target].start

AnswerOK(r) ==
  /\ pc[r] # "done" => answer[r] = "none"
  /\ answer[r] = "created" => Inserts(r) /\ AllRows(r)
  /\ Inserts(r) /\ answer[r] \notin Success \cup {"none", "internal"} => NoRows(r)
  /\ answer[r] = "noContent" => /\ req[r].op = "cancel"
                                /\ table[req[r].target] # NoRow
                                /\ table[req[r].target].status = "CANCELLED"

Fine(r) == DirtyOK(r) /\ RowsOK(r) /\ MayOK(r) /\ AnswerOK(r)

\* A booking is its request's, for the user and the room that were asked for.
KinOK ==
  \A b \in BookingId : table[b] # NoRow =>
    table[b].user = req[b.by].user /\ table[b].room = req[b.by].room

LInv == KinOK /\ \A r \in Req : Fine(r)

-----------------------------------------------------------------------------
(* The initial states *)

LEMMA CountRange ==
  ASSUME TypeOK, NEW r \in Req
  PROVE  Count(req[r]) \in 1 .. MaxCount
BY RequestsAssumption, CountAssumption DEF TypeOK, Request, Count

LEMMA InitLInv == Init => LInv
<1> SUFFICES ASSUME Init PROVE LInv
  OBVIOUS
<1>1. TypeOK
  BY InitType
<1>2. \A b \in BookingId : table[b] = EarlierRow(b)
  BY DEF Init
<1>3. KinOK
  <2> SUFFICES ASSUME NEW b \in BookingId, table[b] # NoRow
               PROVE  table[b].user = req[b.by].user /\ table[b].room = req[b.by].room
    BY DEF KinOK
  <2>1. table[b] = Occurrence(req[b.by], b.week)
    BY <1>2 DEF EarlierRow
  <2> QED
    BY <2>1 DEF Occurrence
<1>4. ASSUME NEW r \in Req PROVE Fine(r)
  <2>1. /\ week[r] = 0 /\ at[r] = 0 /\ now = 0 /\ \A b \in BookingId : dirty[r][b] = NoRow
        /\ pc[r] = IF r \in Earlier THEN "done" ELSE "idle"
        /\ answer[r] = IF r \in Earlier THEN "created" ELSE "none"
        /\ r \in Earlier => Inserts(r)
    BY DEF Init, Clean
  <2>2. DirtyOK(r)
    BY <1>1, <2>1, CountRange, CountAssumption DEF DirtyOK, Inserted, BookingId, Weeks
  <2>3. /\ r \in Earlier => AllRows(r)
        /\ r \notin Earlier => NoRows(r)
    <3>1. ASSUME r \in Earlier, NEW b \in BookingId, b.by = r, b.week < Count(req[r])
          PROVE  table[b] # NoRow
      <4>1. table[b] = Occurrence(req[r], b.week) /\ b.week \in Weeks
        BY <1>2, <3>1 DEF EarlierRow, BookingId
      <4>2. Inserts(r) /\ req[r].room \in Room
        BY <3>1 DEF Init
      <4> QED
        BY <1>1, <4>1, <4>2, OccurrenceIsRow, NoRowAssumption
    <3> QED
      BY <1>2, <3>1 DEF AllRows, NoRows, EarlierRow
  <2> QED
    BY <2>1, <2>2, <2>3 DEF Fine, RowsOK, MayOK, AnswerOK, Admits, Success
<1> QED
  BY <1>3, <1>4 DEF LInv

-----------------------------------------------------------------------------
(* Steps that leave the table alone *)

\* The requests that a step leaves where they are keep their part.
LEMMA Others ==
  ASSUME IInv, LInv, UNCHANGED <<req, table>>, now <= now', now' \in Nat,
         NEW s \in Req,
         UNCHANGED <<pc[s], at[s], week[s], dirty[s], answer[s]>>
  PROVE  Fine(s)'
<1>1. Fine(s) /\ at[s] \in Nat /\ now \in Nat
  BY DEF LInv, IInv, TypeOK
<1>2. /\ \A x, b : (Within(b, x))' <=> Within(b, x)
      /\ Inserts(s)' <=> Inserts(s)
      /\ NewVersion(s)' = NewVersion(s) /\ Inserted(s)' = Inserted(s)
  BY DEF Inserts, NewVersion, Inserted, Occurrence, Within
<1>3. DirtyOK(s)'
  BY <1>1, <1>2 DEF Fine, DirtyOK, Occurrence
<1>4. RowsOK(s)' /\ AnswerOK(s)'
  BY <1>1, <1>2 DEF Fine, RowsOK, NoRows, AllRows, AnswerOK
<1>5. MayOK(s)'
  BY <1>1, <1>2 DEF Fine, MayOK
<1> QED
  BY <1>3, <1>4, <1>5 DEF Fine

\* A step of one request that leaves the table alone.
LEMMA OneMoves ==
  ASSUME IInv, LInv, UNCHANGED <<now, req, table>>, NEW r \in Req,
         \A s \in Req \ {r} : UNCHANGED <<pc[s], at[s], week[s], dirty[s], answer[s]>>,
         DirtyOK(r)', MayOK(r)', AnswerOK(r)', pc'[r] # "done" => pc[r] # "done"
  PROVE  LInv'
<1>1. KinOK'
  BY DEF LInv, KinOK
<1>2. now <= now' /\ now' \in Nat
  BY DEF IInv, TypeOK
<1>3. RowsOK(r)'
  BY DEF LInv, Fine, RowsOK, NoRows, AllRows, Inserts
<1>4. \A s \in Req \ {r} : Fine(s)'
  BY <1>2, Others
<1> QED
  BY <1>1, <1>3, <1>4 DEF LInv, Fine

\* The request ends without a commit.
LEMMA EndsWithout ==
  ASSUME IInv, LInv, UNCHANGED <<now, req, table, at, week>>, NEW r \in Req,
         pc[r] # "done", pc'[r] = "done", \A b \in BookingId : dirty'[r][b] = NoRow,
         \A s \in Req \ {r} : UNCHANGED <<pc[s], dirty[s], answer[s]>>,
         answer'[r] \notin Success
  PROVE  LInv'
<1>1. Fine(r)
  BY DEF LInv
<1>2. DirtyOK(r)'
  <2>1. Inserted(r)' = 0
    BY DEF Inserted
  <2>2. \A b \in BookingId : ~(b.week < 0)
    BY CountAssumption DEF BookingId, Weeks
  <2> QED
    BY <1>1, <2>1, <2>2 DEF Fine, DirtyOK, Inserts, Count
<1>3. MayOK(r)'
  BY <1>1 DEF Fine, MayOK, Admits
<1>4. AnswerOK(r)'
  BY <1>1 DEF Fine, AnswerOK, RowsOK, NoRows, Success
<1> QED
  BY <1>2, <1>3, <1>4, OneMoves

LEMMA TickLInv == ASSUME IInv, LInv, Tick PROVE LInv'
<1>1. now <= now' /\ now' \in Nat /\ KinOK'
  BY DEF Tick, IInv, TypeOK, LInv, KinOK
<1>2. \A s \in Req : UNCHANGED <<pc[s], at[s], week[s], dirty[s], answer[s]>>
  BY DEF Tick
<1> QED
  BY <1>1, <1>2, Others DEF Tick, LInv

\* A valid creation arrives before the start that it asks for.
LEMMA ArriveLInv == ASSUME IInv, LInv, NEW r \in Req, Arrive(r) PROVE LInv'
<1>1. /\ Fine(r) /\ pc[r] = "idle" /\ TypeOK
      /\ UNCHANGED <<now, req, week, table, dirty>>
      /\ at' = [at EXCEPT ![r] = now]
  BY DEF Arrive, LInv, IInv
<1>2. /\ at'[r] = now /\ \A s \in Req \ {r} : at'[s] = at[s]
      /\ \A s \in Req \ {r} : pc'[s] = pc[s] /\ answer'[s] = answer[s]
      /\ \/ pc'[r] = "check" /\ Valid(r) /\ answer'[r] = answer[r]
         \/ pc'[r] = "done" /\ answer'[r] \in {"none", "invalid"}
  BY <1>1 DEF Arrive, Goto, Reply, TypeOK
<1>3. DirtyOK(r)'
  <2>1. Inserted(r)' = Inserted(r)
    BY <1>1, <1>2 DEF Inserted
  <2> QED
    BY <1>1, <1>2, <2>1 DEF Fine, DirtyOK, Inserts, Count, Occurrence
<1>4. MayOK(r)'
  BY <1>1, <1>2 DEF MayOK, Valid, Inserts, Admits, TypeOK
<1>5. AnswerOK(r)'
  BY <1>1, <1>2 DEF Fine, AnswerOK, RowsOK, NoRows, Success, Inserts
<1> QED
  BY <1>1, <1>2, <1>3, <1>4, <1>5, OneMoves

\* The checks of the service: the owner's request goes on before the start.
LEMMA CheckLInv ==
  ASSUME IInv, LInv, NEW r \in Req, CheckRoom(r) \/ CheckBooking(r) PROVE LInv'
<1>1. /\ Fine(r) /\ pc[r] = "check" /\ TypeOK
      /\ UNCHANGED <<now, req, at, week, table, dirty>>
  BY DEF CheckRoom, CheckBooking, LInv, IInv
<1>2. \A s \in Req \ {r} : pc'[s] = pc[s] /\ answer'[s] = answer[s]
  BY <1>1 DEF CheckRoom, CheckBooking, Goto, Reply, TypeOK
<1>3. \/ pc'[r] = "write" /\ answer'[r] = answer[r]
      \/ pc'[r] = "done" /\ answer'[r] \notin Success
  BY <1>1 DEF CheckRoom, CheckBooking, Verdict, Goto, Reply, TypeOK, Success
<1>4. CASE pc'[r] = "done" /\ answer'[r] \notin Success
  <2>1. \A b \in BookingId : dirty'[r][b] = NoRow
    <3>1. \A b \in BookingId : ~(b.week < 0)
      BY CountAssumption DEF BookingId, Weeks
    <3> QED
      BY <1>1, <3>1 DEF Fine, DirtyOK, Inserted
  <2> QED
    BY <1>1, <1>2, <1>4, <2>1, EndsWithout
<1>5. CASE pc'[r] = "write" /\ answer'[r] = answer[r]
  <2>1. DirtyOK(r)'
    <3>1. Inserted(r)' = 0 /\ Inserted(r) = 0
      BY <1>1, <1>5 DEF Inserted, Fine, DirtyOK
    <3> QED
      BY <1>1, <1>5, <3>1 DEF Fine, DirtyOK, Inserts, Count, Occurrence
  <2>2. MayOK(r)'
    <3>1. CASE Inserts(r)
      BY <1>1, <3>1 DEF Fine, MayOK, Inserts, Admits
    <3>2. CASE ~Inserts(r)
      <4> DEFINE x == table[req[r].target]
      <4>1. Verdict(r, x) = "pass"
        BY <1>1, <1>5, <3>2 DEF CheckRoom, CheckBooking, Goto, Reply, TypeOK
      <4>2. x # NoRow /\ x.user = req[r].user /\ ~(x.start <= now)
        BY <4>1 DEF Verdict
      <4>3. x \in Row
        BY <1>1, <3>2, <4>2, RequestFields DEF TypeOK
      <4>4. x.start \in Nat /\ now \in Nat /\ at[r] \in Nat
        BY <1>1, <4>3 DEF Row, TypeOK
      <4> QED
        BY <1>1, <3>2, <4>2, <4>4 DEF Fine, MayOK, Inserts
    <3> QED
      BY <3>1, <3>2
  <2>3. AnswerOK(r)'
    BY <1>1, <1>5 DEF Fine, AnswerOK, Success
  <2> QED
    BY <1>1, <1>2, <1>5, <2>1, <2>2, <2>3, OneMoves
<1> QED
  BY <1>3, <1>4, <1>5

\* The statement writes the next occurrence, or the new version of the target.
LEMMA WriteLInv == ASSUME IInv, LInv, NEW r \in Req, Write(r) PROVE LInv'
<1>1. /\ Fine(r) /\ pc[r] = "write" /\ TypeOK /\ Target(r) \in BookingId
      /\ UNCHANGED <<now, req, at, week, table, answer>>
      /\ dirty' = [dirty EXCEPT ![r][Target(r)] = NewVersion(r)]
  BY TargetIsId DEF Write, LInv, IInv
<1>2. /\ pc'[r] = "verify" /\ \A s \in Req \ {r} : pc'[s] = pc[s]
      /\ \A s \in Req \ {r} : dirty'[s] = dirty[s]
      /\ \A b \in BookingId : dirty'[r][b] = IF b = Target(r) THEN NewVersion(r)
                                                              ELSE dirty[r][b]
  BY <1>1 DEF Write, Goto, TypeOK
<1>3. Inserted(r) = week[r] /\ Inserted(r)' = week[r] + 1
  BY <1>1, <1>2 DEF Inserted
<1>4. DirtyOK(r)'
  <2>1. ASSUME Inserts(r), NEW b \in BookingId
        PROVE  dirty'[r][b] = IF b.by = r /\ b.week < week[r] + 1
                              THEN Occurrence(req[r], b.week) ELSE NoRow
    <3>1. /\ dirty[r][b] = IF b.by = r /\ b.week < week[r]
                           THEN Occurrence(req[r], b.week) ELSE NoRow
          /\ NewVersion(r) = Occurrence(req[r], week[r])
          /\ Target(r) = [by |-> r, week |-> week[r]]
      BY <1>1, <1>3, <2>1 DEF Fine, DirtyOK, NewVersion, Inserts, Target
    <3>2. /\ b = Target(r) <=> b.by = r /\ b.week = week[r]
          /\ b.week \in Nat /\ week[r] \in Nat
      BY <1>1, <3>1, CountAssumption DEF BookingId, TypeOK, Weeks
    <3>3. b.week < week[r] + 1 <=> b.week < week[r] \/ b.week = week[r]
      BY <3>2
    <3> QED
      BY <1>2, <3>1, <3>2, <3>3
  <2>2. ASSUME ~Inserts(r), NEW b \in BookingId
        PROVE  dirty'[r][b] = IF b = req[r].target THEN NewVersion(r) ELSE NoRow
    BY <1>1, <1>2, <2>2 DEF Fine, DirtyOK, Target
  <2>3. /\ Inserts(r)' <=> Inserts(r)
        /\ ~Inserts(r) => NewVersion(r)' = NewVersion(r)
        /\ \A w : Occurrence(req[r], w)' = Occurrence(req[r], w)
    BY <1>1 DEF Inserts, NewVersion, Occurrence
  <2> QED
    BY <1>1, <1>2, <1>3, <2>1, <2>2, <2>3 DEF Fine, DirtyOK, Count, Occurrence
<1>5. MayOK(r)'
  BY <1>1, <1>2 DEF Fine, MayOK, Inserts, Admits
<1>6. AnswerOK(r)'
  BY <1>1, <1>2 DEF Fine, AnswerOK, Success
<1> QED
  BY <1>1, <1>2, <1>4, <1>5, <1>6, OneMoves

\* The loop counts the occurrence, or there is nothing left to write.
LEMMA PassLInv == ASSUME IInv, LInv, NEW r \in Req, Pass(r) PROVE LInv'
<1>1. /\ Fine(r) /\ pc[r] = "verify" /\ TypeOK
      /\ UNCHANGED <<now, req, at, table, dirty, answer>>
      /\ week[r] \in Nat /\ Count(req[r]) \in Nat
  BY CountRange, CountAssumption DEF Pass, LInv, IInv, TypeOK, Weeks
<1>2. \A s \in Req \ {r} : pc'[s] = pc[s] /\ week'[s] = week[s]
  BY <1>1 DEF Pass, Goto, TypeOK
<1>3. \/ /\ Inserts(r) /\ week[r] + 1 < Count(req[r])
         /\ week'[r] = week[r] + 1 /\ pc'[r] = "write"
      \/ /\ ~(Inserts(r) /\ week[r] + 1 < Count(req[r]))
         /\ week'[r] = week[r] /\ pc'[r] = "commit"
  BY <1>1 DEF Pass, Goto, TypeOK
<1>4. Inserted(r) = week[r] + 1 /\ Inserted(r)' = week[r] + 1
  BY <1>1, <1>3 DEF Inserted
<1>5. DirtyOK(r)'
  <2>1. /\ Inserts(r)' <=> Inserts(r)
        /\ ~Inserts(r) => NewVersion(r)' = NewVersion(r) /\ pc'[r] = "commit"
        /\ \A w : Occurrence(req[r], w)' = Occurrence(req[r], w)
        /\ Count(req[r])' = Count(req[r])
    BY <1>1, <1>3 DEF Inserts, NewVersion, Occurrence, Count
  <2>2. week'[r] < Count(req[r]) /\ (pc'[r] = "commit" /\ Inserts(r) =>
                                        week'[r] + 1 = Count(req[r]))
    BY <1>1, <1>3 DEF Fine, DirtyOK
  <2> QED
    BY <1>1, <1>3, <1>4, <2>1, <2>2 DEF Fine, DirtyOK
<1>6. MayOK(r)'
  BY <1>1, <1>3 DEF Fine, MayOK, Inserts, Admits
<1>7. AnswerOK(r)'
  BY <1>1, <1>3 DEF Fine, AnswerOK, Success
<1> QED
  BY <1>1, <1>2, <1>3, <1>5, <1>6, <1>7, OneMoves

\* A statement or a call that fails ends its transaction.
LEMMA FinishLInv ==
  ASSUME IInv, LInv, NEW r \in Req, Violate(r) \/ Deadlock(r) \/ CallFails(r)
  PROVE  LInv'
<1>1. /\ TypeOK /\ pc[r] # "done" /\ UNCHANGED <<now, req, at, week, table>>
      /\ \E code \in {"conflict", "internal"} : Finish(r, code)
  BY DEF Violate, Deadlock, CallFails, InFlight, ErrorCode, IInv
<1>2. /\ \A s \in Req \ {r} : UNCHANGED <<pc[s], dirty[s], answer[s]>>
      /\ pc'[r] = "done" /\ answer'[r] \notin Success
      /\ \A b \in BookingId : dirty'[r][b] = NoRow
  BY <1>1 DEF Finish, Reply, Goto, TypeOK, Clean, Success
<1> QED
  BY <1>1, <1>2, EndsWithout

LEMMA CrashLInv == ASSUME IInv, LInv, Crash PROVE LInv'
<1>1. PICK lost \in SUBSET Req :
        /\ \A r \in lost : InFlight(r)
        /\ pc' = [r \in Req |-> IF r \in lost THEN "done" ELSE pc[r]]
        /\ dirty' = [r \in Req |-> IF r \in lost THEN Clean ELSE dirty[r]]
  <2>1. PICK orphans \in SUBSET Req :
          LET gone == {r \in Req : InFlight(r)} \ orphans IN
          /\ pc' = [r \in Req |-> IF r \in gone THEN "done" ELSE pc[r]]
          /\ dirty' = [r \in Req |-> IF r \in gone THEN Clean ELSE dirty[r]]
    BY DEF Crash
  <2> DEFINE gone == {r \in Req : InFlight(r)} \ orphans
  <2>2. gone \in SUBSET Req /\ \A r \in gone : InFlight(r)
    OBVIOUS
  <2>3. /\ pc' = [r \in Req |-> IF r \in gone THEN "done" ELSE pc[r]]
        /\ dirty' = [r \in Req |-> IF r \in gone THEN Clean ELSE dirty[r]]
    BY <2>1
  <2> HIDE DEF gone
  <2> QED
    BY <2>2, <2>3
<1>2. UNCHANGED <<now, req, at, week, table, answer>> /\ now' \in Nat /\ now <= now'
  BY DEF Crash, IInv, TypeOK
<1>3. KinOK'
  BY <1>2 DEF LInv, KinOK
<1>4. ASSUME NEW r \in Req PROVE Fine(r)'
  <2>1. Fine(r)
    BY DEF LInv
  <2>2. CASE r \notin lost
    BY <1>1, <1>2, <2>2, Others
  <2>3. CASE r \in lost
    <3>1. /\ pc'[r] = "done" /\ pc[r] # "done"
          /\ \A b \in BookingId : dirty'[r][b] = NoRow /\ ~(b.week < 0)
      BY <1>1, <2>3, CountAssumption DEF InFlight, Clean, BookingId, Weeks
    <3>2. DirtyOK(r)'
      BY <1>2, <2>1, <3>1 DEF Fine, DirtyOK, Inserted, Inserts, Count
    <3>3. RowsOK(r)'
      BY <1>2, <2>1, <3>1 DEF Fine, RowsOK, NoRows, AllRows, Inserts
    <3>4. MayOK(r)'
      BY <1>2, <2>1, <3>1 DEF Fine, MayOK, Admits
    <3>5. AnswerOK(r)'
      BY <1>2, <2>1, <3>1 DEF Fine, AnswerOK, Success
    <3> QED
      BY <3>2, <3>3, <3>4, <3>5 DEF Fine
  <2> QED
    BY <2>2, <2>3
<1> QED
  BY <1>3, <1>4 DEF LInv

-----------------------------------------------------------------------------
(* The commit *)

\* What a commit of r makes of the table: all the occurrences that r asks for
\* are entered where none of them was, or the booking that r names changes.
Enters(r) ==
  /\ Inserts(r) /\ NoRows(r)
  /\ table' = [b \in BookingId |->
       IF b.by = r /\ b.week < Count(req[r]) THEN Occurrence(req[r], b.week) ELSE table[b]]

Changes(r) ==
  /\ ~Inserts(r)
  /\ req[r].target \in BookingId /\ table[req[r].target] # NoRow
  /\ table' = [table EXCEPT ![req[r].target] = NewVersion(r)]

LEMMA CommitTable ==
  ASSUME IInv, LInv, NEW r \in Req, Commit(r) PROVE Enters(r) \/ Changes(r)
<1>1. /\ pc[r] = "commit" /\ Fine(r) /\ TypeOK
      /\ table' = [b \in BookingId |-> IF dirty[r][b] # NoRow THEN dirty[r][b] ELSE table[b]]
  BY DEF Commit, LInv, IInv
<1>2. CASE Inserts(r)
  <2>1. NoRows(r)
    BY <1>1 DEF Fine, RowsOK
  <2>2. Inserted(r) = Count(req[r])
    BY <1>1, <1>2 DEF Inserted, Fine, DirtyOK
  <2>3. ASSUME NEW b \in BookingId
        PROVE  (IF dirty[r][b] # NoRow THEN dirty[r][b] ELSE table[b])
               = IF b.by = r /\ b.week < Count(req[r])
                 THEN Occurrence(req[r], b.week) ELSE table[b]
    BY <1>1, <1>2, <2>1, <2>2 DEF Fine, DirtyOK, NoRows
  <2> QED
    BY <1>1, <1>2, <2>1, <2>3 DEF Enters
<1>3. CASE ~Inserts(r)
  <2> DEFINE t == req[r].target
  <2>1. t \in BookingId /\ table[t] # NoRow
    BY <1>1, <1>3, RequestFields DEF IInv, AdmittedOK, Admits
  <2>2. NewVersion(r) \in Row
    BY <1>1, NewVersionIsRow DEF IInv, Admits
  <2>3. ASSUME NEW b \in BookingId
        PROVE  dirty[r][b] = IF b = t THEN NewVersion(r) ELSE NoRow
    BY <1>1, <1>3 DEF Fine, DirtyOK
  <2>4. NewVersion(r) # NoRow
    BY <2>2, NoRowAssumption
  <2>5. table' = [table EXCEPT ![t] = NewVersion(r)]
    <3>1. table' = [b \in BookingId |-> IF b = t THEN NewVersion(r) ELSE table[b]]
      BY <1>1, <2>3, <2>4
    <3>2. table = [b \in BookingId |-> table[b]]
      BY <1>1 DEF TypeOK
    <3> QED
      BY <3>1, <3>2
  <2> QED
    BY <1>3, <2>1, <2>5 DEF Changes
<1> QED
  BY <1>2, <1>3

\* A booking that is there stays there, with its user, its room and its start,
\* and cancelled if it was; only the one that r names is different.
LEMMA CommitKeeps ==
  ASSUME IInv, LInv, NEW r \in Req, Commit(r), NEW b \in BookingId, table[b] # NoRow
  PROVE  /\ table'[b] # NoRow
         /\ table'[b].user = table[b].user /\ table'[b].room = table[b].room
         /\ table'[b].start = table[b].start
         /\ table[b].status = "CANCELLED" => table'[b].status = "CANCELLED"
         /\ table'[b] # table[b] => ~Inserts(r) /\ req[r].target = b
<1>1. TypeOK /\ table[b] \in Row
  BY DEF IInv, TypeOK
<1>2. CASE Enters(r)
  BY <1>2 DEF Enters, NoRows
<1>3. CASE Changes(r)
  <2>1. CASE b # req[r].target
    BY <1>1, <1>3, <2>1 DEF Changes, TypeOK
  <2>2. CASE b = req[r].target
    <3>1. table'[b] = NewVersion(r) /\ ~Inserts(r)
      BY <1>1, <1>3, <2>2 DEF Changes, TypeOK
    <3>2. NewVersion(r) # NoRow
      <4>1. NewVersion(r) \in Row
        BY NewVersionIsRow DEF Commit, IInv, Admits
      <4> QED
        BY <4>1, NoRowAssumption
    <3>3. \/ NewVersion(r) = [table[b] EXCEPT !.status = "CANCELLED"]
          \/ NewVersion(r) = [table[b] EXCEPT !.end = req[r].end]
      BY <1>1, <2>2, <3>1, RequestFields DEF NewVersion, Inserts
    <3>4. /\ NewVersion(r).user = table[b].user /\ NewVersion(r).room = table[b].room
          /\ NewVersion(r).start = table[b].start
          /\ table[b].status = "CANCELLED" => NewVersion(r).status = "CANCELLED"
      BY <1>1, <3>3 DEF Row
    <3> QED
      BY <2>2, <3>1, <3>2, <3>4
  <2> QED
    BY <2>1, <2>2
<1> QED
  BY <1>2, <1>3, CommitTable

\* The requests that go on find what they had found.
LEMMA CommitOthers ==
  ASSUME IInv, LInv, NEW r \in Req, Commit(r), NEW s \in Req \ {r} PROVE Fine(s)'
<1>1. /\ TypeOK /\ Fine(s) /\ UNCHANGED <<now, req, at, week>>
      /\ UNCHANGED <<pc[s], dirty[s], answer[s]>>
  BY DEF Commit, Finish, Reply, Goto, IInv, LInv, TypeOK
<1>2. \A b \in BookingId : b.by = s => (table'[b] # NoRow <=> table[b] # NoRow)
  <2>1. CASE Enters(r)
    BY <2>1 DEF Enters
  <2>2. CASE Changes(r)
    BY <1>1, <2>2, CommitKeeps DEF Changes, TypeOK
  <2> QED
    BY <2>1, <2>2, CommitTable
<1>3. DirtyOK(s)'
  <2>1. ASSUME ~Inserts(s), pc[s] \in {"verify", "commit"}
        PROVE  table'[req[s].target] = table[req[s].target]
    <3> DEFINE t == req[s].target
    <3> SUFFICES ASSUME table'[t] # table[t] PROVE FALSE
      OBVIOUS
    <3>1. t \in BookingId /\ table[t] # NoRow
      BY <1>1, <2>1, RequestFields DEF IInv, AdmittedOK, Admits
    <3>2. ~Inserts(r) /\ req[r].target = t /\ pc[r] = "commit"
      BY <3>1, CommitKeeps DEF Commit
    <3>3. NewVersion(s) # NoRow /\ NewVersion(r) # NoRow
      BY <2>1, <3>2, NewVersionIsRow, NoRowAssumption DEF IInv, Admits
    <3>4. dirty[s][t] # NoRow /\ dirty[r][t] # NoRow
      BY <1>1, <2>1, <3>1, <3>2, <3>3 DEF LInv, Fine, DirtyOK
    <3> QED
      BY <3>1, <3>4 DEF IInv, LocksOK
  <2>2. /\ Inserts(s)' <=> Inserts(s)
        /\ Inserted(s)' = Inserted(s) /\ Count(req[s])' = Count(req[s])
        /\ \A w : Occurrence(req[s], w)' = Occurrence(req[s], w)
    BY <1>1 DEF Inserts, Inserted, Count, Occurrence
  <2>3. ~Inserts(s) /\ pc[s] \in {"verify", "commit"} => NewVersion(s)' = NewVersion(s)
    BY <1>1, <2>1 DEF NewVersion, Inserts
  <2> QED
    BY <1>1, <2>2, <2>3 DEF Fine, DirtyOK
<1>4. RowsOK(s)'
  BY <1>1, <1>2 DEF Fine, RowsOK, NoRows, AllRows, Inserts
<1>5. MayOK(s)'
  <2>1. ~Inserts(s) /\ pc[s] \in Admits =>
          req[s].target \in BookingId /\ table[req[s].target] # NoRow
    BY <1>1, RequestFields DEF IInv, AdmittedOK
  <2>2. ~Inserts(s) /\ pc[s] \in Admits =>
          /\ table'[req[s].target].user = table[req[s].target].user
          /\ table'[req[s].target].start = table[req[s].target].start
    BY <2>1, CommitKeeps
  <2> QED
    BY <1>1, <2>2 DEF Fine, MayOK, Inserts
<1>6. AnswerOK(s)'
  <2>1. answer[s] = "noContent" =>
          req[s].target \in BookingId /\ table[req[s].target] # NoRow
    BY <1>1, RequestFields DEF Fine, AnswerOK, Inserts
  <2>2. answer[s] = "noContent" =>
          /\ table'[req[s].target] # NoRow
          /\ table'[req[s].target].status = "CANCELLED"
    BY <1>1, <2>1, CommitKeeps DEF Fine, AnswerOK
  <2> QED
    BY <1>1, <1>2, <2>2 DEF Fine, AnswerOK, NoRows, AllRows, Inserts
<1> QED
  BY <1>3, <1>4, <1>5, <1>6 DEF Fine

\* The request that commits is done, and its answer says so or says nothing.
LEMMA CommitSelf ==
  ASSUME IInv, LInv, NEW r \in Req, Commit(r) PROVE Fine(r)'
<1>1. /\ TypeOK /\ Fine(r) /\ pc[r] = "commit" /\ UNCHANGED <<now, req, at, week>>
      /\ pc'[r] = "done" /\ \A b \in BookingId : dirty'[r][b] = NoRow
      /\ answer'[r] \in {"none", "internal", SuccessCode(r)}
  BY DEF Commit, Finish, Reply, Goto, Clean, ErrorCode, IInv, LInv, TypeOK
<1>2. /\ Inserts(r)' <=> Inserts(r)
      /\ Count(req[r])' = Count(req[r]) /\ Inserted(r)' = 0
      /\ \A b \in BookingId : ~(b.week < 0)
  BY <1>1, CountAssumption DEF Inserts, Inserted, Count, BookingId, Weeks
<1>3. DirtyOK(r)' /\ MayOK(r)'
  BY <1>1, <1>2 DEF Fine, DirtyOK, MayOK, Admits
<1>4. CASE Enters(r)
  <2>1. AllRows(r)'
    <3>1. ASSUME NEW b \in BookingId, b.by = r, b.week < Count(req[r])
          PROVE  table'[b] # NoRow
      <4>1. table'[b] = Occurrence(req[r], b.week) /\ b.week \in Weeks
        BY <1>4, <3>1 DEF Enters, BookingId
      <4>2. Inserts(r) /\ req[r].room \in Room
        BY <1>1, <1>4 DEF Enters, IInv, AdmittedOK, Admits
      <4> QED
        BY <1>1, <4>1, <4>2, OccurrenceIsRow, NoRowAssumption
    <3>2. ASSUME NEW b \in BookingId, b.by = r, ~(b.week < Count(req[r]))
          PROVE  table'[b] = NoRow
      BY <1>4, <3>2 DEF Enters, NoRows
    <3> QED
      BY <1>2, <3>1, <3>2, <1>1 DEF AllRows
  <2>2. SuccessCode(r) = "created" /\ Inserts(r)
    BY <1>4 DEF Enters, SuccessCode, Inserts
  <2> QED
    BY <1>1, <1>2, <1>3, <2>1, <2>2 DEF Fine, RowsOK, AnswerOK, Success
<1>5. CASE Changes(r)
  <2>1. ~Inserts(r) /\ SuccessCode(r) \in {"noContent", "ok"}
        /\ (SuccessCode(r) = "noContent" => req[r].op = "cancel")
    BY <1>1, <1>5, RequestFields DEF Changes, SuccessCode, Inserts
  <2>2. NoRows(r) /\ NoRows(r)'
    <3>1. NoRows(r)
      BY <1>1 DEF Fine, RowsOK
    <3> QED
      BY <1>1, <1>5, <3>1 DEF Changes, NoRows, TypeOK
  <2>3. req[r].op = "cancel" =>
          /\ table'[req[r].target] # NoRow
          /\ table'[req[r].target].status = "CANCELLED"
    <3> SUFFICES ASSUME req[r].op = "cancel"
                 PROVE  /\ table'[req[r].target] # NoRow
                        /\ table'[req[r].target].status = "CANCELLED"
      OBVIOUS
    <3>1. table[req[r].target] \in Row /\ req[r].target \in BookingId
      BY <1>1, <1>5 DEF Changes, TypeOK
    <3>2. NewVersion(r) = [table[req[r].target] EXCEPT !.status = "CANCELLED"]
      BY <2>1 DEF NewVersion
    <3>3. NewVersion(r) \in Row /\ NewVersion(r).status = "CANCELLED"
      BY <3>1, <3>2 DEF Row
    <3> QED
      BY <1>1, <1>5, <3>1, <3>3, NoRowAssumption DEF Changes, TypeOK
  <2> QED
    BY <1>1, <1>2, <1>3, <2>1, <2>2, <2>3 DEF Fine, RowsOK, AnswerOK, Success
<1> QED
  BY <1>4, <1>5, CommitTable

LEMMA CommitLInv == ASSUME IInv, LInv, NEW r \in Req, Commit(r) PROVE LInv'
<1>1. TypeOK /\ req' = req
  BY DEF IInv, Commit
<1>2. KinOK'
  <2> SUFFICES ASSUME NEW b \in BookingId, table'[b] # NoRow
               PROVE  table'[b].user = req[b.by].user /\ table'[b].room = req[b.by].room
    BY <1>1 DEF KinOK
  <2>1. CASE table[b] # NoRow
    BY <2>1, CommitKeeps DEF LInv, KinOK
  <2>2. CASE table[b] = NoRow
    <3>1. CASE Enters(r)
      BY <2>2, <3>1 DEF Enters, Occurrence
    <3>2. CASE Changes(r)
      BY <1>1, <2>2, <3>2 DEF Changes, TypeOK
    <3> QED
      BY <3>1, <3>2, CommitTable
  <2> QED
    BY <2>1, <2>2
<1> QED
  BY <1>2, CommitSelf, CommitOthers DEF LInv

-----------------------------------------------------------------------------
(* The invariant, and what a step does to the table *)

LEMMA StepLInv == IInv /\ LInv /\ [Next]_vars => LInv'
<1> SUFFICES ASSUME IInv, LInv, [Next]_vars PROVE LInv'
  OBVIOUS
<1>1. ASSUME NEW r \in Req, Step(r) PROVE LInv'
  BY <1>1, CheckLInv, WriteLInv, PassLInv, FinishLInv, CommitLInv DEF Step
<1>2. CASE UNCHANGED vars
  <2>1. KinOK' /\ now' \in Nat /\ now <= now'
    BY <1>2 DEF vars, LInv, KinOK, IInv, TypeOK
  <2> QED
    BY <1>2, <2>1, Others DEF vars, LInv
<1> QED
  BY <1>1, <1>2, TickLInv, ArriveLInv, FinishLInv, CrashLInv DEF Next

LEMMA LedgerInvariance == Spec => [](IInv /\ LInv)
BY InitInv, InitLInv, StepInv, StepLInv, PTL DEF Spec

\* Only a commit changes the table, and no step changes a request.
LEMMA OnlyCommits ==
  ASSUME [Next]_vars
  PROVE  req' = req /\ (table' = table \/ \E r \in Req : Commit(r))
<1>1. ASSUME NEW r \in Req, Step(r)
      PROVE  req' = req /\ (table' = table \/ Commit(r))
  BY <1>1 DEF Step, CheckRoom, CheckBooking, Write, Pass, Violate, Deadlock, Commit
<1>2. ASSUME NEW r \in Req, Arrive(r) \/ CallFails(r) PROVE UNCHANGED <<req, table>>
  BY <1>2 DEF Arrive, CallFails
<1>3. Tick \/ Crash \/ UNCHANGED vars => UNCHANGED <<req, table>>
  BY DEF Tick, Crash, vars
<1> QED
  BY <1>1, <1>2, <1>3 DEF Next

-----------------------------------------------------------------------------
(* The theorems *)

\* A series is in the table with all its occurrences or with none.
THEOREM SeriesAreWhole == Spec => []SeriesAllOrNothing
<1>1. IInv /\ LInv => SeriesAllOrNothing
  <2> SUFFICES ASSUME IInv, LInv, NEW r \in Req, req[r].op = "series"
               PROVE  LET there == {w \in Weeks : table[[by |-> r, week |-> w]] # NoRow} IN
                      there = {} \/ there = 0 .. req[r].count - 1
    BY DEF SeriesAllOrNothing
  <2> DEFINE there == {w \in Weeks : table[[by |-> r, week |-> w]] # NoRow}
  <2>1. \A w \in Weeks : /\ [by |-> r, week |-> w] \in BookingId
                         /\ [by |-> r, week |-> w].by = r
                         /\ [by |-> r, week |-> w].week = w
    BY DEF BookingId
  <2>2. CASE NoRows(r)
    BY <2>1, <2>2 DEF NoRows
  <2>3. CASE AllRows(r)
    <3>1. Count(req[r]) = req[r].count /\ Count(req[r]) \in 1 .. MaxCount
      BY CountRange DEF Count, IInv
    <3>2. \A w \in Weeks : w \in there <=> w < req[r].count
      BY <2>1, <2>3, <3>1 DEF AllRows
    <3>3. 0 .. req[r].count - 1 = {w \in Weeks : w < req[r].count}
      BY <3>1, CountAssumption DEF Weeks
    <3> QED
      BY <3>2, <3>3
  <2> QED
    BY <2>2, <2>3 DEF LInv, Fine, RowsOK
<1> QED
  BY <1>1, LedgerInvariance, PTL

\* What a client has been told of the table is so, and stays so.
THEOREM AnswersTellTheTruth == Spec => []AnswersAreTrue
<1>1. IInv /\ LInv => AnswersAreTrue
  <2> SUFFICES ASSUME IInv, LInv, NEW r \in Req
               PROVE  LET rows == {[by |-> r, week |-> w] : w \in 0 .. Count(req[r]) - 1} IN
                      /\ answer[r] = "created" => \A b \in rows :
                           /\ table[b] # NoRow
                           /\ table[b].user = req[r].user /\ table[b].room = req[r].room
                           /\ table[b].start = Occurrence(req[r], b.week).start
                      /\ Inserts(r) /\ answer[r] \notin Success \cup {"none", "internal"} =>
                           \A b \in rows : table[b] = NoRow
                      /\ answer[r] = "noContent" => table[req[r].target].status = "CANCELLED"
    BY DEF AnswersAreTrue
  <2>1. AnswerOK(r) /\ TypeOK
    BY DEF LInv, Fine, IInv
  <2> DEFINE rows == {[by |-> r, week |-> w] : w \in 0 .. Count(req[r]) - 1}
  <2>2. \A b \in rows : b \in BookingId /\ b.by = r /\ b.week < Count(req[r])
    <3>1. 0 .. Count(req[r]) - 1 \subseteq Weeks
      BY <2>1, CountRange, CountAssumption DEF Weeks
    <3>2. \A w \in 0 .. Count(req[r]) - 1 : w < Count(req[r])
      BY <2>1, CountRange
    <3> QED
      BY <3>1, <3>2 DEF BookingId
  <2>3. ASSUME answer[r] = "created", NEW b \in rows
        PROVE  /\ table[b] # NoRow
               /\ table[b].user = req[r].user /\ table[b].room = req[r].room
               /\ table[b].start = Occurrence(req[r], b.week).start
    <3>1. b \in BookingId /\ b.by = r /\ table[b] # NoRow
      BY <2>1, <2>2, <2>3 DEF AnswerOK, AllRows
    <3> QED
      BY <3>1 DEF LInv, KinOK, IInv, WindowsOK, Within
  <2>4. Inserts(r) /\ answer[r] \notin Success \cup {"none", "internal"} =>
          \A b \in rows : table[b] = NoRow
    BY <2>1, <2>2 DEF AnswerOK, NoRows
  <2> QED
    BY <2>1, <2>3, <2>4 DEF AnswerOK
<1> QED
  BY <1>1, LedgerInvariance, PTL

\* Nothing brings a cancelled booking back.
THEOREM CancelledStays == Spec => CancelledForGood
<1>1. IInv /\ LInv /\ [Next]_vars =>
        [\A b \in BookingId : table[b] # NoRow /\ table[b].status = "CANCELLED"
           => table'[b] # NoRow /\ table'[b].status = "CANCELLED"]_vars
  BY OnlyCommits, CommitKeeps
<1>2. Spec => [][Next]_vars
  BY PTL DEF Spec
<1> QED
  BY <1>1, <1>2, LedgerInvariance, PTL DEF CancelledForGood

\* A step changes one existing booking at most, which its owner has named.
THEOREM OnlyOwnersChange == Spec => OnlyTheNamedBooking
<1> DEFINE A == \A b \in BookingId :
       table[b] # NoRow /\ table'[b] # table[b] =>
         /\ \E r \in Req : /\ pc[r] = "commit" /\ ~Inserts(r)
                           /\ req[r].target = b
                           /\ req[r].user = table[b].user
         /\ table'[b] # NoRow
         /\ table'[b].user = table[b].user /\ table'[b].room = table[b].room
         /\ \A c \in BookingId \ {b} : table'[c] = table[c]
<1>1. ASSUME IInv, LInv, [Next]_vars, NEW b \in BookingId,
             table[b] # NoRow, table'[b] # table[b]
      PROVE  /\ \E r \in Req : /\ pc[r] = "commit" /\ ~Inserts(r)
                               /\ req[r].target = b
                               /\ req[r].user = table[b].user
             /\ table'[b] # NoRow
             /\ table'[b].user = table[b].user /\ table'[b].room = table[b].room
             /\ \A c \in BookingId \ {b} : table'[c] = table[c]
  <2>1. PICK r \in Req : Commit(r)
    BY <1>1, OnlyCommits
  <2>2. /\ ~Inserts(r) /\ req[r].target = b /\ pc[r] = "commit"
        /\ table'[b] # NoRow
        /\ table'[b].user = table[b].user /\ table'[b].room = table[b].room
    BY <1>1, <2>1, CommitKeeps DEF Commit
  <2>3. req[r].user = table[b].user
    BY <1>1, <2>2 DEF LInv, Fine, MayOK, Admits
  <2>4. Changes(r)
    BY <1>1, <2>1, <2>2, CommitTable DEF Enters
  <2>5. \A c \in BookingId \ {b} : table'[c] = table[c]
    BY <1>1, <2>2, <2>4 DEF Changes, IInv, TypeOK
  <2> QED
    BY <2>2, <2>3, <2>5
<1>2. IInv /\ LInv /\ [Next]_vars => [A]_vars
  BY <1>1
<1>3. Spec => [][Next]_vars
  BY PTL DEF Spec
<1> QED
  BY <1>2, <1>3, LedgerInvariance, PTL DEF OnlyTheNamedBooking

\* A booking is entered, or changed, only by a request that arrived before its
\* start.
THEOREM LateRequestsChangeNothing == Spec => TooLateOnArrival
<1> DEFINE A == \A b \in BookingId :
       table'[b] # table[b] =>
         \E r \in Req : /\ pc[r] = "commit" /\ pc'[r] = "done"
                        /\ at[r] < table'[b].start
<1>1. ASSUME IInv, LInv, [Next]_vars, NEW b \in BookingId, table'[b] # table[b]
      PROVE  \E r \in Req : /\ pc[r] = "commit" /\ pc'[r] = "done"
                            /\ at[r] < table'[b].start
  <2>1. PICK r \in Req : Commit(r)
    BY <1>1, OnlyCommits
  <2>2. pc[r] = "commit" /\ pc'[r] = "done" /\ MayOK(r) /\ TypeOK
    BY <1>1, <2>1 DEF Commit, Finish, Reply, Goto, IInv, TypeOK, LInv, Fine
  <2>3. CASE Enters(r)
    <3>1. table'[b] = Occurrence(req[r], b.week) /\ b.week \in Weeks
      BY <1>1, <2>3 DEF Enters, BookingId
    <3>2. at[r] < req[r].start /\ req[r].start \in Nat /\ at[r] \in Nat
      BY <2>2, <2>3, RequestFields DEF Enters, MayOK, Admits, TypeOK
    <3>3. table'[b].start = req[r].start + b.week * Week /\ b.week * Week \in Nat
      BY <3>1, WeekShift DEF Occurrence
    <3> QED
      BY <2>2, <3>2, <3>3
  <2>4. CASE Changes(r)
    <3>1. b = req[r].target /\ table[b] # NoRow
      BY <1>1, <2>2, <2>4 DEF Changes, TypeOK
    <3>2. table'[b].start = table[b].start
      BY <1>1, <2>1, <3>1, CommitKeeps
    <3>3. at[r] < table[b].start
      BY <2>2, <2>4, <3>1 DEF Changes, MayOK, Admits
    <3> QED
      BY <2>2, <3>2, <3>3
  <2> QED
    BY <1>1, <2>1, <2>3, <2>4, CommitTable
<1>2. IInv /\ LInv /\ [Next]_vars => [A]_vars
  BY <1>1
<1>3. Spec => [][Next]_vars
  BY PTL DEF Spec
<1> QED
  BY <1>2, <1>3, LedgerInvariance, PTL DEF TooLateOnArrival

-----------------------------------------------------------------------------
(* The refinement *)

\* No two confirmed bookings share a room and an instant, as the ledger says it.
LEMMA TableCollisionFree == IInv => Ledger!CollisionFree(table)
<1> SUFFICES ASSUME IInv, NEW b \in BookingId, NEW c \in BookingId, b # c,
                    Ledger!Collide(table[b], table[c])
             PROVE  FALSE
  BY DEF Ledger!CollisionFree
<1>1. /\ Confirmed(table[b]) /\ Confirmed(table[c]) /\ table[b].room = table[c].room
      /\ ShareInstant(table[b], table[c])
  BY DEF Ledger!Collide, Ledger!ShareInstant, Ledger!Covers, ShareInstant, Covers, Confirmed
<1>2. ~Overlap(table[b], table[c])
  BY <1>1 DEF IInv, TableOK, Conflict
<1>3. table[b] \in Row /\ table[c] \in Row
  BY <1>1 DEF IInv, TypeOK, Confirmed
<1>4. NonEmpty(table[b]) /\ NonEmpty(table[c])
  BY <1>1 DEF IInv, WindowsOK, Within, Confirmed, NonEmpty
<1> QED
  BY <1>1, <1>2, <1>3, <1>4, OverlapIsSharing DEF Row

LEMMA NextCollisionFree == IInv' => Ledger!CollisionFree(table)'
BY TableCollisionFree, PTL

\* The history variable of the ledger, under the refinement mapping.
Entered ==
  [b \in BookingId |-> IF table[b] = NoRow THEN NoRow ELSE Occurrence(req[b.by], b.week)]

LEMMA InitRefines == Init => Ledger!LedgerInit
<1> SUFFICES ASSUME Init PROVE Ledger!LedgerInit
  OBVIOUS
<1>1. Ledger!CollisionFree(table)
  BY InitInv, TableCollisionFree
<1>2. table = [b \in BookingId |-> EarlierRow(b)]
  BY DEF Init
<1>3. \A b \in BookingId :
        (IF table[b] = NoRow THEN NoRow ELSE Occurrence(req[b.by], b.week)) = EarlierRow(b)
  BY <1>2 DEF EarlierRow
<1>4. Entered = table
  BY <1>2, <1>3 DEF Entered
<1> QED
  BY <1>1, <1>4 DEF Ledger!LedgerInit, Entered

\* A commit of new bookings reserves them.
LEMMA EntersRefines ==
  ASSUME IInv, LInv, NEW r \in Req, Commit(r), Enters(r) PROVE Ledger!Reserve(r)
<1> DEFINE id == [by |-> r, week |-> 0]
           first == table'[id]
           n == Count(req[r])
<1>1. /\ TypeOK /\ Inserts(r) /\ NonEmpty(req[r]) /\ req[r].room \in Room
      /\ req' = req /\ n \in 1 .. MaxCount /\ 0 \in Weeks /\ id \in BookingId
  BY CountRange, CountAssumption
  DEF Commit, Enters, IInv, AdmittedOK, Admits, Weeks, BookingId
<1>2. /\ req[r].start \in Nat /\ req[r].end \in Nat /\ req[r].user \in User
      /\ req[r].start < req[r].end /\ 0 * Week = 0
  BY <1>1, RequestFields, WeekAssumption DEF NonEmpty
<1>3. first = Occurrence(req[r], 0)
  BY <1>1 DEF Enters
<1>4. first = [room |-> req[r].room, user |-> req[r].user, start |-> req[r].start,
               end |-> req[r].end, status |-> "CONFIRMED"]
  BY <1>2, <1>3 DEF Occurrence
<1>5. first \in Ledger!NewEntry
  BY <1>1, <1>2, <1>4 DEF Ledger!NewEntry, Ledger!NonEmpty
<1>6. ASSUME NEW w \in Weeks
      PROVE  [first EXCEPT !.start = @ + w * Week, !.end = @ + w * Week]
             = Occurrence(req[r], w)
  <2> DEFINE k == w * Week
  <2>1. first \in [room : Room, user : User, start : Nat, end : Nat,
                   status : {"CONFIRMED"}]
    BY <1>1, <1>2, <1>4
  <2>2. /\ first.room = req[r].room /\ first.user = req[r].user
        /\ first.start = req[r].start /\ first.end = req[r].end
        /\ first.status = "CONFIRMED"
    BY <1>4
  <2>3. k \in Nat
    BY WeekAssumption, CountAssumption DEF Weeks
  <2> HIDE DEF first, k
  <2>4. first.start + k \in Nat /\ first.end + k \in Nat
    BY <1>2, <2>3, <2>2
  <2>5. [first EXCEPT !.start = first.start + k, !.end = first.end + k]
        = [room |-> req[r].room, user |-> req[r].user, start |-> req[r].start + k,
           end |-> req[r].end + k, status |-> "CONFIRMED"]
    <3> DEFINE Rows == [room : Room, user : User, start : Nat, end : Nat,
                        status : {"CONFIRMED"}]
               s == first.start + k
               e == first.end + k
    <3>1. s = req[r].start + k /\ e = req[r].end + k /\ s \in Nat /\ e \in Nat
      BY <2>2, <2>4
    <3> HIDE DEF s, e
    <3> DEFINE moved == [first EXCEPT !.start = s, !.end = e]
               plain == [room |-> first.room, user |-> first.user, start |-> s,
                         end |-> e, status |-> first.status]
    <3>2. moved \in Rows /\ plain \in Rows
      BY <2>1, <3>1
    <3>3. /\ moved.room = plain.room /\ moved.user = plain.user
          /\ moved.start = plain.start /\ moved.end = plain.end
          /\ moved.status = plain.status
      BY <2>1, <3>1
    <3> HIDE DEF moved, plain
    <3>4. moved = plain
      BY <3>2, <3>3
    <3>5. [first EXCEPT !.start = s, !.end = e]
          = [room |-> req[r].room, user |-> req[r].user, start |-> req[r].start + k,
             end |-> req[r].end + k, status |-> "CONFIRMED"]
      BY <2>2, <3>1, <3>4 DEF moved, plain
    <3> QED
      BY <3>5 DEF s, e
  <2> QED
    BY <2>5 DEF Occurrence, k
<1>7. table' = [b \in BookingId |->
                  IF b.by = r /\ b.week < n
                  THEN [first EXCEPT !.start = @ + b.week * Week,
                                     !.end = @ + b.week * Week]
                  ELSE table[b]]
  <2>1. \A b \in BookingId : b.week \in Weeks
    BY DEF BookingId
  <2> HIDE DEF first
  <2>2. \A b \in BookingId :
          (IF b.by = r /\ b.week < n THEN Occurrence(req[r], b.week) ELSE table[b])
          = IF b.by = r /\ b.week < n
            THEN [first EXCEPT !.start = @ + b.week * Week, !.end = @ + b.week * Week]
            ELSE table[b]
    BY <1>6, <2>1
  <2> QED
    BY <2>2 DEF Enters
<1>8. Entered' = [b \in BookingId |-> IF b.by = r THEN table'[b] ELSE Entered[b]]
  <2>1. ASSUME NEW b \in BookingId
        PROVE  (IF table'[b] = NoRow THEN NoRow ELSE Occurrence(req[b.by], b.week))
               = IF b.by = r THEN table'[b] ELSE Entered[b]
    BY DEF Enters, NoRows, Entered
  <2> QED
    BY <1>1, <2>1 DEF Entered
<1>9. \A b \in BookingId : b.by = r => table[b] = NoRow
  BY DEF Enters, NoRows
<1> QED
  BY <1>1, <1>5, <1>7, <1>8, <1>9 DEF Ledger!Reserve, Entered

\* A commit of a cancellation or a shortening is one of the ledger's.
LEMMA ChangesRefines ==
  ASSUME IInv, LInv, NEW r \in Req, Commit(r), Changes(r)
  PROVE  Ledger!Cancel(req[r].target) \/ Ledger!MoveEnd(req[r].target)
<1> DEFINE t == req[r].target
<1>1. /\ TypeOK /\ ~Inserts(r) /\ t \in BookingId /\ table[t] # NoRow /\ req' = req
      /\ table' = [table EXCEPT ![t] = NewVersion(r)] /\ pc[r] = "commit"
  BY DEF Changes, Commit, IInv
<1>2. Entered' = Entered
  <2>1. \A b \in BookingId : table'[b] = NoRow <=> table[b] = NoRow
    BY <1>1, CommitKeeps DEF TypeOK
  <2> QED
    BY <1>1, <2>1 DEF Entered
<1>3. CASE req[r].op = "cancel"
  <2>1. NewVersion(r) = [table[t] EXCEPT !.status = "CANCELLED"]
    BY <1>1, <1>3 DEF NewVersion
  <2> QED
    BY <1>1, <1>2, <2>1 DEF Ledger!Cancel, Entered
<1>4. CASE req[r].op = "shorten"
  <2> DEFINE booked == Occurrence(req[t.by], t.week)
             e == table'[t].end
  <2>1. NewVersion(r) = [table[t] EXCEPT !.end = req[r].end]
    BY <1>1, <1>4 DEF NewVersion, Inserts
  <2>2. table[t] \in Row /\ table'[t] = [table[t] EXCEPT !.end = req[r].end]
    BY <1>1, <2>1 DEF TypeOK
  <2>3. e = req[r].end
    BY <2>2 DEF Row
  <2>4. booked.start < req[r].end /\ req[r].end <= booked.end
    BY <1>1, <1>4 DEF IInv, AdmittedOK, Admits
  <2>5. table[t].start = booked.start /\ Entered[t] = booked
    BY <1>1 DEF IInv, WindowsOK, Within, Entered
  <2>6. table' = [table EXCEPT ![t].end = e]
    BY <1>1, <2>1, <2>3
  <2> HIDE DEF e
  <2>7. table[t].start < e /\ e <= Entered[t].end
    BY <2>3, <2>4, <2>5
  <2> QED
    BY <1>1, <1>2, <2>6, <2>7 DEF Ledger!MoveEnd, Entered, e
<1> QED
  BY <1>1, <1>3, <1>4, RequestFields DEF Inserts

LEMMA StepRefines ==
  IInv /\ LInv /\ IInv' /\ [Next]_vars => [Ledger!LedgerNext]_(Ledger!ledgerVars)
<1> SUFFICES ASSUME IInv, LInv, IInv', [Next]_vars
             PROVE  [Ledger!LedgerNext]_(Ledger!ledgerVars)
  OBVIOUS
<1>1. CASE UNCHANGED <<req, table>>
  BY <1>1 DEF Ledger!ledgerVars
<1>2. ASSUME NEW r \in Req, Commit(r) PROVE Ledger!LedgerNext
  <2>1. Ledger!CollisionFree(table')
    BY NextCollisionFree DEF Ledger!CollisionFree
  <2>2. CASE Enters(r)
    <3>1. [by |-> r, week |-> 0] \in BookingId /\ [by |-> r, week |-> 0].by = r
      BY CountAssumption DEF BookingId, Weeks
    <3>2. Ledger!Reserve(r)
      BY <1>2, <2>2, EntersRefines
    <3> QED
      BY <2>1, <3>1, <3>2 DEF Ledger!LedgerNext
  <2>3. CASE Changes(r)
    <3>1. req[r].target \in BookingId
      BY <2>3 DEF Changes
    <3>2. Ledger!Cancel(req[r].target) \/ Ledger!MoveEnd(req[r].target)
      BY <1>2, <2>3, ChangesRefines
    <3> QED
      BY <2>1, <3>1, <3>2 DEF Ledger!LedgerNext
  <2> QED
    BY <1>2, <2>2, <2>3, CommitTable
<1> QED
  BY <1>1, <1>2, OnlyCommits

\* The service implements the ledger: each step of it is one atomic change of
\* the table or none, whatever requests are under way.
THEOREM ServiceImplementsLedger == Spec => ImplementsLedger
BY InitRefines, StepRefines, LedgerInvariance, PTL DEF Spec, ImplementsLedger, Ledger!LedgerSpec

-----------------------------------------------------------------------------
(* Refusals *)

\* The weeks of a series are different instants.
LEMMA WeeksApart ==
  ASSUME NEW v \in Nat, NEW w \in Nat, v < w
  PROVE  v * Week + Week <= w * Week
<1>1. PICK d \in Nat : w = v + 1 + d
  <2>1. w - v - 1 \in Nat /\ w = v + 1 + (w - v - 1)
    OBVIOUS
  <2> QED
    BY <2>1
<1>2. w * Week = v * Week + Week + d * Week
  BY <1>1, WeekAssumption
<1>3. v * Week \in Nat /\ d * Week \in Nat /\ Week \in Nat
  BY <1>1, WeekAssumption
<1> QED
  BY <1>2, <1>3

\* A BOOKING_CONFLICT comes from the constraint and from nothing else.
LEMMA ConflictIsViolation ==
  ASSUME IInv, LInv, [Next]_vars, NEW r \in Req,
         answer'[r] = "conflict", answer[r] # "conflict"
  PROVE  Violate(r) /\ Inserts(r)
<1>1. TypeOK
  BY DEF IInv
<1>2. ASSUME NEW s \in Req, NEW code, Reply(s, code)
      PROVE  s = r /\ code = "conflict"
  BY <1>1, <1>2 DEF Reply, TypeOK
<1>3. ~(answer' = answer)
  OBVIOUS
<1>4. ASSUME NEW s \in Req, Arrive(s) PROVE FALSE
  BY <1>2, <1>3, <1>4 DEF Arrive
<1>5. ASSUME NEW s \in Req, CheckRoom(s) \/ CheckBooking(s) PROVE FALSE
  <2>1. Verdict(s, table[req[s].target]) # "conflict"
    BY DEF Verdict
  <2> QED
    BY <1>2, <1>3, <1>5, <2>1 DEF CheckRoom, CheckBooking
<1>6. ASSUME NEW s \in Req, Deadlock(s) \/ Commit(s) \/ CallFails(s) PROVE FALSE
  <2>1. /\ ErrorCode(s, "40P01") # "conflict" /\ ErrorCode(s, "other") # "conflict"
        /\ SuccessCode(s) # "conflict"
    BY <1>1, RequestFields DEF ErrorCode, SuccessCode, Inserts
  <2> QED
    BY <1>2, <1>6, <2>1 DEF Deadlock, Commit, CallFails, Finish
<1>7. ASSUME NEW s \in Req, Violate(s) PROVE s = r /\ Inserts(r)
  BY <1>2, <1>7 DEF Violate, Finish, ErrorCode
<1>8. ASSUME NEW s \in Req, Write(s) \/ Pass(s) PROVE FALSE
  BY <1>3, <1>8 DEF Write, Pass
<1>9. Tick \/ Crash \/ UNCHANGED vars => FALSE
  BY <1>3 DEF Tick, Crash, vars
<1> QED
  BY <1>4, <1>5, <1>6, <1>7, <1>8, <1>9 DEF Next, Step

\* What is in the way of an occurrence is committed, or an earlier week of the
\* same series.
LEMMA WhatIsInTheWay ==
  ASSUME IInv, LInv, NEW r \in Req, Inserts(r), pc[r] = "verify", Clashes(r)
  PROVE  LET new == Occurrence(req[r], week[r]) IN
         /\ week[r] \in 0 .. Count(req[r]) - 1
         /\ \/ \E c \in BookingId : Conflict(new, table[c])
            \/ \E v \in 0 .. week[r] - 1 : Conflict(new, Occurrence(req[r], v))
<1>1. DirtyOK(r) /\ TypeOK
  BY DEF IInv, LInv, Fine
<1>2. week[r] \in Weeks /\ week[r] \in Nat /\ Count(req[r]) \in Nat
  BY <1>1, CountRange, CountAssumption DEF TypeOK, Weeks
<1>3. week[r] \in 0 .. Count(req[r]) - 1
  BY <1>1, <1>2 DEF DirtyOK
<1>4. Target(r) = [by |-> r, week |-> week[r]] /\ Target(r) \in BookingId
  BY <1>1, TargetIsId DEF Target
<1>5. \A b \in BookingId : dirty[r][b] = IF b.by = r /\ b.week < week[r] + 1
                                         THEN Occurrence(req[r], b.week) ELSE NoRow
  BY <1>1 DEF DirtyOK, Inserted
<1>6. dirty[r][Target(r)] = Occurrence(req[r], week[r])
  BY <1>2, <1>4, <1>5
<1>7. PICK c \in BookingId \ {Target(r)} :
        Conflict(Occurrence(req[r], week[r]), Visible(r, c))
  BY <1>6 DEF Clashes
<1>8. CASE dirty[r][c] # NoRow
  <2>1. /\ c.by = r /\ c.week < week[r] + 1 /\ c.week \in Nat
        /\ Visible(r, c) = Occurrence(req[r], c.week)
    BY <1>5, <1>8, CountAssumption DEF Visible, BookingId, Weeks
  <2>2. c.week # week[r]
    BY <1>4, <2>1 DEF BookingId
  <2>3. c.week \in 0 .. week[r] - 1
    BY <1>2, <2>1, <2>2
  <2> QED
    BY <1>3, <1>7, <2>1, <2>3
<1>9. CASE dirty[r][c] = NoRow
  <2>1. Visible(r, c) = table[c]
    BY <1>7, <1>9, NoRowNoConflict DEF Visible
  <2> QED
    BY <1>3, <1>7, <2>1
<1> QED
  BY <1>8, <1>9

\* A BOOKING_CONFLICT is never the work of a row that may yet be rolled back.
THEOREM RefusalsAreJustified == Spec => ConflictsAreReal
<1> DEFINE A == \A r \in Req :
       answer'[r] = "conflict" /\ answer[r] # "conflict" =>
         LET wanted == {Occurrence(req[r], w) : w \in 0 .. Count(req[r]) - 1} IN
         \/ \E x \in wanted, b \in BookingId : Conflict(x, table[b])
         \/ \E x, y \in wanted : x # y /\ Conflict(x, y)
<1>1. ASSUME IInv, LInv, [Next]_vars, NEW r \in Req,
             answer'[r] = "conflict", answer[r] # "conflict"
      PROVE  LET wanted == {Occurrence(req[r], w) : w \in 0 .. Count(req[r]) - 1} IN
             \/ \E x \in wanted, b \in BookingId : Conflict(x, table[b])
             \/ \E x, y \in wanted : x # y /\ Conflict(x, y)
  <2> DEFINE wanted == {Occurrence(req[r], w) : w \in 0 .. Count(req[r]) - 1}
             new == Occurrence(req[r], week[r])
  <2>1. Inserts(r) /\ pc[r] = "verify" /\ Clashes(r)
    BY <1>1, ConflictIsViolation DEF Violate
  <2>2. /\ week[r] \in 0 .. Count(req[r]) - 1
        /\ \/ \E c \in BookingId : Conflict(new, table[c])
           \/ \E v \in 0 .. week[r] - 1 : Conflict(new, Occurrence(req[r], v))
    BY <1>1, <2>1, WhatIsInTheWay
  <2>3. new \in wanted
    BY <2>2
  <2>4. ASSUME NEW v \in 0 .. week[r] - 1, Conflict(new, Occurrence(req[r], v))
        PROVE  \E x, y \in wanted : x # y /\ Conflict(x, y)
    <3>1. v \in Nat /\ week[r] \in Nat /\ v < week[r] /\ Count(req[r]) \in Nat
      BY <1>1, <2>2, CountRange, CountAssumption DEF IInv
    <3>2. v \in 0 .. Count(req[r]) - 1
      BY <2>2, <3>1
    <3>3. req[r].start \in Nat /\ Week \in Nat \ {0}
      BY <1>1, <2>1, RequestFields, WeekAssumption DEF IInv
    <3>4. v * Week \in Nat /\ week[r] * Week \in Nat /\ v * Week + Week <= week[r] * Week
      BY <3>1, <3>3, WeeksApart
    <3>5. new.start # Occurrence(req[r], v).start
      BY <3>3, <3>4 DEF Occurrence
    <3>6. Occurrence(req[r], v) \in wanted /\ new # Occurrence(req[r], v)
      BY <3>2, <3>5
    <3> QED
      BY <2>3, <2>4, <3>6
  <2> QED
    BY <2>2, <2>3, <2>4
<1>2. IInv /\ LInv /\ [Next]_vars => [A]_vars
  BY <1>1
<1>3. Spec => [][Next]_vars
  BY PTL DEF Spec
<1> QED
  BY <1>2, <1>3, LedgerInvariance, PTL DEF ConflictsAreReal

-----------------------------------------------------------------------------
(* Somebody gets the room *)

\* Every request is a creation that can be carried out: in a room that is
\* there, with no occurrence in the way of another one.
AllWant ==
  \A r \in Req : /\ Inserts(r) /\ req[r].room \in Room
                 /\ Count(req[r]) = 1 \/ req[r].end - req[r].start <= Week

\* The open transaction of r holds an occurrence that others have to wait for.
Holds(r) == pc[r] \in {"write", "verify", "commit"} /\ Inserted(r) > 0

\* While nothing fails, whoever has an occurrence in the table has been told so;
\* and once a request has been turned away by another one, either somebody has
\* the room or somebody is on the way to it.
WinnerOK ==
  /\ AllWant => \A b \in BookingId :
       table[b] # NoRow => table[b] = Occurrence(req[b.by], b.week)
  /\ faults = 0 =>
       /\ severed = {}
       /\ \A b \in BookingId : table[b] # NoRow => answer[b.by] = "created"
  /\ faults = 0 /\ AllWant /\ (\E r \in Req : pc[r] = "done" /\ answer[r] # "invalid")
       => \E r \in Req : answer[r] = "created" \/ Holds(r)

LEMMA InsertSucceeds ==
  ASSUME NEW r, Inserts(r)
  PROVE  SuccessCode(r) = "created"
BY DEF SuccessCode, Inserts

LEMMA InitWinner == Init => WinnerOK
<1> SUFFICES ASSUME Init PROVE WinnerOK
  OBVIOUS
<1>1. \A b \in BookingId : table[b] = EarlierRow(b) /\ b.by \in Req
  BY DEF Init, BookingId
<1>2. \A b \in BookingId : table[b] # NoRow =>
        table[b] = Occurrence(req[b.by], b.week) /\ b.by \in Earlier
  BY <1>1 DEF EarlierRow
<1>3. \A r \in Req : /\ r \in Earlier => answer[r] = "created"
                     /\ pc[r] = "done" => answer[r] = "created"
  BY DEF Init
<1> QED
  BY <1>1, <1>2, <1>3 DEF WinnerOK, Init

\* The weeks of a series whose occurrences are no longer than a week are not in
\* each other's way.
LEMMA OwnWeeksApart ==
  ASSUME IInv, NEW r \in Req, Inserts(r), NEW w \in Nat, NEW v \in 0 .. w - 1,
         req[r].end - req[r].start <= Week
  PROVE  ~Conflict(Occurrence(req[r], w), Occurrence(req[r], v))
<1>1. req[r].start \in Nat /\ req[r].end \in Nat /\ Week \in Nat
  BY RequestFields, WeekAssumption DEF IInv
<1>2. v \in Nat /\ v < w
  OBVIOUS
<1>3. v * Week + Week <= w * Week /\ v * Week \in Nat /\ w * Week \in Nat
  BY <1>1, <1>2, WeeksApart
<1>4. req[r].end + v * Week <= req[r].start + w * Week
  BY <1>1, <1>3
<1>5. ~(Occurrence(req[r], w).start < Occurrence(req[r], v).end)
  BY <1>1, <1>3, <1>4 DEF Occurrence
<1> QED
  BY <1>5 DEF Conflict, Overlap

\* While nothing fails, a refusal by the constraint or by the deadlock detector
\* leaves somebody who has the room or is on the way to it.
LEMMA RefusalHasWinner ==
  ASSUME IInv, LInv, WinnerOK, faults = 0, AllWant,
         NEW r \in Req, Violate(r) \/ Deadlock(r)
  PROVE  \E s \in Req \ {r} : answer[s] = "created" \/ Holds(s)
<1>1. pc[r] = "verify" /\ Inserts(r) /\ TypeOK /\ answer[r] = "none"
  BY DEF Violate, Deadlock, AllWant, IInv, LInv, Fine, AnswerOK
<1>2. CASE Violate(r)
  <2> DEFINE new == Occurrence(req[r], week[r])
  <2>1. /\ week[r] \in 0 .. Count(req[r]) - 1
        /\ \/ \E c \in BookingId : Conflict(new, table[c])
           \/ \E v \in 0 .. week[r] - 1 : Conflict(new, Occurrence(req[r], v))
    BY <1>1, <1>2, WhatIsInTheWay DEF Violate
  <2>2. ASSUME NEW v \in 0 .. week[r] - 1, Conflict(new, Occurrence(req[r], v)) PROVE FALSE
    <3>1. Count(req[r]) # 1 /\ week[r] \in Nat
      BY <2>1, <2>2
    <3>2. req[r].end - req[r].start <= Week
      BY <3>1 DEF AllWant
    <3> QED
      BY <1>1, <2>2, <3>1, <3>2, OwnWeeksApart
  <2>3. PICK c \in BookingId : Conflict(new, table[c])
    BY <2>1, <2>2
  <2>4. table[c] # NoRow /\ c.by \in Req
    BY <2>3, NoRowNoConflict DEF BookingId
  <2>5. answer[c.by] = "created"
    BY <2>4 DEF WinnerOK
  <2> QED
    BY <1>1, <2>4, <2>5
<1>3. CASE Deadlock(r)
  <2>1. PICK S \in SUBSET {s \in Req : WaitsFor(s) # {}} : \E next \in [S -> S] :
          r \in S /\ \A s \in S : next[s] \in WaitsFor(s)
    BY <1>3 DEF Deadlock, OnWaitCycle
  <2>2. PICK s \in Req : s \in Blockers(r) /\ WaitsFor(s) # {}
    <3>1. PICK next \in [S -> S] : r \in S /\ next[r] \in WaitsFor(r)
      BY <2>1
    <3>2. next[r] \in S
      BY <3>1
    <3> QED
      BY <1>1, <3>1, <3>2 DEF WaitsFor
  <2>3. PICK c \in BookingId : dirty[s][c] # NoRow
    BY <2>2 DEF Blockers
  <2>4. s \in Req \ {r} /\ pc[s] \in {"write", "verify"}
    BY <2>2 DEF Blockers, WaitsFor
  <2>5. DirtyOK(s) /\ Inserts(s) /\ week[s] \in Nat
    BY <1>1, <2>4, CountAssumption DEF LInv, Fine, AllWant, TypeOK, Weeks
  <2>6. c.week < Inserted(s) /\ c.week \in Nat
    BY <2>3, <2>5, CountAssumption DEF DirtyOK, BookingId, Weeks
  <2>7. Inserted(s) \in Nat
    BY <2>4, <2>5 DEF Inserted
  <2>8. Holds(s)
    BY <2>4, <2>6, <2>7 DEF Holds
  <2> QED
    BY <2>4, <2>8
<1> QED
  BY <1>2, <1>3

\* Who has the room keeps it, and who is on the way to it gets on, unless the
\* constraint or the deadlock detector turns them away.
LEMMA WinnerStays ==
  ASSUME IInv, LInv, WinnerOK, [Next]_vars, AllWant, faults' = 0,
         NEW r \in Req, answer[r] = "created" \/ Holds(r),
         ~Violate(r), ~Deadlock(r)
  PROVE  (answer[r] = "created" \/ Holds(r))'
<1>1. TypeOK /\ AnswerOK(r) /\ Inserts(r) /\ week[r] \in Nat
  BY CountAssumption DEF IInv, LInv, Fine, AllWant, TypeOK, Weeks
<1>2. \/ UNCHANGED <<pc[r], week[r], answer[r]>>
      \/ Write(r) \/ Pass(r) \/ Commit(r)
  <2>1. ASSUME NEW s \in Req, s # r, Step(s) PROVE UNCHANGED <<pc[r], week[r], answer[r]>>
    BY <1>1, <2>1 DEF Step, CheckRoom, CheckBooking, Write, Pass, Violate, Deadlock, Commit,
                      Finish, Reply, Goto, TypeOK
  <2>2. ASSUME NEW s \in Req, Arrive(s) PROVE UNCHANGED <<pc[r], week[r], answer[r]>>
    <3>1. s # r
      BY <1>1, <2>2 DEF Arrive, AnswerOK, Holds
    <3> QED
      BY <1>1, <2>2, <3>1 DEF Arrive, Reply, Goto, TypeOK
  <2>3. ASSUME NEW s \in Req, CallFails(s) PROVE FALSE
    BY <1>1, <2>3 DEF CallFails, TypeOK
  <2>4. ~Crash
    BY <1>1 DEF Crash, TypeOK
  <2>5. ~CheckRoom(r) /\ ~CheckBooking(r)
    BY <1>1 DEF CheckRoom, CheckBooking, AnswerOK, Holds
  <2>6. Tick \/ UNCHANGED vars => UNCHANGED <<pc[r], week[r], answer[r]>>
    BY DEF Tick, vars
  <2> QED
    BY <2>1, <2>2, <2>3, <2>4, <2>5, <2>6 DEF Next, Step
<1>3. CASE UNCHANGED <<pc[r], week[r], answer[r]>>
  BY <1>3 DEF Holds, Inserted
<1>4. CASE Write(r)
  <2>1. pc'[r] = "verify" /\ week'[r] = week[r]
    BY <1>1, <1>4 DEF Write, Goto, TypeOK
  <2> QED
    BY <1>1, <2>1 DEF Holds, Inserted
<1>5. CASE Pass(r)
  <2>1. \/ pc'[r] = "write" /\ week'[r] = week[r] + 1
        \/ pc'[r] = "commit" /\ week'[r] = week[r]
    BY <1>1, <1>5 DEF Pass, Goto, TypeOK
  <2> QED
    BY <1>1, <2>1 DEF Holds, Inserted
<1>6. CASE Commit(r)
  <2>1. Finish(r, SuccessCode(r)) /\ faults = 0
    BY <1>1, <1>6 DEF Commit, TypeOK
  <2>2. r \notin severed
    BY <2>1 DEF WinnerOK
  <2> QED
    BY <1>1, <2>1, <2>2, InsertSucceeds DEF Finish, Reply, TypeOK
<1> QED
  BY <1>2, <1>3, <1>4, <1>5, <1>6

\* A request that ends has somebody to yield to, or has the room itself.
LEMMA EndHasWinner ==
  ASSUME IInv, LInv, WinnerOK, [Next]_vars, AllWant, faults = 0, faults' = 0,
         NEW r \in Req, pc[r] # "done", pc'[r] = "done", answer'[r] # "invalid"
  PROVE  Violate(r) \/ Deadlock(r) \/ answer'[r] = "created"
<1>1. TypeOK /\ Inserts(r) /\ req[r].room \in Room /\ r \notin severed
  BY DEF IInv, AllWant, WinnerOK
<1>2. ASSUME NEW s \in Req, s # r, Step(s) \/ Arrive(s) PROVE FALSE
  BY <1>1, <1>2 DEF Step, CheckRoom, CheckBooking, Write, Pass, Violate, Deadlock, Commit,
                    Arrive, Finish, Reply, Goto, TypeOK
<1>3. CASE Arrive(r)
  BY <1>1, <1>3 DEF Arrive, Reply, Goto, TypeOK
<1>4. CASE CheckRoom(r) \/ CheckBooking(r) \/ Write(r) \/ Pass(r)
  BY <1>1, <1>4 DEF CheckRoom, CheckBooking, Write, Pass, Goto, TypeOK
<1>5. CASE Commit(r)
  <2>1. Finish(r, SuccessCode(r))
    BY <1>1, <1>5 DEF Commit, TypeOK
  <2> QED
    BY <1>1, <2>1, InsertSucceeds DEF Finish, Reply, TypeOK
<1>6. ASSUME NEW s \in Req, CallFails(s) PROVE FALSE
  BY <1>1, <1>6 DEF CallFails, TypeOK
<1>7. ~Crash /\ ~Tick /\ ~UNCHANGED vars
  BY <1>1 DEF Crash, Tick, vars, TypeOK
<1> QED
  BY <1>2, <1>3, <1>4, <1>5, <1>6, <1>7 DEF Next, Step

LEMMA StepWinner == IInv /\ LInv /\ LInv' /\ WinnerOK /\ [Next]_vars => WinnerOK'
<1> SUFFICES ASSUME IInv, LInv, LInv', WinnerOK, [Next]_vars PROVE WinnerOK'
  OBVIOUS
<1>1. TypeOK /\ req' = req /\ (AllWant' <=> AllWant)
  BY OnlyCommits DEF IInv, AllWant, Inserts, Count
<1>2. \A w, q : Occurrence(q, w)' = Occurrence(q, w)
  BY DEF Occurrence
<1>3. ASSUME AllWant, NEW b \in BookingId, table'[b] # NoRow
      PROVE  table'[b] = Occurrence(req[b.by], b.week)
  <2>1. CASE table' = table
    BY <1>3, <2>1 DEF WinnerOK
  <2>2. ASSUME NEW r \in Req, Commit(r) PROVE table'[b] = Occurrence(req[b.by], b.week)
    <3>1. Enters(r)
      BY <1>3, <2>2, CommitTable DEF AllWant, Changes
    <3> QED
      BY <1>3, <3>1 DEF Enters, WinnerOK
  <2> QED
    BY <2>1, <2>2, OnlyCommits
<1>4. faults' = 0 => faults = 0 /\ severed' = severed /\ ~Crash /\ \A r \in Req : ~CallFails(r)
  <2>1. ASSUME NEW r \in Req, Step(r) \/ Arrive(r)
        PROVE  severed' = severed /\ (faults' = 0 => faults = 0)
    BY <1>1, <2>1 DEF Step, CheckRoom, CheckBooking, Write, Pass, Violate, Deadlock, Commit,
                      Arrive, TypeOK
  <2>2. /\ Crash \/ (\E r \in Req : CallFails(r)) => faults' # 0
        /\ Tick \/ UNCHANGED vars => UNCHANGED <<faults, severed>>
    BY <1>1 DEF Crash, CallFails, Tick, vars, TypeOK
  <2> QED
    BY <2>1, <2>2 DEF Next
<1>5. ASSUME faults' = 0, NEW r \in Req, answer[r] = "created" PROVE answer'[r] = "created"
  <2>1. pc[r] = "done"
    BY <1>5 DEF LInv, Fine, AnswerOK
  <2>2. ASSUME NEW s \in Req, Step(s) \/ Arrive(s) PROVE answer'[r] = "created"
    BY <1>1, <1>5, <2>1, <2>2
    DEF Step, CheckRoom, CheckBooking, Write, Pass, Violate, Deadlock, Commit,
        Arrive, Finish, Reply, Goto, TypeOK
  <2>3. Tick \/ UNCHANGED vars => answer' = answer
    BY DEF Tick, vars
  <2> QED
    BY <1>4, <1>5, <2>2, <2>3 DEF Next
<1>6. ASSUME faults' = 0, NEW b \in BookingId, table'[b] # NoRow
      PROVE  answer'[b.by] = "created"
  <2>1. b.by \in Req
    BY DEF BookingId
  <2>2. CASE table[b] # NoRow
    BY <1>4, <1>5, <1>6, <2>1, <2>2 DEF WinnerOK
  <2>3. CASE table[b] = NoRow
    <3>1. PICK r \in Req : Commit(r)
      BY <1>6, <2>3, OnlyCommits
    <3>2. Enters(r)
      <4> SUFFICES ASSUME Changes(r) PROVE FALSE
        BY <3>1, CommitTable
      <4> QED
        BY <1>1, <1>6, <2>3 DEF Changes, TypeOK
    <3>3. b.by = r /\ Inserts(r)
      BY <1>6, <2>3, <3>2 DEF Enters
    <3>4. Finish(r, SuccessCode(r)) /\ r \notin severed
      BY <1>1, <1>4, <1>6, <3>1 DEF Commit, TypeOK, WinnerOK
    <3> QED
      BY <1>1, <3>3, <3>4, InsertSucceeds DEF Finish, Reply, TypeOK
  <2> QED
    BY <2>2, <2>3
<1>7. ASSUME faults' = 0, AllWant, NEW e \in Req, pc'[e] = "done", answer'[e] # "invalid"
      PROVE  \E r \in Req : (answer[r] = "created" \/ Holds(r))'
  <2>1. ASSUME NEW r \in Req, Violate(r) \/ Deadlock(r)
        PROVE  \E s \in Req : (answer[s] = "created" \/ Holds(s))'
    <3>1. PICK s \in Req \ {r} : answer[s] = "created" \/ Holds(s)
      BY <1>4, <1>7, <2>1, RefusalHasWinner
    <3>2. pc'[s] = pc[s] /\ week' = week /\ answer'[s] = answer[s]
      BY <1>1, <2>1 DEF Violate, Deadlock, Finish, Reply, Goto, TypeOK
    <3> QED
      BY <3>1, <3>2 DEF Holds, Inserted
  <2>2. CASE \A r \in Req : ~Violate(r) /\ ~Deadlock(r)
    <3>1. CASE pc[e] # "done"
      <4>1. answer'[e] = "created"
        BY <1>4, <1>7, <2>2, <3>1, EndHasWinner
      <4> QED
        BY <4>1
    <3>2. CASE pc[e] = "done"
      <4>1. answer[e] # "invalid"
        <5>1. ASSUME NEW s \in Req, Step(s) \/ Arrive(s) PROVE answer'[e] = answer[e]
          BY <1>1, <3>2, <5>1
          DEF Step, CheckRoom, CheckBooking, Write, Pass, Violate, Deadlock, Commit,
              Arrive, Finish, Reply, Goto, TypeOK
        <5>2. Tick \/ UNCHANGED vars => answer' = answer
          BY DEF Tick, vars
        <5> QED
          BY <1>4, <1>7, <5>1, <5>2 DEF Next
      <4>2. PICK r \in Req : answer[r] = "created" \/ Holds(r)
        BY <1>4, <1>7, <3>2, <4>1 DEF WinnerOK
      <4> QED
        BY <1>7, <2>2, <4>2, WinnerStays
    <3> QED
      BY <3>1, <3>2
  <2> QED
    BY <2>1, <2>2
<1>8. faults' = 0 => severed' = {}
  BY <1>4 DEF WinnerOK
<1> QED
  BY <1>1, <1>2, <1>3, <1>6, <1>7, <1>8 DEF WinnerOK

LEMMA WinnerInvariance == Spec => [](IInv /\ LInv /\ WinnerOK)
BY InitInv, InitLInv, InitWinner, StepInv, StepLInv, StepWinner, PTL DEF Spec

\* Of the creations that want overlapping times of one room, when nothing fails,
\* one has it and only one: "not two 409s", and not two 201s.
THEOREM RoomIsNotWasted == Spec => []SomebodyGetsTheRoom
<1>1. IInv /\ LInv /\ WinnerOK => SomebodyGetsTheRoom
  <2> DEFINE rivals == {r \in Req : pc[r] = "done" /\ answer[r] # "invalid"}
  <2> SUFFICES ASSUME IInv, LInv, WinnerOK, faults = 0, rivals # {}, AllWant,
                      \A r \in Req : pc[r] = "done",
                      \A r, s \in rivals : req[r].room = req[s].room
                                           /\ ShareInstant(req[r], req[s])
               PROVE  \E r \in rivals : \A s \in rivals : answer[s] = "created" <=> s = r
    BY DEF SomebodyGetsTheRoom, AllWant
  <2>1. PICK r \in Req : answer[r] = "created"
    BY DEF WinnerOK, Holds
  <2>2. r \in rivals
    BY <2>1
  <2>3. ASSUME NEW q \in rivals, answer[q] = "created"
        PROVE  LET b == [by |-> q, week |-> 0] IN
               /\ b \in BookingId /\ table[b] = Occurrence(req[q], 0)
               /\ Confirmed(table[b]) /\ table[b].room = req[q].room
               /\ table[b].start = req[q].start /\ table[b].end = req[q].end
    <3> DEFINE b == [by |-> q, week |-> 0]
    <3>1. b \in BookingId /\ b.by = q /\ b.week = 0 /\ Inserts(q) /\ TypeOK
      BY CountAssumption DEF BookingId, Weeks, IInv, AllWant
    <3>2. table[b] # NoRow
      BY <2>3, <3>1, CountRange DEF LInv, Fine, AnswerOK, AllRows
    <3>3. table[b] = Occurrence(req[q], 0)
      BY <3>1, <3>2 DEF WinnerOK
    <3>4. 0 * Week = 0 /\ req[q].start \in Nat /\ req[q].end \in Nat
      BY <3>1, RequestFields, WeekAssumption
    <3> QED
      BY <3>1, <3>2, <3>3, <3>4 DEF Occurrence, Confirmed
  <2>4. ASSUME NEW s \in rivals, answer[s] = "created" PROVE s = r
    <3> SUFFICES ASSUME s # r PROVE FALSE
      OBVIOUS
    <3> DEFINE b == [by |-> r, week |-> 0]
               c == [by |-> s, week |-> 0]
    <3>1. /\ req[r].start \in Nat /\ req[r].end \in Nat
          /\ req[s].start \in Nat /\ req[s].end \in Nat
      BY RequestFields DEF IInv, AllWant
    <3>2. Overlap(req[r], req[s])
      <4>1. PICK t \in req[r].start .. req[r].end : Covers(req[r], t) /\ Covers(req[s], t)
        BY <2>2, <2>4 DEF ShareInstant
      <4> QED
        BY <3>1, <4>1 DEF Covers, Overlap
    <3>3. /\ b \in BookingId /\ c \in BookingId
          /\ Confirmed(table[b]) /\ Confirmed(table[c])
          /\ table[b].room = req[r].room /\ table[c].room = req[s].room
          /\ table[b].start = req[r].start /\ table[b].end = req[r].end
          /\ table[c].start = req[s].start /\ table[c].end = req[s].end
      BY <2>1, <2>2, <2>3, <2>4
    <3>4. Conflict(table[b], table[c])
      BY <2>2, <2>4, <3>2, <3>3 DEF Conflict, Overlap
    <3>5. b # c
      OBVIOUS
    <3> QED
      BY <3>3, <3>4, <3>5 DEF IInv, TableOK
  <2> QED
    BY <2>1, <2>2, <2>4
<1> QED
  BY <1>1, WinnerInvariance, PTL

=============================================================================
