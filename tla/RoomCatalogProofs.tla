--------------------------- MODULE RoomCatalogProofs ---------------------------
(* TypeOK, SavedWhole and RefusedLeavesNothing hold of RoomCatalog for every  *)
(* set of attributes and requests, lists of any length and any number of      *)
(* faults.                                                                    *)
EXTENDS RoomCatalog, SequenceTheorems, TLAPS

-----------------------------------------------------------------------------
(* The invariant *)

Named(r) == req[r].names # Absent
Create(r) == req[r].op = "create"

\* r writes the row of its room, and with it takes the lock on the room.
Locks(r) == Create(r) \/ req[r].columns

\* r has passed the statement that takes the lock.
Working(r) == pc[r] \in {"delete", "lock", "select", "insert", "link", "commit"}

\* What r has written in its room's row, and which rooms there are while it
\* does so: a room is not there before its creation commits, and is never gone.
RowOK(r) ==
  /\ pc[r] = "find" => ~Create(r)
  /\ pc[r] \in {"idle", "find", "row", "done"} => work[r] = Nothing
  /\ Create(r) /\ pc[r] # "done" => writer[r] = NoRoom
  /\ ~Create(r) /\ (pc[r] = "row" \/ Working(r)) => writer[RoomOf(r)] # NoRoom
  /\ Working(r) => work[r].row = IF Locks(r) THEN RoomOf(r) ELSE NoRoom

\* Where r is in its list of names.
LoopOK(r) ==
  /\ pc[r] \in {"delete", "lock"} => ~Create(r)
  /\ pc[r] \in {"delete", "lock", "select", "insert", "link"} => Named(r)
  /\ pc[r] \in {"idle", "find", "row", "delete", "lock"} => next[r] = 1
  /\ pc[r] \in {"select", "insert", "link"} => next[r] \in 1 .. Len(req[r].names)
  /\ pc[r] = "commit" /\ Named(r) => next[r] = Len(req[r].names) + 1
  /\ pc[r] = "link" => Name(r) \in coined \cup work[r].coin

\* r has linked the names before that, which exist or which it has inserted.
AddOK(r) ==
  /\ Working(r) /\ Named(r) => work[r].add = {req[r].names[i] : i \in 1 .. next[r] - 1}
  /\ ~Named(r) => work[r].cut = {} /\ work[r].add = {} /\ work[r].coin = {}
  /\ work[r].add \subseteq coined \cup work[r].coin
  /\ Named(r) => work[r].coin \subseteq NamesOf(req[r])
  /\ Create(r) => work[r].cut = {}

\* Requests about the room m that change its attributes write its row as well.
Quiet(m) == ~\E r \in Req : AttributesOnly(r) /\ RoomOf(r) = m

\* What r deletes is then all there is until it commits.
CutOK(r) ==
  /\ pc[r] \in {"lock", "select", "insert", "link", "commit"}
  /\ ~Create(r) /\ Named(r) /\ Quiet(RoomOf(r))
  => work[r].cut = links[RoomOf(r)]

\* One open transaction at a time holds the row of a room.
OneWriter ==
  \A r, s \in Req : work[r].row # NoRoom /\ work[r].row = work[s].row => r = s

RInv ==
  /\ TypeOK /\ SavedWhole /\ OneWriter
  /\ \A r \in Req : RowOK(r) /\ LoopOK(r) /\ AddOK(r) /\ CutOK(r)

-----------------------------------------------------------------------------
(* Requests and their names *)

LEMMA RequestFields ==
  ASSUME TypeOK, NEW r \in Req
  PROVE  /\ req[r].op \in {"create", "update"}
         /\ RoomOf(r) \in Req
         /\ req[r].names \in Names \cup {Absent}
         /\ Create(r) => Named(r) /\ RoomOf(r) = r
         /\ ~Create(r) => req[r].op = "update" /\ req[r].columns \in BOOLEAN
         /\ Named(r) => req[r].names \in Names
<1>1. req[r] \in Request
  BY RoomRequestsAssumption DEF TypeOK
<1> QED
  BY <1>1, NoRoomAssumption DEF Request, RoomOf, Create, Named

LEMMA ListOfNames ==
  ASSUME NEW names \in Names
  PROVE  /\ Len(names) \in 0 .. MaxNames
         /\ DOMAIN names = 1 .. Len(names)
         /\ \A i \in 1 .. Len(names) : names[i] \in Attribute
<1>1. PICK n \in 0 .. MaxNames : names \in [1 .. n -> Attribute]
  BY DEF Names
<1>2. n \in Nat
  BY <1>1, NamesBoundAssumption
<1>3. names \in Seq(Attribute) /\ Len(names) = n
  BY <1>1, <1>2, IsASeq
<1> QED
  BY <1>1, <1>3

\* The name that the loop is at.
LEMMA CurrentName ==
  ASSUME RInv, NEW r \in Req, pc[r] \in {"select", "insert", "link"}
  PROVE  /\ next[r] \in 1 .. Len(req[r].names) /\ Len(req[r].names) \in 0 .. MaxNames
         /\ Name(r) \in Attribute /\ Name(r) \in NamesOf(req[r])
         /\ Named(r)
<1>1. LoopOK(r) /\ TypeOK
  BY DEF RInv
<1>2. Named(r) /\ next[r] \in 1 .. Len(req[r].names)
  BY <1>1 DEF LoopOK
<1>3. req[r].names \in Names
  BY <1>1, <1>2, RequestFields
<1> QED
  BY <1>2, <1>3, ListOfNames DEF Name, NamesOf

LEMMA NothingFields ==
  /\ Nothing.row = NoRoom /\ Nothing.cut = {} /\ Nothing.add = {} /\ Nothing.coin = {}
  /\ Nothing \in [row : Req \cup {NoRoom}, cut : SUBSET Attribute,
                  add : SUBSET Attribute, coin : SUBSET Attribute]
BY DEF Nothing

\* Who waits is in the middle of a transaction.
LEMMA WaitersAreOpen ==
  ASSUME NEW r \in Req, OnWaitCycle(r)
  PROVE  pc[r] \in {"row", "lock", "insert", "link"}
<1>1. WaitsFor(r) # {}
  BY DEF OnWaitCycle
<1> QED
  BY <1>1 DEF WaitsFor

-----------------------------------------------------------------------------
(* The initial states *)

LEMMA InitRInv == Init => RInv
<1> SUFFICES ASSUME Init PROVE RInv
  OBVIOUS
<1>1. \A r \in Req : work[r] = Nothing /\ next[r] = 1 /\ pc[r] \in {"idle", "done"}
  BY DEF Init
<1>2. \A r \in Earlier : r \in Req /\ Create(r) /\ req[r].names \in Names
  <2>1. \A r \in Earlier : r \in Req /\ req[r] \in Request /\ req[r].op = "create"
    BY RoomRequestsAssumption, EarlierRoomsAssumption DEF Init
  <2> QED
    BY <2>1 DEF Request, Create
<1>3. TypeOK
  <2>1. \A r \in Earlier : NamesOf(req[r]) \subseteq Attribute
    BY <1>2, ListOfNames DEF NamesOf
  <2>2. coined = UNION {NamesOf(req[r]) : r \in Earlier}
    BY DEF Init
  <2>3. links \in [Req -> SUBSET coined] /\ coined \subseteq Attribute
    BY <2>1, <2>2, <1>2 DEF Init
  <2>4. next \in [Req -> 1 .. MaxNames + 1]
    BY NamesBoundAssumption DEF Init
  <2>5. work \in [Req -> [row : Req \cup {NoRoom}, cut : SUBSET Attribute,
                          add : SUBSET Attribute, coin : SUBSET Attribute]]
    BY NothingFields DEF Init
  <2>6. \A m \in Req : writer[m] = NoRoom => links[m] = {}
    BY NoRoomAssumption DEF Init
  <2> QED
    BY <2>3, <2>4, <2>5, <2>6, EarlierRoomsAssumption
    DEF TypeOK, Init, Statements, Answers
<1>4. SavedWhole
  BY NoRoomAssumption DEF SavedWhole, Init
<1>5. OneWriter
  BY <1>1, NothingFields DEF OneWriter
<1>6. ASSUME NEW r \in Req PROVE RowOK(r) /\ LoopOK(r) /\ AddOK(r) /\ CutOK(r)
  <2>1. pc[r] = "idle" => writer[r] = NoRoom
    BY DEF Init
  <2>2. RowOK(r)
    BY <1>1, <2>1 DEF RowOK, Working
  <2>3. LoopOK(r) /\ AddOK(r) /\ CutOK(r)
    BY <1>1, NothingFields DEF LoopOK, AddOK, CutOK, Working
  <2> QED
    BY <2>2, <2>3
<1> QED
  BY <1>3, <1>4, <1>5, <1>6 DEF RInv

-----------------------------------------------------------------------------
(* The steps before the commit *)

\* A step of r that commits nothing.
OnlyOf(r) ==
  /\ UNCHANGED <<req, writer, links, coined>>
  /\ \A s \in Others(r) : pc'[s] = pc[s] /\ work'[s] = work[s] /\ next'[s] = next[s]

\* It keeps the invariant when it keeps what concerns r.
LEMMA OwnStep ==
  ASSUME RInv, NEW r \in Req, OnlyOf(r), TypeOK',
         RowOK(r)', LoopOK(r)', AddOK(r)', CutOK(r)',
         \A s \in Others(r) : work'[r].row # NoRoom => work[s].row # work'[r].row
  PROVE  RInv'
<1>1. SavedWhole'
  BY DEF RInv, OnlyOf, SavedWhole, AttributesOnly, RoomOf
<1>2. OneWriter'
  BY DEF RInv, OnlyOf, OneWriter, Others
<1>3. ASSUME NEW s \in Req PROVE RowOK(s)' /\ LoopOK(s)' /\ AddOK(s)' /\ CutOK(s)'
  <2>1. CASE s = r
    BY <2>1
  <2>2. CASE s # r
    <3>1. pc'[s] = pc[s] /\ work'[s] = work[s] /\ next'[s] = next[s]
      BY <2>2 DEF OnlyOf, Others
    <3>2. RowOK(s) /\ LoopOK(s) /\ AddOK(s) /\ CutOK(s)
      BY DEF RInv
    <3>3. RowOK(s)'
      BY <3>1, <3>2 DEF OnlyOf, RowOK, Working, Locks, Create, RoomOf
    <3>4. LoopOK(s)'
      BY <3>1, <3>2 DEF OnlyOf, LoopOK, Create, Named, Name
    <3>5. AddOK(s)'
      BY <3>1, <3>2 DEF OnlyOf, AddOK, Working, Create, Named
    <3>6. CutOK(s)'
      BY <3>1, <3>2 DEF OnlyOf, CutOK, Create, Named, Quiet, AttributesOnly, RoomOf
    <3> QED
      BY <3>3, <3>4, <3>5, <3>6
  <2> QED
    BY <2>1, <2>2
<1> QED
  BY <1>1, <1>2, <1>3 DEF RInv

\* A step that gives up what r had written, or had not written anything yet.
LEMMA Empties ==
  ASSUME RInv, NEW r \in Req, OnlyOf(r), TypeOK',
         work'[r] = Nothing, pc'[r] \in {"idle", "find", "row", "done"},
         pc'[r] \in {"find", "row"} => next'[r] = 1,
         pc'[r] = "find" => ~Create(r),
         Create(r) /\ pc'[r] # "done" => pc[r] # "done",
         ~Create(r) /\ pc'[r] = "row" => writer[RoomOf(r)] # NoRoom,
         pc'[r] # "idle"
  PROVE  RInv'
<1>1. RowOK(r)
  BY DEF RInv
<1>2. RowOK(r)'
  BY <1>1 DEF RowOK, OnlyOf, Working, Create, RoomOf
<1>3. LoopOK(r)' /\ AddOK(r)' /\ CutOK(r)'
  BY NothingFields DEF LoopOK, AddOK, CutOK, OnlyOf, Working, Create, Named
<1>4. work'[r].row = NoRoom
  BY NothingFields
<1> QED
  BY <1>2, <1>3, <1>4, OwnStep

LEMMA RollbackStep ==
  ASSUME RInv, NEW r \in Req, Rollback(r), InFlight(r), faults' \in Nat
  PROVE  RInv'
<1>1. TypeOK
  BY DEF RInv
<1>2. OnlyOf(r) /\ work'[r] = Nothing /\ pc'[r] = "done"
  BY <1>1 DEF Rollback, Reply, OnlyOf, Others, TypeOK
<1>3. TypeOK'
  BY <1>1, NothingFields DEF Rollback, Reply, TypeOK, Statements, Answers
<1> QED
  BY <1>2, <1>3, Empties

LEMMA ArriveStep ==
  ASSUME RInv, NEW r \in Req, Arrive(r)
  PROVE  RInv'
<1>1. TypeOK /\ RowOK(r) /\ LoopOK(r)
  BY DEF RInv
<1>2. work'[r] = Nothing /\ next'[r] = 1 /\ OnlyOf(r)
  BY <1>1 DEF Arrive, Reply, Goto, OnlyOf, Others, RowOK, LoopOK, TypeOK
<1>3. TypeOK'
  BY <1>1 DEF Arrive, Reply, Goto, TypeOK, Statements, Answers
<1>4. /\ pc'[r] \in {"find", "row", "done"}
      /\ pc'[r] = "find" => ~Create(r)
      /\ pc'[r] = "row" => Create(r)
  BY <1>1 DEF Arrive, Reply, Goto, TypeOK, Create
<1>5. pc[r] = "idle"
  BY DEF Arrive
<1> QED
  BY <1>2, <1>3, <1>4, <1>5, Empties

LEMMA FindStep ==
  ASSUME RInv, NEW r \in Req, FindRoom(r)
  PROVE  RInv'
<1>1. TypeOK /\ RowOK(r) /\ LoopOK(r)
  BY DEF RInv
<1>2. work'[r] = Nothing /\ next'[r] = 1 /\ OnlyOf(r)
  BY <1>1 DEF FindRoom, Reply, Goto, OnlyOf, Others, RowOK, LoopOK, TypeOK
<1>3. TypeOK'
  BY <1>1 DEF FindRoom, Reply, Goto, TypeOK, Statements, Answers
<1>4. /\ pc'[r] \in {"row", "done"}
      /\ pc'[r] = "row" => writer[RoomOf(r)] # NoRoom
  BY <1>1 DEF FindRoom, Reply, Goto, TypeOK
<1>5. ~Create(r)
  BY <1>1 DEF FindRoom, RowOK
<1> QED
  BY <1>2, <1>3, <1>4, <1>5, Empties

\* Where the loop begins.
LEMMA LoopBegins ==
  ASSUME TypeOK, NEW r \in Req, Named(r), next[r] = 1
  PROVE  /\ LoopFrom(r, 1) \in {"select", "commit"}
         /\ LoopFrom(r, 1) = "select" => 1 \in 1 .. Len(req[r].names)
         /\ LoopFrom(r, 1) = "commit" => 1 = Len(req[r].names) + 1
<1>1. Len(req[r].names) \in 0 .. MaxNames
  BY RequestFields, ListOfNames
<1> QED
  BY <1>1, NamesBoundAssumption DEF LoopFrom

\* Whoever gets the row of a room finds that no open transaction has it: the
\* others that might are updates of it, and it waits for those; a room that is
\* being created is not there for them.
LEMMA RowIsFree ==
  ASSUME RInv, NEW r \in Req, WriteRow(r), Locks(r), NEW s \in Others(r)
  PROVE  work[s].row # RoomOf(r)
<1> SUFFICES ASSUME work[s].row = RoomOf(r) PROVE FALSE
  OBVIOUS
<1>1. /\ TypeOK /\ RowOK(r) /\ RowOK(s) /\ s \in Req /\ s # r
      /\ pc[r] = "row" /\ WaitsFor(r) = {}
      /\ RoomOf(r) \in Req /\ RoomOf(s) \in Req
  BY RequestFields DEF RInv, Others, WriteRow
<1>2. work[s].row # NoRoom
  BY <1>1, NoRoomAssumption
<1>3. Working(s) /\ RoomOf(s) = RoomOf(r)
  <2>1. pc[s] \in Statements
    BY <1>1 DEF TypeOK
  <2> QED
    BY <1>1, <1>2, <2>1, NothingFields DEF RowOK, Working, Statements
<1>4. s \in Rivals(r)
  BY <1>1, <1>3 DEF Rivals, Others
<1>5. CASE Create(r)
  <2>1. writer[RoomOf(r)] = NoRoom
    BY <1>1, <1>5, RequestFields DEF RowOK
  <2>2. ~Create(s)
    BY <1>1, <1>3, <1>5, RequestFields
  <2> QED
    BY <1>1, <1>3, <2>1, <2>2 DEF RowOK
<1>6. CASE ~Create(r)
  <2>1. req[r].op = "update" /\ req[r].columns
    BY <1>1, <1>6, RequestFields DEF Locks
  <2>2. s \in WaitsFor(r)
    BY <1>1, <1>4, <2>1 DEF WaitsFor
  <2> QED
    BY <1>1, <2>2
<1> QED
  BY <1>5, <1>6

LEMMA WriteRowStep ==
  ASSUME RInv, NEW r \in Req, WriteRow(r)
  PROVE  RInv'
<1>1. /\ TypeOK /\ RowOK(r) /\ LoopOK(r) /\ pc[r] = "row"
      /\ work[r] = Nothing /\ next[r] = 1
  BY DEF RInv, WriteRow, RowOK, LoopOK
<1>2. OnlyOf(r) /\ next' = next /\ UNCHANGED answer
  BY <1>1 DEF WriteRow, Goto, OnlyOf, Others, TypeOK
<1>3. /\ work'[r].row = (IF Locks(r) THEN RoomOf(r) ELSE NoRoom)
      /\ work'[r].cut = {} /\ work'[r].add = {} /\ work'[r].coin = {}
      /\ work' \in [Req -> [row : Req \cup {NoRoom}, cut : SUBSET Attribute,
                            add : SUBSET Attribute, coin : SUBSET Attribute]]
  <2>1. CASE Locks(r)
    <3>1. work' = [work EXCEPT ![r].row = RoomOf(r)]
      BY <1>1, <2>1, RequestFields DEF WriteRow, Locks, Create
    <3>2. work'[r] = [Nothing EXCEPT !.row = RoomOf(r)]
      BY <1>1, <3>1 DEF TypeOK
    <3> QED
      BY <1>1, <2>1, <3>1, <3>2, NothingFields, RequestFields DEF TypeOK
  <2>2. CASE ~Locks(r)
    <3>1. work' = work
      BY <1>1, <2>2, RequestFields DEF WriteRow, Locks, Create
    <3> QED
      BY <1>1, <2>2, <3>1, NothingFields DEF TypeOK
  <2> QED
    BY <2>1, <2>2
<1>4. pc' = [pc EXCEPT ![r] = IF Create(r) THEN LoopFrom(r, 1)
                              ELSE IF Named(r) THEN "delete" ELSE "commit"]
  BY DEF WriteRow, Goto, Create, Named
<1>5. /\ pc'[r] \in {"delete", "select", "commit"}
      /\ pc'[r] = "delete" => ~Create(r)
      /\ pc'[r] # "commit" => Named(r)
      /\ pc'[r] = "select" => 1 \in 1 .. Len(req[r].names)
      /\ pc'[r] = "commit" /\ Named(r) => 1 = Len(req[r].names) + 1
      /\ ~Create(r) => pc'[r] # "select"
      /\ ~Create(r) /\ Named(r) => pc'[r] = "delete"
  <2>1. pc'[r] = IF Create(r) THEN LoopFrom(r, 1)
                 ELSE IF Named(r) THEN "delete" ELSE "commit"
    BY <1>1, <1>4 DEF TypeOK
  <2>2. Create(r) => Named(r)
    BY <1>1, RequestFields
  <2> QED
    BY <1>1, <2>1, <2>2, LoopBegins
<1>6. TypeOK'
  <2>1. pc' \in [Req -> Statements]
    <3>1. pc'[r] \in Statements
      BY <1>5 DEF Statements
    <3> QED
      BY <1>1, <1>4, <3>1 DEF TypeOK
  <2> QED
    BY <1>1, <1>2, <1>3, <2>1 DEF TypeOK, OnlyOf, WriteRow
<1>7. RowOK(r)'
  BY <1>1, <1>2, <1>3, <1>5 DEF RowOK, OnlyOf, Working, Create, Locks, RoomOf
<1>8. LoopOK(r)'
  BY <1>1, <1>2, <1>5 DEF LoopOK, OnlyOf, Create, Named
<1>9. AddOK(r)'
  <2>1. {req[r].names[i] : i \in 1 .. next[r] - 1}' = {}
    BY <1>1, <1>2
  <2> QED
    BY <1>2, <1>3, <2>1 DEF AddOK, OnlyOf, Working, Create, Named
<1>10. CutOK(r)'
  BY <1>2, <1>5 DEF CutOK, OnlyOf, Create, Named
<1>11. \A s \in Others(r) : work'[r].row # NoRoom => work[s].row # work'[r].row
  BY <1>3, RowIsFree
<1> QED
  BY <1>2, <1>6, <1>7, <1>8, <1>9, <1>10, <1>11, OwnStep

LEMMA FindLinksStep ==
  ASSUME RInv, NEW r \in Req, FindLinks(r)
  PROVE  RInv'
<1>1. /\ TypeOK /\ RowOK(r) /\ LoopOK(r) /\ AddOK(r) /\ pc[r] = "delete"
      /\ RoomOf(r) \in Req /\ next[r] = 1 /\ Named(r) /\ ~Create(r)
  BY RequestFields DEF RInv, FindLinks, LoopOK
<1>2. OnlyOf(r) /\ next' = next /\ UNCHANGED answer /\ pc' = [pc EXCEPT ![r] = "lock"]
  BY <1>1 DEF FindLinks, Goto, OnlyOf, Others, TypeOK
<1>3. /\ work'[r].row = work[r].row /\ work'[r].cut = links[RoomOf(r)]
      /\ work'[r].add = work[r].add /\ work'[r].coin = work[r].coin
      /\ work' \in [Req -> [row : Req \cup {NoRoom}, cut : SUBSET Attribute,
                            add : SUBSET Attribute, coin : SUBSET Attribute]]
  BY <1>1 DEF FindLinks, TypeOK
<1>4. pc'[r] = "lock"
  BY <1>1, <1>2 DEF TypeOK
<1>5. TypeOK'
  BY <1>1, <1>2, <1>3 DEF TypeOK, OnlyOf, FindLinks, Statements
<1>6. RowOK(r)'
  BY <1>1, <1>2, <1>3, <1>4 DEF RowOK, OnlyOf, Working, Create, Locks, RoomOf
<1>7. LoopOK(r)'
  BY <1>1, <1>2, <1>4 DEF LoopOK, OnlyOf, Create, Named
<1>8. AddOK(r)'
  <2>1. {req[r].names[i] : i \in 1 .. next[r] - 1}'
        = {req[r].names[i] : i \in 1 .. next[r] - 1}
    BY <1>2 DEF OnlyOf
  <2> QED
    BY <1>1, <1>2, <1>3, <1>4, <2>1 DEF AddOK, OnlyOf, Working, Create, Named
<1>9. CutOK(r)'
  BY <1>2, <1>3 DEF CutOK, OnlyOf, RoomOf
<1>10. \A s \in Others(r) : work'[r].row # NoRoom => work[s].row # work'[r].row
  BY <1>3 DEF RInv, OneWriter, Others
<1> QED
  BY <1>2, <1>5, <1>6, <1>7, <1>8, <1>9, <1>10, OwnStep

\* A step after which r has written what it had written before.
LEMMA Keeps ==
  ASSUME RInv, NEW r \in Req, OnlyOf(r), TypeOK', work' = work, next' = next,
         pc[r] \in {"lock", "select", "insert"},
         pc'[r] \in {"select", "insert", "link", "commit"}, LoopOK(r)'
  PROVE  RInv'
<1>1. RowOK(r) /\ AddOK(r) /\ CutOK(r) /\ LoopOK(r)
  BY DEF RInv
<1>2. RowOK(r)'
  BY <1>1 DEF RowOK, OnlyOf, Working, Create, Locks, RoomOf
<1>3. AddOK(r)'
  <2>1. {req[r].names[i] : i \in 1 .. next[r] - 1}'
        = {req[r].names[i] : i \in 1 .. next[r] - 1}
    BY DEF OnlyOf
  <2> QED
    BY <1>1, <2>1 DEF AddOK, OnlyOf, Working, Create, Named
<1>4. CutOK(r)'
  BY <1>1 DEF CutOK, OnlyOf, RoomOf, Create, Named, Quiet, AttributesOnly
<1>5. \A s \in Others(r) : work'[r].row # NoRoom => work[s].row # work'[r].row
  BY DEF RInv, OneWriter, Others
<1> QED
  BY <1>2, <1>3, <1>4, <1>5, OwnStep

LEMMA DeleteLinksStep ==
  ASSUME RInv, NEW r \in Req, DeleteLinks(r)
  PROVE  RInv'
<1>1. TypeOK /\ LoopOK(r) /\ pc[r] = "lock"
  BY DEF RInv, DeleteLinks
<1>2. OnlyOf(r) /\ work' = work /\ next' = next
  BY <1>1 DEF DeleteLinks, Goto, OnlyOf, Others, TypeOK
<1>3. Named(r) /\ next[r] = 1 /\ ~Create(r)
  BY <1>1 DEF LoopOK
<1>4. pc'[r] = LoopFrom(r, 1) /\ pc' = [pc EXCEPT ![r] = LoopFrom(r, 1)]
  BY <1>1 DEF DeleteLinks, Goto, TypeOK
<1>5. TypeOK'
  BY <1>1, <1>3, <1>4, LoopBegins DEF DeleteLinks, Goto, TypeOK, Statements
<1>6. LoopOK(r)'
  BY <1>1, <1>2, <1>3, <1>4, LoopBegins DEF LoopOK, OnlyOf, Create, Named
<1> QED
  BY <1>1, <1>2, <1>3, <1>4, <1>5, <1>6, LoopBegins, Keeps

LEMMA SelectStep ==
  ASSUME RInv, NEW r \in Req, SelectAttribute(r)
  PROVE  RInv'
<1>1. TypeOK /\ LoopOK(r) /\ pc[r] = "select"
  BY DEF RInv, SelectAttribute
<1>2. OnlyOf(r) /\ work' = work /\ next' = next
  BY <1>1 DEF SelectAttribute, Goto, OnlyOf, Others, TypeOK
<1>3. /\ pc'[r] \in {"link", "insert"}
      /\ pc'[r] = "link" => Name(r) \in coined \cup work[r].coin
  BY <1>1 DEF SelectAttribute, Goto, TypeOK
<1>4. TypeOK'
  BY <1>1 DEF SelectAttribute, Goto, TypeOK, Statements
<1>5. LoopOK(r)'
  BY <1>1, <1>2, <1>3 DEF LoopOK, OnlyOf, Create, Named, Name
<1> QED
  BY <1>1, <1>2, <1>3, <1>4, <1>5, Keeps

LEMMA InsertStep ==
  ASSUME RInv, NEW r \in Req, InsertAttribute(r)
  PROVE  RInv'
<1>1. /\ TypeOK /\ RowOK(r) /\ LoopOK(r) /\ AddOK(r) /\ CutOK(r) /\ pc[r] = "insert"
      /\ Name(r) \in Attribute /\ Name(r) \in NamesOf(req[r]) /\ Named(r)
  BY CurrentName DEF RInv, InsertAttribute
<1>2. CASE Rollback(r)
  <2>1. faults' \in Nat /\ InFlight(r)
    BY <1>1 DEF InsertAttribute, TypeOK, InFlight
  <2> QED
    BY <1>2, <2>1, RollbackStep
<1>3. CASE /\ Name(r) \in coined /\ Goto(r, "link")
           /\ UNCHANGED <<req, next, writer, links, coined, work, faults>>
  <2>1. OnlyOf(r) /\ work' = work /\ next' = next /\ pc'[r] = "link"
    BY <1>1, <1>3 DEF Goto, OnlyOf, Others, TypeOK
  <2>2. TypeOK'
    BY <1>1, <1>3 DEF Goto, TypeOK, Statements
  <2>3. LoopOK(r)'
    BY <1>1, <1>3, <2>1 DEF LoopOK, OnlyOf, Create, Named, Name
  <2> QED
    BY <1>1, <2>1, <2>2, <2>3, Keeps
<1>4. CASE /\ Name(r) \notin coined
           /\ work' = [work EXCEPT ![r].coin = @ \cup {Name(r)}]
           /\ Goto(r, "link")
           /\ UNCHANGED <<req, next, writer, links, coined, faults>>
  <2>1. /\ work'[r].row = work[r].row /\ work'[r].cut = work[r].cut
        /\ work'[r].add = work[r].add /\ work'[r].coin = work[r].coin \cup {Name(r)}
        /\ work' \in [Req -> [row : Req \cup {NoRoom}, cut : SUBSET Attribute,
                              add : SUBSET Attribute, coin : SUBSET Attribute]]
    BY <1>1, <1>4 DEF TypeOK
  <2>2. OnlyOf(r) /\ next' = next /\ pc'[r] = "link"
    BY <1>1, <1>4 DEF Goto, OnlyOf, Others, TypeOK
  <2>3. TypeOK'
    BY <1>1, <1>4, <2>1 DEF Goto, TypeOK, Statements
  <2>4. RowOK(r)'
    BY <1>1, <2>1, <2>2 DEF RowOK, OnlyOf, Working, Create, Locks, RoomOf
  <2>5. LoopOK(r)'
    BY <1>1, <2>1, <2>2 DEF LoopOK, OnlyOf, Create, Named, Name
  <2>6. AddOK(r)'
    <3>1. {req[r].names[i] : i \in 1 .. next[r] - 1}'
          = {req[r].names[i] : i \in 1 .. next[r] - 1}
      BY <2>2 DEF OnlyOf
    <3>2. NamesOf(req[r])' = NamesOf(req[r])
      BY <2>2 DEF OnlyOf
    <3> QED
      BY <1>1, <2>1, <2>2, <3>1, <3>2 DEF AddOK, OnlyOf, Working, Create, Named
  <2>7. CutOK(r)'
    BY <1>1, <2>1, <2>2 DEF CutOK, OnlyOf, RoomOf, Create, Named, Quiet, AttributesOnly
  <2>8. \A s \in Others(r) : work'[r].row # NoRoom => work[s].row # work'[r].row
    BY <2>1 DEF RInv, OneWriter, Others
  <2> QED
    BY <2>2, <2>3, <2>4, <2>5, <2>6, <2>7, <2>8, OwnStep
<1> QED
  BY <1>2, <1>3, <1>4 DEF InsertAttribute

LEMMA LinkStep ==
  ASSUME RInv, NEW r \in Req, Link(r)
  PROVE  RInv'
<1>1. /\ TypeOK /\ RowOK(r) /\ LoopOK(r) /\ AddOK(r) /\ CutOK(r) /\ pc[r] = "link"
      /\ Name(r) \in Attribute /\ Named(r) /\ Len(req[r].names) \in 0 .. MaxNames
      /\ next[r] \in 1 .. Len(req[r].names)
      /\ Name(r) \in coined \cup work[r].coin
  BY CurrentName DEF RInv, Link, LoopOK
<1>2. CASE Rollback(r)
  <2>1. faults' \in Nat /\ InFlight(r)
    BY <1>1 DEF Link, TypeOK, InFlight
  <2> QED
    BY <1>2, <2>1, RollbackStep
<1>3. CASE /\ work' = [work EXCEPT ![r].add = @ \cup {Name(r)}]
           /\ next' = [next EXCEPT ![r] = @ + 1]
           /\ Goto(r, LoopFrom(r, next[r] + 1))
           /\ UNCHANGED <<req, writer, links, coined, faults>>
  <2>1. /\ work'[r].row = work[r].row /\ work'[r].cut = work[r].cut
        /\ work'[r].add = work[r].add \cup {Name(r)} /\ work'[r].coin = work[r].coin
        /\ work' \in [Req -> [row : Req \cup {NoRoom}, cut : SUBSET Attribute,
                              add : SUBSET Attribute, coin : SUBSET Attribute]]
    BY <1>1, <1>3 DEF TypeOK
  <2>2. /\ OnlyOf(r) /\ next'[r] = next[r] + 1 /\ req' = req
        /\ pc'[r] = LoopFrom(r, next[r] + 1)
    BY <1>1, <1>3 DEF Goto, OnlyOf, Others, TypeOK
  <2>3. /\ pc'[r] \in {"select", "commit"}
        /\ pc'[r] = "select" => next'[r] \in 1 .. Len(req[r].names)
        /\ pc'[r] = "commit" => next'[r] = Len(req[r].names) + 1
    BY <1>1, <2>2, NamesBoundAssumption DEF LoopFrom
  <2>4. TypeOK'
    <3>1. next' \in [Req -> 1 .. MaxNames + 1]
      BY <1>1, <1>3, NamesBoundAssumption DEF TypeOK
    <3>2. pc' \in [Req -> Statements]
      <4>1. pc'[r] \in Statements
        BY <2>3 DEF Statements
      <4> QED
        BY <1>1, <1>3, <4>1 DEF TypeOK, Goto
    <3> QED
      BY <1>1, <1>3, <2>1, <3>1, <3>2 DEF Goto, TypeOK
  <2>5. RowOK(r)'
    BY <1>1, <2>1, <2>2, <2>3 DEF RowOK, OnlyOf, Working, Create, Locks, RoomOf
  <2>6. LoopOK(r)'
    BY <1>1, <2>1, <2>2, <2>3 DEF LoopOK, OnlyOf, Create, Named, Name
  <2>7. AddOK(r)'
    <3>1. {req[r].names[i] : i \in 1 .. next[r] - 1}'
          = {req[r].names[i] : i \in 1 .. next[r]}
      BY <1>1, <2>2
    <3>2. 1 .. next[r] = (1 .. next[r] - 1) \cup {next[r]}
      BY <1>1
    <3>3. {req[r].names[i] : i \in 1 .. next[r]}
          = {req[r].names[i] : i \in 1 .. next[r] - 1} \cup {Name(r)}
      BY <3>2, Zenon DEF Name
    <3>4. work[r].add = {req[r].names[i] : i \in 1 .. next[r] - 1}
      BY <1>1 DEF AddOK, Working
    <3>5. NamesOf(req[r])' = NamesOf(req[r])
      BY <2>2
    <3>6. work'[r].add = {req[r].names[i] : i \in 1 .. next[r] - 1}'
      BY <2>1, <3>1, <3>3, <3>4
    <3> QED
      BY <1>1, <2>1, <2>2, <3>5, <3>6 DEF AddOK, OnlyOf, Working, Create, Named
  <2>8. CutOK(r)'
    BY <1>1, <2>1, <2>2 DEF CutOK, OnlyOf, RoomOf, Create, Named, Quiet, AttributesOnly
  <2>9. \A s \in Others(r) : work'[r].row # NoRoom => work[s].row # work'[r].row
    BY <2>1 DEF RInv, OneWriter, Others
  <2> QED
    BY <2>2, <2>4, <2>5, <2>6, <2>7, <2>8, <2>9, OwnStep
<1> QED
  BY <1>2, <1>3 DEF Link

-----------------------------------------------------------------------------
(* The commit *)

\* What a commit does to the tables.
LEMMA CommitWrites ==
  ASSUME RInv, NEW r \in Req, Commit(r)
  PROVE  /\ req' = req /\ next' = next /\ RoomOf(r) \in Req
         /\ \A m \in Req : writer'[m] = IF work[r].row = m THEN r ELSE writer[m]
         /\ \A m \in Req : m # RoomOf(r) => links'[m] = links[m]
         /\ links'[RoomOf(r)] = (links[RoomOf(r)] \ work[r].cut) \cup work[r].add
         /\ coined' = coined \cup work[r].coin
         /\ pc[r] = "commit" /\ pc'[r] = "done" /\ work'[r] = Nothing
         /\ \A s \in Others(r) :
              /\ pc'[s] = pc[s]
              /\ work'[s].row = work[s].row /\ work'[s].add = work[s].add
              /\ work'[s].coin = work[s].coin
              /\ work'[s].cut = IF s \in Rivals(r) /\ pc[s] = "lock"
                                THEN work[s].cut \ work[r].cut ELSE work[s].cut
              /\ pc[s] # "lock" => work'[s] = work[s]
<1>1. TypeOK /\ RoomOf(r) \in Req
  BY RequestFields DEF RInv
<1>2. pc' = [pc EXCEPT ![r] = "done"]
  BY DEF Commit, Reply
<1>3. ASSUME NEW s \in Others(r)
      PROVE  /\ work'[s].row = work[s].row /\ work'[s].add = work[s].add
             /\ work'[s].coin = work[s].coin
             /\ work'[s].cut = IF s \in Rivals(r) /\ pc[s] = "lock"
                               THEN work[s].cut \ work[r].cut ELSE work[s].cut
             /\ pc[s] # "lock" => work'[s] = work[s]
  <2>1. s \in Req /\ s # r
    BY DEF Others
  <2>2. work'[s] = IF s \in Rivals(r) /\ pc[s] = "lock"
                   THEN [work[s] EXCEPT !.cut = @ \ work[r].cut] ELSE work[s]
    BY <2>1 DEF Commit, Ended
  <2> QED
    BY <1>1, <2>1, <2>2 DEF TypeOK
<1> QED
  BY <1>1, <1>2, <1>3 DEF Commit, Ended, TypeOK, Others

\* Without the lock on its room, in a room that is quiet, r commits nothing.
LEMMA QuietCommit ==
  ASSUME RInv, NEW r \in Req, Commit(r), Quiet(RoomOf(r)), work[r].row # RoomOf(r)
  PROVE  work[r].cut = {} /\ work[r].add = {}
<1>1. TypeOK /\ RowOK(r) /\ AddOK(r) /\ Working(r)
  BY DEF RInv, Commit, Working
<1>2. ~Locks(r)
  BY <1>1 DEF RowOK
<1>3. ~Named(r)
  BY <1>1, <1>2, RequestFields DEF Quiet, AttributesOnly, Locks, Named
<1> QED
  BY <1>1, <1>3 DEF AddOK

\* A request that commits has linked every one of its names, each of which there
\* is already or it inserts.
LEMMA NamesAtCommit ==
  ASSUME RInv, NEW r \in Req, Commit(r), Named(r)
  PROVE  work[r].add = NamesOf(req[r]) /\ coined \cup work[r].coin = coined \cup NamesOf(req[r])
<1>1. TypeOK /\ LoopOK(r) /\ AddOK(r) /\ Working(r) /\ pc[r] = "commit"
  BY DEF RInv, Commit, Working
<1>2. DOMAIN req[r].names = 1 .. Len(req[r].names) /\ Len(req[r].names) \in Nat
  BY <1>1, RequestFields, ListOfNames, NamesBoundAssumption
<1>3. next[r] - 1 = Len(req[r].names)
  BY <1>1, <1>2 DEF LoopOK
<1>4. work[r].add = {req[r].names[i] : i \in 1 .. next[r] - 1}
  BY <1>1 DEF AddOK
<1>5. work[r].add = NamesOf(req[r])
  BY <1>2, <1>3, <1>4 DEF NamesOf
<1> QED
  BY <1>1, <1>5 DEF AddOK

\* With it, the room has the names of r.
LEMMA WholeCommit ==
  ASSUME RInv, NEW r \in Req, Commit(r), Quiet(RoomOf(r)), Named(r),
         work[r].row = RoomOf(r)
  PROVE  links'[RoomOf(r)] = NamesOf(req[r])
<1>1. TypeOK /\ RowOK(r) /\ CutOK(r) /\ pc[r] = "commit"
  BY DEF RInv, Commit
<1>2. work[r].add = NamesOf(req[r])
  BY NamesAtCommit
<1>3. links[RoomOf(r)] \ work[r].cut = {}
  <2>1. CASE Create(r)
    <3>1. RoomOf(r) = r /\ writer[r] = NoRoom
      BY <1>1, <2>1, RequestFields DEF RowOK
    <3> QED
      BY <1>1, <3>1 DEF TypeOK
  <2>2. CASE ~Create(r)
    BY <1>1, <2>2 DEF CutOK
  <2> QED
    BY <2>1, <2>2
<1>4. links'[RoomOf(r)] = (links[RoomOf(r)] \ work[r].cut) \cup work[r].add
  BY CommitWrites
<1> QED
  BY <1>2, <1>3, <1>4

LEMMA CommitKeepsTypes ==
  ASSUME RInv, NEW r \in Req, Commit(r)
  PROVE  TypeOK'
<1>1. TypeOK /\ RowOK(r) /\ AddOK(r) /\ Working(r) /\ RoomOf(r) \in Req
  BY RequestFields DEF RInv, Commit, Working
<1>2. writer' \in [Req -> Req \cup {NoRoom}]
  BY <1>1 DEF Commit, TypeOK
<1>3. coined' \subseteq Attribute /\ coined \subseteq coined'
  BY <1>1 DEF Commit, TypeOK
<1>4. links' \in [Req -> SUBSET coined']
  <2>1. (links[RoomOf(r)] \ work[r].cut) \cup work[r].add \subseteq coined'
    BY <1>1, <1>3 DEF Commit, TypeOK, AddOK
  <2>2. links \in [Req -> SUBSET coined']
    BY <1>1, <1>3 DEF TypeOK
  <2> QED
    BY <1>1, <2>1, <2>2 DEF Commit
<1>5. work' \in [Req -> [row : Req \cup {NoRoom}, cut : SUBSET Attribute,
                        add : SUBSET Attribute, coin : SUBSET Attribute]]
  <2>1. \A s \in Req : [work[s] EXCEPT !.cut = @ \ work[r].cut]
                        \in [row : Req \cup {NoRoom}, cut : SUBSET Attribute,
                            add : SUBSET Attribute, coin : SUBSET Attribute]
    BY <1>1 DEF TypeOK
  <2>2. \A s \in Req : work[s] \in [row : Req \cup {NoRoom}, cut : SUBSET Attribute,
                                    add : SUBSET Attribute, coin : SUBSET Attribute]
    BY <1>1 DEF TypeOK
  <2> QED
    BY <2>1, <2>2, NothingFields DEF Commit, Ended
<1>6. \A m \in Req : writer'[m] = NoRoom => links'[m] = {}
  <2> SUFFICES ASSUME NEW m \in Req, writer'[m] = NoRoom PROVE links'[m] = {}
    OBVIOUS
  <2>1. work[r].row # m /\ writer[m] = NoRoom
    BY CommitWrites, NoRoomAssumption
  <2>2. links[m] = {}
    BY <1>1, <2>1 DEF TypeOK
  <2>3. CASE m # RoomOf(r)
    BY <2>2, <2>3, CommitWrites
  <2>4. CASE m = RoomOf(r)
    <3>1. ~Locks(r)
      BY <1>1, <2>1, <2>4 DEF RowOK
    <3>2. ~Create(r) /\ writer[RoomOf(r)] # NoRoom
      BY <1>1, <3>1 DEF RowOK, Locks
    <3> QED
      BY <2>1, <2>4, <3>2
  <2> QED
    BY <2>3, <2>4
<1>7. pc' \in [Req -> Statements] /\ answer' \in [Req -> Answers] /\ faults' \in Nat
  BY <1>1 DEF Commit, Reply, TypeOK, Statements, Answers
<1>8. req' = req /\ next' = next
  BY DEF Commit
<1>9. req' \in [Req -> Requests] /\ next' \in [Req -> 1 .. MaxNames + 1]
  BY <1>1, <1>8 DEF TypeOK
<1> QED
  BY <1>2, <1>3, <1>4, <1>5, <1>6, <1>7, <1>9 DEF TypeOK

LEMMA CommitSavesWhole ==
  ASSUME RInv, NEW r \in Req, Commit(r)
  PROVE  SavedWhole'
<1>1. req' = req /\ RoomOf(r) \in Req
  BY CommitWrites
<1> SUFFICES ASSUME NEW m \in Req, writer'[m] # NoRoom, Quiet(m),
                    req[writer'[m]].names # Absent
             PROVE  links'[m] = NamesOf(req[writer'[m]])
  BY <1>1 DEF SavedWhole, Quiet, AttributesOnly, RoomOf
<1>2. CASE work[r].row = m
  <2>1. writer'[m] = r
    BY <1>2, CommitWrites
  <2>2. work[r].row = RoomOf(r)
    <3>1. RowOK(r) /\ Working(r)
      BY DEF RInv, Commit, Working
    <3> QED
      BY <1>2, <3>1, NoRoomAssumption DEF RowOK
  <2> QED
    BY <1>2, <2>1, <2>2, WholeCommit DEF Named
<1>3. CASE work[r].row # m
  <2>1. writer'[m] = writer[m]
    BY <1>3, CommitWrites
  <2>2. links[m] = NamesOf(req[writer[m]])
    BY <2>1 DEF RInv, SavedWhole, Quiet
  <2>3. links'[m] = links[m]
    <3>1. CASE m # RoomOf(r)
      BY <3>1, CommitWrites
    <3>2. CASE m = RoomOf(r)
      <4>1. work[r].cut = {} /\ work[r].add = {}
        BY <1>3, <3>2, QuietCommit
      <4>2. links'[m] = (links[m] \ work[r].cut) \cup work[r].add
        BY <3>2, CommitWrites
      <4> QED
        BY <4>1, <4>2
    <3> QED
      BY <3>1, <3>2
  <2> QED
    BY <2>1, <2>2, <2>3
<1> QED
  BY <1>2, <1>3

LEMMA CommitStep ==
  ASSUME RInv, NEW r \in Req, Commit(r)
  PROVE  RInv'
<1>1. TypeOK /\ RowOK(r) /\ Working(r)
  BY DEF RInv, Commit, Working
<1>2. OneWriter'
  <2>1. \A s \in Req : work'[s].row = work[s].row \/ work'[s].row = NoRoom
    BY CommitWrites, NothingFields DEF Others
  <2> QED
    BY <2>1 DEF RInv, OneWriter
<1>3. ASSUME NEW s \in Req PROVE RowOK(s)' /\ LoopOK(s)' /\ AddOK(s)' /\ CutOK(s)'
  <2>1. CASE s = r
    <3>1. pc'[s] = "done" /\ work'[s] = Nothing
      BY <2>1, CommitWrites
    <3> QED
      BY <3>1, NothingFields DEF RowOK, LoopOK, AddOK, CutOK, Working
  <2>2. CASE s # r
    <3>1. s \in Others(r) /\ RowOK(s) /\ LoopOK(s) /\ AddOK(s) /\ CutOK(s)
      BY <2>2 DEF RInv, Others
    <3>2. RoomOf(s) \in Req /\ RoomOf(r) \in Req
      BY <1>1, RequestFields
    <3>3. /\ req' = req /\ next' = next /\ coined' = coined \cup work[r].coin
          /\ writer'[s] = IF work[r].row = s THEN r ELSE writer[s]
          /\ writer'[RoomOf(s)] = IF work[r].row = RoomOf(s) THEN r ELSE writer[RoomOf(s)]
          /\ RoomOf(s) # RoomOf(r) => links'[RoomOf(s)] = links[RoomOf(s)]
          /\ links'[RoomOf(r)] = (links[RoomOf(r)] \ work[r].cut) \cup work[r].add
      BY <3>2, CommitWrites
    <3>4. /\ pc'[s] = pc[s]
          /\ work'[s].row = work[s].row /\ work'[s].add = work[s].add
          /\ work'[s].coin = work[s].coin
          /\ work'[s].cut = IF s \in Rivals(r) /\ pc[s] = "lock"
                            THEN work[s].cut \ work[r].cut ELSE work[s].cut
          /\ pc[s] # "lock" => work'[s] = work[s]
      BY <3>1, CommitWrites
    <3>5. Create(s) /\ pc[s] # "done" => writer'[s] = NoRoom
      <4> SUFFICES ASSUME Create(s), writer[s] = NoRoom PROVE work[r].row # s
        BY <3>1, <3>2, <3>3, <3>4 DEF RowOK
      <4>1. CASE Create(r)
        BY <1>1, <2>2, <4>1, RequestFields, NoRoomAssumption DEF RowOK
      <4>2. CASE ~Create(r)
        BY <1>1, <4>2, NoRoomAssumption DEF RowOK
      <4> QED
        BY <4>1, <4>2
    <3>6. writer[RoomOf(s)] # NoRoom => writer'[RoomOf(s)] # NoRoom
      BY <3>1, <3>2, <3>3, <3>4, NoRoomAssumption
    <3>7. RowOK(s)'
      BY <3>1, <3>2, <3>3, <3>4, <3>5, <3>6 DEF RowOK, Working, Locks, Create, RoomOf
    <3>8. LoopOK(s)'
      BY <3>1, <3>2, <3>3, <3>4 DEF LoopOK, Create, Named, Name
    <3>9. AddOK(s)'
      <4>1. {req[s].names[i] : i \in 1 .. next[s] - 1}'
            = {req[s].names[i] : i \in 1 .. next[s] - 1}
        BY <3>1, <3>2, <3>3, <3>4
      <4>2. NamesOf(req[s])' = NamesOf(req[s])
        BY <3>1, <3>2, <3>3, <3>4
      <4>3. work[s].cut = {} => work'[s].cut = {}
        BY <3>1, <3>2, <3>3, <3>4
      <4> QED
        BY <3>1, <3>2, <3>3, <3>4, <4>1, <4>2, <4>3 DEF AddOK, Working, Create, Named
    <3>10. CutOK(s)'
      <4> SUFFICES ASSUME pc[s] \in {"lock", "select", "insert", "link", "commit"},
                          ~Create(s), Named(s), Quiet(RoomOf(s))
                   PROVE  work'[s].cut = links'[RoomOf(s)]
        BY <3>1, <3>2, <3>3, <3>4 DEF CutOK, Create, Named, Quiet, AttributesOnly, RoomOf
      <4>1. work[s].cut = links[RoomOf(s)]
        BY <3>1, <3>2, <3>3, <3>4 DEF CutOK
      <4>2. CASE RoomOf(s) # RoomOf(r)
        BY <3>1, <3>2, <3>3, <3>4, <4>1, <4>2 DEF Rivals
      <4>3. CASE RoomOf(s) = RoomOf(r)
        <5>1. Locks(s)
          BY <1>1, <3>1, <3>2, <3>3, <3>4, RequestFields
          DEF Quiet, AttributesOnly, Locks, Named
        <5>2. work[s].row = RoomOf(r)
          BY <3>1, <3>2, <3>3, <3>4, <4>3, <5>1 DEF RowOK, Working
        <5>3. work[r].row # RoomOf(r)
          BY <2>2, <3>1, <3>2, <3>3, <3>4, <4>3, <5>2, NoRoomAssumption DEF RInv, OneWriter
        <5>4. work[r].cut = {} /\ work[r].add = {}
          BY <4>3, <5>3, QuietCommit
        <5> QED
          BY <3>1, <3>2, <3>3, <3>4, <4>1, <4>3, <5>4
      <4> QED
        BY <4>2, <4>3
    <3> QED
      BY <3>7, <3>8, <3>9, <3>10
  <2> QED
    BY <2>1, <2>2
<1> QED
  BY <1>2, <1>3, CommitKeepsTypes, CommitSavesWhole DEF RInv

-----------------------------------------------------------------------------
(* The invariant holds *)

LEMMA CrashStep ==
  ASSUME RInv, Crash
  PROVE  RInv'
<1>1. TypeOK /\ UNCHANGED <<req, next, writer, links, coined, answer>>
  BY DEF RInv, Crash
<1>2. \A r \in Req : /\ work'[r] = Nothing /\ pc'[r] \in {"idle", "done"}
                     /\ pc'[r] = "idle" => pc[r] = "idle"
  BY DEF Crash, InFlight
<1>3. TypeOK'
  <2>1. pc' \in [Req -> Statements] /\ faults' \in Nat
    BY <1>1 DEF Crash, TypeOK, Statements
  <2>2. work' \in [Req -> [row : Req \cup {NoRoom}, cut : SUBSET Attribute,
                          add : SUBSET Attribute, coin : SUBSET Attribute]]
    BY NothingFields DEF Crash
  <2> QED
    BY <1>1, <2>1, <2>2 DEF TypeOK
<1>4. SavedWhole'
  BY <1>1 DEF RInv, SavedWhole, AttributesOnly, RoomOf
<1>5. OneWriter'
  BY <1>2, NothingFields DEF OneWriter
<1>6. ASSUME NEW r \in Req PROVE RowOK(r)' /\ LoopOK(r)' /\ AddOK(r)' /\ CutOK(r)'
  <2>1. RowOK(r) /\ LoopOK(r)
    BY DEF RInv
  <2>2. RowOK(r)'
    BY <1>1, <1>2, <2>1 DEF RowOK, Working, Create
  <2>3. LoopOK(r)' /\ AddOK(r)' /\ CutOK(r)'
    BY <1>1, <1>2, <2>1, NothingFields DEF LoopOK, AddOK, CutOK, Working
  <2> QED
    BY <2>2, <2>3
<1> QED
  BY <1>3, <1>4, <1>5, <1>6 DEF RInv

LEMMA StutterStep ==
  ASSUME RInv, UNCHANGED vars
  PROVE  RInv'
<1>1. UNCHANGED <<req, pc, next, writer, links, coined, work, answer, faults>>
  BY DEF vars
<1>2. TypeOK' /\ SavedWhole' /\ OneWriter'
  BY <1>1 DEF RInv, TypeOK, SavedWhole, OneWriter, AttributesOnly, RoomOf
<1>3. ASSUME NEW r \in Req PROVE RowOK(r)' /\ LoopOK(r)' /\ AddOK(r)' /\ CutOK(r)'
  <2>1. RowOK(r) /\ LoopOK(r) /\ AddOK(r) /\ CutOK(r)
    BY DEF RInv
  <2> QED
    BY <1>1, <2>1 DEF RowOK, LoopOK, AddOK, CutOK, Working, Create, Named, Locks, Name,
       Quiet, AttributesOnly, RoomOf, NamesOf
<1> QED
  BY <1>2, <1>3 DEF RInv

LEMMA NextRInv == RInv /\ [Next]_vars => RInv'
<1> SUFFICES ASSUME RInv, [Next]_vars PROVE RInv'
  OBVIOUS
<1>1. ASSUME NEW r \in Req, Progress(r) PROVE RInv'
  <2>1. CASE Deadlock(r)
    <3>1. InFlight(r) /\ faults' \in Nat
      BY <2>1, WaitersAreOpen DEF Deadlock, InFlight, RInv, TypeOK
    <3> QED
      BY <2>1, <3>1, RollbackStep DEF Deadlock
  <2> QED
    BY <1>1, <2>1, FindStep, WriteRowStep, FindLinksStep, DeleteLinksStep, SelectStep,
       InsertStep, LinkStep, CommitStep DEF Progress
<1>2. ASSUME NEW r \in Req, CallFails(r) PROVE RInv'
  <2>1. faults' \in Nat
    BY <1>2 DEF CallFails, RInv, TypeOK
  <2> QED
    BY <1>2, <2>1, RollbackStep DEF CallFails
<1> QED
  BY <1>1, <1>2, ArriveStep, CrashStep, StutterStep DEF Next

LEMMA Invariance == Spec => []RInv
BY InitRInv, NextRInv, PTL DEF Spec

\* createRoom and updateRoom keep the types of their tables: only rooms that
\* exist have attributes, and only attributes that exist.
THEOREM CatalogTypeCorrect == Spec => []TypeOK
<1>1. RInv => TypeOK
  BY DEF RInv
<1> QED
  BY <1>1, Invariance, PTL

\* A room has the attributes of the request that wrote its columns last, because
\* the UPDATE of the row in updateRoom keeps the others out until the commit.
THEOREM RoomsAreSavedWhole == Spec => []SavedWhole
<1>1. RInv => SavedWhole
  BY DEF RInv
<1> QED
  BY <1>1, Invariance, PTL

-----------------------------------------------------------------------------
(* What changes the catalog is the whole of one request *)

\* All of it is there with the commit, acknowledged or not.
LEMMA CommitSaves ==
  ASSUME RInv, NEW r \in Req, Commit(r)
  PROVE  SavedInOneStep(r)
<1>1. TypeOK /\ RowOK(r) /\ AddOK(r) /\ Working(r) /\ pc[r] = "commit"
  BY DEF RInv, Commit, Working
<1>2. /\ RoomOf(r) \in Req /\ pc'[r] = "done"
      /\ \A m \in Req : writer'[m] = IF work[r].row = m THEN r ELSE writer[m]
      /\ \A m \in Req : m # RoomOf(r) => links'[m] = links[m]
      /\ links'[RoomOf(r)] = (links[RoomOf(r)] \ work[r].cut) \cup work[r].add
      /\ coined' = coined \cup work[r].coin
  BY CommitWrites
<1>3. answer'[r] = "ok" \/ faults' # faults
  BY <1>1 DEF Commit, Reply, TypeOK
<1>4. writer' = IF Locks(r) THEN [writer EXCEPT ![RoomOf(r)] = r] ELSE writer
  <2>1. /\ writer \in [Req -> Req \cup {NoRoom}]
        /\ writer' = [m \in Req |-> IF work[r].row = m THEN r ELSE writer[m]]
        /\ work[r].row = IF Locks(r) THEN RoomOf(r) ELSE NoRoom
    BY <1>1 DEF TypeOK, Commit, RowOK
  <2> QED
    BY <1>2, <2>1, NoRoomAssumption
<1>5. CASE Named(r)
  <2>1. work[r].add = NamesOf(req[r]) /\ coined' = coined \cup NamesOf(req[r])
    BY <1>2, <1>5, NamesAtCommit
  <2> QED
    BY <1>1, <1>2, <1>3, <1>4, <1>5, <2>1 DEF SavedInOneStep, Locks, Create, Named
<1>6. CASE ~Named(r)
  <2>1. work[r].cut = {} /\ work[r].add = {} /\ work[r].coin = {}
    BY <1>1, <1>6 DEF AddOK
  <2>2. coined' = coined /\ links' = links
    BY <1>1, <1>2, <2>1 DEF Commit, TypeOK
  <2> QED
    BY <1>1, <1>2, <1>3, <1>4, <1>6, <2>2 DEF SavedInOneStep, Locks, Create, Named
<1> QED
  BY <1>5, <1>6

\* Every other step leaves the committed rows alone.
LEMMA OnlyCommitsWrite ==
  ASSUME [Next]_vars, ~\E r \in Req : Commit(r)
  PROVE  UNCHANGED <<writer, links, coined>>
<1>1. ASSUME NEW r \in Req, Progress(r) PROVE UNCHANGED <<writer, links, coined>>
  BY <1>1 DEF Progress, FindRoom, WriteRow, FindLinks, DeleteLinks, SelectAttribute,
     InsertAttribute, Link, Deadlock, Rollback
<1>2. ASSUME NEW r \in Req, Arrive(r) \/ CallFails(r)
      PROVE  UNCHANGED <<writer, links, coined>>
  BY <1>2 DEF Arrive, CallFails, Rollback
<1>3. CASE Crash \/ UNCHANGED vars
  BY <1>3 DEF Crash, vars
<1> QED
  BY <1>1, <1>2, <1>3 DEF Next

\* A request that is refused, or that a failed call or a crash ends, leaves nothing
\* of what its statements wrote, on its own room or on one that was there: the
\* committed tables change only with a COMMIT, and that brings the whole request.
THEOREM RefusedRequestsLeaveNothing == Spec => RefusedLeavesNothing
<1>1. RInv /\ [Next]_vars =>
        [UNCHANGED <<writer, links, coined>> \/ \E r \in Req : SavedInOneStep(r)]_vars
  BY CommitSaves, OnlyCommitsWrite
<1> QED
  BY <1>1, Invariance, PTL DEF Spec, RefusedLeavesNothing
================================================================================
