------------------------------ MODULE RoomCatalog ------------------------------
(* The rooms module of the API: createRoom and updateRoom, the transactions   *)
(* of the administrators over rooms, attributes and room_attributes, at READ  *)
(* COMMITTED.  A request is a process; each of its statements is a step, and  *)
(* what it has written and not committed is in work.                          *)
(*                                                                            *)
(* A room is named after the request that creates it, and the contents of its *)
(* columns after the request that wrote them last.                            *)
EXTENDS Naturals, Sequences

CONSTANTS
  Attribute,  \* the names of attributes
  Req,        \* the requests
  Earlier,    \* rooms that were created before the model starts
  Requests,   \* what a request may ask for
  MaxNames,   \* bound on the names in a list
  MaxFaults,  \* bound on failed calls and crashes
  NoRoom,     \* no such room
  Absent      \* a PATCH that does not mention the attributes

Names == UNION {[1 .. n -> Attribute] : n \in 0 .. MaxNames}

\* columns says whether a PATCH carries a name, a location or a capacity.
Request ==
  [op : {"create"}, admin : BOOLEAN, names : Names]
  \cup [op : {"update"}, admin : BOOLEAN, room : Req, columns : BOOLEAN,
        names : Names \cup {Absent}]

ASSUME RoomRequestsAssumption == Requests \subseteq Request
ASSUME EarlierRoomsAssumption == Earlier \subseteq Req
ASSUME NamesBoundAssumption == MaxNames \in Nat
ASSUME NoRoomAssumption == NoRoom \notin Req /\ Absent \notin Names

VARIABLES
  req,     \* what each request asks for; fixed from the start
  pc,      \* the statement each request executes next
  next,    \* the loop variable over the names
  writer,  \* committed rooms: who wrote the columns last
  links,   \* committed room_attributes: the names each room has
  coined,  \* committed attributes
  work,    \* of each open transaction: row: the room whose columns it wrote,
           \* cut: the links it deleted or is about to delete,
           \* add: the links it inserted, coin: the attributes it inserted
  answer,  \* the HTTP answer of each request
  faults   \* how many failed calls and crashes there have been

vars == <<req, pc, next, writer, links, coined, work, answer, faults>>

Statements == {"idle", "find", "row", "delete", "lock", "select", "insert", "link", "commit", "done"}

Answers == {"none", "ok", "forbidden", "notFound", "internal"}

Nothing == [row |-> NoRoom, cut |-> {}, add |-> {}, coin |-> {}]

InFlight(r) == pc[r] \notin {"idle", "done"}

RoomOf(r) == IF req[r].op = "create" THEN r ELSE req[r].room
NamesOf(q) == {q.names[i] : i \in DOMAIN q.names}
Name(r) == req[r].names[next[r]]

Others(r) == Req \ {r}
Rivals(r) == {s \in Others(r) : RoomOf(s) = RoomOf(r)}

\* The links that s has deleted; while it waits for their locks it has not.
Deleted(s) == IF pc[s] = "lock" THEN {} ELSE work[s].cut

-----------------------------------------------------------------------------
(* The locks of PostgreSQL *)

\* The open transactions that the next statement of r has to wait for: they
\* hold the row of the room, have deleted a row it deletes, or have inserted a
\* row with its unique key (or deleted one) and may still take that back.
WaitsFor(r) ==
  CASE pc[r] = "row" /\ req[r].op = "update" /\ req[r].columns ->
         {s \in Rivals(r) : work[s].row = RoomOf(r)}
    [] pc[r] = "lock"   -> {s \in Rivals(r) : Deleted(s) \cap work[r].cut # {}}
    [] pc[r] = "insert" -> {s \in Others(r) : Name(r) \in work[s].coin}
    [] pc[r] = "link"   -> {s \in Rivals(r) : Name(r) \in work[s].add \cup Deleted(s)}
    [] OTHER            -> {}

\* r waits for itself, by way of others.
OnWaitCycle(r) ==
  \E S \in SUBSET {s \in Req : WaitsFor(s) # {}} : \E after \in [S -> S] :
    /\ r \in S
    /\ \A s \in S : after[s] \in WaitsFor(s)
    /\ \A s, t \in S : after[s] = after[t] => s = t

-----------------------------------------------------------------------------

Goto(r, statement) == pc' = [pc EXCEPT ![r] = statement] /\ UNCHANGED answer

Reply(r, code) ==
  /\ pc' = [pc EXCEPT ![r] = "done"]
  /\ answer' = [answer EXCEPT ![r] = code]

\* Mutant of Rollback: the error is answered and the transaction left open.
LeaveOpen(r) == Reply(r, "internal") /\ UNCHANGED <<req, next, writer, links, coined, work>>

\* The callback of $transaction throws: errorHandler knows none of the errors
\* that the statements of this module raise.
Rollback(r) ==
  /\ work' = [work EXCEPT ![r] = Nothing]
  /\ Reply(r, "internal")
  /\ UNCHANGED <<req, next, writer, links, coined>>

\* requireAdmin, then the service; validate leaves absent names absent in a
\* PATCH and makes them an empty list in a POST.
Arrive(r) ==
  /\ pc[r] = "idle"
  /\ \/ ~req[r].admin /\ Reply(r, "forbidden")
     \/ req[r].admin /\ Goto(r, IF req[r].op = "create" THEN "row" ELSE "find")
  /\ UNCHANGED <<req, next, writer, links, coined, work, faults>>

\* Mutant of FindRoom: the room is taken to exist.
FindNoRoom(r) ==
  /\ pc[r] = "find"
  /\ Goto(r, "row")
  /\ UNCHANGED <<req, next, writer, links, coined, work, faults>>

\* findUnique, before the transaction.
FindRoom(r) ==
  /\ pc[r] = "find"
  /\ \/ writer[RoomOf(r)] # NoRoom /\ Goto(r, "row")
     \/ writer[RoomOf(r)] = NoRoom /\ Reply(r, "notFound")
  /\ UNCHANGED <<req, next, writer, links, coined, work, faults>>

\* The loop over the names, from the i-th on, and the commit after it.
LoopFrom(r, i) == IF i > Len(req[r].names) THEN "commit" ELSE "select"

\* Mutant of WriteRow: the update of the columns waits for nobody.
WriteRowUnlocked(r) ==
  /\ pc[r] = "row"
  /\ \/ req[r].op = "update" /\ ~req[r].columns /\ UNCHANGED work
     \/ /\ req[r].op = "update" => req[r].columns
        /\ work' = [work EXCEPT ![r].row = RoomOf(r)]
  /\ Goto(r, IF req[r].op = "create" THEN LoopFrom(r, 1)
             ELSE IF req[r].names = Absent THEN "commit" ELSE "delete")
  /\ UNCHANGED <<req, next, writer, links, coined, faults>>

\* room.create, or room.update: without a column to set it touches no row.
WriteRow(r) ==
  /\ pc[r] = "row"
  /\ WaitsFor(r) = {}
  /\ \/ req[r].op = "update" /\ ~req[r].columns /\ UNCHANGED work
     \/ /\ req[r].op = "update" => req[r].columns
        /\ work' = [work EXCEPT ![r].row = RoomOf(r)]
  /\ Goto(r, IF req[r].op = "create" THEN LoopFrom(r, 1)
             ELSE IF req[r].names = Absent THEN "commit" ELSE "delete")
  /\ UNCHANGED <<req, next, writer, links, coined, faults>>

\* roomAttribute.deleteMany finds the links that are committed when it starts ...
FindLinks(r) ==
  /\ pc[r] = "delete"
  /\ work' = [work EXCEPT ![r].cut = links[RoomOf(r)]]
  /\ Goto(r, "lock")
  /\ UNCHANGED <<req, next, writer, links, coined, faults>>

\* ... and locks them; it skips those that others have deleted (see Ended), and
\* does not see what has been committed meanwhile.
DeleteLinks(r) ==
  /\ pc[r] = "lock"
  /\ WaitsFor(r) = {}
  /\ Goto(r, LoopFrom(r, 1))
  /\ UNCHANGED <<req, next, writer, links, coined, work, faults>>

\* attribute.upsert looks for the name ...
SelectAttribute(r) ==
  /\ pc[r] = "select"
  /\ Goto(r, IF Name(r) \in coined \cup work[r].coin THEN "link" ELSE "insert")
  /\ UNCHANGED <<req, next, writer, links, coined, work, faults>>

\* Mutant of InsertAttribute: through prisma instead of tx, it commits at once.
InsertAtOnce(r) ==
  /\ pc[r] = "insert"
  /\ coined' = coined \cup {Name(r)}
  /\ Goto(r, "link")
  /\ UNCHANGED <<req, next, writer, links, work, faults>>

\* ... and inserts it.  If another transaction has committed the name meanwhile
\* the upsert takes that row, or fails on the unique index, as the version of
\* the ORM decides.
InsertAttribute(r) ==
  /\ pc[r] = "insert"
  /\ WaitsFor(r) = {}
  /\ \/ /\ Name(r) \notin coined
        /\ work' = [work EXCEPT ![r].coin = @ \cup {Name(r)}]
        /\ Goto(r, "link")
        /\ UNCHANGED <<req, next, writer, links, coined>>
     \/ /\ Name(r) \in coined
        /\ Goto(r, "link")
        /\ UNCHANGED <<req, next, writer, links, coined, work>>
     \/ Name(r) \in coined /\ Rollback(r)
  /\ UNCHANGED faults

\* roomAttribute.create: its primary key refuses a link that is there already,
\* as when the list has the name twice.
Link(r) ==
  LET there == Name(r) \in work[r].add \cup (links[RoomOf(r)] \ work[r].cut) IN
  /\ pc[r] = "link"
  /\ WaitsFor(r) = {}
  /\ \/ there /\ Rollback(r)
     \/ /\ ~there
        /\ work' = [work EXCEPT ![r].add = @ \cup {Name(r)}]
        /\ next' = [next EXCEPT ![r] = @ + 1]
        /\ Goto(r, LoopFrom(r, next[r] + 1))
        /\ UNCHANGED <<req, writer, links, coined>>
  /\ UNCHANGED faults

\* What is open after r has committed: of the links that a waiting deleteMany
\* has found, those that r has deleted are gone.
Ended(r) ==
  [s \in Req |-> IF s = r THEN Nothing
                 ELSE IF s \in Rivals(r) /\ pc[s] = "lock"
                      THEN [work[s] EXCEPT !.cut = @ \ work[r].cut]
                      ELSE work[s]]

\* COMMIT, which may be executed and not acknowledged.
Commit(r) ==
  /\ pc[r] = "commit"
  /\ writer' = [m \in Req |-> IF work[r].row = m THEN r ELSE writer[m]]
  /\ links' = [links EXCEPT ![RoomOf(r)] = (@ \ work[r].cut) \cup work[r].add]
  /\ coined' = coined \cup work[r].coin
  /\ work' = Ended(r)
  /\ \/ Reply(r, "ok") /\ UNCHANGED faults
     \/ faults < MaxFaults /\ faults' = faults + 1 /\ Reply(r, "internal")
  /\ UNCHANGED <<req, next>>

\* 40P01: the deadlock detector ends the wait of a request on a cycle.
Deadlock(r) == OnWaitCycle(r) /\ Rollback(r) /\ UNCHANGED faults

\* A call rejects without effect: the connection breaks, or the transaction
\* has been open for too long.
CallFails(r) ==
  /\ InFlight(r) /\ faults < MaxFaults
  /\ faults' = faults + 1
  /\ Rollback(r)

\* The API process stops: open transactions roll back, nobody answers.
Crash ==
  /\ faults < MaxFaults
  /\ faults' = faults + 1
  /\ pc' = [r \in Req |-> IF InFlight(r) THEN "done" ELSE pc[r]]
  /\ work' = [r \in Req |-> Nothing]
  /\ UNCHANGED <<req, next, writer, links, coined, answer>>

-----------------------------------------------------------------------------

Init ==
  /\ req \in [Req -> Requests]
  /\ \A r \in Earlier :
       /\ req[r].op = "create" /\ req[r].admin
       /\ \A i, j \in DOMAIN req[r].names : req[r].names[i] = req[r].names[j] => i = j
  /\ pc = [r \in Req |-> IF r \in Earlier THEN "done" ELSE "idle"]
  /\ next = [r \in Req |-> 1]
  /\ writer = [r \in Req |-> IF r \in Earlier THEN r ELSE NoRoom]
  /\ links = [r \in Req |-> IF r \in Earlier THEN NamesOf(req[r]) ELSE {}]
  /\ coined = UNION {NamesOf(req[r]) : r \in Earlier}
  /\ work = [r \in Req |-> Nothing]
  /\ answer = [r \in Req |-> IF r \in Earlier THEN "ok" ELSE "none"]
  /\ faults = 0

Progress(r) ==
  \/ FindRoom(r) \/ WriteRow(r) \/ FindLinks(r) \/ DeleteLinks(r)
  \/ SelectAttribute(r) \/ InsertAttribute(r) \/ Link(r) \/ Commit(r) \/ Deadlock(r)

Next == (\E r \in Req : Arrive(r) \/ Progress(r) \/ CallFails(r)) \/ Crash

Spec == Init /\ [][Next]_vars

\* The event loop serves whoever can go on, and the detector finds a deadlock.
FairSpec == Spec /\ WF_vars(\E r \in Req : Progress(r))

-----------------------------------------------------------------------------
(* Properties *)

\* Every variable keeps its type; only rooms that exist have attributes, and
\* only attributes that exist are had.
TypeOK ==
  /\ req \in [Req -> Requests]
  /\ pc \in [Req -> Statements]
  /\ next \in [Req -> 1 .. MaxNames + 1]
  /\ writer \in [Req -> Req \cup {NoRoom}]
  /\ links \in [Req -> SUBSET coined]
  /\ coined \subseteq Attribute
  /\ work \in [Req -> [row : Req \cup {NoRoom}, cut : SUBSET Attribute,
                       add : SUBSET Attribute, coin : SUBSET Attribute]]
  /\ answer \in [Req -> Answers]
  /\ faults \in Nat
  /\ \A m \in Req : writer[m] = NoRoom => links[m] = {}

AttributesOnly(r) == req[r].op = "update" /\ ~req[r].columns /\ req[r].names # Absent

\* What the form saves is saved whole: a room has the attributes of the request
\* that wrote its columns last, if that request names attributes, however many
\* administrators save the room at once; unless a PATCH of the attributes alone,
\* which takes no lock on the room, comes between.
SavedWhole ==
  \A m \in Req :
    /\ writer[m] # NoRoom
    /\ req[writer[m]].names # Absent
    /\ ~\E r \in Req : AttributesOnly(r) /\ RoomOf(r) = m
    => links[m] = NamesOf(req[writer[m]])

\* r ends in this step, and all that it asks for is there: its columns, a link to
\* each of its names and to no other new one, and those names as attributes.  It
\* is told so, unless the call fails.
SavedInOneStep(r) ==
  LET m == RoomOf(r) IN
  /\ pc[r] # "done" /\ pc'[r] = "done"
  /\ answer'[r] = "ok" \/ faults' # faults
  /\ writer' = IF req[r].op = "create" \/ req[r].columns
               THEN [writer EXCEPT ![m] = r] ELSE writer
  /\ \A o \in Req \ {m} : links'[o] = links[o]
  /\ IF req[r].names = Absent THEN UNCHANGED <<links, coined>>
     ELSE /\ NamesOf(req[r]) \subseteq links'[m]
          /\ links'[m] \subseteq links[m] \cup NamesOf(req[r])
          /\ coined' = coined \cup NamesOf(req[r])

\* A request that is refused, or that a failed call or a crash ends, whichever of
\* its statements was the last, leaves nothing: no room, no column, no attribute,
\* and of the links of an existing room it neither adds nor takes away any.  What
\* changes the catalog is the whole of one request, at once; if it is not told of
\* its success then only because the call of that very step has failed.
RefusedLeavesNothing ==
  [][UNCHANGED <<writer, links, coined>> \/ \E r \in Req : SavedInOneStep(r)]_vars

\* Every request is answered, or the process has stopped: transactions that
\* wait for each other do not wait for good.
EveryRequestEnds == <>[](\A r \in Req : ~InFlight(r))

-----------------------------------------------------------------------------
(* What the repository says and the code does not keep *)

\* "replace the whole attribute set": the attributes of a room are those of one
\* request about it.  Two updates of the attributes alone do not exclude each
\* other, and each deletes only what was committed before it.
ReplacesTheSet ==
  \A m \in Req : writer[m] # NoRoom =>
    \E r \in Req :
      RoomOf(r) = m /\ req[r].names # Absent /\ links[m] = NamesOf(req[r])

=============================================================================
