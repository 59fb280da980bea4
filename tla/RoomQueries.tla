------------------------------ MODULE RoomQueries ------------------------------
(* What the API computes by reading: the search for available rooms, a        *)
(* request of two queries that other requests come between, and the           *)
(* utilisation report, a single aggregate query, with the range of days that  *)
(* the page of the administrator asks for.  Bookings and rooms change around  *)
(* them in whole transactions, as Bookings and RoomCatalog let them.          *)
EXTENDS Intervals, FiniteSetsExt, SequencesExt

CONSTANTS
  Room,        \* the rooms
  Name,        \* names of attributes
  BookingId,   \* the bookings
  Slots,       \* the windows of bookings
  Sizes,       \* the capacities of rooms
  Searches,    \* what a search may ask for
  Day, Week,   \* the ticks of a day and of a week
  LastDay,     \* bound on the days of a report
  MaxChanges,  \* bound on the transactions of others, and on the clock
  NoRow        \* no such row

Row == [room : Room, start : Nat, end : Nat, status : {"CONFIRMED", "CANCELLED"}]

\* The query string of GET /rooms/search, its comma-separated names split.
Search == [start : Nat, end : Nat, least : Nat, names : Seq(Name)]

\* The table is finite, and so is what the report reads of it; both schemas ask
\* for windows that are not empty.
ASSUME BookingsAssumption == IsFiniteSet(BookingId)
ASSUME SlotsAssumption == Slots \subseteq {w \in Window : NonEmpty(w)}
ASSUME SizesAssumption == Sizes \subseteq Nat
ASSUME SearchesAssumption == Searches \subseteq Search
ASSUME CalendarAssumption == Day \in Nat \ {0} /\ Week \in Nat \ {0}

VARIABLES
  now,       \* the clock
  capacity,  \* rooms.capacity
  known,     \* the names in the attributes table
  links,     \* room_attributes: the names each room is linked with
  table,     \* the bookings table
  search,    \* what the search asks for
  pc,        \* the query it waits for
  ids,       \* the attributes its first query has found
  found,     \* the rooms it answers
  answers,   \* what would have been right at each moment of it (history)
  changes    \* how many transactions of others there have been

data == <<capacity, known, links, table>>
vars == <<now, data, search, pc, ids, found, answers, changes>>

Confirmed(x) == x # NoRow /\ x.status = "CONFIRMED"

\* The confirmed bookings that bookings_no_overlap lets stand together.
Bookable(t) ==
  \A a, b \in BookingId :
    a # b /\ Confirmed(t[a]) /\ Confirmed(t[b]) /\ t[a].room = t[b].room
    => ~Overlap(t[a], t[b])

-----------------------------------------------------------------------------
(* Search *)

\* The rooms a user of the search means: large enough, with every attribute
\* asked for, and free at every instant of the window.
Meant ==
  {m \in Room : /\ search.least <= capacity[m]
                /\ ToSet(search.names) \subseteq links[m]
                /\ \A b \in BookingId : Confirmed(table[b]) /\ table[b].room = m
                                        => ~ShareInstant(table[b], search)}

\* SearchAvailabilitySchema: the refinements, against the clock.
ValidSearch == NonEmpty(search) /\ now < search.start /\ search.least > 0

\* The request passes the schema, and the names are looked up if there are any.
Ask ==
  /\ pc = "idle" /\ ValidSearch
  /\ pc' = IF search.names = <<>> THEN "select" ELSE "lookUp"
  /\ answers' = {Meant}
  /\ UNCHANGED <<now, data, search, ids, found, changes>>

Refuse ==
  /\ pc = "idle" /\ ~ValidSearch
  /\ pc' = "refused"
  /\ UNCHANGED <<now, data, search, ids, found, answers, changes>>

\* Mutant of LookUp: names that are in no row are passed over.
LookUpKnown ==
  /\ pc = "lookUp"
  /\ ids' = ToSet(search.names) \cap known
  /\ pc' = "select"
  /\ UNCHANGED <<now, data, search, found, answers, changes>>

\* findMany, and the early return when it finds fewer rows than there are names
\* in the list: always so when the list repeats a name.
LookUp ==
  /\ pc = "lookUp"
  /\ ids' = ToSet(search.names) \cap known
  /\ \/ /\ Cardinality(ids') < Len(search.names)
        /\ pc' = "done" /\ found' = {}
     \/ /\ Cardinality(ids') >= Len(search.names)
        /\ pc' = "select" /\ UNCHANGED found
  /\ UNCHANGED <<now, data, search, answers, changes>>

\* A room is linked with all the attributes found: COUNT(DISTINCT) of its links
\* among them is their number.
HasAll(m) == ids = {} \/ Cardinality(links[m] \cap ids) = Cardinality(ids)

\* The raw query.
Select ==
  /\ pc = "select"
  /\ found' = {m \in Room :
                 /\ search.least <= capacity[m]
                 /\ ~\E b \in BookingId : /\ table[b] # NoRow
                                          /\ table[b].room = m
                                          /\ table[b].status = "CONFIRMED"
                                          /\ Overlap(table[b], search)
                 /\ HasAll(m)}
  /\ pc' = "done"
  /\ UNCHANGED <<now, data, search, ids, answers, changes>>

-----------------------------------------------------------------------------
(* The transactions of others *)

\* The search stays where it is; if it is under way, what would be right now is
\* noted with what was right before.
Change ==
  /\ changes < MaxChanges
  /\ changes' = changes + 1
  /\ UNCHANGED <<search, pc, ids, found>>
  /\ answers' = IF pc \in {"lookUp", "select"} THEN answers \cup {Meant'} ELSE answers

Tick == now' = now + 1 /\ UNCHANGED data /\ Change

Reserve(b, m, w) ==
  /\ table[b] = NoRow
  /\ now < w.start /\ NonEmpty(w)
  /\ table' = [table EXCEPT ![b] = [room |-> m, start |-> w.start, end |-> w.end,
                                    status |-> "CONFIRMED"]]
  /\ Bookable(table')
  /\ UNCHANGED <<now, capacity, known, links>>
  /\ Change

Cancel(b) ==
  /\ Confirmed(table[b]) /\ now < table[b].start
  /\ table' = [table EXCEPT ![b].status = "CANCELLED"]
  /\ UNCHANGED <<now, capacity, known, links>>
  /\ Change

\* Mutant of SaveRoom: a name without a row is linked all the same.
SaveRoomUncoined(m, size, names) ==
  /\ capacity' = [capacity EXCEPT ![m] = size]
  /\ links' = [links EXCEPT ![m] = names]
  /\ UNCHANGED <<now, known, table>>
  /\ Change

\* An administrator saves a room; attributes are never deleted.
SaveRoom(m, size, names) ==
  /\ capacity' = [capacity EXCEPT ![m] = size]
  /\ links' = [links EXCEPT ![m] = names]
  /\ known' = known \cup names
  /\ UNCHANGED <<now, table>>
  /\ Change

-----------------------------------------------------------------------------
(* The utilisation report *)

\* date_trunc('week', start_time), as the number of the week.
WeekOf(x) == x.start \div Week

\* Mutant of Counted: cancelled bookings are counted too.
CountedAny(b, from, to) ==
  table[b] # NoRow /\ from <= table[b].start /\ table[b].start < to

\* WHERE.
Counted(b, from, to) == Confirmed(table[b]) /\ from <= table[b].start /\ table[b].start < to

\* end_time - start_time.
Length == [b \in {c \in BookingId : table[c] # NoRow} |-> table[b].end - table[b].start]

\* GROUP BY room and week: the bookings that are in one group with b.
Group(b, from, to) ==
  {c \in BookingId : /\ Counted(c, from, to)
                     /\ table[c].room = table[b].room
                     /\ WeekOf(table[c]) = WeekOf(table[b])}

\* A row for every group, with the SUM of the whole lengths.
Report(from, to) ==
  {[room |-> table[b].room, week |-> WeekOf(table[b]),
    hours |-> SumFunctionOnSet(Length, Group(b, from, to))] :
     b \in {c \in BookingId : Counted(c, from, to)}}

\* Mutant of DaysReport: midnight at the start of the last day is sent.
DaysReportMidnight(first, last) ==
  IF first * Day < last * Day THEN Report(first * Day, last * Day) ELSE {}

\* What AdminUtilisationPage asks for when two days are picked: the bound it
\* sends is the midnight that ends the last one.  UtilisationQuerySchema
\* refuses an empty range.
DaysReport(first, last) ==
  IF first * Day < (last + 1) * Day THEN Report(first * Day, (last + 1) * Day) ELSE {}

-----------------------------------------------------------------------------

Init ==
  /\ now = 0
  /\ capacity \in [Room -> Sizes]
  /\ known \in SUBSET Name
  /\ links \in [Room -> SUBSET known]
  /\ \E held \in [BookingId -> (Room \X Slots) \cup {NoRow}] :
       table = [b \in BookingId |->
                  IF held[b] = NoRow THEN NoRow
                  ELSE [room |-> held[b][1], start |-> held[b][2].start,
                        end |-> held[b][2].end, status |-> "CONFIRMED"]]
  /\ Bookable(table)
  /\ search \in Searches
  /\ pc = "idle"
  /\ ids = {} /\ found = {} /\ answers = {} /\ changes = 0

Next ==
  \/ Ask \/ Refuse
  \/ LookUp \/ Select
  \/ Tick
  \/ \E b \in BookingId, m \in Room, w \in Slots : Reserve(b, m, w)
  \/ \E b \in BookingId : Cancel(b)
  \/ \E m \in Room, size \in Sizes, names \in SUBSET Name : SaveRoom(m, size, names)

Spec == Init /\ [][Next]_vars

-----------------------------------------------------------------------------
(* Properties *)

\* Every variable keeps its type; a room is linked only with attributes that
\* are in the table, and the look-up finds only such.
TypeOK ==
  /\ now \in Nat
  /\ capacity \in [Room -> Nat]
  /\ known \subseteq Name
  /\ links \in [Room -> SUBSET known]
  /\ table \in [BookingId -> Row \cup {NoRow}]
  /\ search \in Search
  /\ pc \in {"idle", "lookUp", "select", "done", "refused"}
  /\ ids \subseteq known
  /\ found \subseteq Room
  /\ answers \subseteq SUBSET Room
  /\ changes \in Nat

\* Though the names are looked up in one query and the rooms selected in
\* another, and rooms, attributes and bookings change between the two, the rooms
\* a search for distinct attributes answers are those that were meant at some
\* moment while it was under way.
SearchIsAtomic ==
  pc = "done" /\ IsInjective(search.names) => found \in answers

\* Every confirmed booking that begins on one of the days picked counts once,
\* with its whole length, and nothing else does: reports of adjoining days add
\* up, and a booking across midnight or across weeks is not counted twice.
DaysAddUp ==
  \A first, last \in 0 .. LastDay :
    first <= last =>
      SumFunction([row \in DaysReport(first, last) |-> row.hours])
      = SumFunctionOnSet(Length, {b \in BookingId :
                                    /\ Confirmed(table[b])
                                    /\ table[b].start \div Day \in first .. last})

\* The hours of a room in a week fit between the beginning of the week and the
\* end of the last booking that begins in it, since confirmed bookings of a room
\* do not overlap: time that was freed by a cancellation and booked again is
\* reported once.
HoursFit ==
  \A row \in Report(0, (LastDay + 1) * Day) :
    \E b \in BookingId : /\ Confirmed(table[b])
                         /\ table[b].room = row.room /\ WeekOf(table[b]) = row.week
                         /\ row.hours <= table[b].end - row.week * Week

=============================================================================
