------------------------------ MODULE PagesProofs ------------------------------
(* Whatever the user does on the pages, in however many tabs and whatever     *)
(* order of answers and failures, the bookings change as BookingLedger        *)
(* allows; a visit of the booking page books at most once; and the list of    *)
(* bookings shows the changes that were made from it.                         *)
EXTENDS Pages, IntervalTheorems, FiniteSetTheorems

-----------------------------------------------------------------------------
(* The invariant *)

Table == [BookingId -> Row \cup {NoRow}]

TabState ==
  [page : {"search", "book", "series", "mine"}, visit : Nat, room : Room \cup {Nothing},
   window : Windows \cup {Nothing}, rooms : {Nothing} \cup SUBSET Room,
   list : {Nothing} \cup Table, created : BOOLEAN, conflict : BOOLEAN,
   error : Codes \cup {"load"}, busy : BOOLEAN, seen : Nat]

\* What the handlers send.
ToSearch == [window : Windows]
ToCreate == [room : Room, window : Windows, count : 1 .. MaxCount]
ToCancel == [target : BookingId]
ToShorten == [target : BookingId, end : 0 .. MaxEnd]

RunState ==
  [op : {"none", "search", "confirm", "series", "load", "cancel", "shorten"},
   tab : Tab \cup {Nothing}, visit : Nat, from : Nat,
   ask : {Nothing} \cup ToSearch \cup ToCreate \cup ToCancel \cup ToShorten,
   wants : {"none", "search", "create", "list", "cancel", "shorten"},
   answer : Codes, data : {Nothing} \cup (SUBSET Room) \cup Table, alone : BOOLEAN]

\* The user has the booking b.
Own(b) == ledger[b] # NoRow /\ ledger[b].user = Me

\* What a tab shows: a booking page has a room and a window, a list of rooms
\* belongs to a window, and a list of bookings is of the user's own.
GoodTab(x) ==
  /\ x \in TabState
  /\ x.page = "book" => x.room \in Room /\ x.window \in Windows
  /\ x.page = "search" /\ x.rooms # Nothing => x.window \in Windows
  /\ x.list # Nothing =>
       x.list \in Table /\ \A b \in BookingId : x.list[b] # NoRow => Own(b)

\* A run asks for what its handler may ask for.
GoodRun(q) ==
  /\ q \in RunState
  /\ q.op = "none" => q.wants = "none"
  /\ q.op # "none" => q.tab \in Tab
  /\ q.op = "search" => q.ask \in ToSearch /\ q.wants \in {"search", "none"}
  /\ q.op \in {"confirm", "series"} => q.ask \in ToCreate
  /\ q.op = "cancel" => q.ask \in ToCancel
  /\ q.op = "shorten" => q.ask \in ToShorten
  /\ q.op \in {"cancel", "shorten"} => Own(q.ask.target)
  /\ q.wants = "search" => q.op \in {"search", "confirm"}
  /\ q.wants = "create" => q.op \in {"confirm", "series"}
  /\ q.wants \in {"cancel", "shorten"} => q.op = q.wants
  /\ q.wants = "search" /\ q.answer = "ok" => q.data \in SUBSET Room
  /\ q.wants = "list" /\ q.answer = "ok" =>
       q.data \in Table /\ \A b \in BookingId : q.data[b] # NoRow => Own(b)

\* Where a run belongs: to a visit that its tab has made; a confirmation to a
\* visit of the booking page, until its booking is there.
Place(c) ==
  LET x == tab[run[c].tab] IN
  run[c].op # "none" =>
    /\ run[c].visit <= x.visit /\ run[c].from <= x.visit
    /\ run[c].op = "confirm" =>
         /\ run[c].from = x.visit => x.page = "book"
         /\ run[c].wants \in {"create", "search"} => run[c].visit = run[c].from

\* The row of b is what was asked for, but for its status and an earlier end.
RowOK(b) ==
  LET q == run[b.by].ask IN
  ledger[b] # NoRow =>
    /\ NonEmpty(ledger[b])
    /\ b.by \in Other => ledger[b].user = They
    /\ b.by \in Run =>
         /\ run[b.by].op \in {"confirm", "series"}
         /\ run[b.by].wants = "create" => run[b.by].answer # "none"
         /\ b.week < q.count
         /\ ledger[b].end <= q.window.end + b.week * Week

Apart ==
  \A b, d \in BookingId :
    b # d /\ Confirmed(ledger[b]) /\ Confirmed(ledger[d]) /\ ledger[b].room = ledger[d].room
    => ~Overlap(ledger[b], ledger[d])

PInv ==
  /\ now \in Nat /\ lost \in Nat
  /\ ledger \in Table /\ tab \in [Tab -> TabState] /\ run \in [Run -> RunState]
  /\ \A t \in Tab : GoodTab(tab[t])
  /\ \A c \in Run : GoodRun(run[c]) /\ Place(c)
  /\ \A b \in BookingId : RowOK(b)
  /\ Apart

-----------------------------------------------------------------------------
(* Facts about the constants and the helpers *)

LEMMA WindowFacts ==
  ASSUME NEW w \in Windows
  PROVE  w.start \in Nat /\ w.end \in Nat /\ w.start < w.end
BY WindowsAssumption DEF Window, NonEmpty

LEMMA OccurrenceIsRow ==
  ASSUME NEW u \in {Me, They}, NEW m \in Room, NEW w \in Windows, NEW k \in Weeks
  PROVE  /\ Occurrence(u, m, w, k) \in Row
         /\ NonEmpty(Occurrence(u, m, w, k))
         /\ Occurrence(u, m, w, k) # NoRow
         /\ Occurrence(u, m, w, k).user = u /\ Occurrence(u, m, w, k).room = m
         /\ Occurrence(u, m, w, k).start = w.start + k * Week
         /\ Occurrence(u, m, w, k).end = w.end + k * Week
         /\ Occurrence(u, m, w, k).status = "CONFIRMED"
<1>1. k * Week \in Nat
  BY CalendarAssumption DEF Weeks
<1>2. /\ w.start + k * Week \in Nat /\ w.end + k * Week \in Nat
      /\ w.start + k * Week < w.end + k * Week
  BY <1>1, WindowFacts
<1> HIDE DEF Row
<1>3. Occurrence(u, m, w, k) \in Row
  BY <1>2 DEF Occurrence, Row
<1> QED
  BY <1>2, <1>3, NoRowAssumption DEF Occurrence, NonEmpty

-----------------------------------------------------------------------------
(* The initial states *)

LEMMA NewPageIsGood ==
  ASSUME NEW p \in {"search", "series", "mine"}, NEW v \in Nat, now \in Nat
  PROVE  /\ GoodTab(NewPage(p, v)) /\ NewPage(p, v).visit = v
         /\ NewPage(p, v).page = p
<1>1. NewPage(p, v) \in TabState
  BY DEF NewPage, TabState, Codes
<1> QED
  BY <1>1 DEF GoodTab, NewPage

LEMMA BookingPageIsGood ==
  ASSUME NEW m \in Room, NEW w \in Windows, NEW v \in Nat
  PROVE  GoodTab(BookingPage(m, w, v)) /\ BookingPage(m, w, v).visit = v
<1> DEFINE x == NewPage("book", v)
<1>1. x \in TabState /\ x.page = "book" /\ x.list = Nothing /\ x.visit = v
  BY DEF NewPage, TabState, Codes
<1> HIDE DEF x
<1> DEFINE y == [x EXCEPT !.room = m, !.window = w]
<1>2. /\ y \in TabState /\ y.page = x.page /\ y.list = x.list /\ y.visit = x.visit
      /\ y.room = m /\ y.window = w
  BY <1>1 DEF TabState
<1>3. GoodTab(y)
  BY <1>1, <1>2 DEF GoodTab
<1> QED
  BY <1>1, <1>2, <1>3 DEF BookingPage, x

LEMMA InitPInv == Init => PInv
<1> SUFFICES ASSUME Init PROVE PInv
  OBVIOUS
<1>1. now \in Nat /\ lost \in Nat
  BY DEF Init
<1>2. ledger \in Table /\ \A b \in BookingId : ledger[b] = NoRow
  BY DEF Init, Table
<1>3. ASSUME NEW t \in Tab PROVE GoodTab(tab[t])
  <2>1. tab[t] \in {NewPage("search", 1)}
                  \cup {BookingPage(m, w, 1) : m \in Room, w \in Windows}
    BY DEF Init
  <2> QED
    BY <1>1, <2>1, NewPageIsGood, BookingPageIsGood
<1>4. tab \in [Tab -> TabState]
  BY <1>3 DEF Init, GoodTab
<1>5. Unused \in RunState /\ Unused.op = "none" /\ Unused.wants = "none"
  BY DEF Unused, RunState, Codes
<1>6. run \in [Run -> RunState] /\ \A c \in Run : run[c] = Unused
  BY <1>5 DEF Init
<1>7. \A c \in Run : GoodRun(run[c]) /\ Place(c)
  BY <1>5, <1>6 DEF GoodRun, Place
<1>8. (\A b \in BookingId : RowOK(b)) /\ Apart
  BY <1>2 DEF RowOK, Apart, Confirmed
<1> QED
  BY <1>1, <1>2, <1>3, <1>4, <1>6, <1>7, <1>8 DEF PInv

-----------------------------------------------------------------------------
(* Steps that leave the bookings alone *)

\* A tab goes on to another page in another visit only.
TabsMove ==
  \A t \in Tab : /\ tab[t].visit <= tab'[t].visit
                 /\ tab'[t].visit = tab[t].visit => tab'[t].page = tab[t].page

\* A run that is used stays what it is, and does not ask for a booking twice.
RunsMove ==
  \A c \in Run : run[c].op # "none" =>
    /\ run'[c].op = run[c].op /\ run'[c].ask = run[c].ask
    /\ run'[c].tab = run[c].tab /\ run'[c].from = run[c].from
    /\ run'[c].wants = "create" =>
         run[c].wants = "create" /\ (run'[c].answer = "none" => run[c].answer = "none")

Same(c) ==
  /\ run'[c].op = run[c].op /\ run'[c].tab = run[c].tab /\ run'[c].visit = run[c].visit
  /\ run'[c].from = run[c].from /\ run'[c].ask = run[c].ask
  /\ run'[c].wants = run[c].wants /\ run'[c].answer = run[c].answer
  /\ run'[c].data = run[c].data

LEMMA QuietStep ==
  ASSUME PInv, UNCHANGED ledger, now' \in Nat, lost' \in Nat,
         tab' \in [Tab -> TabState], run' \in [Run -> RunState],
         \A t \in Tab : GoodTab(tab[t])', \A c \in Run : GoodRun(run[c])' /\ Place(c)',
         RunsMove
  PROVE  PInv'
<1>1. \A b \in BookingId : RowOK(b)'
  <2> SUFFICES ASSUME NEW b \in BookingId, ledger[b] # NoRow PROVE RowOK(b)'
    BY DEF RowOK
  <2>1. RowOK(b)
    BY DEF PInv
  <2>2. CASE b.by \in Run
    <3>1. run[b.by].op # "none"
      BY <2>1, <2>2 DEF RowOK
    <3>2. /\ run'[b.by].op = run[b.by].op /\ run'[b.by].ask = run[b.by].ask
          /\ run'[b.by].wants = "create" =>
               run[b.by].wants = "create"
               /\ (run'[b.by].answer = "none" => run[b.by].answer = "none")
      BY <2>2, <3>1 DEF RunsMove
    <3> QED
      BY <2>1, <2>2, <3>2 DEF RowOK, NonEmpty
  <2>3. CASE b.by \notin Run
    BY <2>1, <2>3 DEF RowOK, NonEmpty
  <2> QED
    BY <2>2, <2>3
<1>2. Apart'
  BY DEF PInv, Apart, Confirmed, Overlap
<1> QED
  BY <1>1, <1>2 DEF PInv

LEMMA KeepsPlace ==
  ASSUME PInv, NEW c \in Run, Same(c), TabsMove, tab' \in [Tab -> TabState]
  PROVE  Place(c)'
<1> SUFFICES ASSUME run[c].op # "none" PROVE Place(c)'
  BY DEF Place, Same
<1>1. run[c].tab \in Tab /\ Place(c) /\ run[c] \in RunState
  BY DEF PInv, GoodRun
<1>2. tab[run[c].tab].visit \in Nat /\ tab'[run[c].tab].visit \in Nat
  BY <1>1 DEF PInv, TabState
<1>3. run[c].visit \in Nat /\ run[c].from \in Nat
  BY <1>1 DEF RunState
<1> QED
  BY <1>1, <1>2, <1>3 DEF Place, Same, TabsMove

LEMMA KeepsRun ==
  ASSUME PInv, NEW c \in Run, Same(c), run'[c] \in RunState,
         \A b \in BookingId : Own(b) => Own(b)'
  PROVE  GoodRun(run[c])'
<1>1. GoodRun(run[c])
  BY DEF PInv
<1>2. run[c].op \in {"cancel", "shorten"} => run[c].ask.target \in BookingId
  BY <1>1 DEF GoodRun, ToCancel, ToShorten
<1>3. run[c].op \in {"cancel", "shorten"} => Own(run[c].ask.target)'
  BY <1>1, <1>2 DEF GoodRun, Same, Own
<1>4. run[c].wants = "list" /\ run[c].answer = "ok" =>
        \A b \in BookingId : run[c].data[b] # NoRow => Own(b)'
  BY <1>1 DEF GoodRun
<1> QED
  BY <1>1, <1>3, <1>4 DEF GoodRun, Same, Own

\* The run n begins, in the visit v of the tab t; of the others nothing changes
\* but that they are not alone.
Started(n, t, v, op, wants, ask) ==
  /\ run[n].op = "none"
  /\ \E alone \in BOOLEAN :
       run'[n] = [op |-> op, tab |-> t, visit |-> v, from |-> v, ask |-> ask,
                  wants |-> wants, answer |-> "none", data |-> Nothing,
                  alone |-> alone]
  /\ \A c \in Run \ {n} : Same(c) /\ run'[c] \in RunState
  /\ run'[n] \in RunState => run' \in [Run -> RunState]

LEMMA StartStep ==
  ASSUME PInv, NEW t \in Tab, NEW v \in Nat, NEW op, NEW wants, NEW ask,
         Start(t, v, op, wants, ask)
  PROVE  \E n \in Run : Started(n, t, v, op, wants, ask)
<1> DEFINE n == FreeRun
<1>1. n \in Run /\ run[n].op = "none"
  BY DEF Start, FreeRun, Free
<1> HIDE DEF n
<1>2. run' = [c \in Run |->
       IF c = n
       THEN [op |-> op, tab |-> t, visit |-> v, from |-> v, ask |-> ask, wants |-> wants,
             answer |-> "none", data |-> Nothing,
             alone |-> v # tab[t].visit \/ Pending(t) = {}]
       ELSE IF c \in Pending(t) THEN [run[c] EXCEPT !.alone = FALSE] ELSE run[c]]
  BY DEF Start, n
<1>3. PICK alone \in BOOLEAN : alone = (v # tab[t].visit \/ Pending(t) = {})
  OBVIOUS
<1>4. run'[n] = [op |-> op, tab |-> t, visit |-> v, from |-> v, ask |-> ask,
                 wants |-> wants, answer |-> "none", data |-> Nothing, alone |-> alone]
  BY <1>1, <1>2, <1>3
<1>5. ASSUME NEW c \in Run \ {n} PROVE Same(c) /\ run'[c] \in RunState
  <2>1. run[c] \in RunState
    BY DEF PInv
  <2>2. run'[c] = [run[c] EXCEPT !.alone = FALSE] \/ run'[c] = run[c]
    BY <1>2
  <2> QED
    BY <2>1, <2>2 DEF RunState, Same
<1>6. ASSUME run'[n] \in RunState PROVE run' \in [Run -> RunState]
  BY <1>2, <1>5, <1>6
<1> QED
  BY <1>1, <1>4, <1>5, <1>6 DEF Started

\* One tab changes.
LEMMA TabStep ==
  ASSUME PInv, UNCHANGED ledger, NEW t \in Tab, NEW x, GoodTab(x),
         tab' = [tab EXCEPT ![t] = x],
         \/ x.visit = tab[t].visit /\ x.page = tab[t].page
         \/ x.visit = tab[t].visit + 1
  PROVE  /\ tab' \in [Tab -> TabState] /\ \A u \in Tab : GoodTab(tab[u])'
         /\ TabsMove
<1>1. x \in TabState /\ tab \in [Tab -> TabState] /\ \A u \in Tab : tab[u].visit \in Nat
  BY DEF GoodTab, PInv, TabState
<1>2. tab' \in [Tab -> TabState]
  BY <1>1
<1>3. ASSUME NEW u \in Tab PROVE GoodTab(tab[u])'
  <2>1. GoodTab(tab'[u])
    BY <1>1 DEF PInv
  <2> QED
    BY <2>1 DEF GoodTab, Own
<1>4. TabsMove
  BY <1>1 DEF TabsMove
<1> QED
  BY <1>2, <1>3, <1>4

\* The runs stay as they are.
LEMMA NoRunStep ==
  ASSUME PInv, UNCHANGED <<now, ledger, lost, run>>,
         tab' \in [Tab -> TabState], \A u \in Tab : GoodTab(tab[u])', TabsMove
  PROVE  PInv'
<1>1. \A c \in Run : Same(c) /\ run'[c] \in RunState
  BY DEF Same, PInv
<1>2. \A b \in BookingId : Own(b) => Own(b)'
  BY DEF Own
<1>3. \A c \in Run : GoodRun(run[c])' /\ Place(c)'
  BY <1>1, <1>2, KeepsRun, KeepsPlace
<1>4. RunsMove
  BY DEF RunsMove
<1>5. run' \in [Run -> RunState] /\ now' \in Nat /\ lost' \in Nat
  BY DEF PInv
<1> QED
  BY <1>3, <1>4, <1>5, QuietStep

\* What a handler may ask for first.
Begins(op, wants, ask) ==
  \/ op = "search" /\ wants = "search" /\ ask \in ToSearch
  \/ op \in {"confirm", "series"} /\ wants = "create" /\ ask \in ToCreate
  \/ op = "load" /\ wants = "list" /\ ask = Nothing
  \/ op = "cancel" /\ wants = "cancel" /\ ask \in ToCancel /\ Own(ask.target)
  \/ op = "shorten" /\ wants = "shorten" /\ ask \in ToShorten /\ Own(ask.target)

\* A handler starts a run in the visit v of its tab.
LEMMA HandlerStep ==
  ASSUME PInv, UNCHANGED <<now, ledger, lost>>,
         tab' \in [Tab -> TabState], \A u \in Tab : GoodTab(tab[u])', TabsMove,
         NEW t \in Tab, NEW v \in Nat, NEW op, NEW wants, NEW ask,
         Start(t, v, op, wants, ask), Begins(op, wants, ask),
         tab'[t].visit = v, op = "confirm" => tab'[t].page = "book"
  PROVE  PInv'
<1>1. PICK n \in Run : Started(n, t, v, op, wants, ask)
  BY StartStep
<1>2. PICK alone \in BOOLEAN :
        run'[n] = [op |-> op, tab |-> t, visit |-> v, from |-> v, ask |-> ask,
                   wants |-> wants, answer |-> "none", data |-> Nothing, alone |-> alone]
  BY <1>1 DEF Started
<1>3. /\ op \in {"search", "confirm", "series", "load", "cancel", "shorten"}
      /\ wants \in {"search", "create", "list", "cancel", "shorten"}
      /\ ask \in {Nothing} \cup ToSearch \cup ToCreate \cup ToCancel \cup ToShorten
  BY DEF Begins
<1>4. run'[n] \in RunState
  BY <1>2, <1>3 DEF RunState, Codes
<1>5. /\ run'[n].op = op /\ run'[n].tab = t /\ run'[n].visit = v /\ run'[n].from = v
      /\ run'[n].ask = ask /\ run'[n].wants = wants /\ run'[n].answer = "none"
  BY <1>2
<1>6. run' \in [Run -> RunState]
  BY <1>1, <1>4 DEF Started
<1>7. \A b \in BookingId : Own(b) => Own(b)'
  BY DEF Own
<1>8. GoodRun(run[n])'
  <2>1. op \in {"cancel", "shorten"} => Own(ask.target)'
    BY DEF Begins, Own
  <2> QED
    BY <1>3, <1>4, <1>5, <2>1 DEF GoodRun, Begins, Own
<1>9. Place(n)'
  <2>1. v <= v
    OBVIOUS
  <2> QED
    BY <1>3, <1>5, <2>1 DEF Place
<1>10. \A c \in Run : GoodRun(run[c])' /\ Place(c)'
  BY <1>1, <1>7, <1>8, <1>9, KeepsRun, KeepsPlace DEF Started
<1>11. RunsMove
  BY <1>1 DEF Started, RunsMove, Same
<1>12. now' \in Nat /\ lost' \in Nat
  BY DEF PInv
<1> QED
  BY <1>6, <1>10, <1>11, <1>12, QuietStep

\* A page that shows what another did, but for its messages and buttons.
LEMMA Touched ==
  ASSUME NEW x, NEW y, GoodTab(y), x \in TabState,
         x.page = y.page, x.room = y.room, x.window = y.window, x.rooms = y.rooms,
         x.list = y.list
  PROVE  GoodTab(x)
BY DEF GoodTab

\* A tab renders a new state of the component that it has mounted.
LEMMA RenderStep ==
  ASSUME PInv, UNCHANGED ledger, NEW t \in Tab, NEW x, GoodTab(x),
         x.visit = tab[t].visit, x.page = tab[t].page, Render(t, x)
  PROVE  /\ tab' \in [Tab -> TabState] /\ \A u \in Tab : GoodTab(tab[u])'
         /\ TabsMove
         /\ tab'[t].visit = tab[t].visit /\ tab'[t].page = tab[t].page
         /\ tab'[t].busy = x.busy
         /\ \A u \in Tab \ {t} : tab'[u] = tab[u]
<1> DEFINE y == IF x # tab[t] /\ x.page = "mine" THEN [x EXCEPT !.seen = now] ELSE x
<1>1. x \in TabState /\ now \in Nat /\ tab \in [Tab -> TabState]
  BY DEF GoodTab, PInv
<1>2. /\ y \in TabState /\ y.page = x.page /\ y.room = x.room /\ y.window = x.window
      /\ y.rooms = x.rooms /\ y.list = x.list /\ y.visit = x.visit /\ y.busy = x.busy
  BY <1>1 DEF TabState
<1>3. tab' = [tab EXCEPT ![t] = y]
  BY DEF Render
<1> HIDE DEF y
<1>4. GoodTab(y)
  BY <1>2, Touched
<1>5. tab'[t] = y /\ \A u \in Tab \ {t} : tab'[u] = tab[u]
  BY <1>1, <1>3
<1> QED
  BY <1>2, <1>3, <1>4, <1>5, TabStep

\* The confirmation of a booking is not decided yet.
Confirmation(c) == run[c].op = "confirm"
Active(c) == Confirmation(c) /\ run[c].wants \in {"create", "search"}

\* The page of a confirmation that is not decided stays busy.
StaysBusy(c) ==
  LET t == run[c].tab IN
  /\ Active(c) /\ run[c].from = tab[t].visit /\ tab'[t].visit = tab[t].visit /\ tab[t].busy
  => tab'[t].busy

LEMMA OthersStayBusy ==
  ASSUME PInv, NEW t \in Tab, \A u \in Tab \ {t} : tab'[u] = tab[u],
         tab'[t].visit = tab[t].visit /\ tab[t].busy => tab'[t].busy
  PROVE  \A c \in Run : StaysBusy(c)
BY DEF StaysBusy, Active, Confirmation, PInv, GoodRun

\* What a tab may become while the bookings stay.
TabsAreGood ==
  tab' \in [Tab -> TabState] /\ (\A u \in Tab : GoodTab(tab[u])') /\ TabsMove

\* The user goes to another page, or looks at another room.
LEMMA VisitTabs ==
  ASSUME PInv, NEW t \in Tab, Visit(t)
  PROVE  /\ TabsAreGood /\ UNCHANGED <<now, ledger, lost>>
         /\ \A c \in Run : StaysBusy(c)
         /\ \/ UNCHANGED run
            \/ /\ Start(t, tab[t].visit + 1, "load", "list", Nothing)
               /\ tab'[t].visit = tab[t].visit + 1
<1> DEFINE v == tab[t].visit + 1
<1>1. /\ now \in Nat /\ tab[t] \in TabState /\ tab[t].visit \in Nat
      /\ v \in Nat /\ v # tab[t].visit /\ GoodTab(tab[t])
  BY DEF PInv, TabState
<1>2. ASSUME NEW x, GoodTab(x), x.visit = v, UNCHANGED <<now, ledger, lost>>,
             tab' = [tab EXCEPT ![t] = x]
      PROVE  /\ TabsAreGood /\ UNCHANGED <<now, ledger, lost>> /\ tab'[t].visit = v
             /\ \A c \in Run : StaysBusy(c)
  <2>1. TabsAreGood
    BY <1>1, <1>2, TabStep DEF TabsAreGood
  <2>2. tab'[t] = x /\ \A u \in Tab \ {t} : tab'[u] = tab[u]
    BY <1>2 DEF PInv
  <2> QED
    BY <1>1, <1>2, <2>1, <2>2, OthersStayBusy
<1>3. ASSUME NEW x, GoodTab(x), x.visit = tab[t].visit, x.page = tab[t].page,
             x.busy = tab[t].busy, Render(t, x), UNCHANGED <<now, ledger, lost>>
      PROVE  TabsAreGood /\ UNCHANGED <<now, ledger, lost>> /\ \A c \in Run : StaysBusy(c)
  BY <1>3, RenderStep, OthersStayBusy DEF TabsAreGood
<1>4. ASSUME NEW p \in {"search", "series", "mine"}, Open(t, p)
      PROVE  /\ GoodTab(NewPage(p, v)) /\ NewPage(p, v).visit = v
             /\ UNCHANGED <<now, ledger, lost>> /\ tab' = [tab EXCEPT ![t] = NewPage(p, v)]
             /\ UNCHANGED run \/ Start(t, v, "load", "list", Nothing)
  BY <1>1, <1>4, NewPageIsGood DEF Open, Click
<1>5. ASSUME NEW m \in Room, Choose(t, m)
      PROVE  \E x : /\ GoodTab(x) /\ x.visit = v /\ UNCHANGED <<now, ledger, lost, run>>
                    /\ tab' = [tab EXCEPT ![t] = x]
  <2>1. tab[t].window \in Windows
    BY <1>1, <1>5 DEF Choose, GoodTab
  <2> QED
    BY <1>1, <1>5, <2>1, BookingPageIsGood DEF Choose, Click
<1>6. ASSUME NEW m \in Room, Instead(t, m)
      PROVE  \E x : /\ GoodTab(x) /\ x.visit = tab[t].visit /\ x.page = tab[t].page
                    /\ x.busy = tab[t].busy /\ Render(t, x)
                    /\ UNCHANGED <<now, ledger, lost, run>>
  <2> DEFINE x == [tab[t] EXCEPT !.room = m]
  <2>1. /\ x \in TabState /\ x.page = tab[t].page /\ x.visit = tab[t].visit
        /\ x.room = m /\ x.window = tab[t].window /\ x.rooms = tab[t].rooms
        /\ x.list = tab[t].list /\ x.busy = tab[t].busy
    BY <1>1 DEF TabState
  <2>2. GoodTab(x)
    BY <1>1, <2>1 DEF GoodTab
  <2>3. UNCHANGED <<now, ledger, lost, run>> /\ Render(t, x)
    BY <1>6 DEF Instead, Click
  <2> HIDE DEF x
  <2> QED
    BY <2>1, <2>2, <2>3
<1>7. ASSUME Dismiss(t)
      PROVE  \E x : /\ GoodTab(x) /\ x.visit = tab[t].visit /\ x.page = tab[t].page
                    /\ x.busy = tab[t].busy /\ Render(t, x)
                    /\ UNCHANGED <<now, ledger, lost, run>>
  <2> DEFINE x == [tab[t] EXCEPT !.conflict = FALSE]
  <2>1. /\ x \in TabState /\ x.page = tab[t].page /\ x.visit = tab[t].visit
        /\ x.room = tab[t].room /\ x.window = tab[t].window /\ x.rooms = tab[t].rooms
        /\ x.list = tab[t].list /\ x.busy = tab[t].busy
    BY <1>1 DEF TabState
  <2>2. UNCHANGED <<now, ledger, lost, run>> /\ Render(t, x)
    BY <1>7 DEF Dismiss, Click
  <2> HIDE DEF x
  <2>3. GoodTab(x)
    BY <1>1, <2>1, Touched
  <2> QED
    BY <2>1, <2>2, <2>3
<1> HIDE DEF v
<1> QED
  BY <1>2, <1>3, <1>4, <1>5, <1>6, <1>7 DEF Visit, v

LEMMA VisitStep ==
  ASSUME PInv, NEW t \in Tab, Visit(t)
  PROVE  PInv'
<1>1. /\ TabsAreGood /\ UNCHANGED <<now, ledger, lost>>
      /\ \/ UNCHANGED run
         \/ /\ Start(t, tab[t].visit + 1, "load", "list", Nothing)
            /\ tab'[t].visit = tab[t].visit + 1
  BY VisitTabs
<1>2. Begins("load", "list", Nothing) /\ tab[t].visit + 1 \in Nat
  BY DEF Begins, PInv, TabState
<1> QED
  BY <1>1, <1>2, HandlerStep, NoRunStep DEF TabsAreGood

\* A form is submitted, or a button of a booking clicked.
Submits(t, op, wants, ask) ==
  /\ Start(t, tab[t].visit, op, wants, ask) /\ Begins(op, wants, ask)
  /\ op = "confirm" => tab[t].page = "book" /\ ~tab[t].busy
  /\ op \in {"search", "series"} => tab[t].page = op
  /\ op \in {"cancel", "shorten"} => tab[t].page = "mine"
  /\ UNCHANGED <<now, ledger, lost>>
  /\ \/ op \in {"search", "confirm", "series"} /\ Render(t, Submitted(tab[t]))
     \/ op \in {"cancel", "shorten"} /\ Render(t, Forgiven(tab[t]))

LEMMA SubmitsSomething ==
  ASSUME PInv, NEW t \in Tab, Submit(t)
  PROVE  \E op, wants, ask : Submits(t, op, wants, ask)
<1>1. tab[t] \in TabState /\ GoodTab(tab[t])
  BY DEF PInv
<1>2. ASSUME NEW w \in Windows, Search(t, w)
      PROVE  Submits(t, "search", "search", [window |-> w])
  BY <1>2 DEF Search, Begins, ToSearch, Click, Submits
<1>3. ASSUME Confirm(t)
      PROVE  Submits(t, "confirm", "create",
                     [room |-> tab[t].room, window |-> tab[t].window, count |-> 1])
  <2>1. tab[t].room \in Room /\ tab[t].window \in Windows /\ 1 \in 1 .. MaxCount
    BY <1>1, <1>3, CalendarAssumption DEF Confirm, GoodTab
  <2> QED
    BY <1>3, <2>1 DEF Confirm, Begins, ToCreate, Click, Submits
<1>4. ASSUME NEW m \in Room, NEW w \in Windows, NEW n \in 1 .. MaxCount,
             SubmitSeries(t, m, w, n)
      PROVE  Submits(t, "series", "create", [room |-> m, window |-> w, count |-> n])
  BY <1>4 DEF SubmitSeries, Begins, ToCreate, Click, Submits
<1>5. ASSUME NEW b \in BookingId, Offered(t, b) PROVE Own(b)
  BY <1>1, <1>5 DEF Offered, Confirmed, GoodTab
<1>6. ASSUME NEW b \in BookingId, ClickCancel(t, b)
      PROVE  Submits(t, "cancel", "cancel", [target |-> b])
  BY <1>5, <1>6 DEF ClickCancel, Offered, Begins, ToCancel, Click, Submits
<1>7. ASSUME NEW b \in BookingId, NEW e \in 0 .. MaxEnd, ClickShorten(t, b, e)
      PROVE  Submits(t, "shorten", "shorten", [target |-> b, end |-> e])
  BY <1>5, <1>7 DEF ClickShorten, Offered, Begins, ToShorten, Click, Submits
<1> QED
  BY <1>2, <1>3, <1>4, <1>6, <1>7, Zenon DEF Submit

LEMMA SubmitStep ==
  ASSUME PInv, NEW t \in Tab, Submit(t)
  PROVE  PInv'
<1>1. tab[t] \in TabState /\ GoodTab(tab[t]) /\ tab[t].visit \in Nat
  BY DEF PInv, TabState
<1>2. PICK op, wants, ask : Submits(t, op, wants, ask)
  BY SubmitsSomething
<1>3. UNCHANGED <<now, ledger, lost>>
  BY <1>2 DEF Submits
<1>4. PICK x : /\ x = Submitted(tab[t]) \/ x = Forgiven(tab[t])
               /\ Render(t, x)
  BY <1>2 DEF Submits
<1>5. /\ x \in TabState /\ x.page = tab[t].page /\ x.visit = tab[t].visit
      /\ x.room = tab[t].room /\ x.window = tab[t].window /\ x.rooms = tab[t].rooms
      /\ x.list = tab[t].list
  BY <1>1, <1>4 DEF TabState, Submitted, Forgiven, Codes
<1>6. GoodTab(x)
  BY <1>1, <1>5, Touched
<1>7. /\ tab' \in [Tab -> TabState] /\ \A u \in Tab : GoodTab(tab[u])'
      /\ TabsMove
      /\ tab'[t].visit = tab[t].visit /\ tab'[t].page = tab[t].page
  BY <1>3, <1>4, <1>5, <1>6, RenderStep
<1> QED
  BY <1>1, <1>2, <1>3, <1>7, HandlerStep DEF Submits

LEMMA TabsStay ==
  ASSUME PInv, UNCHANGED <<ledger, tab>>
  PROVE  TabsAreGood
<1>1. \A u \in Tab : GoodTab(tab[u])'
  BY DEF PInv, GoodTab, Own
<1>2. \A u \in Tab : tab[u].visit \in Nat
  BY DEF PInv, TabState
<1> QED
  BY <1>1, <1>2 DEF PInv, TabsAreGood, TabsMove

LEMMA ShowStep ==
  ASSUME PInv, UNCHANGED ledger, NEW c \in Run, run[c].tab \in Tab, NEW x,
         ShowIfHere(c, x),
         Here(c) => /\ GoodTab(x)
                    /\ x.visit = tab[run[c].tab].visit /\ x.page = tab[run[c].tab].page
  PROVE  /\ TabsAreGood
         /\ tab'[run[c].tab].visit = tab[run[c].tab].visit
         /\ tab'[run[c].tab].busy = IF Here(c) THEN x.busy ELSE tab[run[c].tab].busy
         /\ \A u \in Tab \ {run[c].tab} : tab'[u] = tab[u]
<1>1. CASE Here(c)
  <2>1. Render(run[c].tab, x)
    BY <1>1 DEF ShowIfHere
  <2> QED
    BY <1>1, <2>1, RenderStep DEF TabsAreGood
<1>2. CASE ~Here(c)
  BY <1>2, TabsStay DEF ShowIfHere
<1> QED
  BY <1>1, <1>2

\* A run that ends.
LEMMA EndedStep ==
  ASSUME PInv, UNCHANGED <<now, ledger, lost>>, TabsAreGood, NEW c \in Run, InFlight(c),
         Ended(c)
  PROVE  PInv'
<1>1. run \in [Run -> RunState] /\ GoodRun(run[c]) /\ Place(c) /\ run[c].op # "none"
  BY DEF PInv, GoodRun, InFlight
<1>2. /\ run' \in [Run -> RunState]
      /\ run'[c].op = run[c].op /\ run'[c].tab = run[c].tab
      /\ run'[c].visit = run[c].visit /\ run'[c].from = run[c].from
      /\ run'[c].ask = run[c].ask /\ run'[c].wants = "none"
      /\ \A d \in Run \ {c} : run'[d] = run[d]
  <2>1. run' = [run EXCEPT ![c] = [run[c] EXCEPT !.wants = "none", !.data = Nothing]]
    BY <1>1 DEF Ended
  <2>2. run[c] \in RunState
    BY <1>1
  <2> QED
    BY <1>1, <2>1, <2>2 DEF RunState
<1>3. \A b \in BookingId : Own(b) => Own(b)'
  BY DEF Own
<1>4. GoodRun(run[c])'
  <2>1. run[c].op \in {"cancel", "shorten"} => ledger'[run[c].ask.target] # NoRow /\ ledger'[run[c].ask.target].user = Me
    BY <1>1, <1>2 DEF GoodRun, Own
  <2> QED
    BY <1>1, <1>2, <2>1 DEF GoodRun, Own
<1>5. Place(c)'
  <2>1. /\ run[c].tab \in Tab /\ run[c].visit \in Nat /\ run[c].from \in Nat
        /\ tab[run[c].tab].visit \in Nat /\ tab'[run[c].tab].visit \in Nat
    BY <1>1 DEF GoodRun, PInv, RunState, TabState, TabsAreGood
  <2> QED
    BY <1>1, <1>2, <2>1 DEF Place, TabsAreGood, TabsMove
<1>6. \A d \in Run \ {c} : Same(d) /\ run'[d] \in RunState
  BY <1>1, <1>2 DEF Same
<1>7. \A d \in Run : GoodRun(run[d])' /\ Place(d)'
  BY <1>3, <1>4, <1>5, <1>6, KeepsRun, KeepsPlace DEF TabsAreGood
<1>8. RunsMove
  BY <1>2, <1>6 DEF RunsMove, Same
<1>9. now' \in Nat /\ lost' \in Nat
  BY DEF PInv
<1> QED
  BY <1>2, <1>7, <1>8, <1>9, QuietStep DEF TabsAreGood

\* A run that asks for something else.
LEMMA AskingStep ==
  ASSUME PInv, UNCHANGED <<now, ledger, lost>>, TabsAreGood, NEW c \in Run, InFlight(c),
         NEW wants \in {"search", "list"}, NEW v \in Nat, Asking(c, wants, v),
         v <= tab'[run[c].tab].visit,
         run[c].op # "search",
         wants = "search" => run[c].op = "confirm" /\ v = run[c].from
  PROVE  PInv'
<1>1. run \in [Run -> RunState] /\ GoodRun(run[c]) /\ Place(c) /\ run[c].op # "none"
  BY DEF PInv, GoodRun, InFlight
<1>2. /\ run' \in [Run -> RunState]
      /\ run'[c].op = run[c].op /\ run'[c].tab = run[c].tab
      /\ run'[c].visit = v /\ run'[c].from = run[c].from
      /\ run'[c].ask = run[c].ask /\ run'[c].wants = wants /\ run'[c].answer = "none"
      /\ \A d \in Run \ {c} : run'[d] = run[d]
  <2>1. run' = [run EXCEPT ![c] = [run[c] EXCEPT !.wants = wants, !.visit = v,
                                                 !.answer = "none", !.data = Nothing]]
    BY <1>1 DEF Asking
  <2>2. run[c] \in RunState
    BY <1>1
  <2> QED
    BY <1>1, <2>1, <2>2 DEF RunState, Codes
<1>3. \A b \in BookingId : Own(b) => Own(b)'
  BY DEF Own
<1>4. GoodRun(run[c])'
  <2>1. run[c].op \in {"cancel", "shorten"} => ledger'[run[c].ask.target] # NoRow /\ ledger'[run[c].ask.target].user = Me
    BY <1>1, <1>2 DEF GoodRun, Own
  <2> QED
    BY <1>1, <1>2, <2>1 DEF GoodRun, Own
<1>5. Place(c)'
  <2>1. /\ run[c].tab \in Tab /\ run[c].from \in Nat
        /\ tab[run[c].tab].visit \in Nat /\ tab'[run[c].tab].visit \in Nat
    BY <1>1 DEF GoodRun, PInv, RunState, TabState, TabsAreGood
  <2> QED
    BY <1>1, <1>2, <2>1 DEF Place, TabsAreGood, TabsMove
<1>6. \A d \in Run \ {c} : Same(d) /\ run'[d] \in RunState
  BY <1>1, <1>2 DEF Same
<1>7. \A d \in Run : GoodRun(run[d])' /\ Place(d)'
  BY <1>3, <1>4, <1>5, <1>6, KeepsRun, KeepsPlace DEF TabsAreGood
<1>8. RunsMove
  BY <1>2, <1>6 DEF RunsMove, Same
<1>9. now' \in Nat /\ lost' \in Nat
  BY DEF PInv
<1> QED
  BY <1>2, <1>7, <1>8, <1>9, QuietStep DEF TabsAreGood

\* What the continuations show on the page.
LEMMA ShownIsGood ==
  ASSUME PInv, NEW c \in Run, InFlight(c), Here(c),
         NEW error \in Codes \cup {"load"}, NEW busy \in BOOLEAN
  PROVE  LET y == tab[run[c].tab]
             idle == [y EXCEPT !.busy = FALSE]
             Good(x) == GoodTab(x) /\ x.visit = y.visit /\ x.page = y.page IN
         /\ Good(idle)
         /\ Good([idle EXCEPT !.error = error])
         /\ Good([idle EXCEPT !.created = TRUE])
         /\ Good([y EXCEPT !.busy = FALSE, !.error = error])
         /\ Good([y EXCEPT !.error = error])
         /\ Good([y EXCEPT !.conflict = TRUE])
         /\ run[c].op = "search" /\ run[c].answer = "ok" =>
              Good([idle EXCEPT !.rooms = run[c].data, !.window = run[c].ask.window])
         /\ run[c].op = "confirm" /\ run[c].wants = "search" /\ run[c].answer = "ok" =>
              Good([idle EXCEPT !.rooms = run[c].data])
         /\ run[c].wants = "list" /\ run[c].answer = "ok" =>
              Good([y EXCEPT !.list = run[c].data])
<1> DEFINE y == tab[run[c].tab]
           idle == [y EXCEPT !.busy = FALSE]
           Good(x) == GoodTab(x) /\ x.visit = y.visit /\ x.page = y.page
<1>1. GoodRun(run[c]) /\ Place(c) /\ run[c].op # "none" /\ run[c].tab \in Tab
  BY DEF PInv, GoodRun, InFlight
<1>2. GoodTab(y) /\ y \in TabState
  BY <1>1 DEF PInv
<1> HIDE DEF y
<1>3. /\ idle \in TabState /\ idle.page = y.page /\ idle.room = y.room
      /\ idle.window = y.window /\ idle.rooms = y.rooms /\ idle.list = y.list
      /\ idle.visit = y.visit
  BY <1>2 DEF TabState
<1>4. Good(idle)
  BY <1>2, <1>3, Touched
<1> HIDE DEF idle
<1>5. ASSUME NEW x \in TabState, x.page = y.page, x.room = y.room, x.window = y.window,
             x.rooms = y.rooms, x.list = y.list, x.visit = y.visit
      PROVE  Good(x)
  BY <1>2, <1>5, Touched
<1>6. Good([idle EXCEPT !.error = error])
  <2> DEFINE x == [idle EXCEPT !.error = error]
  <2>1. /\ x \in TabState /\ x.page = y.page /\ x.room = y.room /\ x.window = y.window
        /\ x.rooms = y.rooms /\ x.list = y.list /\ x.visit = y.visit
    BY <1>3 DEF TabState
  <2> HIDE DEF x
  <2>2. Good(x)
    BY <1>5, <2>1
  <2> QED
    BY <2>2 DEF x
<1>7. Good([idle EXCEPT !.created = TRUE])
  <2> DEFINE x == [idle EXCEPT !.created = TRUE]
  <2>1. /\ x \in TabState /\ x.page = y.page /\ x.room = y.room /\ x.window = y.window
        /\ x.rooms = y.rooms /\ x.list = y.list /\ x.visit = y.visit
    BY <1>3 DEF TabState
  <2> HIDE DEF x
  <2>2. Good(x)
    BY <1>5, <2>1
  <2> QED
    BY <2>2 DEF x
<1>8. Good([y EXCEPT !.busy = FALSE, !.error = error])
  <2> DEFINE x == [y EXCEPT !.busy = FALSE, !.error = error]
  <2>1. /\ x \in TabState /\ x.page = y.page /\ x.room = y.room /\ x.window = y.window
        /\ x.rooms = y.rooms /\ x.list = y.list /\ x.visit = y.visit
    BY <1>2 DEF TabState
  <2> HIDE DEF x
  <2>2. Good(x)
    BY <1>5, <2>1
  <2> QED
    BY <2>2 DEF x
<1>9. Good([y EXCEPT !.error = error]) /\ Good([y EXCEPT !.conflict = TRUE])
  <2> DEFINE x == [y EXCEPT !.error = error]
             z == [y EXCEPT !.conflict = TRUE]
  <2>1. /\ x \in TabState /\ x.page = y.page /\ x.room = y.room /\ x.window = y.window
        /\ x.rooms = y.rooms /\ x.list = y.list /\ x.visit = y.visit
    BY <1>2 DEF TabState
  <2>2. /\ z \in TabState /\ z.page = y.page /\ z.room = y.room /\ z.window = y.window
        /\ z.rooms = y.rooms /\ z.list = y.list /\ z.visit = y.visit
    BY <1>2 DEF TabState
  <2> HIDE DEF x, z
  <2>3. Good(x) /\ Good(z)
    BY <1>5, <2>1, <2>2
  <2> QED
    BY <2>3 DEF x, z
<1>10. ASSUME run[c].op = "search", run[c].answer = "ok"
       PROVE  Good([idle EXCEPT !.rooms = run[c].data, !.window = run[c].ask.window])
  <2> DEFINE x == [idle EXCEPT !.rooms = run[c].data, !.window = run[c].ask.window]
  <2>1. run[c].data \in SUBSET Room /\ run[c].ask.window \in Windows
    BY <1>1, <1>10 DEF GoodRun, InFlight, ToSearch
  <2>2. /\ x \in TabState /\ x.page = y.page /\ x.room = y.room
        /\ x.window = run[c].ask.window /\ x.rooms = run[c].data /\ x.list = y.list
        /\ x.visit = y.visit
    BY <1>3, <2>1 DEF TabState
  <2> HIDE DEF x
  <2>3. Good(x)
    BY <1>2, <2>1, <2>2 DEF GoodTab
  <2> QED
    BY <2>3 DEF x
<1>11. ASSUME run[c].op = "confirm", run[c].wants = "search", run[c].answer = "ok"
       PROVE  Good([idle EXCEPT !.rooms = run[c].data])
  <2> DEFINE x == [idle EXCEPT !.rooms = run[c].data]
  <2>1. run[c].data \in SUBSET Room
    BY <1>1, <1>11 DEF GoodRun
  <2>2. y.page = "book"
    BY <1>1, <1>11 DEF Place, Here, y
  <2>3. /\ x \in TabState /\ x.page = y.page /\ x.room = y.room
        /\ x.window = y.window /\ x.rooms = run[c].data /\ x.list = y.list
        /\ x.visit = y.visit
    BY <1>3, <2>1 DEF TabState
  <2> HIDE DEF x
  <2>4. Good(x)
    BY <1>2, <2>2, <2>3 DEF GoodTab
  <2> QED
    BY <2>4 DEF x
<1>12. ASSUME run[c].wants = "list", run[c].answer = "ok"
       PROVE  Good([y EXCEPT !.list = run[c].data])
  <2> DEFINE x == [y EXCEPT !.list = run[c].data]
  <2>1. run[c].data \in Table /\ \A b \in BookingId : run[c].data[b] # NoRow => Own(b)
    BY <1>1, <1>12 DEF GoodRun
  <2>2. /\ x \in TabState /\ x.page = y.page /\ x.room = y.room
        /\ x.window = y.window /\ x.rooms = y.rooms /\ x.list = run[c].data
        /\ x.visit = y.visit
    BY <1>2, <2>1 DEF TabState
  <2> HIDE DEF x
  <2>3. Good(x)
    BY <1>2, <2>1, <2>2 DEF GoodTab
  <2> QED
    BY <2>3 DEF x
<1> QED
  BY <1>4, <1>6, <1>7, <1>8, <1>9, <1>10, <1>11, <1>12 DEF y, idle

LEMMA ReceiveStep ==
  ASSUME PInv, NEW c \in Run, Receive(c)
  PROVE  PInv'
<1> DEFINE t == run[c].tab
           y == tab[t]
<1>1. /\ InFlight(c) /\ run[c].answer \in Codes /\ UNCHANGED <<now, ledger, lost>>
      /\ GoodRun(run[c]) /\ Place(c) /\ run[c].op # "none" /\ t \in Tab
      /\ run[c].visit \in Nat
  BY DEF Receive, PInv, GoodRun, RunState, InFlight
<1>2. y \in TabState /\ y.visit \in Nat
  BY <1>1 DEF PInv, TabState
<1>3. ASSUME AfterSearch(c) PROVE PInv'
  <2> DEFINE idle == [y EXCEPT !.busy = FALSE]
             x == IF run[c].answer = "ok"
                  THEN [idle EXCEPT !.rooms = run[c].data, !.window = run[c].ask.window]
                  ELSE [idle EXCEPT !.error = run[c].answer]
  <2>1. ShowIfHere(c, x) /\ Ended(c) /\ run[c].op = "search"
    BY <1>3 DEF AfterSearch
  <2>2. Here(c) => GoodTab(x) /\ x.visit = y.visit /\ x.page = y.page
    BY <1>1, <2>1, ShownIsGood
  <2> HIDE DEF x
  <2>3. TabsAreGood
    BY <1>1, <2>1, <2>2, ShowStep
  <2> QED
    BY <1>1, <2>1, <2>3, EndedStep
<1>4. ASSUME AfterSeries(c) PROVE PInv'
  <2> DEFINE idle == [y EXCEPT !.busy = FALSE]
             x == IF run[c].answer = "ok" THEN [idle EXCEPT !.created = TRUE]
                                          ELSE [idle EXCEPT !.error = "conflict"]
  <2>1. ShowIfHere(c, x) /\ Ended(c)
    BY <1>4 DEF AfterSeries
  <2>2. Here(c) => GoodTab(x) /\ x.visit = y.visit /\ x.page = y.page
    <3>1. "conflict" \in Codes
      BY DEF Codes
    <3> QED
      BY <1>1, <3>1, ShownIsGood
  <2> HIDE DEF x
  <2>3. TabsAreGood
    BY <1>1, <2>1, <2>2, ShowStep
  <2> QED
    BY <1>1, <2>1, <2>3, EndedStep
<1>5. ASSUME Loaded(c) PROVE PInv'
  <2> DEFINE x == IF run[c].answer = "ok" THEN [y EXCEPT !.list = run[c].data]
                                          ELSE [y EXCEPT !.error = "load"]
  <2>1. ShowIfHere(c, x) /\ Ended(c) /\ run[c].wants = "list"
    BY <1>5 DEF Loaded
  <2>2. Here(c) => GoodTab(x) /\ x.visit = y.visit /\ x.page = y.page
    BY <1>1, <2>1, ShownIsGood
  <2> HIDE DEF x
  <2>3. TabsAreGood
    BY <1>1, <2>1, <2>2, ShowStep
  <2> QED
    BY <1>1, <2>1, <2>3, EndedStep
<1>6. ASSUME Changed(c) PROVE PInv'
  <2>1. run[c].op = run[c].wants /\ run[c].op \in {"cancel", "shorten"}
    BY <1>1, <1>6 DEF Changed, GoodRun
  <2>2. CASE UNCHANGED tab /\ Asking(c, "list", run[c].visit)
    <3>1. TabsAreGood
      BY <1>1, <2>2, TabsStay
    <3>2. run[c].visit <= tab'[run[c].tab].visit
      BY <1>1, <2>2 DEF Place
    <3> QED
      BY <1>1, <2>1, <2>2, <3>1, <3>2, AskingStep
  <2>3. CASE UNCHANGED tab /\ Ended(c)
    <3>1. TabsAreGood
      BY <1>1, <2>3, TabsStay
    <3> QED
      BY <1>1, <2>3, <3>1, EndedStep
  <2>4. ASSUME NEW error \in {"started", "failed"},
               ShowIfHere(c, [y EXCEPT !.error = error]), Ended(c)
        PROVE  PInv'
    <3> DEFINE x == [y EXCEPT !.error = error]
    <3>1. error \in Codes \cup {"load"}
      BY DEF Codes
    <3>2. Here(c) => GoodTab(x) /\ x.visit = y.visit /\ x.page = y.page
      BY <1>1, <3>1, ShownIsGood
    <3> HIDE DEF x
    <3>3. TabsAreGood
      BY <1>1, <2>4, <3>2, ShowStep DEF x
    <3> QED
      BY <1>1, <2>4, <3>3, EndedStep
  <2> QED
    BY <1>6, <2>2, <2>3, <2>4 DEF Changed
<1>7. ASSUME run[c].op = "confirm", Booked(c) PROVE PInv'
  <2>1. CASE UNCHANGED tab /\ Ended(c)
    <3>1. TabsAreGood
      BY <1>1, <2>1, TabsStay
    <3> QED
      BY <1>1, <2>1, <3>1, EndedStep
  <2>2. CASE y.page # "mine"
    <3> DEFINE v == y.visit + 1
               x == NewPage("mine", v)
    <3>1. tab' = [tab EXCEPT ![t] = x] /\ Asking(c, "list", v)
      BY <1>7, <2>2 DEF Booked
    <3>2. v \in Nat /\ now \in Nat
      BY <1>2 DEF PInv
    <3>3. GoodTab(x) /\ x.visit = v
      BY <3>2, NewPageIsGood
    <3> HIDE DEF x
    <3>4. TabsAreGood
      BY <1>1, <3>1, <3>3, TabStep DEF TabsAreGood
    <3>5. v <= tab'[t].visit
      BY <1>1, <1>2, <3>1, <3>2, <3>3 DEF PInv
    <3> HIDE DEF v
    <3> QED
      BY <1>1, <1>7, <3>1, <3>2, <3>4, <3>5, AskingStep
  <2> QED
    BY <1>7, <2>1, <2>2 DEF Booked
<1>8. ASSUME run[c].op = "confirm", Conflicted(c) PROVE PInv'
  <2> DEFINE x == [y EXCEPT !.conflict = TRUE]
  <2>1. ShowIfHere(c, x) /\ Asking(c, "search", run[c].visit) /\ run[c].wants = "create"
    BY <1>8 DEF Conflicted
  <2>2. Here(c) => GoodTab(x) /\ x.visit = y.visit /\ x.page = y.page
    BY <1>1, ShownIsGood
  <2> HIDE DEF x
  <2>3. TabsAreGood
    BY <1>1, <2>1, <2>2, ShowStep
  <2>4. run[c].visit = run[c].from
    BY <1>1, <1>8, <2>1 DEF Place
  <2>5. run[c].visit <= tab'[t].visit
    <3>1. tab'[t].visit \in Nat /\ y.visit <= tab'[t].visit /\ run[c].visit <= y.visit
      BY <1>1, <2>3 DEF TabsAreGood, TabsMove, TabState, Place
    <3> QED
      BY <1>1, <1>2, <3>1
  <2> QED
    BY <1>1, <1>8, <2>1, <2>3, <2>4, <2>5, AskingStep
<1>9. ASSUME Refused(c) PROVE PInv'
  <2> DEFINE x == [y EXCEPT !.busy = FALSE, !.error = run[c].answer]
  <2>1. ShowIfHere(c, x) /\ Ended(c)
    BY <1>9 DEF Refused
  <2>2. Here(c) => GoodTab(x) /\ x.visit = y.visit /\ x.page = y.page
    BY <1>1, ShownIsGood
  <2> HIDE DEF x
  <2>3. TabsAreGood
    BY <1>1, <2>1, <2>2, ShowStep
  <2> QED
    BY <1>1, <2>1, <2>3, EndedStep
<1>10. ASSUME run[c].op = "confirm", Rechecked(c) PROVE PInv'
  <2> DEFINE idle == [y EXCEPT !.busy = FALSE]
             x == IF run[c].answer = "ok" THEN [idle EXCEPT !.rooms = run[c].data]
                                          ELSE idle
  <2>1. ShowIfHere(c, x) /\ Ended(c) /\ run[c].wants = "search"
    BY <1>10 DEF Rechecked
  <2>2. Here(c) => GoodTab(x) /\ x.visit = y.visit /\ x.page = y.page
    BY <1>1, <1>10, <2>1, ShownIsGood
  <2> HIDE DEF x
  <2>3. TabsAreGood
    BY <1>1, <2>1, <2>2, ShowStep
  <2> QED
    BY <1>1, <2>1, <2>3, EndedStep
<1> QED
  BY <1>3, <1>4, <1>5, <1>6, <1>7, <1>8, <1>9, <1>10 DEF Receive

-----------------------------------------------------------------------------
(* Steps of the server and of the other users *)

\* Bookings are not taken away from the user.
OwnStays == \A b \in BookingId : Own(b) => Own(b)'

LEMMA TabsKeep ==
  ASSUME PInv, UNCHANGED tab, OwnStays
  PROVE  TabsAreGood
<1>1. \A u \in Tab : GoodTab(tab[u])'
  BY DEF PInv, GoodTab, OwnStays
<1>2. \A u \in Tab : tab[u].visit \in Nat
  BY DEF PInv, TabState
<1> QED
  BY <1>1, <1>2 DEF PInv, TabsAreGood, TabsMove

\* The runs when an answer is there, or when nothing happens to them.
RunsAreGood ==
  run' \in [Run -> RunState] /\ (\A c \in Run : GoodRun(run[c])' /\ Place(c)') /\ RunsMove

LEMMA RunsKeep ==
  ASSUME PInv, UNCHANGED <<run, tab>>, OwnStays
  PROVE  RunsAreGood
<1>1. \A c \in Run : Same(c) /\ run'[c] \in RunState
  BY DEF Same, PInv
<1>2. tab' \in [Tab -> TabState] /\ TabsMove
  BY TabsKeep DEF TabsAreGood
<1>3. \A c \in Run : GoodRun(run[c])' /\ Place(c)'
  BY <1>1, <1>2, KeepsRun, KeepsPlace DEF OwnStays
<1> QED
  BY <1>3 DEF PInv, RunsAreGood, RunsMove

LEMMA AnswerStep ==
  ASSUME PInv, UNCHANGED tab, OwnStays, NEW c \in Run, InFlight(c),
         NEW code \in Codes \ {"none"}, NEW data, Answer(c, code, data),
         \/ data = Nothing /\ run[c].wants \notin {"search", "list"}
         \/ data = Nothing /\ code # "ok"
         \/ data \in SUBSET Room /\ run[c].wants # "list"
         \/ /\ data \in Table /\ run[c].wants # "search"
            /\ \A b \in BookingId : data[b] # NoRow => Own(b)'
  PROVE  RunsAreGood
<1>1. run \in [Run -> RunState] /\ GoodRun(run[c]) /\ Place(c) /\ run[c].op # "none"
  BY DEF PInv, GoodRun, InFlight
<1>2. /\ run' \in [Run -> RunState]
      /\ run'[c].op = run[c].op /\ run'[c].tab = run[c].tab
      /\ run'[c].visit = run[c].visit /\ run'[c].from = run[c].from
      /\ run'[c].ask = run[c].ask /\ run'[c].wants = run[c].wants
      /\ run'[c].answer = code /\ run'[c].data = data
      /\ \A d \in Run \ {c} : run'[d] = run[d]
  <2>1. run' = [run EXCEPT ![c] = [run[c] EXCEPT !.answer = code, !.data = data]]
    BY <1>1 DEF Answer
  <2>2. run[c] \in RunState /\ data \in {Nothing} \cup (SUBSET Room) \cup Table
    BY <1>1
  <2> HIDE DEF Table
  <2> QED
    BY <1>1, <2>1, <2>2 DEF RunState
<1>3. GoodRun(run[c])'
  <2>1. run[c].op \in {"cancel", "shorten"} =>
          ledger'[run[c].ask.target] # NoRow /\ ledger'[run[c].ask.target].user = Me
    <3>1. run[c].op \in {"cancel", "shorten"} => run[c].ask.target \in BookingId
      BY <1>1 DEF GoodRun, ToCancel, ToShorten
    <3> QED
      BY <1>1, <3>1 DEF GoodRun, OwnStays, Own
  <2>2. run[c].wants = "search" /\ code = "ok" => data \in SUBSET Room
    OBVIOUS
  <2>3. run[c].wants = "list" /\ code = "ok" =>
          data \in Table /\ \A b \in BookingId : data[b] # NoRow =>
                              ledger'[b] # NoRow /\ ledger'[b].user = Me
    BY DEF Own
  <2> HIDE DEF Table
  <2> QED
    BY <1>1, <1>2, <2>1, <2>2, <2>3 DEF GoodRun, Own
<1>4. tab' \in [Tab -> TabState] /\ TabsMove
  BY TabsKeep DEF TabsAreGood
<1>5. Place(c)'
  BY <1>1, <1>2 DEF Place
<1>6. \A d \in Run \ {c} : Same(d) /\ run'[d] \in RunState
  BY <1>1, <1>2 DEF Same
<1>7. \A d \in Run : GoodRun(run[d])' /\ Place(d)'
  BY <1>3, <1>4, <1>5, <1>6, KeepsRun, KeepsPlace DEF OwnStays
<1>8. RunsMove
  BY <1>2, <1>6 DEF RunsMove, Same
<1> QED
  BY <1>2, <1>7, <1>8 DEF RunsAreGood

\* A row that was there, and did not grow, is still what was asked for.
LEMMA KeepsRow ==
  ASSUME PInv, RunsMove, NEW b \in BookingId,
         ledger'[b] # NoRow =>
           /\ ledger[b] # NoRow /\ ledger'[b].user = ledger[b].user
           /\ NonEmpty(ledger'[b])
           /\ ledger'[b].end \in Nat /\ ledger[b].end \in Nat
           /\ ledger'[b].end <= ledger[b].end
  PROVE  RowOK(b)'
<1> SUFFICES ASSUME ledger'[b] # NoRow PROVE RowOK(b)'
  BY DEF RowOK
<1>1. RowOK(b) /\ ledger[b] # NoRow
  BY DEF PInv
<1>2. CASE b.by \in Run
  <2>1. run[b.by].op \in {"confirm", "series"}
    BY <1>1, <1>2 DEF RowOK
  <2>2. /\ run'[b.by].op = run[b.by].op /\ run'[b.by].ask = run[b.by].ask
        /\ run'[b.by].wants = "create" =>
             run[b.by].wants = "create"
             /\ (run'[b.by].answer = "none" => run[b.by].answer = "none")
    BY <1>2, <2>1 DEF RunsMove
  <2>3. run[b.by].ask \in ToCreate /\ b.week \in Nat
    BY <1>2, <2>1 DEF PInv, GoodRun, BookingId, Weeks
  <2>4. run[b.by].ask.window \in Windows
    BY <2>3 DEF ToCreate
  <2>5. run[b.by].ask.window.end + b.week * Week \in Nat
    BY <2>3, <2>4, WindowFacts, CalendarAssumption
  <2> QED
    BY <1>1, <1>2, <2>2, <2>5 DEF RowOK
<1>3. CASE b.by \notin Run
  BY <1>1, <1>3 DEF RowOK
<1> QED
  BY <1>2, <1>3

\* A booking is cancelled or shortened.
Shrunk(y, x) ==
  /\ y \in Row /\ NonEmpty(y)
  /\ y.room = x.room /\ y.user = x.user /\ y.start = x.start /\ y.end <= x.end
  /\ y.status \in {x.status, "CANCELLED"}

LEMMA ShrinkStep ==
  ASSUME PInv, NEW d \in BookingId, ledger[d] # NoRow, NEW y, Shrunk(y, ledger[d]),
         ledger' = [ledger EXCEPT ![d] = y],
         now' \in Nat, lost' \in Nat, UNCHANGED tab, OwnStays => RunsAreGood
  PROVE  PInv' /\ OwnStays
<1>1. ledger \in Table /\ ledger[d] \in Row /\ y \in Row /\ y # NoRow
  BY NoRowAssumption DEF PInv, Table, Shrunk
<1> HIDE DEF Row
<1>2. /\ ledger' \in Table /\ ledger'[d] = y
      /\ \A b \in BookingId \ {d} : ledger'[b] = ledger[b]
  BY <1>1 DEF Table
<1>3. OwnStays
  BY <1>1, <1>2 DEF OwnStays, Own, Shrunk
<1>4. TabsAreGood
  BY <1>3, TabsKeep
<1>5. /\ y.start \in Nat /\ y.end \in Nat /\ ledger[d].start \in Nat /\ ledger[d].end \in Nat
  BY <1>1 DEF Row
<1>6. ASSUME NEW b \in BookingId PROVE RowOK(b)'
  <2>1. CASE b = d
    BY <1>1, <1>2, <1>3, <1>5, <2>1, KeepsRow DEF Shrunk, RunsAreGood
  <2>2. CASE b # d
    <3>1. ledger[b] # NoRow => ledger[b].end \in Nat /\ NonEmpty(ledger[b])
      <4>1. RowOK(b) /\ ledger[b] \in Row \cup {NoRow}
        BY DEF PInv, Table
      <4> QED
        BY <4>1 DEF RowOK, Row
    <3>2. ledger'[b] = ledger[b]
      BY <1>2, <2>2
    <3> QED
      BY <1>3, <3>1, <3>2, KeepsRow DEF RunsAreGood
  <2> QED
    BY <2>1, <2>2
<1>7. Apart'
  <2> SUFFICES ASSUME NEW b \in BookingId, NEW e \in BookingId, b # e,
                      Confirmed(ledger'[b]), Confirmed(ledger'[e]),
                      ledger'[b].room = ledger'[e].room
               PROVE  ~Overlap(ledger'[b], ledger'[e])
    BY DEF Apart
  <2>1. /\ Confirmed(ledger[b]) /\ Confirmed(ledger[e]) /\ ledger[b].room = ledger[e].room
    BY <1>1, <1>2 DEF Confirmed, Shrunk
  <2>2. ~Overlap(ledger[b], ledger[e])
    BY <2>1 DEF PInv, Apart
  <2>3. /\ ledger'[b].start = ledger[b].start /\ ledger'[b].end <= ledger[b].end
        /\ ledger'[e].start = ledger[e].start /\ ledger'[e].end <= ledger[e].end
        /\ ledger[b] \in Row /\ ledger[e] \in Row /\ ledger'[b] \in Row /\ ledger'[e] \in Row
    <3>1. \A i \in BookingId : Confirmed(ledger[i]) => ledger[i] \in Row
      BY <1>1 DEF Table, Confirmed
    <3>2. \A i \in BookingId : Confirmed(ledger'[i]) => ledger'[i] \in Row
      BY <1>2 DEF Table, Confirmed
    <3>3. \A i \in BookingId : ledger[i] \in Row =>
            ledger'[i].start = ledger[i].start /\ ledger'[i].end <= ledger[i].end
      BY <1>2, <1>5 DEF Shrunk, Row
    <3> QED
      BY <2>1, <3>1, <3>2, <3>3
  <2>4. /\ ledger'[b].start \in Nat /\ ledger'[b].end \in Nat
        /\ ledger'[e].start \in Nat /\ ledger'[e].end \in Nat
        /\ ledger[b].start \in Nat /\ ledger[b].end \in Nat
        /\ ledger[e].start \in Nat /\ ledger[e].end \in Nat
    BY <2>3 DEF Row
  <2> QED
    BY <2>2, <2>3, <2>4 DEF Overlap
<1> QED
  BY <1>2, <1>3, <1>4, <1>6, <1>7 DEF PInv, TabsAreGood, RunsAreGood

\* Rows are entered for by, which has none yet.
EntersRows(by, rows) ==
  /\ ledger' = Entered(by, rows)
  /\ \A b \in BookingId : b.by = by => ledger[b] = NoRow
  /\ DOMAIN rows \subseteq Weeks
  /\ \A k \in DOMAIN rows : rows[k] \in Row /\ NonEmpty(rows[k])
  /\ \A j, k \in DOMAIN rows : rows[j].room = rows[k].room
  /\ ~Clashes(rows)

LEMMA EnterStep ==
  ASSUME PInv, NEW by \in Run \cup Other, NEW rows, EntersRows(by, rows),
         now' \in Nat, lost' \in Nat, UNCHANGED tab, OwnStays => RunsAreGood,
         \A b \in BookingId : b.by = by => RowOK(b)'
  PROVE  PInv' /\ OwnStays
<1>1. ledger \in Table
  BY DEF PInv
<1> HIDE DEF Row
<1>2. /\ ledger' \in Table
      /\ \A b \in BookingId : b.by # by => ledger'[b] = ledger[b]
      /\ \A b \in BookingId : b.by = by /\ b.week \in DOMAIN rows => ledger'[b] = rows[b.week]
      /\ \A b \in BookingId : b.by = by /\ b.week \notin DOMAIN rows => ledger'[b] = NoRow
  BY <1>1 DEF EntersRows, Entered, Table
<1>3. OwnStays
  BY <1>2 DEF OwnStays, Own, EntersRows
<1>4. TabsAreGood
  BY <1>3, TabsKeep
<1>5. ASSUME NEW b \in BookingId, b.by # by PROVE RowOK(b)'
  <2>1. ledger[b] # NoRow => ledger[b].end \in Nat /\ NonEmpty(ledger[b])
    <3>1. RowOK(b) /\ ledger[b] \in Row \cup {NoRow}
      BY DEF PInv, Table
    <3> QED
      BY <3>1 DEF RowOK, Row
  <2>2. ledger'[b] = ledger[b]
    BY <1>2, <1>5
  <2> QED
    BY <1>3, <2>1, <2>2, KeepsRow DEF RunsAreGood
<1>6. Apart'
  <2> SUFFICES ASSUME NEW b \in BookingId, NEW e \in BookingId, b # e,
                      Confirmed(ledger'[b]), Confirmed(ledger'[e]),
                      ledger'[b].room = ledger'[e].room
               PROVE  ~Overlap(ledger'[b], ledger'[e])
    BY DEF Apart
  <2>1. CASE b.by # by /\ e.by # by
    BY <1>2, <2>1 DEF PInv, Apart
  <2>2. CASE b.by = by /\ e.by = by
    <3>1. b.week # e.week
      BY <2>2 DEF BookingId
    <3>2. /\ b.week \in DOMAIN rows /\ e.week \in DOMAIN rows
          /\ ledger'[b] = rows[b.week] /\ ledger'[e] = rows[e.week]
      BY <1>2, <2>2 DEF Confirmed
    <3> QED
      BY <3>1, <3>2 DEF EntersRows, Clashes
  <2>3. CASE b.by = by /\ e.by # by
    <3>1. b.week \in DOMAIN rows /\ ledger'[b] = rows[b.week] /\ ledger'[e] = ledger[e]
      BY <1>2, <2>3 DEF Confirmed
    <3>2. ~Overlap(ledger[e], rows[b.week])
      BY <3>1 DEF EntersRows, Clashes, Taken
    <3> QED
      BY <3>1, <3>2 DEF Overlap
  <2>4. CASE b.by # by /\ e.by = by
    <3>1. e.week \in DOMAIN rows /\ ledger'[e] = rows[e.week] /\ ledger'[b] = ledger[b]
      BY <1>2, <2>4 DEF Confirmed
    <3> QED
      BY <3>1 DEF EntersRows, Clashes, Taken
  <2> QED
    BY <2>1, <2>2, <2>3, <2>4
<1> QED
  BY <1>2, <1>3, <1>4, <1>5, <1>6 DEF PInv, TabsAreGood, RunsAreGood

LEMMA Answered ==
  ASSUME PInv, NEW c \in Run, NEW code, NEW data, Answer(c, code, data)
  PROVE  /\ run'[c].op = run[c].op /\ run'[c].ask = run[c].ask
         /\ run'[c].wants = run[c].wants /\ run'[c].answer = code
<1>1. run \in [Run -> RunState] /\ run[c] \in RunState
  BY DEF PInv
<1>2. run' = [run EXCEPT ![c] = [run[c] EXCEPT !.answer = code, !.data = data]]
  BY <1>1 DEF Answer
<1> QED
  BY <1>1, <1>2 DEF RunState

\* What a run asks the server to enter: nothing of it is there yet.
LEMMA CreateFacts ==
  ASSUME PInv, NEW c \in Run, run[c].wants = "create", run[c].answer = "none"
  PROVE  LET q == run[c].ask
             rows == Wanted(c) IN
         /\ q.room \in Room /\ q.window \in Windows /\ q.count \in 1 .. MaxCount
         /\ DOMAIN rows = 0 .. q.count - 1 /\ DOMAIN rows \subseteq Weeks
         /\ \A k \in DOMAIN rows :
              /\ rows[k] = Occurrence(Me, q.room, q.window, k)
              /\ rows[k] \in Row /\ NonEmpty(rows[k]) /\ rows[k].room = q.room
              /\ rows[k].end = q.window.end + k * Week
         /\ \A b \in BookingId : b.by = c => ledger[b] = NoRow
         /\ run[c].op \in {"confirm", "series"} /\ c \notin Other
<1> DEFINE q == run[c].ask
           rows == Wanted(c)
<1>1. GoodRun(run[c]) /\ \A b \in BookingId : RowOK(b)
  BY DEF PInv
<1>2. q \in ToCreate /\ run[c].op \in {"confirm", "series"}
  BY <1>1 DEF GoodRun
<1>3. q.room \in Room /\ q.window \in Windows /\ q.count \in 1 .. MaxCount
  BY <1>2 DEF ToCreate
<1>4. rows = [k \in 0 .. q.count - 1 |-> Occurrence(Me, q.room, q.window, k)]
  BY DEF Wanted
<1>5. 0 .. q.count - 1 \subseteq Weeks
  BY <1>3, CalendarAssumption DEF Weeks
<1> HIDE DEF rows
<1>6. \A k \in Weeks :
        /\ Occurrence(Me, q.room, q.window, k) \in Row
        /\ NonEmpty(Occurrence(Me, q.room, q.window, k))
        /\ Occurrence(Me, q.room, q.window, k).room = q.room
        /\ Occurrence(Me, q.room, q.window, k).end = q.window.end + k * Week
  BY <1>3, OccurrenceIsRow
<1>7. \A b \in BookingId : b.by = c => ledger[b] = NoRow
  BY <1>1 DEF RowOK
<1>8. c \notin Other
  BY RunAssumption
<1> HIDE DEF Row
<1>9. DOMAIN rows = 0 .. q.count - 1
  BY <1>4
<1>10. \A k \in DOMAIN rows : rows[k] = Occurrence(Me, q.room, q.window, k)
  BY <1>4, <1>9
<1> QED
  BY <1>2, <1>3, <1>5, <1>6, <1>7, <1>8, <1>9, <1>10 DEF rows

\* The user's booking or series is entered.
LEMMA ServeCreateStep ==
  ASSUME PInv, NEW c \in Run, run[c].answer = "none", run[c].wants = "create",
         ~Clashes(Wanted(c)), ledger' = Entered(c, Wanted(c)), Answer(c, "ok", Nothing),
         UNCHANGED <<now, tab, lost>>
  PROVE  PInv' /\ OwnStays
<1> DEFINE q == run[c].ask
           rows == Wanted(c)
<1>1. /\ q.room \in Room /\ q.window \in Windows /\ q.count \in 1 .. MaxCount
      /\ DOMAIN rows = 0 .. q.count - 1 /\ DOMAIN rows \subseteq Weeks
      /\ \A k \in DOMAIN rows :
           /\ rows[k] = Occurrence(Me, q.room, q.window, k)
           /\ rows[k] \in Row /\ NonEmpty(rows[k]) /\ rows[k].room = q.room
           /\ rows[k].end = q.window.end + k * Week
      /\ \A b \in BookingId : b.by = c => ledger[b] = NoRow
      /\ run[c].op \in {"confirm", "series"} /\ c \notin Other
  BY CreateFacts
<1> HIDE DEF rows, Row
<1>2. EntersRows(c, rows)
  BY <1>1 DEF EntersRows, rows
<1>3. ASSUME OwnStays PROVE RunsAreGood
  BY <1>3, AnswerStep DEF InFlight, Codes
<1>4. /\ run'[c].op = run[c].op /\ run'[c].ask = q
      /\ run'[c].wants = "create" /\ run'[c].answer = "ok"
  BY Answered
<1>5. ASSUME NEW b \in BookingId, b.by = c PROVE RowOK(b)'
  <2> SUFFICES ASSUME ledger'[b] # NoRow PROVE RowOK(b)'
    BY DEF RowOK
  <2>1. /\ ledger'[b] = IF b.week \in DOMAIN rows THEN rows[b.week] ELSE ledger[b]
        /\ b.week \in Nat
    BY <1>5 DEF Entered, rows, BookingId, Weeks
  <2>2. b.week \in DOMAIN rows /\ ledger'[b] = rows[b.week]
    BY <1>1, <1>5, <2>1
  <2>3. b.week < q.count
    BY <1>1, <2>2
  <2>4. q.window.end + b.week * Week \in Nat
    <3>1. b.week * Week \in Nat
      BY <2>1, CalendarAssumption
    <3>2. q.window.end \in Nat
      BY <1>1, WindowFacts
    <3> QED
      BY <3>1, <3>2
  <2>5. ledger'[b].end <= q.window.end + b.week * Week
    BY <1>1, <2>2, <2>4
  <2> QED
    BY <1>1, <1>4, <1>5, <2>2, <2>3, <2>5 DEF RowOK
<1>6. now' \in Nat /\ lost' \in Nat
  BY DEF PInv
<1> QED
  BY <1>2, <1>3, <1>5, <1>6, EnterStep

\* What a run asks the server to change: a booking of the user's.
LEMMA ChangeFacts ==
  ASSUME PInv, NEW c \in Run, run[c].wants \in {"cancel", "shorten"}
  PROVE  LET d == run[c].ask.target IN
         /\ d \in BookingId /\ ledger[d] \in Row /\ ledger[d] # NoRow
         /\ NonEmpty(ledger[d]) /\ d.by \in Run
         /\ ledger[d].start \in Nat /\ ledger[d].end \in Nat
         /\ run[c].wants = "shorten" => run[c].ask.end \in Nat
<1> DEFINE d == run[c].ask.target
<1>1. GoodRun(run[c]) /\ ledger \in Table
  BY DEF PInv
<1>2. d \in BookingId /\ Own(d)
  BY <1>1 DEF GoodRun, ToCancel, ToShorten
<1>3. ledger[d] \in Row /\ ledger[d] # NoRow /\ ledger[d].user = Me
  BY <1>1, <1>2 DEF Own, Table
<1>4. RowOK(d)
  BY <1>2 DEF PInv
<1>5. NonEmpty(ledger[d]) /\ d.by \in Run
  BY <1>2, <1>3, <1>4, PeopleAssumption DEF RowOK, BookingId
<1>6. ledger[d].start \in Nat /\ ledger[d].end \in Nat
  BY <1>3 DEF Row
<1>7. run[c].wants = "shorten" => run[c].ask.end \in Nat
  BY <1>1, CalendarAssumption DEF GoodRun, ToShorten
<1> QED
  BY <1>2, <1>3, <1>5, <1>6, <1>7

\* A booking is cancelled, or its end moved forward.
Cancelled(x) == [x EXCEPT !.status = "CANCELLED"]
EndsAt(x, e) == [x EXCEPT !.end = e]

LEMMA CancelledShrinks ==
  ASSUME NEW x \in Row, NonEmpty(x) PROVE Shrunk(Cancelled(x), x)
BY DEF Row, NonEmpty, Cancelled, Shrunk

LEMMA EndsAtShrinks ==
  ASSUME NEW x \in Row, NEW e \in Nat, x.start < e, e < x.end
  PROVE  Shrunk(EndsAt(x, e), x)
BY DEF Row, NonEmpty, EndsAt, Shrunk

Changes(d) ==
  \/ ledger' = [ledger EXCEPT ![d] = Cancelled(ledger[d])]
  \/ \E e \in Nat : /\ ledger[d].start < e /\ e < ledger[d].end
                    /\ ledger' = [ledger EXCEPT ![d] = EndsAt(ledger[d], e)]

LEMMA ServeChangeStep ==
  ASSUME PInv, NEW c \in Run, run[c].answer = "none", run[c].wants \in {"cancel", "shorten"},
         Changes(run[c].ask.target), Answer(c, "ok", Nothing), UNCHANGED <<now, tab, lost>>
  PROVE  PInv' /\ OwnStays
<1> DEFINE d == run[c].ask.target
<1>1. /\ d \in BookingId /\ ledger[d] \in Row /\ ledger[d] # NoRow
      /\ NonEmpty(ledger[d])
  BY ChangeFacts
<1>2. PICK y : Shrunk(y, ledger[d]) /\ ledger' = [ledger EXCEPT ![d] = y]
  BY <1>1, CancelledShrinks, EndsAtShrinks DEF Changes
<1>3. ASSUME OwnStays PROVE RunsAreGood
  BY <1>3, AnswerStep DEF InFlight, Codes
<1>4. now' \in Nat /\ lost' \in Nat
  BY DEF PInv
<1> QED
  BY <1>1, <1>2, <1>3, <1>4, ShrinkStep

\* An answer to a request that changes nothing, or the news that it failed.
LEMMA AnswerOnlyStep ==
  ASSUME PInv, NEW c \in Run, InFlight(c), UNCHANGED <<now, ledger, tab>>, lost' \in Nat,
         NEW code \in Codes \ {"none"}, NEW data, Answer(c, code, data),
         \/ data = Nothing /\ run[c].wants \notin {"search", "list"}
         \/ data = Nothing /\ code # "ok"
         \/ data \in SUBSET Room /\ run[c].wants # "list"
         \/ data = Mine /\ run[c].wants # "search"
  PROVE  PInv'
<1>1. OwnStays
  BY DEF OwnStays, Own
<1>2. Mine \in Table /\ \A b \in BookingId : Mine[b] # NoRow => Own(b)'
  BY DEF Mine, Own, PInv, Table
<1>3. RunsAreGood
  BY <1>1, <1>2, AnswerStep
<1>4. TabsAreGood
  BY <1>1, TabsKeep
<1>5. now' \in Nat
  BY DEF PInv
<1> QED
  BY <1>3, <1>4, <1>5, QuietStep DEF RunsAreGood, TabsAreGood

\* The server serves a request: it enters what is asked for, changes a booking
\* of the user's, or leaves the bookings alone.
Serves(c) ==
  \/ UNCHANGED ledger
  \/ /\ run[c].wants = "create" /\ run[c].answer = "none"
     /\ ~Clashes(Wanted(c)) /\ ledger' = Entered(c, Wanted(c))
  \/ run[c].wants \in {"cancel", "shorten"} /\ Changes(run[c].ask.target)

LEMMA ServeStep ==
  ASSUME PInv, NEW c \in Run, Serve(c)
  PROVE  PInv' /\ Serves(c)
<1>1. /\ run[c].answer = "none" /\ UNCHANGED <<now, tab, lost>> /\ lost' \in Nat
      /\ {"ok", "past", "conflict", "started", "invalid"} \subseteq Codes \ {"none"}
  BY DEF Serve, PInv, Codes
<1>2. ASSUME NEW code \in {"past", "conflict", "started", "invalid"},
             run[c].wants # "none", UNCHANGED ledger, Answer(c, code, Nothing)
      PROVE  PInv' /\ Serves(c)
  BY <1>1, <1>2, AnswerOnlyStep DEF InFlight, Serves
<1>3. CASE ServeCreate(c)
  <2>1. run[c].wants = "create"
    BY <1>3 DEF ServeCreate
  <2>2. CASE /\ ~Clashes(Wanted(c)) /\ ledger' = Entered(c, Wanted(c))
             /\ Answer(c, "ok", Nothing)
    BY <1>1, <2>1, <2>2, ServeCreateStep DEF Serves
  <2> QED
    BY <1>2, <1>3, <2>1, <2>2 DEF ServeCreate
<1>4. CASE ServeChange(c)
  <2> DEFINE d == run[c].ask.target
  <2>1. run[c].wants \in {"cancel", "shorten"}
    BY <1>4 DEF ServeChange
  <2>2. d \in BookingId /\ ledger[d] \in Row /\ (run[c].wants = "shorten" => run[c].ask.end \in Nat)
    BY <2>1, ChangeFacts
  <2>3. ASSUME Changes(d), Answer(c, "ok", Nothing) PROVE PInv' /\ Serves(c)
    BY <1>1, <2>1, <2>3, ServeChangeStep DEF Serves
  <2>4. ASSUME ledger' = [ledger EXCEPT ![d].status = "CANCELLED"] PROVE Changes(d)
    BY <2>4 DEF Changes, Cancelled
  <2>5. ASSUME run[c].wants = "shorten", ledger[d].start < run[c].ask.end,
               run[c].ask.end < ledger[d].end,
               ledger' = [ledger EXCEPT ![d].end = run[c].ask.end]
        PROVE  Changes(d)
    BY <2>2, <2>5 DEF Changes, EndsAt
  <2> QED
    BY <1>2, <1>4, <2>1, <2>3, <2>4, <2>5 DEF ServeChange
<1>5. CASE ServeRead(c)
  <2>1. UNCHANGED ledger /\ run[c].wants \in {"search", "list"}
    BY <1>5 DEF ServeRead
  <2>2. ASSUME NEW rooms \in SUBSET Room, run[c].wants = "search", Answer(c, "ok", rooms)
        PROVE  PInv'
    BY <1>1, <2>1, <2>2, AnswerOnlyStep DEF InFlight
  <2>3. ASSUME run[c].wants = "list", Answer(c, "ok", Mine)
        PROVE  PInv'
    BY <1>1, <2>1, <2>3, AnswerOnlyStep DEF InFlight
  <2>4. {m \in Room : ~Taken(Occurrence(Me, m, run[c].ask.window, 0))} \in SUBSET Room
    OBVIOUS
  <2> QED
    BY <1>2, <1>5, <2>1, <2>2, <2>3, <2>4 DEF ServeRead, Serves
<1> QED
  BY <1>3, <1>4, <1>5 DEF Serve

LEMMA LoseStep ==
  ASSUME PInv, NEW c \in Run, Lose(c)
  PROVE  PInv'
<1>1. /\ InFlight(c) /\ UNCHANGED <<now, ledger, tab>> /\ lost' \in Nat
      /\ Answer(c, "failed", Nothing) /\ "failed" \in Codes \ {"none"}
  BY DEF Lose, PInv, Codes
<1> QED
  BY <1>1, AnswerOnlyStep

LEMMA TickStep ==
  ASSUME PInv, Tick
  PROVE  PInv'
<1>1. UNCHANGED <<ledger, tab, run>> /\ now' \in Nat /\ lost' \in Nat
  BY DEF Tick, PInv
<1>2. OwnStays
  BY <1>1 DEF OwnStays, Own
<1>3. RunsAreGood /\ TabsAreGood
  BY <1>1, <1>2, RunsKeep, TabsKeep
<1> QED
  BY <1>1, <1>3, QuietStep DEF RunsAreGood, TabsAreGood

LEMMA TheyBookStep ==
  ASSUME PInv, NEW o \in Other, NEW m \in Room, NEW w \in Windows, NEW k \in Weeks,
         TheyBook(o, m, w, k)
  PROVE  PInv'
<1> DEFINE x == Occurrence(They, m, w, k)
           rows == [j \in {0} |-> x]
<1>1. x \in Row /\ NonEmpty(x) /\ x.user = They
  BY OccurrenceIsRow
<1> HIDE DEF x, Row
<1>2. /\ UNCHANGED <<now, tab, run, lost>> /\ ledger' = Entered(o, rows) /\ ~Taken(x)
      /\ \A b \in BookingId : b.by = o => ledger[b] = NoRow
  BY DEF TheyBook, x
<1>3. DOMAIN rows = {0} /\ rows[0] = x
  OBVIOUS
<1> HIDE DEF rows
<1>4. ~Clashes(rows)
  BY <1>2, <1>3 DEF Clashes
<1>5. {0} \subseteq Weeks
  BY CalendarAssumption DEF Weeks
<1>6. EntersRows(o, rows)
  BY <1>1, <1>2, <1>3, <1>4, <1>5 DEF EntersRows
<1>7. OwnStays => RunsAreGood
  BY <1>2, RunsKeep
<1>8. ASSUME NEW b \in BookingId, b.by = o PROVE RowOK(b)'
  <2>1. ledger'[b] = IF b.week \in DOMAIN rows THEN rows[b.week] ELSE ledger[b]
    BY <1>2, <1>8 DEF Entered
  <2>2. ledger'[b] \in {x, NoRow}
    BY <1>2, <1>3, <1>8, <2>1
  <2>3. b.by \notin Run
    BY <1>8, RunAssumption
  <2> QED
    BY <1>1, <2>2, <2>3 DEF RowOK
<1>9. now' \in Nat /\ lost' \in Nat
  BY <1>2 DEF PInv
<1> QED
  BY <1>2, <1>6, <1>7, <1>8, <1>9, EnterStep

LEMMA TheyCancelStep ==
  ASSUME PInv, NEW d \in BookingId, TheyCancel(d)
  PROVE  PInv'
<1>1. /\ Confirmed(ledger[d]) /\ UNCHANGED <<now, tab, run, lost>>
      /\ ledger' = [ledger EXCEPT ![d] = Cancelled(ledger[d])]
  BY DEF TheyCancel, Cancelled
<1>2. ledger[d] \in Row /\ ledger[d] # NoRow /\ NonEmpty(ledger[d])
  <2>1. ledger[d] \in Row \cup {NoRow} /\ RowOK(d)
    BY DEF PInv, Table
  <2> QED
    BY <1>1, <2>1 DEF RowOK, Confirmed
<1>3. Shrunk(Cancelled(ledger[d]), ledger[d])
  BY <1>2, CancelledShrinks
<1>4. OwnStays => RunsAreGood
  BY <1>1, RunsKeep
<1>5. now' \in Nat /\ lost' \in Nat
  BY <1>1 DEF PInv
<1> QED
  BY <1>1, <1>2, <1>3, <1>4, <1>5, ShrinkStep

LEMMA NextPInv == PInv /\ [Next]_vars => PInv'
<1> SUFFICES ASSUME PInv, [Next]_vars PROVE PInv'
  OBVIOUS
<1>1. CASE UNCHANGED vars
  <2>1. UNCHANGED <<now, ledger, tab, run, lost>>
    BY <1>1 DEF vars
  <2>2. OwnStays
    BY <2>1 DEF OwnStays, Own
  <2>3. RunsAreGood /\ TabsAreGood
    BY <2>1, <2>2, RunsKeep, TabsKeep
  <2>4. now' \in Nat /\ lost' \in Nat
    BY <2>1 DEF PInv
  <2> QED
    BY <2>1, <2>3, <2>4, QuietStep DEF RunsAreGood, TabsAreGood
<1>2. ASSUME NEW t \in Tab, Visit(t) \/ Submit(t) PROVE PInv'
  BY <1>2, VisitStep, SubmitStep
<1>3. ASSUME NEW c \in Run, Serve(c) \/ Lose(c) \/ Receive(c) PROVE PInv'
  BY <1>3, ServeStep, LoseStep, ReceiveStep
<1>4. CASE Tick
  BY <1>4, TickStep
<1>5. ASSUME NEW o \in Other, NEW m \in Room, NEW w \in Windows, NEW k \in Weeks,
             TheyBook(o, m, w, k)
      PROVE  PInv'
  BY <1>5, TheyBookStep
<1>6. ASSUME NEW b \in BookingId, TheyCancel(b) PROVE PInv'
  BY <1>6, TheyCancelStep
<1> QED
  BY <1>1, <1>2, <1>3, <1>4, <1>5, <1>6 DEF Next

LEMMA PInvariance == Spec => []PInv
BY InitPInv, NextPInv, PTL DEF Spec

-----------------------------------------------------------------------------
(* The refinement *)

\* The history variable of the ledger, under the refinement mapping.
AsEntered ==
  [b \in BookingId |->
     IF ledger[b] = NoRow THEN NoRow
     ELSE IF b.by \in Run THEN Wanted(b.by)[b.week]
     ELSE [ledger[b] EXCEPT !.status = "CONFIRMED"]]

\* The handlers do not change what they have asked for.
AsksStay == \A c \in Run : run[c].op # "none" => run'[c].ask = run[c].ask

LEMMA AsksStayStep == PInv /\ [Next]_vars => AsksStay
<1> SUFFICES ASSUME PInv, [Next]_vars PROVE AsksStay
  OBVIOUS
<1>1. run \in [Run -> RunState]
  BY DEF PInv
<1>2. CASE UNCHANGED run
  BY <1>2 DEF AsksStay
<1>3. ASSUME NEW t \in Tab, NEW v \in Nat, NEW op, NEW wants, NEW ask,
             Start(t, v, op, wants, ask)
      PROVE  AsksStay
  <2>1. PICK n \in Run : Started(n, t, v, op, wants, ask)
    BY <1>3, StartStep
  <2> QED
    BY <2>1 DEF Started, Same, AsksStay
<1>4. ASSUME NEW c \in Run, NEW q \in RunState, q.ask = run[c].ask,
             run' = [run EXCEPT ![c] = q]
      PROVE  AsksStay
  BY <1>1, <1>4 DEF AsksStay
<1>5. ASSUME NEW c \in Run, NEW code, NEW data, Answer(c, code, data) PROVE AsksStay
  <2>1. run'[c].ask = run[c].ask
    BY <1>5, Answered
  <2> QED
    BY <1>1, <1>5, <2>1 DEF Answer, AsksStay
<1>6. ASSUME NEW c \in Run, Ended(c) PROVE AsksStay
  <2>1. run' = [run EXCEPT ![c] = [run[c] EXCEPT !.wants = "none", !.data = Nothing]]
    BY <1>1, <1>6 DEF Ended
  <2>2. /\ [run[c] EXCEPT !.wants = "none", !.data = Nothing] \in RunState
        /\ [run[c] EXCEPT !.wants = "none", !.data = Nothing].ask = run[c].ask
    BY <1>1 DEF RunState
  <2> QED
    BY <1>4, <2>1, <2>2
<1>7. ASSUME NEW c \in Run, NEW wants \in {"search", "list"}, NEW v \in Nat,
             Asking(c, wants, v)
      PROVE  AsksStay
  <2> DEFINE q == [run[c] EXCEPT !.wants = wants, !.visit = v, !.answer = "none",
                                 !.data = Nothing]
  <2>1. run' = [run EXCEPT ![c] = q]
    BY <1>1, <1>7 DEF Asking
  <2>2. q \in RunState /\ q.ask = run[c].ask
    <3>1. run[c] \in RunState
      BY <1>1
    <3> QED
      BY <3>1 DEF RunState, Codes
  <2> HIDE DEF q
  <2> QED
    BY <1>4, <2>1, <2>2
<1>8. ASSUME NEW t \in Tab, Visit(t) PROVE AsksStay
  <2>1. tab[t].visit \in Nat /\ tab[t].visit + 1 \in Nat
    BY DEF PInv, TabState
  <2>2. UNCHANGED run \/ Start(t, tab[t].visit + 1, "load", "list", Nothing)
    BY <1>8 DEF Visit, Open, Choose, Instead, Dismiss
  <2> QED
    BY <1>2, <1>3, <2>1, <2>2
<1>9. ASSUME NEW t \in Tab, Submit(t) PROVE AsksStay
  <2>1. tab[t].visit \in Nat
    BY DEF PInv, TabState
  <2>2. PICK op, wants, ask : Start(t, tab[t].visit, op, wants, ask)
    BY <1>9, SubmitsSomething DEF Submits
  <2> QED
    BY <1>3, <2>1, <2>2
<1>10. ASSUME NEW c \in Run, Serve(c) PROVE AsksStay
  <2>1. \E code, data : Answer(c, code, data)
    BY <1>10 DEF Serve, ServeCreate, ServeChange, ServeRead
  <2> QED
    BY <1>5, <2>1
<1>11. ASSUME NEW c \in Run, Lose(c) PROVE AsksStay
  BY <1>5, <1>11 DEF Lose
<1>12. ASSUME NEW c \in Run, Receive(c) PROVE AsksStay
  <2>1. run[c].visit \in Nat /\ GoodRun(run[c])
    BY <1>1 DEF PInv, RunState
  <2>2. tab[run[c].tab].visit + 1 \in Nat
    <3>1. run[c].tab \in Tab
      BY <1>12, <2>1 DEF GoodRun, Receive, InFlight
    <3> QED
      BY <3>1 DEF PInv, TabState
  <2>3. \/ Ended(c)
        \/ Asking(c, "list", tab[run[c].tab].visit + 1)
        \/ Asking(c, "search", run[c].visit)
        \/ Asking(c, "list", run[c].visit)
    BY <1>12 DEF Receive, AfterSearch, AfterSeries, Loaded, Changed, Booked, Conflicted,
                 Refused, Rechecked
  <2> QED
    BY <1>6, <1>7, <2>1, <2>2, <2>3
<1>13. CASE Tick \/ UNCHANGED vars
  BY <1>2, <1>13 DEF Tick, vars
<1>14. ASSUME NEW o, NEW m, NEW w, NEW k, TheyBook(o, m, w, k) PROVE AsksStay
  BY <1>2, <1>14 DEF TheyBook
<1>15. ASSUME NEW b, TheyCancel(b) PROVE AsksStay
  BY <1>2, <1>15 DEF TheyCancel
<1> QED
  BY <1>8, <1>9, <1>10, <1>11, <1>12, <1>13, <1>14, <1>15 DEF Next

\* No two confirmed bookings share a room and an instant, as the ledger says it.
LEMMA LedgerCollisionFree == PInv => Ledger!CollisionFree(ledger)
<1> SUFFICES ASSUME PInv, NEW b \in BookingId, NEW d \in BookingId, b # d,
                    Ledger!Collide(ledger[b], ledger[d])
             PROVE  FALSE
  BY DEF Ledger!CollisionFree
<1>1. /\ Confirmed(ledger[b]) /\ Confirmed(ledger[d]) /\ ledger[b].room = ledger[d].room
      /\ ShareInstant(ledger[b], ledger[d])
  BY DEF Ledger!Collide, Ledger!ShareInstant, Ledger!Covers, ShareInstant, Covers, Confirmed
<1>2. ~Overlap(ledger[b], ledger[d])
  BY <1>1 DEF PInv, Apart
<1>3. ledger[b] \in Row /\ ledger[d] \in Row
  BY <1>1 DEF PInv, Table, Confirmed
<1>4. NonEmpty(ledger[b]) /\ NonEmpty(ledger[d])
  BY <1>1 DEF PInv, RowOK, Confirmed
<1> QED
  BY <1>1, <1>2, <1>3, <1>4, OverlapIsSharing DEF Row

LEMMA LedgerStaysCollisionFree == PInv' => Ledger!CollisionFree(ledger)'
BY LedgerCollisionFree, PTL

LEMMA InitIsLedgerInit == Init => Ledger!LedgerInit
<1> SUFFICES ASSUME Init PROVE Ledger!LedgerInit
  OBVIOUS
<1>1. Ledger!CollisionFree(ledger)
  BY InitPInv, LedgerCollisionFree
<1>2. AsEntered = ledger
  BY DEF AsEntered, Init
<1> QED
  BY <1>1, <1>2 DEF Ledger!LedgerInit, AsEntered

\* A weekly occurrence is the first one, moved by whole weeks.
LEMMA MovedRow ==
  ASSUME NEW first \in [room : Room, user : {Me, They}, start : Nat, end : Nat,
                        status : {"CONFIRMED"}],
         NEW k \in Nat
  PROVE  [first EXCEPT !.start = @ + k, !.end = @ + k]
         = [room |-> first.room, user |-> first.user, start |-> first.start + k,
            end |-> first.end + k, status |-> "CONFIRMED"]
<1> DEFINE Rows == [room : Room, user : {Me, They}, start : Nat, end : Nat,
                    status : {"CONFIRMED"}]
           s == first.start + k
           e == first.end + k
           moved == [first EXCEPT !.start = s, !.end = e]
           plain == [room |-> first.room, user |-> first.user, start |-> s,
                     end |-> e, status |-> first.status]
<1>1. s \in Nat /\ e \in Nat /\ first.status = "CONFIRMED"
  OBVIOUS
<1>2. moved = plain
  <2> HIDE DEF s, e
  <2>1. moved \in Rows /\ plain \in Rows
    BY <1>1
  <2>2. /\ moved.room = plain.room /\ moved.user = plain.user
        /\ moved.start = plain.start /\ moved.end = plain.end
        /\ moved.status = plain.status
    BY <1>1
  <2> HIDE DEF moved, plain
  <2> QED
    BY <2>1, <2>2
<1> QED
  BY <1>1, <1>2

LEMMA WeekFacts ==
  ASSUME NEW n \in 1 .. MaxCount
  PROVE  /\ 0 \in Weeks /\ 0 \in 0 .. n - 1 /\ n \in Nat
         /\ \A b \in BookingId : b.week \in Nat /\ (b.week \in 0 .. n - 1 <=> b.week < n)
BY CalendarAssumption DEF BookingId, Weeks

\* Rows that are entered are reserved in the ledger.
LEMMA ReserveRefines ==
  ASSUME NEW by \in Run \cup Other, NEW n \in 1 .. MaxCount, NEW rows,
         DOMAIN rows = 0 .. n - 1, ledger' = Entered(by, rows),
         \A b \in BookingId : b.by = by => ledger[b] = NoRow,
         rows[0] \in Ledger!NewEntry,
         \A k \in 0 .. n - 1 :
           rows[k] = [rows[0] EXCEPT !.start = @ + k * Week, !.end = @ + k * Week],
         \A b \in BookingId : b.by = by => AsEntered'[b] = ledger'[b],
         \A b \in BookingId : b.by # by => AsEntered'[b] = AsEntered[b]
  PROVE  Ledger!Reserve(by)
<1> DEFINE id == [by |-> by, week |-> 0]
           first == ledger'[id]
<1>1. /\ id \in BookingId /\ id.by = by /\ id.week = 0 /\ 0 \in 0 .. n - 1
      /\ \A b \in BookingId : b.week \in 0 .. n - 1 <=> b.week < n
  <2>1. /\ 0 \in Weeks /\ 0 \in 0 .. n - 1
        /\ \A b \in BookingId : b.week \in 0 .. n - 1 <=> b.week < n
    BY WeekFacts
  <2> QED
    BY <2>1 DEF BookingId
<1>2. first = rows[0]
  BY <1>1 DEF Entered
<1>3. ledger' = [b \in BookingId |->
                   IF b.by = by /\ b.week < n
                   THEN [first EXCEPT !.start = @ + b.week * Week,
                                      !.end = @ + b.week * Week]
                   ELSE ledger[b]]
  <2> HIDE DEF first
  <2>1. \A b \in BookingId :
          (IF b.by = by /\ b.week \in DOMAIN rows THEN rows[b.week] ELSE ledger[b])
          = IF b.by = by /\ b.week < n
            THEN [first EXCEPT !.start = @ + b.week * Week, !.end = @ + b.week * Week]
            ELSE ledger[b]
    <3>1. \A b \in BookingId : b.week \in DOMAIN rows <=> b.week < n
      BY <1>1
    <3>2. \A b \in BookingId : b.week \in DOMAIN rows =>
            rows[b.week] = [first EXCEPT !.start = @ + b.week * Week,
                                         !.end = @ + b.week * Week]
      BY <1>2
    <3> QED
      BY <3>1, <3>2
  <2> QED
    BY <2>1 DEF Entered
<1>4. AsEntered' = [b \in BookingId |-> IF b.by = by THEN ledger'[b] ELSE AsEntered[b]]
  BY DEF AsEntered
<1> QED
  BY <1>1, <1>2, <1>3, <1>4 DEF Ledger!Reserve, AsEntered

\* A booking that stays is entered as before.
LEMMA EnteredStays ==
  ASSUME PInv, AsksStay, NEW b \in BookingId,
         ledger'[b] = NoRow <=> ledger[b] = NoRow,
         b.by \notin Run /\ ledger[b] # NoRow => ledger'[b] \in {ledger[b], Cancelled(ledger[b])}
  PROVE  AsEntered'[b] = AsEntered[b]
<1>1. CASE ledger[b] = NoRow
  BY <1>1 DEF AsEntered
<1>2. CASE ledger[b] # NoRow /\ b.by \in Run
  <2>1. RowOK(b)
    BY DEF PInv
  <2>2. run'[b.by].ask = run[b.by].ask
    BY <1>2, <2>1 DEF RowOK, AsksStay
  <2>3. Wanted(b.by)' = Wanted(b.by)
    BY <2>2 DEF Wanted
  <2>4. AsEntered[b] = Wanted(b.by)[b.week] /\ AsEntered'[b] = Wanted(b.by)'[b.week]
    BY <1>2 DEF AsEntered
  <2> QED
    BY <2>3, <2>4
<1>3. CASE ledger[b] # NoRow /\ b.by \notin Run
  <2>1. ledger[b] \in Row
    BY <1>3 DEF PInv, Table
  <2>2. /\ AsEntered[b] = [ledger[b] EXCEPT !.status = "CONFIRMED"]
        /\ AsEntered'[b] = [ledger'[b] EXCEPT !.status = "CONFIRMED"]
    BY <1>3 DEF AsEntered
  <2>3. [Cancelled(ledger[b]) EXCEPT !.status = "CONFIRMED"]
        = [ledger[b] EXCEPT !.status = "CONFIRMED"]
    BY <2>1 DEF Cancelled, Row
  <2> QED
    BY <1>3, <2>2, <2>3
<1> QED
  BY <1>1, <1>2, <1>3

\* The user's bookings.
LEMMA CreateRefines ==
  ASSUME PInv, AsksStay, NEW c \in Run, run[c].wants = "create", run[c].answer = "none",
         ledger' = Entered(c, Wanted(c))
  PROVE  Ledger!Reserve(c)
<1> DEFINE q == run[c].ask
           rows == Wanted(c)
<1>1. /\ q.room \in Room /\ q.window \in Windows /\ q.count \in 1 .. MaxCount
      /\ DOMAIN rows = 0 .. q.count - 1 /\ DOMAIN rows \subseteq Weeks
      /\ \A k \in DOMAIN rows : rows[k] = Occurrence(Me, q.room, q.window, k)
      /\ \A b \in BookingId : b.by = c => ledger[b] = NoRow
      /\ run[c].op \in {"confirm", "series"}
  BY CreateFacts
<1>2. rows' = rows
  BY <1>1 DEF AsksStay, Wanted
<1> HIDE DEF rows
<1> DEFINE Rows == [room : Room, user : {Me, They}, start : Nat, end : Nat,
                    status : {"CONFIRMED"}]
<1>3. q.window.start \in Nat /\ q.window.end \in Nat /\ q.window.start < q.window.end
  BY <1>1, WindowFacts
<1>4. 0 \in DOMAIN rows
  BY <1>1
<1>5. rows[0] = [room |-> q.room, user |-> Me, start |-> q.window.start,
                 end |-> q.window.end, status |-> "CONFIRMED"]
  <2>1. 0 * Week = 0
    BY CalendarAssumption
  <2>2. rows[0] = Occurrence(Me, q.room, q.window, 0)
    BY <1>1, <1>4
  <2> QED
    BY <1>3, <2>1, <2>2 DEF Occurrence
<1>6. rows[0] \in Ledger!NewEntry
  BY <1>1, <1>3, <1>5 DEF Ledger!NewEntry, Ledger!NonEmpty
<1>7. ASSUME NEW k \in 0 .. q.count - 1
      PROVE  rows[k] = [rows[0] EXCEPT !.start = @ + k * Week, !.end = @ + k * Week]
  <2>1. k * Week \in Nat
    BY <1>1, CalendarAssumption
  <2>2. rows[0] \in Rows
    BY <1>1, <1>3, <1>5
  <2>3. [rows[0] EXCEPT !.start = @ + k * Week, !.end = @ + k * Week]
        = [room |-> rows[0].room, user |-> rows[0].user, start |-> rows[0].start + k * Week,
           end |-> rows[0].end + k * Week, status |-> "CONFIRMED"]
    BY <2>1, <2>2, MovedRow
  <2>4. rows[k] = Occurrence(Me, q.room, q.window, k)
    BY <1>1
  <2> QED
    BY <1>5, <2>3, <2>4 DEF Occurrence
<1>8. ASSUME NEW b \in BookingId, b.by = c PROVE AsEntered'[b] = ledger'[b]
  <2>1. b.week \in DOMAIN rows => ledger'[b] = rows[b.week]
    BY <1>8 DEF Entered, rows
  <2>2. b.week \notin DOMAIN rows => ledger'[b] = NoRow
    BY <1>1, <1>8 DEF Entered, rows
  <2>3. AsEntered'[b] = IF ledger'[b] = NoRow THEN NoRow ELSE rows'[b.week]
    BY <1>8 DEF AsEntered, rows
  <2> QED
    BY <1>2, <2>1, <2>2, <2>3
<1>9. ASSUME NEW b \in BookingId, b.by # c PROVE AsEntered'[b] = AsEntered[b]
  <2>1. ledger'[b] = ledger[b]
    BY <1>9 DEF Entered
  <2> QED
    BY <2>1, EnteredStays
<1>10. ledger' = Entered(c, rows)
  BY DEF rows
<1> QED
  BY <1>1, <1>6, <1>7, <1>8, <1>9, <1>10, ReserveRefines

\* The bookings of the others.
LEMMA TheyBookRefines ==
  ASSUME PInv, AsksStay, NEW o \in Other, NEW m \in Room, NEW w \in Windows,
         NEW k \in Weeks, TheyBook(o, m, w, k)
  PROVE  Ledger!Reserve(o)
<1> DEFINE x == Occurrence(They, m, w, k)
           rows == [j \in {0} |-> x]
<1>1. /\ x \in Row /\ NonEmpty(x) /\ x # NoRow /\ x.status = "CONFIRMED" /\ x.user = They
      /\ x.room = m
  BY OccurrenceIsRow
<1> HIDE DEF x
<1>2. /\ ledger' = Entered(o, rows) /\ \A b \in BookingId : b.by = o => ledger[b] = NoRow
  BY DEF TheyBook, x
<1>3. DOMAIN rows = {0} /\ rows[0] = x
  OBVIOUS
<1> HIDE DEF rows
<1>4. DOMAIN rows = 0 .. 1 - 1 /\ 1 \in 1 .. MaxCount
  BY <1>3, CalendarAssumption
<1>5. x \in [room : Room, user : {Me, They}, start : Nat, end : Nat, status : {"CONFIRMED"}]
  BY <1>1 DEF Row
<1>6. rows[0] \in Ledger!NewEntry
  BY <1>1, <1>3, <1>5 DEF Ledger!NewEntry, Ledger!NonEmpty, NonEmpty
<1>7. x = [x EXCEPT !.start = @ + 0 * Week, !.end = @ + 0 * Week]
  <2>1. 0 * Week = 0
    BY CalendarAssumption
  <2>2. x.start + 0 = x.start /\ x.end + 0 = x.end
    BY <1>5
  <2>3. x = [x EXCEPT !.start = x.start, !.end = x.end]
    BY <1>5
  <2> QED
    BY <2>1, <2>2, <2>3
<1>8. \A j \in 0 .. 1 - 1 :
        rows[j] = [rows[0] EXCEPT !.start = @ + j * Week, !.end = @ + j * Week]
  <2>1. \A j \in 0 .. 1 - 1 : j = 0
    OBVIOUS
  <2> QED
    BY <1>3, <1>7, <2>1
<1>9. ASSUME NEW b \in BookingId, b.by = o PROVE AsEntered'[b] = ledger'[b]
  <2>1. ledger'[b] = IF b.week \in DOMAIN rows THEN rows[b.week] ELSE ledger[b]
    BY <1>2, <1>9 DEF Entered
  <2>2. ledger'[b] \in {x, NoRow}
    BY <1>2, <1>3, <1>9, <2>1
  <2>3. b.by \notin Run
    BY <1>9, RunAssumption
  <2>4. AsEntered'[b] = IF ledger'[b] = NoRow THEN NoRow
                        ELSE [ledger'[b] EXCEPT !.status = "CONFIRMED"]
    BY <2>3 DEF AsEntered
  <2>5. [x EXCEPT !.status = "CONFIRMED"] = x
    BY <1>5
  <2> QED
    BY <2>2, <2>4, <2>5
<1>10. ASSUME NEW b \in BookingId, b.by # o PROVE AsEntered'[b] = AsEntered[b]
  <2>1. ledger'[b] = ledger[b]
    BY <1>2, <1>10 DEF Entered
  <2> QED
    BY <2>1, EnteredStays
<1> QED
  BY <1>2, <1>4, <1>6, <1>8, <1>9, <1>10, ReserveRefines

LEMMA EnteredIsKept ==
  ASSUME PInv, AsksStay,
         \A b \in BookingId : ledger'[b] = NoRow <=> ledger[b] = NoRow,
         \A b \in BookingId : b.by \notin Run /\ ledger[b] # NoRow =>
           ledger'[b] \in {ledger[b], Cancelled(ledger[b])}
  PROVE  AsEntered' = AsEntered
<1>1. \A b \in BookingId : AsEntered'[b] = AsEntered[b]
  BY EnteredStays
<1>2. AsEntered = [b \in BookingId |-> AsEntered[b]]
  BY DEF AsEntered
<1>3. AsEntered' = [b \in BookingId |-> AsEntered'[b]]
  BY DEF AsEntered
<1> HIDE DEF AsEntered
<1> QED
  BY <1>1, <1>2, <1>3

\* Cancellations, the others' included, and shortenings.
LEMMA ChangesRefines ==
  ASSUME PInv, AsksStay, NEW d \in BookingId, ledger[d] # NoRow,
         \/ ledger' = [ledger EXCEPT ![d] = Cancelled(ledger[d])]
         \/ Changes(d) /\ d.by \in Run
  PROVE  Ledger!Cancel(d) \/ Ledger!MoveEnd(d)
<1>1. ledger \in Table /\ ledger[d] \in Row /\ RowOK(d)
  BY DEF PInv, Table
<1>2. CASE ledger' = [ledger EXCEPT ![d] = Cancelled(ledger[d])]
  <2>1. Cancelled(ledger[d]) # NoRow
    <3>1. Cancelled(ledger[d]) \in Row
      BY <1>1 DEF Cancelled, Row
    <3> QED
      BY <3>1, NoRowAssumption
  <2>2. /\ ledger'[d] = Cancelled(ledger[d])
        /\ \A b \in BookingId \ {d} : ledger'[b] = ledger[b]
    BY <1>1, <1>2 DEF Table
  <2>3. AsEntered' = AsEntered
    BY <2>1, <2>2, EnteredIsKept
  <2> QED
    BY <1>2, <2>3 DEF Ledger!Cancel, Cancelled, AsEntered
<1>3. ASSUME NEW e \in Nat, ledger[d].start < e, e < ledger[d].end, d.by \in Run,
             ledger' = [ledger EXCEPT ![d] = EndsAt(ledger[d], e)]
      PROVE  Ledger!MoveEnd(d)
  <2>1. EndsAt(ledger[d], e) # NoRow /\ EndsAt(ledger[d], e).end = e
    <3>1. EndsAt(ledger[d], e) \in Row /\ EndsAt(ledger[d], e).end = e
      BY <1>1 DEF EndsAt, Row
    <3> QED
      BY <3>1, NoRowAssumption
  <2>2. /\ ledger'[d] = EndsAt(ledger[d], e)
        /\ \A b \in BookingId \ {d} : ledger'[b] = ledger[b]
    BY <1>1, <1>3 DEF Table
  <2>3. AsEntered' = AsEntered
    BY <1>3, <2>1, <2>2, EnteredIsKept
  <2>4. ledger'[d].end = e
    BY <2>1, <2>2
  <2>5. ledger' = [ledger EXCEPT ![d].end = e]
    BY <1>3 DEF EndsAt
  <2>6. e <= AsEntered[d].end
    <3> DEFINE q == run[d.by].ask
    <3>1. run[d.by].op \in {"confirm", "series"} /\ d.week < q.count
          /\ ledger[d].end <= q.window.end + d.week * Week
      BY <1>1, <1>3 DEF RowOK
    <3>2. q \in ToCreate
      BY <1>3, <3>1 DEF PInv, GoodRun
    <3>3. q.room \in Room /\ q.window \in Windows /\ q.count \in 1 .. MaxCount
      BY <3>2 DEF ToCreate
    <3>4. d.week \in 0 .. q.count - 1 /\ d.week \in Weeks
      BY <3>1, <3>3, WeekFacts DEF BookingId
    <3>5. AsEntered[d] = Occurrence(Me, q.room, q.window, d.week)
      BY <1>3, <3>4 DEF AsEntered, Wanted
    <3>6. AsEntered[d].end = q.window.end + d.week * Week
      BY <3>3, <3>4, <3>5, OccurrenceIsRow
    <3>7. ledger[d].end \in Nat
      BY <1>1 DEF Row
    <3>8. q.window.end + d.week * Week \in Nat
      <4>1. d.week * Week \in Nat
        BY <3>4, CalendarAssumption DEF Weeks
      <4>2. q.window.end \in Nat
        BY <3>3, WindowFacts
      <4> QED
        BY <4>1, <4>2
    <3> QED
      BY <1>3, <3>1, <3>6, <3>7, <3>8
  <2> QED
    BY <1>3, <2>3, <2>4, <2>5, <2>6 DEF Ledger!MoveEnd, AsEntered
<1> QED
  BY <1>2, <1>3 DEF Changes

LEMMA NextRefines ==
  PInv /\ PInv' /\ [Next]_vars => [Ledger!LedgerNext]_(Ledger!ledgerVars)
<1> SUFFICES ASSUME PInv, PInv', [Next]_vars
             PROVE  [Ledger!LedgerNext]_(Ledger!ledgerVars)
  OBVIOUS
<1>1. AsksStay
  BY AsksStayStep
<1>2. Ledger!CollisionFree(ledger')
  BY LedgerStaysCollisionFree DEF Ledger!CollisionFree
<1>3. ASSUME UNCHANGED ledger PROVE [Ledger!LedgerNext]_(Ledger!ledgerVars)
  <2>1. AsEntered' = AsEntered
    BY <1>1, <1>3, EnteredIsKept
  <2> QED
    BY <1>3, <2>1 DEF Ledger!ledgerVars, AsEntered
<1>4. ASSUME NEW by \in Run \cup Other, Ledger!Reserve(by) PROVE Ledger!LedgerNext
  <2> DEFINE id == [by |-> by, week |-> 0]
  <2>1. id \in BookingId /\ id.by = by
    BY CalendarAssumption DEF BookingId, Weeks
  <2> HIDE DEF id
  <2> QED
    BY <1>2, <1>4, <2>1 DEF Ledger!LedgerNext
<1>5. ASSUME NEW d \in BookingId, Ledger!Cancel(d) \/ Ledger!MoveEnd(d)
      PROVE  Ledger!LedgerNext
  BY <1>2, <1>5 DEF Ledger!LedgerNext
<1>6. ASSUME NEW c \in Run, Serve(c) PROVE [Ledger!LedgerNext]_(Ledger!ledgerVars)
  <2>1. Serves(c)
    BY <1>6, ServeStep
  <2>2. CASE /\ run[c].wants = "create" /\ run[c].answer = "none"
             /\ ~Clashes(Wanted(c)) /\ ledger' = Entered(c, Wanted(c))
    BY <1>1, <1>4, <2>2, CreateRefines
  <2>3. CASE run[c].wants \in {"cancel", "shorten"} /\ Changes(run[c].ask.target)
    <3> DEFINE d == run[c].ask.target
    <3>1. d \in BookingId /\ ledger[d] # NoRow /\ d.by \in Run
      BY <2>3, ChangeFacts
    <3> HIDE DEF d
    <3>2. Ledger!Cancel(d) \/ Ledger!MoveEnd(d)
      BY <1>1, <2>3, <3>1, ChangesRefines DEF d
    <3> QED
      BY <1>5, <3>1, <3>2
  <2> QED
    BY <1>3, <2>1, <2>2, <2>3 DEF Serves
<1>7. ASSUME NEW o \in Other, NEW m \in Room, NEW w \in Windows, NEW k \in Weeks,
             TheyBook(o, m, w, k)
      PROVE  Ledger!LedgerNext
  BY <1>1, <1>4, <1>7, TheyBookRefines
<1>8. ASSUME NEW d \in BookingId, TheyCancel(d) PROVE Ledger!LedgerNext
  <2>1. ledger[d] # NoRow /\ ledger' = [ledger EXCEPT ![d] = Cancelled(ledger[d])]
    BY <1>8 DEF TheyCancel, Confirmed, Cancelled
  <2>2. Ledger!Cancel(d) \/ Ledger!MoveEnd(d)
    BY <1>1, <2>1, ChangesRefines
  <2> QED
    BY <1>5, <2>2
<1>9. ASSUME NEW t \in Tab, Visit(t) \/ Submit(t) PROVE UNCHANGED ledger
  BY <1>9 DEF Visit, Submit, Open, Choose, Instead, Dismiss, Search, Confirm, SubmitSeries,
              ClickCancel, ClickShorten, Click
<1>10. ASSUME NEW c \in Run, Lose(c) \/ Receive(c) PROVE UNCHANGED ledger
  BY <1>10 DEF Lose, Receive
<1>11. Tick \/ UNCHANGED vars => UNCHANGED ledger
  BY DEF Tick, vars
<1> QED
  BY <1>3, <1>6, <1>7, <1>8, <1>9, <1>10, <1>11 DEF Next

\* Whatever the user does on the pages, in whatever tabs, and in whatever order
\* requests are answered or lost, the bookings change as BookingLedger allows.
THEOREM PagesKeepTheLedger == Spec => ImplementsLedger
BY InitIsLedgerInit, NextRefines, PInvariance, PTL
DEF Spec, ImplementsLedger, Ledger!LedgerSpec

-----------------------------------------------------------------------------
(* One booking per visit *)

\* The booking of a confirmation is there.
Has(c) == ledger[[by |-> c, week |-> 0]] # NoRow

\* A run that has its booking is about to leave the page or has left it; while
\* a confirmation is not decided its page is busy.
RunKeepsPage(c) ==
  LET x == tab[run[c].tab] IN
  /\ run[c].op \in {"search", "series"} /\ run[c].visit = x.visit => x.page = run[c].op
  /\ Confirmation(c) /\ Has(c) =>
       /\ run[c].wants # "search"
       /\ run[c].wants = "create" => run[c].answer = "ok"
       /\ run[c].wants # "create" => run[c].from < x.visit
  /\ Active(c) /\ run[c].from = x.visit => x.busy

SameVisit(c, d) ==
  /\ Confirmation(c) /\ Confirmation(d) /\ c # d
  /\ run[c].tab = run[d].tab /\ run[c].from = run[d].from

OneLive == \A c, d \in Run : SameVisit(c, d) => ~(Active(c) \/ Has(c)) \/ ~(Active(d) \/ Has(d))

OInv == lost = 0 => (\A c \in Run : RunKeepsPage(c)) /\ OneLive

Live(c) == Active(c) \/ Has(c)

\* c is not a confirmation that was not there before or is alive again.
Kept(c) ==
  /\ RunKeepsPage(c)'
  /\ Confirmation(c)' =>
       /\ Confirmation(c) /\ run'[c].tab = run[c].tab /\ run'[c].from = run[c].from
       /\ Live(c)' => Live(c)

LEMMA AllKept ==
  ASSUME OInv, lost = 0, \A c \in Run : Kept(c)
  PROVE  OInv'
<1>1. OneLive'
  BY DEF OInv, OneLive, SameVisit, Kept, Live
<1> QED
  BY <1>1 DEF OInv, Kept

LEMMA KeepsPage ==
  ASSUME PInv, OInv, lost = 0, NEW c \in Run, Same(c), Has(c)' <=> Has(c), StaysBusy(c),
         TabsMove, tab' \in [Tab -> TabState]
  PROVE  Kept(c)
<1>1. RunKeepsPage(c) /\ GoodRun(run[c]) /\ Place(c) /\ run[c] \in RunState
  BY DEF OInv, PInv
<1>2. Confirmation(c)' <=> Confirmation(c)
  BY DEF Confirmation, Same
<1>3. Active(c)' <=> Active(c)
  BY DEF Confirmation, Active, Same
<1>4. RunKeepsPage(c)'
  <2>1. CASE run[c].op = "none"
    BY <1>2, <1>3, <2>1 DEF RunKeepsPage, Same, Active, Confirmation
  <2>2. CASE run[c].op # "none"
    <3> DEFINE x == tab[run[c].tab]
               y == tab'[run[c].tab]
    <3>1. run[c].tab \in Tab /\ run[c].from <= x.visit /\ run[c].visit <= x.visit
      BY <1>1, <2>2 DEF GoodRun, Place
    <3>2. x.visit <= y.visit /\ (y.visit = x.visit => y.page = x.page)
      BY <3>1 DEF TabsMove
    <3>3. x.visit \in Nat /\ y.visit \in Nat /\ run[c].from \in Nat /\ run[c].visit \in Nat
      BY <1>1, <3>1 DEF PInv, TabState, RunState
    <3>4. /\ run[c].from = y.visit => run[c].from = x.visit /\ y.visit = x.visit
          /\ run[c].visit = y.visit => run[c].visit = x.visit /\ y.visit = x.visit
          /\ run[c].from < x.visit => run[c].from < y.visit
      BY <3>1, <3>2, <3>3
    <3>5. run[c].op \in {"search", "series"} /\ run[c].visit = y.visit => y.page = run[c].op
      BY <1>1, <3>2, <3>4 DEF RunKeepsPage
    <3>6. Active(c) /\ run[c].from = y.visit => y.busy
      BY <1>1, <3>4 DEF RunKeepsPage, StaysBusy
    <3>7. run'[c].tab = run[c].tab /\ tab'[run'[c].tab] = y
      BY DEF Same
    <3> HIDE DEF x, y
    <3> QED
      BY <1>1, <1>2, <1>3, <3>4, <3>5, <3>6, <3>7 DEF RunKeepsPage, Same, x
  <2> QED
    BY <2>1, <2>2
<1> QED
  BY <1>2, <1>3, <1>4 DEF Kept, Live, Same

LEMMA InitOInv == Init => OInv
<1> SUFFICES ASSUME Init PROVE OInv
  OBVIOUS
<1>1. \A c \in Run : run[c].op = "none"
  BY DEF Init, Unused
<1> QED
  BY <1>1 DEF OInv, RunKeepsPage, OneLive, SameVisit, Active, Confirmation

\* Steps that leave the runs alone, but for one that is no confirmation.
LEMMA OVisitStep ==
  ASSUME PInv, OInv, lost = 0, NEW t \in Tab, Visit(t)
  PROVE  OInv'
<1>1. /\ TabsAreGood /\ UNCHANGED ledger
      /\ \A c \in Run : StaysBusy(c) /\ (Has(c)' <=> Has(c))
      /\ UNCHANGED run \/ Start(t, tab[t].visit + 1, "load", "list", Nothing)
  BY VisitTabs DEF Has
<1>2. CASE UNCHANGED run
  <2>1. \A c \in Run : Same(c)
    BY <1>2 DEF Same
  <2> QED
    BY <1>1, <2>1, KeepsPage, AllKept DEF TabsAreGood
<1>3. CASE Start(t, tab[t].visit + 1, "load", "list", Nothing)
  <2>1. tab[t].visit + 1 \in Nat
    BY DEF PInv, TabState
  <2>2. PICK n \in Run : Started(n, t, tab[t].visit + 1, "load", "list", Nothing)
    BY <1>3, <2>1, StartStep
  <2>3. run'[n].op = "load" /\ \A c \in Run \ {n} : Same(c)
    BY <2>2 DEF Started
  <2>4. Kept(n)
    BY <2>3 DEF Kept, RunKeepsPage, Active, Confirmation
  <2> QED
    BY <1>1, <2>3, <2>4, KeepsPage, AllKept DEF TabsAreGood
<1> QED
  BY <1>1, <1>2, <1>3

LEMMA OSubmitStep ==
  ASSUME PInv, OInv, lost = 0, NEW t \in Tab, Submit(t)
  PROVE  OInv'
<1>1. tab[t] \in TabState /\ GoodTab(tab[t]) /\ tab[t].visit \in Nat
  BY DEF PInv, TabState
<1>2. PICK op, wants, ask : Submits(t, op, wants, ask)
  BY SubmitsSomething
<1>3. UNCHANGED <<now, ledger, lost>>
  BY <1>2 DEF Submits
<1>4. PICK x : /\ \/ x = Submitted(tab[t])
                  \/ x = Forgiven(tab[t]) /\ op \in {"cancel", "shorten"}
               /\ Render(t, x)
  BY <1>2 DEF Submits
<1>5. /\ x \in TabState /\ x.page = tab[t].page /\ x.visit = tab[t].visit
      /\ x.room = tab[t].room /\ x.window = tab[t].window /\ x.rooms = tab[t].rooms
      /\ x.list = tab[t].list
      /\ x.busy \/ x.busy = tab[t].busy
      /\ op = "confirm" => x.busy
  BY <1>1, <1>4 DEF TabState, Submitted, Forgiven, Codes
<1>6. GoodTab(x)
  BY <1>1, <1>5, Touched
<1>7. /\ TabsAreGood
      /\ tab'[t].visit = tab[t].visit /\ tab'[t].page = tab[t].page
      /\ tab'[t].busy = x.busy
      /\ \A u \in Tab \ {t} : tab'[u] = tab[u]
  BY <1>3, <1>4, <1>5, <1>6, RenderStep DEF TabsAreGood
<1>8. \A c \in Run : StaysBusy(c) /\ (Has(c)' <=> Has(c))
  <2>1. \A c \in Run : StaysBusy(c)
    BY <1>5, <1>7, OthersStayBusy
  <2> QED
    BY <1>3, <2>1 DEF Has
<1> DEFINE v == tab[t].visit
<1>9. PICK n \in Run : Started(n, t, v, op, wants, ask)
  BY <1>1, <1>2, StartStep DEF Submits
<1>10. /\ run'[n].op = op /\ run'[n].tab = t /\ run'[n].visit = v /\ run'[n].from = v
       /\ run'[n].wants = wants /\ run[n].op = "none"
       /\ \A c \in Run \ {n} : Same(c)
  BY <1>9 DEF Started
<1>11. \A c \in Run \ {n} : Kept(c)
  BY <1>7, <1>8, <1>10, KeepsPage DEF TabsAreGood
<1>12. ~Has(n)
  <2>1. [by |-> n, week |-> 0] \in BookingId
    BY CalendarAssumption DEF BookingId, Weeks
  <2>2. RowOK([by |-> n, week |-> 0])
    BY <2>1 DEF PInv
  <2> QED
    BY <1>10, <2>2 DEF RowOK, Has
<1>13. RunKeepsPage(n)'
  BY <1>2, <1>5, <1>7, <1>8, <1>10, <1>12 DEF RunKeepsPage, Active, Confirmation, Submits, Begins
<1>14. CASE op # "confirm"
  <2>1. Kept(n)
    BY <1>10, <1>13, <1>14 DEF Kept, Confirmation
  <2> QED
    BY <1>11, <2>1, AllKept
<1>15. CASE op = "confirm"
  <2>1. ~tab[t].busy
    BY <1>2, <1>15 DEF Submits
  <2>2. ASSUME NEW d \in Run \ {n}, Confirmation(d)', run'[d].tab = t, run'[d].from = v
        PROVE  ~Live(d)'
    <3>1. Confirmation(d) /\ run[d].tab = t /\ run[d].from = v
      BY <1>11, <2>2 DEF Kept
    <3>2. RunKeepsPage(d)
      BY DEF OInv
    <3>3. ~Active(d)
      BY <2>1, <3>1, <3>2 DEF RunKeepsPage
    <3>4. ~Has(d)
      BY <1>1, <3>1, <3>2, <3>3 DEF RunKeepsPage, Active
    <3> QED
      BY <1>11, <2>2, <3>3, <3>4 DEF Kept, Live
  <2>3. OneLive'
    <3> SUFFICES ASSUME NEW c \in Run, NEW d \in Run, SameVisit(c, d)'
                 PROVE  ~Live(c)' \/ ~Live(d)'
      BY DEF OneLive, Live
    <3>1. CASE c = n \/ d = n
      BY <1>10, <2>2, <3>1 DEF SameVisit
    <3>2. CASE c # n /\ d # n
      <4>1. Kept(c) /\ Kept(d)
        BY <1>11, <3>2
      <4>2. SameVisit(c, d)
        BY <4>1 DEF SameVisit, Kept
      <4>3. ~Live(c) \/ ~Live(d)
        BY <4>2 DEF OInv, OneLive, Live
      <4> QED
        BY <4>1, <4>3 DEF Kept, SameVisit
    <3> QED
      BY <3>1, <3>2
  <2> QED
    BY <1>11, <1>13, <2>3 DEF OInv, Kept
<1> QED
  BY <1>14, <1>15

\* Steps that only touch the bookings: of nobody's confirmation.
LEMMA OBookingStep ==
  ASSUME PInv, OInv, lost = 0, UNCHANGED <<tab, run>>, \A c \in Run : Has(c)' <=> Has(c)
  PROVE  OInv'
<1>1. \A c \in Run : Same(c) /\ StaysBusy(c)
  BY DEF Same, StaysBusy
<1>2. tab' \in [Tab -> TabState] /\ TabsMove
  <2>1. tab \in [Tab -> TabState] /\ \A u \in Tab : tab[u].visit \in Nat
    BY DEF PInv, TabState
  <2> QED
    BY <2>1 DEF TabsMove
<1> QED
  BY <1>1, <1>2, KeepsPage, AllKept

\* The server answers c: if it was asked to enter a booking and has, it says so.
LEMMA OAnswerStep ==
  ASSUME PInv, OInv, lost = 0, UNCHANGED tab, NEW c \in Run, run[c].answer = "none",
         NEW code, NEW data, Answer(c, code, data),
         \A d \in Run \ {c} : Has(d)' <=> Has(d),
         run[c].wants # "create" => (Has(c)' <=> Has(c)),
         run[c].wants = "create" /\ Has(c)' => code = "ok"
  PROVE  OInv'
<1>1. run \in [Run -> RunState] /\ GoodRun(run[c]) /\ RunKeepsPage(c)
  BY DEF PInv, OInv
<1>2. /\ run'[c].op = run[c].op /\ run'[c].tab = run[c].tab
      /\ run'[c].visit = run[c].visit /\ run'[c].from = run[c].from
      /\ run'[c].wants = run[c].wants /\ run'[c].answer = code
      /\ \A d \in Run \ {c} : run'[d] = run[d]
  <2>1. run' = [run EXCEPT ![c] = [run[c] EXCEPT !.answer = code, !.data = data]]
    BY <1>1 DEF Answer
  <2>2. run[c] \in RunState
    BY <1>1
  <2> QED
    BY <1>1, <2>1, <2>2 DEF RunState
<1>3. tab' \in [Tab -> TabState] /\ TabsMove
  <2>1. tab \in [Tab -> TabState] /\ \A u \in Tab : tab[u].visit \in Nat
    BY DEF PInv, TabState
  <2> QED
    BY <2>1 DEF TabsMove
<1>4. \A d \in Run \ {c} : Same(d) /\ StaysBusy(d)
  BY <1>2 DEF Same, StaysBusy
<1>5. \A d \in Run \ {c} : Kept(d)
  BY <1>3, <1>4, KeepsPage
<1>6. RunKeepsPage(c)'
  BY <1>1, <1>2 DEF RunKeepsPage, Active, Confirmation
<1>7. Kept(c)
  BY <1>2, <1>6 DEF Kept, Live, Active, Confirmation
<1> QED
  BY <1>5, <1>7, AllKept

LEMMA FirstId == ASSUME NEW c \in Run PROVE [by |-> c, week |-> 0] \in BookingId
BY CalendarAssumption DEF BookingId, Weeks

\* A change of a booking does not take its row away.
LEMMA ChangeKeepsRows ==
  ASSUME PInv, NEW d \in BookingId, ledger[d] \in Row, NonEmpty(ledger[d]), Changes(d)
  PROVE  \A c \in Run : Has(c)' <=> Has(c)
<1>1. PICK y : Shrunk(y, ledger[d]) /\ ledger' = [ledger EXCEPT ![d] = y]
  BY CancelledShrinks, EndsAtShrinks DEF Changes
<1>2. y # NoRow /\ ledger[d] # NoRow
  BY <1>1, NoRowAssumption DEF Shrunk
<1>3. \A b \in BookingId : ledger'[b] = NoRow <=> ledger[b] = NoRow
  BY <1>1, <1>2 DEF PInv, Table
<1> QED
  BY <1>3, FirstId DEF Has

LEMMA OServeStep ==
  ASSUME PInv, OInv, lost = 0, NEW c \in Run, Serve(c)
  PROVE  OInv'
<1>1. UNCHANGED tab /\ run[c].answer = "none" /\ Serves(c)
  BY ServeStep DEF Serve
<1>2. \E code, data : Answer(c, code, data)
  BY DEF Serve, ServeCreate, ServeChange, ServeRead
<1>3. CASE UNCHANGED ledger
  <2>1. \A d \in Run : Has(d)' <=> Has(d)
    BY <1>3 DEF Has
  <2>2. run[c].wants = "create" => ~Has(c)
    <3>1. RowOK([by |-> c, week |-> 0])
      BY FirstId DEF PInv
    <3> QED
      BY <1>1, <3>1 DEF RowOK, Has
  <2> QED
    BY <1>1, <1>2, <2>1, <2>2, OAnswerStep
<1>4. CASE run[c].wants \in {"cancel", "shorten"} /\ Changes(run[c].ask.target)
  <2> DEFINE d == run[c].ask.target
  <2>1. d \in BookingId /\ ledger[d] \in Row /\ NonEmpty(ledger[d])
    BY <1>4, ChangeFacts
  <2> HIDE DEF Row
  <2>2. \A e \in Run : Has(e)' <=> Has(e)
    BY <1>4, <2>1, ChangeKeepsRows
  <2> QED
    BY <1>1, <1>2, <1>4, <2>2, OAnswerStep
<1>5. CASE run[c].wants = "create" /\ ~UNCHANGED ledger
  <2>1. Answer(c, "ok", Nothing) /\ ledger' = Entered(c, Wanted(c))
    BY <1>5 DEF Serve, ServeCreate, ServeChange, ServeRead
  <2>2. \A d \in Run \ {c} : Has(d)' <=> Has(d)
    BY <2>1, FirstId DEF Has, Entered
  <2> QED
    BY <1>1, <1>5, <2>1, <2>2, OAnswerStep
<1> QED
  BY <1>1, <1>3, <1>4, <1>5 DEF Serves

\* c goes on or ends.
LEMMA OGoesOn ==
  ASSUME PInv, OInv, lost = 0, UNCHANGED ledger, TabsAreGood, NEW c \in Run, InFlight(c),
         \A d \in Run \ {c} : StaysBusy(d),
         NEW wants, NEW v \in Nat,
         \/ Ended(c) /\ wants = "none" /\ v = run[c].visit
         \/ Asking(c, wants, v) /\ wants \in {"search", "list"},
         run[c].op \in {"search", "series"} => Ended(c),
         Confirmation(c) /\ Has(c) =>
           wants # "search" /\ run[c].from < tab'[run[c].tab].visit,
         wants = "search" =>
           /\ Active(c)
           /\ tab'[run[c].tab].visit = tab[run[c].tab].visit
           /\ tab'[run[c].tab].busy = tab[run[c].tab].busy
  PROVE  OInv'
<1>1. run \in [Run -> RunState] /\ run[c] \in RunState /\ RunKeepsPage(c) /\ run[c].tab \in Tab
      /\ Place(c) /\ run[c].op # "none"
  BY DEF PInv, OInv, GoodRun, InFlight
<1>2. /\ run'[c].op = run[c].op /\ run'[c].tab = run[c].tab
      /\ run'[c].visit = v /\ run'[c].from = run[c].from /\ run'[c].wants = wants
      /\ \A d \in Run \ {c} : run'[d] = run[d]
  <2>1. CASE Ended(c) /\ wants = "none" /\ v = run[c].visit
    <3>1. run' = [run EXCEPT ![c] = [run[c] EXCEPT !.wants = "none", !.data = Nothing]]
      BY <1>1, <2>1 DEF Ended
    <3> QED
      BY <1>1, <2>1, <3>1 DEF RunState
  <2>2. CASE Asking(c, wants, v)
    <3>1. run' = [run EXCEPT ![c] = [run[c] EXCEPT !.wants = wants, !.visit = v,
                                                   !.answer = "none", !.data = Nothing]]
      BY <1>1, <2>2 DEF Asking
    <3> QED
      BY <1>1, <3>1 DEF RunState
  <2> QED
    BY <2>1, <2>2
<1>3. \A d \in Run \ {c} : Same(d) /\ (Has(d)' <=> Has(d))
  BY <1>2 DEF Same, Has
<1>4. \A d \in Run \ {c} : Kept(d)
  BY <1>3, KeepsPage DEF TabsAreGood
<1> DEFINE x == tab[run[c].tab]
           y == tab'[run[c].tab]
<1>5. /\ x.visit \in Nat /\ y.visit \in Nat /\ x.visit <= y.visit
      /\ y.visit = x.visit => y.page = x.page
      /\ run[c].visit \in Nat /\ run[c].visit <= x.visit
  BY <1>1 DEF PInv, TabState, RunState, TabsAreGood, TabsMove, Place
<1>6. run[c].op \in {"search", "series"} /\ v = y.visit => y.page = run[c].op
  <2>1. run[c].op \in {"search", "series"} => v = run[c].visit
    <3>1. ASSUME Ended(c), Asking(c, wants, v), wants \in {"search", "list"} PROVE FALSE
      <4>1. run'[c].wants = "none"
        BY <1>1, <3>1 DEF Ended, RunState
      <4> QED
        BY <1>2, <3>1, <4>1
    <3> QED
      BY <3>1
  <2> QED
    BY <1>1, <1>5, <2>1 DEF RunKeepsPage
<1>7. wants = "search" /\ run[c].from = y.visit => y.busy
  BY <1>1 DEF RunKeepsPage
<1>8. (Has(c)' <=> Has(c)) /\ wants \in {"none", "search", "list"}
  BY DEF Has
<1>9. y = tab'[run'[c].tab]
  BY <1>2
<1> HIDE DEF x, y
<1>10. RunKeepsPage(c)'
  BY <1>2, <1>6, <1>7, <1>8, <1>9 DEF RunKeepsPage, Active, Confirmation, y
<1>11. Kept(c)
  BY <1>2, <1>8, <1>10 DEF Kept, Live, Active, Confirmation
<1> QED
  BY <1>4, <1>11, AllKept

LEMMA OReceiveStep ==
  ASSUME PInv, OInv, lost = 0, NEW c \in Run, Receive(c)
  PROVE  OInv'
<1> DEFINE t == run[c].tab
           y == tab[t]
<1>1. /\ InFlight(c) /\ run[c].answer \in Codes /\ UNCHANGED <<now, ledger, lost>>
      /\ GoodRun(run[c]) /\ Place(c) /\ run[c].op # "none" /\ t \in Tab
      /\ run[c].visit \in Nat /\ run[c].from \in Nat /\ RunKeepsPage(c)
  BY DEF Receive, PInv, GoodRun, RunState, InFlight, OInv
<1>2. y \in TabState /\ y.visit \in Nat
  BY <1>1 DEF PInv, TabState
<1>3. ASSUME NEW d \in Run, Active(d), run[d].tab = t, run[d].from = y.visit
      PROVE  y.page = "book"
  BY <1>1, <1>3 DEF PInv, Place, Active, Confirmation
<1>4. ASSUME NEW x, ShowIfHere(c, x),
             Here(c) => GoodTab(x) /\ x.visit = y.visit /\ x.page = y.page,
             Here(c) => \/ x.busy = y.busy
                        \/ y.page # "book"
                        \/ Active(c)
      PROVE  /\ TabsAreGood /\ \A d \in Run \ {c} : StaysBusy(d)
             /\ tab'[t].visit = y.visit
             /\ (Here(c) => x.busy = y.busy) => tab'[t].busy = y.busy
  <2>1. /\ TabsAreGood /\ tab'[t].visit = y.visit
        /\ tab'[t].busy = IF Here(c) THEN x.busy ELSE y.busy
        /\ \A u \in Tab \ {t} : tab'[u] = tab[u]
    BY <1>1, <1>4, ShowStep
  <2>2. ASSUME NEW d \in Run \ {c}, Active(d), run[d].tab = t, run[d].from = y.visit,
               Here(c), Active(c)
        PROVE  FALSE
    <3>1. run[c].from = run[d].from
      BY <1>1, <2>2 DEF Place, Active, Confirmation, Here
    <3>2. SameVisit(c, d)
      BY <2>2, <3>1 DEF SameVisit, Active
    <3> QED
      BY <2>2, <3>2 DEF OInv, OneLive
  <2>3. ASSUME NEW d \in Run \ {c} PROVE StaysBusy(d)
    <3> SUFFICES ASSUME Active(d), run[d].from = tab[run[d].tab].visit, tab[run[d].tab].busy
                 PROVE  tab'[run[d].tab].busy
      BY DEF StaysBusy
    <3>1. run[d].tab \in Tab
      BY DEF PInv, GoodRun, Active, Confirmation
    <3>2. CASE run[d].tab # t
      BY <2>1, <3>1, <3>2
    <3>3. CASE run[d].tab = t
      BY <1>3, <1>4, <2>1, <2>2, <3>3
    <3> QED
      BY <3>2, <3>3
  <2> QED
    BY <2>1, <2>3
<1>5. ASSUME AfterSearch(c) PROVE OInv'
  <2> DEFINE idle == [y EXCEPT !.busy = FALSE]
             x == IF run[c].answer = "ok"
                  THEN [idle EXCEPT !.rooms = run[c].data, !.window = run[c].ask.window]
                  ELSE [idle EXCEPT !.error = run[c].answer]
  <2>1. ShowIfHere(c, x) /\ Ended(c) /\ run[c].op = "search"
    BY <1>5 DEF AfterSearch
  <2>2. Here(c) => GoodTab(x) /\ x.visit = y.visit /\ x.page = y.page
    BY <1>1, <2>1, ShownIsGood
  <2>3. Here(c) => y.page # "book"
    BY <1>1, <2>1 DEF RunKeepsPage, Here
  <2> HIDE DEF x
  <2>4. TabsAreGood /\ \A d \in Run \ {c} : StaysBusy(d)
    BY <1>4, <2>1, <2>2, <2>3
  <2>5. ~Confirmation(c)
    BY <2>1 DEF Confirmation
  <2> QED
    BY <1>1, <2>1, <2>4, <2>5, OGoesOn
<1>6. ASSUME AfterSeries(c) PROVE OInv'
  <2> DEFINE idle == [y EXCEPT !.busy = FALSE]
             x == IF run[c].answer = "ok" THEN [idle EXCEPT !.created = TRUE]
                                          ELSE [idle EXCEPT !.error = "conflict"]
  <2>1. ShowIfHere(c, x) /\ Ended(c) /\ run[c].op = "series"
    BY <1>6 DEF AfterSeries
  <2>2. Here(c) => GoodTab(x) /\ x.visit = y.visit /\ x.page = y.page
    <3>1. "conflict" \in Codes
      BY DEF Codes
    <3> QED
      BY <1>1, <3>1, ShownIsGood
  <2>3. Here(c) => y.page # "book"
    BY <1>1, <2>1 DEF RunKeepsPage, Here
  <2> HIDE DEF x
  <2>4. TabsAreGood /\ \A d \in Run \ {c} : StaysBusy(d)
    BY <1>4, <2>1, <2>2, <2>3
  <2>5. ~Confirmation(c)
    BY <2>1 DEF Confirmation
  <2> QED
    BY <1>1, <2>1, <2>4, <2>5, OGoesOn
<1>7. ASSUME Loaded(c) PROVE OInv'
  <2> DEFINE x == IF run[c].answer = "ok" THEN [y EXCEPT !.list = run[c].data]
                                          ELSE [y EXCEPT !.error = "load"]
  <2>1. ShowIfHere(c, x) /\ Ended(c) /\ run[c].wants = "list"
    BY <1>7 DEF Loaded
  <2>2. Here(c) => GoodTab(x) /\ x.visit = y.visit /\ x.page = y.page
    BY <1>1, <2>1, ShownIsGood
  <2>3. x.busy = y.busy
    BY <1>2 DEF TabState
  <2> HIDE DEF x
  <2>4. TabsAreGood /\ (\A d \in Run \ {c} : StaysBusy(d)) /\ tab'[t].visit = y.visit
    BY <1>4, <2>1, <2>2, <2>3
  <2>5. Confirmation(c) /\ Has(c) => run[c].from < tab'[t].visit
    BY <1>1, <2>1, <2>4 DEF RunKeepsPage
  <2> QED
    BY <1>1, <2>1, <2>4, <2>5, OGoesOn
<1>8. ASSUME Changed(c) PROVE OInv'
  <2>1. run[c].op = run[c].wants /\ run[c].op \in {"cancel", "shorten"} /\ ~Confirmation(c)
    BY <1>1, <1>8 DEF Changed, GoodRun, Confirmation
  <2>2. ASSUME UNCHANGED tab, Asking(c, "list", run[c].visit) \/ Ended(c) PROVE OInv'
    <3>1. TabsAreGood /\ \A d \in Run \ {c} : StaysBusy(d)
      BY <1>1, <2>2, TabsStay DEF StaysBusy
    <3> QED
      BY <1>1, <2>1, <2>2, <3>1, OGoesOn
  <2>3. ASSUME NEW error \in {"started", "failed"},
               ShowIfHere(c, [y EXCEPT !.error = error]), Ended(c)
        PROVE  OInv'
    <3> DEFINE x == [y EXCEPT !.error = error]
    <3>1. error \in Codes \cup {"load"}
      BY DEF Codes
    <3>2. Here(c) => GoodTab(x) /\ x.visit = y.visit /\ x.page = y.page
      BY <1>1, <3>1, ShownIsGood
    <3>3. x.busy = y.busy
      BY <1>2 DEF TabState
    <3> HIDE DEF x
    <3>4. TabsAreGood /\ \A d \in Run \ {c} : StaysBusy(d)
      BY <1>4, <2>3, <3>2, <3>3 DEF x
    <3> QED
      BY <1>1, <2>1, <2>3, <3>4, OGoesOn
  <2> QED
    BY <1>8, <2>2, <2>3 DEF Changed
<1>9. ASSUME Confirmation(c), Booked(c) PROVE OInv'
  <2>1. run[c].wants = "create" /\ run[c].from <= y.visit
    BY <1>1, <1>9 DEF Booked, Place
  <2>2. CASE y.page = "mine"
    <3>1. UNCHANGED tab /\ Ended(c)
      BY <1>9, <2>2 DEF Booked
    <3>2. TabsAreGood /\ \A d \in Run \ {c} : StaysBusy(d)
      BY <1>1, <3>1, TabsStay DEF StaysBusy
    <3>3. run[c].from < tab'[t].visit
      <4>1. run[c].from # y.visit
        BY <1>1, <1>9, <2>2 DEF Place, Confirmation
      <4> QED
        BY <1>1, <1>2, <2>1, <3>1, <4>1
    <3> QED
      BY <1>1, <3>1, <3>2, <3>3, OGoesOn DEF Confirmation
  <2>3. CASE y.page # "mine"
    <3> DEFINE v == y.visit + 1
               x == NewPage("mine", v)
    <3>1. tab' = [tab EXCEPT ![t] = x] /\ Asking(c, "list", v)
      BY <1>9, <2>3 DEF Booked
    <3>2. v \in Nat /\ now \in Nat /\ v # y.visit
      BY <1>2 DEF PInv
    <3>3. GoodTab(x) /\ x.visit = v
      BY <3>2, NewPageIsGood
    <3> HIDE DEF x
    <3>4. TabsAreGood
      BY <1>1, <3>1, <3>3, TabStep DEF TabsAreGood
    <3>5. tab'[t] = x /\ \A u \in Tab \ {t} : tab'[u] = tab[u]
      BY <1>1, <3>1 DEF PInv
    <3>6. \A d \in Run : StaysBusy(d)
      BY <1>1, <3>2, <3>3, <3>5, OthersStayBusy
    <3>7. run[c].from < tab'[t].visit
      BY <1>1, <1>2, <2>1, <3>3, <3>5
    <3> HIDE DEF v
    <3> QED
      BY <1>1, <1>9, <3>1, <3>2, <3>4, <3>6, <3>7, OGoesOn DEF Confirmation
  <2> QED
    BY <2>2, <2>3
<1>10. ASSUME Confirmation(c), Conflicted(c) PROVE OInv'
  <2> DEFINE x == [y EXCEPT !.conflict = TRUE]
  <2>1. /\ ShowIfHere(c, x) /\ Asking(c, "search", run[c].visit)
        /\ run[c].wants = "create" /\ run[c].answer = "conflict"
    BY <1>10 DEF Conflicted
  <2>2. Here(c) => GoodTab(x) /\ x.visit = y.visit /\ x.page = y.page
    BY <1>1, ShownIsGood
  <2>3. x.busy = y.busy
    BY <1>2 DEF TabState
  <2> HIDE DEF x
  <2>4. /\ TabsAreGood /\ \A d \in Run \ {c} : StaysBusy(d)
        /\ tab'[t].visit = y.visit /\ tab'[t].busy = y.busy
    BY <1>4, <2>1, <2>2, <2>3
  <2>5. Active(c) /\ ~Has(c) /\ run[c].op \notin {"search", "series"}
    BY <1>1, <1>10, <2>1 DEF RunKeepsPage, Active, Confirmation
  <2> QED
    BY <1>1, <2>1, <2>4, <2>5, OGoesOn
<1>11. ASSUME Confirmation(c), Refused(c) PROVE OInv'
  <2> DEFINE x == [y EXCEPT !.busy = FALSE, !.error = run[c].answer]
  <2>1. /\ ShowIfHere(c, x) /\ Ended(c)
        /\ run[c].wants = "create" /\ run[c].answer # "ok"
    BY <1>11 DEF Refused
  <2>2. Here(c) => GoodTab(x) /\ x.visit = y.visit /\ x.page = y.page
    BY <1>1, ShownIsGood
  <2> HIDE DEF x
  <2>3. Active(c) /\ ~Has(c)
    BY <1>1, <1>11, <2>1 DEF RunKeepsPage, Active
  <2>4. TabsAreGood /\ \A d \in Run \ {c} : StaysBusy(d)
    BY <1>4, <2>1, <2>2, <2>3
  <2> QED
    BY <1>1, <2>1, <2>3, <2>4, OGoesOn
<1>12. ASSUME Confirmation(c), Rechecked(c) PROVE OInv'
  <2> DEFINE idle == [y EXCEPT !.busy = FALSE]
             x == IF run[c].answer = "ok" THEN [idle EXCEPT !.rooms = run[c].data]
                                          ELSE idle
  <2>1. ShowIfHere(c, x) /\ Ended(c) /\ run[c].wants = "search"
    BY <1>12 DEF Rechecked
  <2>2. Here(c) => GoodTab(x) /\ x.visit = y.visit /\ x.page = y.page
    BY <1>1, <1>12, <2>1, ShownIsGood DEF Confirmation
  <2> HIDE DEF x
  <2>3. Active(c) /\ ~Has(c)
    BY <1>1, <1>12, <2>1 DEF RunKeepsPage, Active
  <2>4. TabsAreGood /\ \A d \in Run \ {c} : StaysBusy(d)
    BY <1>4, <2>1, <2>2, <2>3
  <2> QED
    BY <1>1, <2>1, <2>3, <2>4, OGoesOn
<1> QED
  BY <1>5, <1>6, <1>7, <1>8, <1>9, <1>10, <1>11, <1>12 DEF Receive, Confirmation

LEMMA NextOInv == PInv /\ OInv /\ [Next]_vars => OInv'
<1> SUFFICES ASSUME PInv, OInv, [Next]_vars, lost' = 0 PROVE OInv'
  BY DEF OInv
<1>1. lost = 0
  <2>1. lost \in Nat
    BY DEF PInv
  <2>2. lost' = lost \/ lost' = lost + 1
    BY VisitTabs, SubmitsSomething
    DEF Next, vars, Submits, Serve, Lose, Receive, Tick, TheyBook, TheyCancel
  <2> QED
    BY <2>1, <2>2
<1>2. ASSUME NEW t \in Tab, Visit(t) \/ Submit(t) PROVE OInv'
  BY <1>1, <1>2, OVisitStep, OSubmitStep
<1>3. ASSUME NEW c \in Run, Serve(c) \/ Receive(c) PROVE OInv'
  BY <1>1, <1>3, OServeStep, OReceiveStep
<1>4. ASSUME NEW c \in Run, Lose(c) PROVE OInv'
  <2>1. lost' = lost + 1
    BY <1>4 DEF Lose
  <2> QED
    BY <1>1, <2>1
<1>5. CASE Tick \/ UNCHANGED vars
  <2>1. UNCHANGED <<ledger, tab, run>>
    BY <1>5 DEF Tick, vars
  <2> QED
    BY <1>1, <2>1, OBookingStep DEF Has
<1>6. ASSUME NEW o \in Other, NEW m \in Room, NEW w \in Windows, NEW k \in Weeks,
             TheyBook(o, m, w, k)
      PROVE  OInv'
  <2>1. UNCHANGED <<tab, run>> /\ ledger' = Entered(o, [j \in {0} |-> Occurrence(They, m, w, k)])
    BY <1>6 DEF TheyBook
  <2>2. \A c \in Run : c # o
    BY RunAssumption
  <2>3. \A c \in Run : Has(c)' <=> Has(c)
    BY <2>1, <2>2, FirstId DEF Entered, Has
  <2> QED
    BY <1>1, <2>1, <2>3, OBookingStep
<1>7. ASSUME NEW d \in BookingId, TheyCancel(d) PROVE OInv'
  <2>1. UNCHANGED <<tab, run>> /\ Changes(d) /\ Confirmed(ledger[d])
    BY <1>7 DEF TheyCancel, Changes, Cancelled
  <2>2. ledger[d] \in Row /\ NonEmpty(ledger[d])
    <3>1. ledger[d] \in Row \cup {NoRow} /\ RowOK(d)
      BY DEF PInv, Table
    <3> QED
      BY <2>1, <3>1 DEF RowOK, Confirmed
  <2> HIDE DEF Row
  <2>3. \A c \in Run : Has(c)' <=> Has(c)
    BY <2>1, <2>2, ChangeKeepsRows
  <2> QED
    BY <1>1, <2>1, <2>3, OBookingStep
<1> QED
  BY <1>2, <1>3, <1>4, <1>5, <1>6, <1>7 DEF Next

\* As long as no request fails, a visit of the booking page books at most once,
\* whatever the user does in how many tabs.
THEOREM VisitsBookOnce == Spec => []OneBookingPerVisit
<1>1. PInv /\ OInv => OneBookingPerVisit
  BY DEF OInv, OneLive, SameVisit, Confirmation, Has, OneBookingPerVisit
<1> QED
  BY <1>1, PInvariance, InitPInv, InitOInv, NextPInv, NextOInv, PTL DEF Spec

-----------------------------------------------------------------------------
(* Lists that keep up: the invariant *)

Used(c) == run[c].op # "none"
IsChange(c) == run[c].op \in {"cancel", "shorten"}

\* The bookings in list show what c has changed.
Shows(list, c) ==
  /\ run[c].op = "cancel" => list[run[c].ask.target].status = "CANCELLED"
  /\ run[c].op = "shorten" => list[run[c].ask.target].end <= run[c].ask.end

\* Both belong to the component that a tab has mounted.
Beside(c, d) ==
  Used(c) /\ Used(d) /\ run[c].tab = run[d].tab /\ Here(c) /\ Here(d)

AllAlone(t) == \A c \in Run : Used(c) /\ run[c].tab = t /\ Here(c) => run[c].alone

\* Bookings are changed, and lists loaded, from the page that lists them.
AtHome(c) ==
  LET p == tab[run[c].tab].page IN
  Used(c) /\ Here(c) =>
    /\ IsChange(c) \/ run[c].op = "load" \/ run[c].wants = "list" => p = "mine"
    /\ run[c].op = "search" => p = "search"

\* Of two runs that are under way neither is alone.
AloneOK ==
  \A c, d \in Run : c # d /\ Beside(c, d) /\ InFlight(c) /\ InFlight(d) => ~run[c].alone

\* What was answered well is in the ledger, and stays there.
DoneOK ==
  \A c \in Run : IsChange(c) /\ (run[c].wants = "list" \/ run[c].answer = "ok")
                 => Shows(ledger, c)

\* A list that was read shows what had been answered before.
ReadOK ==
  \A c, d \in Run :
    ( /\ Beside(c, d) /\ run[c].wants = "list" /\ run[c].answer = "ok" /\ run[c].alone
      /\ IsChange(d) /\ run[d].answer = "ok" /\ (d = c \/ ~InFlight(d)) )
    => Shows(run[c].data, d)

\* So does the list on the page.
ListOK ==
  \A t \in Tab : tab[t].list # Nothing /\ AllAlone(t) =>
    \A d \in Run : /\ IsChange(d) /\ run[d].tab = t /\ Here(d)
                   /\ ~InFlight(d) /\ run[d].answer = "ok"
                   => Shows(tab[t].list, d)

\* The confirmations that have taken t to the list of bookings.
Jumped(t) ==
  {c \in Run : run[c].op = "confirm" /\ run[c].tab = t /\ run[c].visit # run[c].from}

\* Rooms and bookings are listed where they belong; a tab visits no more than
\* the bound allows but where a confirmation takes it.
PageOK(t) ==
  /\ tab[t].rooms # Nothing => tab[t].page \in {"search", "book"}
  /\ tab[t].list # Nothing => tab[t].page = "mine"
  /\ tab[t].seen <= now
  /\ 1 <= tab[t].visit /\ tab[t].visit <= MaxVisits + Cardinality(Jumped(t))

KInv ==
  /\ \A c \in Run : AtHome(c)
  /\ \A t \in Tab : PageOK(t)
  /\ AloneOK /\ DoneOK /\ ReadOK /\ ListOK

-----------------------------------------------------------------------------
(* What a step does *)

\* The ledger keeps what the user has changed.
LedgerKeeps ==
  \A b \in BookingId : Own(b) =>
    /\ Own(b)'
    /\ ledger[b].status = "CANCELLED" => ledger'[b].status = "CANCELLED"
    /\ ledger[b].end \in Nat /\ ledger'[b].end \in Nat /\ ledger'[b].end <= ledger[b].end

\* The component stays, and shows at most what a run of its own has found.
Stays(t) ==
  /\ tab'[t].visit = tab[t].visit /\ tab'[t].page = tab[t].page
  /\ tab'[t].seen \in {tab[t].seen, now}
  /\ \/ tab'[t].rooms = tab[t].rooms
     \/ \E c \in Run : /\ run[c].op \in {"search", "confirm"} /\ run[c].tab = t /\ Here(c)
                       /\ run[c].wants = "search"
  /\ \/ tab'[t].list = tab[t].list
     \/ \E c \in Run : /\ Used(c) /\ run[c].tab = t /\ Here(c)
                       /\ run[c].wants = "list" /\ run[c].answer = "ok"
                       /\ tab'[t].list = run[c].data

\* Or it makes way for another: the user goes there, or a booking does.
Leaves(t) ==
  /\ tab'[t].visit = tab[t].visit + 1
  /\ tab'[t].rooms = Nothing /\ tab'[t].list = Nothing /\ tab'[t].seen \in {0, now}
  /\ \/ tab[t].visit < MaxVisits
     \/ \E c \in Run : /\ run[c].op = "confirm" /\ run[c].tab = t /\ run[c].wants = "create"
                       /\ run'[c].visit = tab'[t].visit

\* No other run begins or goes to another visit.
OthersWait(c) ==
  \A d \in Run \ {c} : run'[d].visit = run[d].visit /\ (Used(d)' => Used(d))

\* c follows its booking to the list.
Jumps(c) ==
  LET t == run[c].tab IN
  /\ OthersWait(c)
  /\ run'[c].visit = tab[t].visit + 1 /\ tab'[t].visit = tab[t].visit + 1
  /\ tab'[t].page = "mine"
  /\ run[c].op = "confirm" /\ run'[c].wants = "list" /\ run'[c].answer = "none"

GoesOn(c) == Used(c) =>
  /\ run'[c].op = run[c].op /\ run'[c].tab = run[c].tab /\ run'[c].ask = run[c].ask
  /\ run'[c].from = run[c].from
  /\ run'[c].alone => run[c].alone
  /\ run'[c].wants # "none" => run[c].wants # "none"
  /\ run[c].wants = "none" => run'[c].answer = run[c].answer
  /\ run'[c].visit = run[c].visit \/ Jumps(c)
  /\ run'[c].wants = "list" => run[c].wants = "list" \/ IsChange(c) \/ Jumps(c)
  /\ run'[c].wants = "list" /\ run'[c].answer = "ok" =>
       \/ run[c].wants = "list" /\ run[c].answer = "ok" /\ run'[c].data = run[c].data
       \/ run'[c].data = Mine'
  /\ IsChange(c) =>
       /\ run'[c].wants = "list" \/ run'[c].answer = "ok" =>
            run[c].wants = "list" \/ run[c].answer = "ok" \/ Shows(ledger, c)'
       /\ run'[c].answer = "ok" /\ run'[c].wants = "none" /\ Here(c) =>
            \/ run[c].answer = "ok" /\ run[c].wants = "none"
            \/ /\ run[c].answer = "ok" /\ run[c].wants = "list"
               /\ tab'[run[c].tab].list = run[c].data

Enters(c) == ~Used(c) /\ Used(c)' =>
  LET t == run'[c].tab IN
  /\ t \in Tab /\ run'[c].visit = tab'[t].visit /\ run'[c].visit = run'[c].from
  /\ run'[c].answer = "none" /\ (run'[c].wants = "list" => run'[c].op = "load")
  /\ run'[c].op = "search" => tab'[t].page = "search"
  /\ run'[c].op \in {"cancel", "shorten", "load"} => tab'[t].page = "mine"
  /\ OthersWait(c)
  /\ \A d \in Run \ {c} :
       Used(d) /\ run[d].tab = t /\ InFlight(d) /\ run[d].visit = run'[c].visit =>
         ~run'[c].alone /\ ~run'[d].alone

Steps ==
  /\ now' \in {now, now + 1} /\ LedgerKeeps
  /\ \A t \in Tab : Stays(t) \/ Leaves(t)
  /\ \A c \in Run : GoesOn(c) /\ Enters(c)

-----------------------------------------------------------------------------
(* Such a step keeps the invariant *)

\* What a run that belongs to the page then did before.
LEMMA WasHere ==
  ASSUME PInv, PInv', Steps, NEW c \in Run, Used(c), Here(c)', run'[c].visit = run[c].visit
  PROVE  /\ Here(c) /\ run[c].tab \in Tab /\ run'[c].tab = run[c].tab
         /\ tab'[run[c].tab].visit = tab[run[c].tab].visit
         /\ Stays(run[c].tab)
<1>1. run[c].tab \in Tab /\ run[c].visit <= tab[run[c].tab].visit /\ run[c].visit \in Nat
  BY DEF PInv, GoodRun, Place, Used, RunState
<1>2. tab[run[c].tab].visit \in Nat
  BY <1>1 DEF PInv, TabState
<1>3. run'[c].tab = run[c].tab /\ (Stays(run[c].tab) \/ Leaves(run[c].tab))
  BY <1>1 DEF Steps, GoesOn
<1>4. run[c].visit = tab'[run[c].tab].visit
  BY <1>3 DEF Here
<1>5. ~Leaves(run[c].tab)
  BY <1>1, <1>2, <1>4 DEF Leaves
<1> QED
  BY <1>1, <1>3, <1>4, <1>5 DEF Stays, Here

LEMMA KAtHome ==
  ASSUME PInv, PInv', KInv, Steps, NEW c \in Run
  PROVE  AtHome(c)'
<1> SUFFICES ASSUME Used(c)', Here(c)' PROVE AtHome(c)'
  BY DEF AtHome
<1>1. GoesOn(c) /\ Enters(c) /\ AtHome(c)
  BY DEF Steps, KInv
<1>2. CASE ~Used(c)
  BY <1>1, <1>2 DEF Enters, AtHome, IsChange
<1>3. CASE Used(c) /\ run'[c].visit = run[c].visit
  <2>1. /\ Here(c) /\ run'[c].tab = run[c].tab /\ Stays(run[c].tab)
    BY <1>3, WasHere
  <2>2. tab'[run'[c].tab].page = tab[run[c].tab].page
    BY <2>1 DEF Stays
  <2>3. run'[c].op = run[c].op
    BY <1>1, <1>3 DEF GoesOn
  <2>4. run'[c].wants = "list" => run[c].wants = "list" \/ IsChange(c) \/ Jumps(c)
    BY <1>1, <1>3 DEF GoesOn
  <2>5. Jumps(c) => tab'[run'[c].tab].page = "mine"
    BY <2>1 DEF Jumps
  <2>6. Jumps(c) => run[c].op = "confirm"
    BY DEF Jumps
  <2> QED
    BY <1>1, <1>3, <2>1, <2>2, <2>3, <2>4, <2>5, <2>6 DEF AtHome, IsChange
<1>4. CASE Used(c) /\ Jumps(c)
  <2>1. run'[c].op = "confirm" /\ tab'[run'[c].tab].page = "mine"
    BY <1>1, <1>4 DEF Jumps, GoesOn
  <2> QED
    BY <2>1 DEF AtHome, IsChange
<1> QED
  BY <1>1, <1>2, <1>3, <1>4 DEF GoesOn

LEMMA KAlone ==
  ASSUME PInv, PInv', KInv, Steps
  PROVE  AloneOK'
<1> SUFFICES ASSUME NEW c \in Run, NEW d \in Run, c # d, Beside(c, d)', InFlight(c)', InFlight(d)'
             PROVE  ~run'[c].alone
  BY DEF AloneOK
<1>1. GoesOn(c) /\ GoesOn(d) /\ Enters(c) /\ Enters(d) /\ Place(c)' /\ Place(d)'
  BY DEF Steps, PInv
<1> DEFINE t == run'[c].tab
<1>2. run'[d].tab = t /\ run'[c].visit = tab'[t].visit /\ run'[d].visit = tab'[t].visit
      /\ Used(c)' /\ Used(d)'
  BY DEF Beside, Here
<1>3. ASSUME NEW e \in Run, Used(e) PROVE run[e].tab \in Tab /\ run[e].visit \in Nat
        /\ tab[run[e].tab].visit \in Nat /\ run[e].visit <= tab[run[e].tab].visit
  <2>1. run[e].tab \in Tab /\ run[e].visit <= tab[run[e].tab].visit /\ run[e].visit \in Nat
    BY <1>3 DEF PInv, GoodRun, Place, Used, RunState
  <2> QED
    BY <2>1 DEF PInv, TabState
<1>4. CASE Used(c) /\ Used(d) /\ run'[c].visit = run[c].visit /\ run'[d].visit = run[d].visit
  <2>1. Here(c) /\ Here(d) /\ run[c].tab = run'[c].tab /\ run[d].tab = run'[d].tab
    BY <1>2, <1>4, WasHere DEF Beside
  <2>2. Beside(c, d)
    BY <1>2, <1>4, <2>1 DEF Beside
  <2>3. InFlight(c) /\ InFlight(d) /\ (run'[c].alone => run[c].alone)
    BY <1>1, <1>4 DEF GoesOn, InFlight
  <2> QED
    BY <2>2, <2>3 DEF KInv, AloneOK
<1>5. ASSUME NEW e \in {c, d}, NEW f \in {c, d}, e # f, Used(e), Jumps(e)
      PROVE  FALSE
  <2>1. Used(f) /\ run'[f].visit = run[f].visit
    BY <1>2, <1>5 DEF Jumps, OthersWait
  <2>2. run'[e].tab = run[e].tab /\ run'[f].tab = run[f].tab
    BY <1>1, <1>5, <2>1 DEF GoesOn
  <2>3. run[f].visit = tab[run[f].tab].visit + 1
    BY <1>2, <1>5, <2>1, <2>2 DEF Jumps
  <2> QED
    BY <1>3, <2>1, <2>3
<1>6. ASSUME NEW e \in {c, d}, NEW f \in {c, d}, e # f, ~Used(e)
      PROVE  ~run'[c].alone
  <2>1. Enters(e) /\ Used(e)' /\ Used(f)' /\ InFlight(f)'
    BY <1>1, <1>2, <1>6
  <2>2. Used(f) /\ run'[f].visit = run[f].visit
    BY <1>6, <2>1 DEF Enters, OthersWait
  <2>3. run[f].tab = t /\ InFlight(f) /\ run[f].visit = run'[e].visit
    BY <1>1, <1>2, <1>6, <2>1, <2>2 DEF GoesOn, InFlight
  <2>4. ~run'[e].alone /\ ~run'[f].alone
    BY <1>2, <1>6, <2>1, <2>2, <2>3 DEF Enters
  <2> QED
    BY <1>6, <2>4
<1> QED
  BY <1>1, <1>4, <1>5, <1>6 DEF GoesOn

LEMMA KDone ==
  ASSUME PInv, PInv', KInv, Steps
  PROVE  DoneOK'
<1> SUFFICES ASSUME NEW c \in Run, IsChange(c)', run'[c].wants = "list" \/ run'[c].answer = "ok"
             PROVE  Shows(ledger, c)'
  BY DEF DoneOK
<1>1. GoesOn(c) /\ Enters(c) /\ GoodRun(run[c])
  BY DEF Steps, PInv
<1>2. Used(c)
  BY <1>1 DEF Enters, IsChange, Used
<1>3. run'[c].op = run[c].op /\ run'[c].ask = run[c].ask /\ IsChange(c)
  BY <1>1, <1>2 DEF GoesOn, IsChange
<1>4. CASE Shows(ledger, c)
  <2>1. run[c].ask.target \in BookingId /\ Own(run[c].ask.target)
    BY <1>1, <1>3 DEF GoodRun, IsChange, ToCancel, ToShorten
  <2>2. run[c].op = "shorten" => run[c].ask.end \in Nat
    BY <1>1, CalendarAssumption DEF GoodRun, ToShorten
  <2> DEFINE b == run[c].ask.target
  <2>3. /\ ledger[b].status = "CANCELLED" => ledger'[b].status = "CANCELLED"
        /\ ledger[b].end \in Nat /\ ledger'[b].end \in Nat /\ ledger'[b].end <= ledger[b].end
    BY <2>1 DEF Steps, LedgerKeeps
  <2>4. run'[c].ask.target = b /\ run'[c].ask.end = run[c].ask.end
    BY <1>3
  <2> HIDE DEF b
  <2>5. run[c].op = "cancel" => ledger'[b].status = "CANCELLED"
    BY <1>4, <2>3 DEF Shows, b
  <2>6. run[c].op = "shorten" => ledger'[b].end <= run[c].ask.end
    BY <1>4, <2>2, <2>3 DEF Shows, b
  <2> QED
    BY <1>3, <2>4, <2>5, <2>6 DEF Shows
<1>5. run[c].wants = "list" \/ run[c].answer = "ok" => Shows(ledger, c)
  BY <1>3 DEF KInv, DoneOK
<1> QED
  BY <1>1, <1>2, <1>3, <1>4, <1>5 DEF GoesOn

\* The list that is read now shows what has been answered.
MineKeepsUp ==
  \A d \in Run : IsChange(d) /\ (run[d].wants = "list" \/ run[d].answer = "ok")
                 => Shows(Mine, d)

LEMMA MineShows == PInv /\ DoneOK => MineKeepsUp
<1> SUFFICES ASSUME PInv, DoneOK, NEW d \in Run, IsChange(d),
                    run[d].wants = "list" \/ run[d].answer = "ok"
             PROVE  Shows(Mine, d)
  BY DEF MineKeepsUp
<1>1. GoodRun(run[d]) /\ Shows(ledger, d)
  BY DEF PInv, DoneOK
<1>2. run[d].ask.target \in BookingId /\ Own(run[d].ask.target)
  BY <1>1 DEF GoodRun, IsChange, ToCancel, ToShorten
<1>3. Mine[run[d].ask.target] = ledger[run[d].ask.target]
  BY <1>2 DEF Mine, Own
<1> QED
  BY <1>1, <1>3 DEF Shows

LEMMA MineShowsNext == (PInv /\ DoneOK)' => MineKeepsUp'
BY MineShows, PTL

LEMMA KRead ==
  ASSUME PInv, PInv', KInv, Steps
  PROVE  ReadOK'
<1> SUFFICES ASSUME NEW c \in Run, NEW d \in Run,
                    Beside(c, d)', run'[c].wants = "list", run'[c].answer = "ok", run'[c].alone,
                    IsChange(d)', run'[d].answer = "ok", d = c \/ ~InFlight(d)'
             PROVE  Shows(run[c].data, d)'
  BY DEF ReadOK
<1>1. GoesOn(c) /\ GoesOn(d) /\ Enters(c) /\ Enters(d)
  BY DEF Steps
<1>2. Used(c) /\ Used(d)
  BY <1>1 DEF Enters, Beside
<1>3. /\ run'[c].tab = run[c].tab /\ run'[d].tab = run[d].tab
      /\ run'[d].op = run[d].op /\ run'[d].ask = run[d].ask /\ IsChange(d) /\ run[c].alone
  BY <1>1, <1>2 DEF GoesOn, IsChange
<1>4. run'[c].visit = run[c].visit /\ run'[d].visit = run[d].visit
  BY <1>1, <1>2, <1>3 DEF GoesOn, Jumps, IsChange
<1>5. Beside(c, d)
  BY <1>2, <1>3, <1>4, WasHere DEF Beside
<1>6. CASE run'[c].data = Mine'
  <2>1. DoneOK'
    BY KDone
  <2>2. Shows(Mine, d)'
    BY <2>1, MineShowsNext DEF MineKeepsUp
  <2> QED
    BY <1>6, <2>2 DEF Shows
<1>7. CASE run[c].wants = "list" /\ run[c].answer = "ok" /\ run'[c].data = run[c].data
  <2>1. d = c \/ ~InFlight(d)
    BY <1>2, <1>5, <1>3, <1>7 DEF KInv, AloneOK, InFlight
  <2>2. run[d].answer = "ok"
    BY <1>1, <1>2, <1>7, <2>1 DEF GoesOn, InFlight
  <2>3. Shows(run[c].data, d)
    BY <1>3, <1>5, <1>7, <2>1, <2>2 DEF KInv, ReadOK
  <2> QED
    BY <1>3, <1>7, <2>3 DEF Shows
<1> QED
  BY <1>1, <1>2, <1>6, <1>7 DEF GoesOn

LEMMA KList ==
  ASSUME PInv, PInv', KInv, Steps
  PROVE  ListOK'
<1> SUFFICES ASSUME NEW t \in Tab, tab'[t].list # Nothing, AllAlone(t)', NEW d \in Run,
                    IsChange(d)', run'[d].tab = t, Here(d)', ~InFlight(d)', run'[d].answer = "ok"
             PROVE  Shows(tab[t].list, d)'
  BY DEF ListOK
<1>1. GoesOn(d) /\ Enters(d) /\ (Stays(t) \/ Leaves(t))
  BY DEF Steps
<1>2. Used(d)
  BY <1>1 DEF Enters, IsChange, Used
<1>3. /\ run[d].tab = t /\ run'[d].op = run[d].op /\ run'[d].ask = run[d].ask
      /\ IsChange(d) /\ run'[d].visit = run[d].visit
  BY <1>1, <1>2 DEF GoesOn, IsChange, Jumps
<1>4. Here(d) /\ Stays(t) /\ tab'[t].visit = tab[t].visit
  BY <1>2, <1>3, WasHere
<1>5. ASSUME NEW c \in Run, Used(c), run[c].tab = t, Here(c) PROVE run[c].alone
  <2>1. GoesOn(c)
    BY DEF Steps
  <2>2. run'[c].tab = t /\ Used(c)'
    BY <1>5, <2>1 DEF GoesOn, Used
  <2>3. run'[c].visit = run[c].visit
    <3>1. tab[t].visit \in Nat
      BY DEF PInv, TabState
    <3> QED
      BY <1>4, <1>5, <2>1, <3>1 DEF GoesOn, Jumps
  <2>4. Here(c)'
    BY <1>4, <1>5, <2>2, <2>3 DEF Here
  <2>5. run'[c].alone
    BY <2>2, <2>4 DEF AllAlone
  <2> QED
    BY <1>5, <2>1, <2>5 DEF GoesOn
<1>6. AllAlone(t)
  BY <1>5 DEF AllAlone
<1>7. CASE \E c \in Run : /\ Used(c) /\ run[c].tab = t /\ Here(c)
                         /\ run[c].wants = "list" /\ run[c].answer = "ok"
                         /\ tab'[t].list = run[c].data
  <2>1. PICK c \in Run : /\ Used(c) /\ run[c].tab = t /\ Here(c)
                         /\ run[c].wants = "list" /\ run[c].answer = "ok"
                         /\ tab'[t].list = run[c].data
    BY <1>7
  <2>2. Beside(c, d) /\ run[c].alone /\ InFlight(c)
    BY <1>2, <1>3, <1>4, <1>5, <2>1 DEF Beside, InFlight
  <2>3. d = c \/ ~InFlight(d)
    BY <2>2 DEF KInv, AloneOK
  <2>4. run[d].answer = "ok"
    BY <1>1, <1>2, <2>1, <2>3 DEF GoesOn, InFlight
  <2>5. Shows(run[c].data, d)
    BY <1>3, <2>1, <2>2, <2>3, <2>4 DEF KInv, ReadOK
  <2> QED
    BY <1>3, <2>1, <2>5 DEF Shows
<1>8. CASE tab'[t].list = tab[t].list
  <2>1. CASE run[d].answer = "ok" /\ run[d].wants = "none"
    <3>1. Shows(tab[t].list, d)
      BY <1>3, <1>4, <1>6, <1>8, <2>1 DEF KInv, ListOK, InFlight
    <3> QED
      BY <1>3, <1>8, <3>1 DEF Shows
  <2>2. CASE /\ run[d].answer = "ok" /\ run[d].wants = "list"
             /\ tab'[run[d].tab].list = run[d].data
    BY <1>2, <1>3, <1>4, <1>7, <2>2
  <2> QED
    BY <1>1, <1>2, <1>3, <1>4, <2>1, <2>2 DEF GoesOn, InFlight
<1> QED
  BY <1>4, <1>7, <1>8 DEF Stays
LEMMA JumpedType ==
  ASSUME NEW t \in Tab
  PROVE  IsFiniteSet(Jumped(t)) /\ Cardinality(Jumped(t)) \in Nat
<1>1. IsFiniteSet(Jumped(t))
  BY RunAssumption, FS_Subset DEF Jumped
<1> QED
  BY <1>1, FS_CardinalityType

LEMMA JumpedTypeNext ==
  ASSUME NEW t \in Tab
  PROVE  IsFiniteSet(Jumped(t)') /\ Cardinality(Jumped(t)') \in Nat
<1>1. IsFiniteSet(Jumped(t)')
  BY RunAssumption, FS_Subset DEF Jumped
<1> QED
  BY <1>1, FS_CardinalityType

\* A confirmation that has jumped once stays where it is counted.
LEMMA JumpedStay ==
  ASSUME PInv, Steps, NEW t \in Tab
  PROVE  Jumped(t) \subseteq Jumped(t)'
<1> SUFFICES ASSUME NEW c \in Jumped(t) PROVE c \in Jumped(t)'
  OBVIOUS
<1>1. /\ c \in Run /\ Used(c) /\ run[c].tab = t /\ run[c].op = "confirm"
      /\ run[c].visit # run[c].from
  BY DEF Jumped, Used
<1>2. GoesOn(c)
  BY <1>1 DEF Steps
<1>3. run'[c].op = "confirm" /\ run'[c].tab = t /\ run'[c].from = run[c].from
  BY <1>1, <1>2 DEF GoesOn
<1>4. run[c].from \in Nat /\ tab[t].visit \in Nat /\ run[c].from <= tab[t].visit
  BY <1>1 DEF PInv, RunState, TabState, Place, Used
<1>5. run'[c].visit # run[c].from
  BY <1>1, <1>2, <1>4 DEF GoesOn, Jumps
<1> QED
  BY <1>1, <1>3, <1>5 DEF Jumped

LEMMA KPage ==
  ASSUME PInv, PInv', KInv, Steps, NEW t \in Tab
  PROVE  PageOK(t)'
<1> DEFINE n == Cardinality(Jumped(t))
<1>1. /\ tab[t].visit \in Nat /\ tab'[t].visit \in Nat /\ tab[t].seen \in Nat
      /\ tab'[t].seen \in Nat /\ now \in Nat /\ now' \in Nat /\ MaxVisits \in Nat
  BY VisitsAssumption DEF PInv, TabState
<1>2. PageOK(t) /\ (Stays(t) \/ Leaves(t)) /\ now <= now'
  BY <1>1 DEF KInv, Steps
<1>3. n \in Nat /\ Cardinality(Jumped(t)') \in Nat /\ n <= Cardinality(Jumped(t)')
  BY JumpedType, JumpedTypeNext, JumpedStay, FS_Subset
<1>4. CASE Stays(t)
  <2>1. tab'[t].seen <= now'
    BY <1>1, <1>2, <1>4 DEF Stays, PageOK
  <2>2. 1 <= tab'[t].visit /\ tab'[t].visit <= MaxVisits + Cardinality(Jumped(t)')
    BY <1>1, <1>2, <1>3, <1>4 DEF Stays, PageOK
  <2>3. tab'[t].list # Nothing => tab'[t].page = "mine"
    <3>1. ASSUME NEW c \in Run, Used(c), run[c].tab = t, Here(c), run[c].wants = "list"
          PROVE  tab[t].page = "mine"
      BY <3>1 DEF KInv, AtHome
    <3> QED
      BY <1>2, <1>4, <3>1 DEF Stays, PageOK
  <2>4. tab'[t].rooms # Nothing => tab'[t].page \in {"search", "book"}
    <3>1. ASSUME NEW c \in Run, run[c].op = "search", run[c].tab = t, Here(c)
          PROVE  tab[t].page = "search"
      BY <3>1 DEF KInv, AtHome, Used
    <3>2. ASSUME NEW c \in Run, run[c].op = "confirm", run[c].tab = t, Here(c),
                 run[c].wants = "search"
          PROVE  tab[t].page = "book"
      BY <3>2 DEF PInv, Place, Here
    <3> QED
      BY <1>2, <1>4, <3>1, <3>2 DEF Stays, PageOK
  <2> QED
    BY <2>1, <2>2, <2>3, <2>4 DEF PageOK
<1>5. CASE Leaves(t)
  <2>1. tab'[t].visit = tab[t].visit + 1
    BY <1>5 DEF Leaves
  <2>2. CASE tab[t].visit < MaxVisits
    BY <1>1, <1>2, <1>3, <1>5, <2>1, <2>2 DEF Leaves, PageOK
  <2>3. CASE \E c \in Run : /\ run[c].op = "confirm" /\ run[c].tab = t /\ run[c].wants = "create"
                           /\ run'[c].visit = tab'[t].visit
    <3>1. PICK c \in Run : /\ run[c].op = "confirm" /\ run[c].tab = t /\ run[c].wants = "create"
                           /\ run'[c].visit = tab'[t].visit
      BY <2>3
    <3>2. Place(c) /\ GoesOn(c) /\ Used(c) /\ run[c].from \in Nat
      BY <3>1 DEF PInv, Steps, Used, RunState
    <3>3. run[c].visit = run[c].from /\ run[c].from <= tab[t].visit
      BY <3>1, <3>2 DEF Place
    <3>4. c \notin Jumped(t)
      BY <3>3 DEF Jumped
    <3>5. run'[c].op = "confirm" /\ run'[c].tab = t /\ run'[c].visit # run'[c].from
      BY <1>1, <2>1, <3>1, <3>2, <3>3 DEF GoesOn
    <3>6. c \in Jumped(t)'
      BY <3>5 DEF Jumped
    <3>7. Cardinality(Jumped(t) \cup {c}) = n + 1
      BY <3>4, JumpedType, FS_AddElement
    <3>8. Jumped(t) \cup {c} \subseteq Jumped(t)'
      BY <3>6, JumpedStay
    <3>9. n + 1 <= Cardinality(Jumped(t)')
      BY <3>7, <3>8, JumpedTypeNext, FS_Subset
    <3> HIDE DEF n
    <3>10. tab[t].visit <= MaxVisits + n /\ 1 <= tab[t].visit
      BY <1>2 DEF PageOK, n
    <3>11. 1 <= tab'[t].visit /\ tab'[t].visit <= MaxVisits + Cardinality(Jumped(t)')
      BY <1>1, <1>3, <2>1, <3>9, <3>10
    <3> QED
      BY <1>1, <1>2, <1>5, <3>11 DEF Leaves, PageOK
  <2> QED
    BY <1>5, <2>2, <2>3 DEF Leaves
<1> QED
  BY <1>2, <1>4, <1>5

LEMMA KFrame ==
  ASSUME PInv, PInv', KInv, Steps
  PROVE  KInv'
<1>1. \A c \in Run : AtHome(c)'
  BY KAtHome
<1>2. \A t \in Tab : PageOK(t)'
  BY KPage
<1> QED
  BY <1>1, <1>2, KAlone, KDone, KRead, KList DEF KInv

LEMMA InitKInv == Init => KInv
<1> SUFFICES ASSUME Init PROVE KInv
  OBVIOUS
<1>1. now = 0 /\ \A c \in Run : run[c] = Unused
  BY DEF Init
<1>2. \A c \in Run : ~Used(c) /\ ~InFlight(c) /\ ~IsChange(c)
                     /\ run[c].wants = "none" /\ run[c].op = "none"
  BY <1>1 DEF Unused, Used, InFlight, IsChange
<1>3. ASSUME NEW t \in Tab PROVE PageOK(t)
  <2>1. Cardinality(Jumped(t)) \in Nat /\ MaxVisits \in Nat \ {0}
    BY JumpedType, VisitsAssumption
  <2>2. tab[t] \in {NewPage("search", 1)}
                  \cup {BookingPage(m, w, 1) : m \in Room, w \in Windows}
    BY DEF Init
  <2> DEFINE First(x) == x.visit = 1 /\ x.seen = 0 /\ x.rooms = Nothing /\ x.list = Nothing
  <2>3. First(NewPage("search", 1))
    BY DEF NewPage
  <2>4. ASSUME NEW m \in Room, NEW w \in Windows PROVE First(BookingPage(m, w, 1))
    BY DEF NewPage, BookingPage
  <2>5. First(tab[t])
    BY <2>2, <2>3, <2>4
  <2> QED
    BY <1>1, <2>1, <2>5 DEF PageOK
<1> QED
  BY <1>2, <1>3 DEF KInv, AtHome, AloneOK, DoneOK, ReadOK, ListOK, Beside
-----------------------------------------------------------------------------
(* What a step does to the runs *)

RunsGoOn == \A c \in Run : GoesOn(c) /\ Enters(c)

\* A run that nothing happens to.
LEMMA Waits ==
  ASSUME NEW c \in Run, run'[c] = run[c]
  PROVE  GoesOn(c) /\ Enters(c)
BY DEF GoesOn, Enters, Used

LEMMA RunsWait ==
  ASSUME UNCHANGED run
  PROVE  RunsGoOn
BY Waits DEF RunsGoOn

LEMMA StartGoesOn ==
  ASSUME PInv, NEW t \in Tab, NEW v \in Nat, NEW op, NEW wants, NEW ask,
         Start(t, v, op, wants, ask), Begins(op, wants, ask),
         v = tab[t].visit \/ v = tab[t].visit + 1, tab'[t].visit = v,
         op = "search" => tab'[t].page = "search",
         op \in {"cancel", "shorten", "load"} => tab'[t].page = "mine"
  PROVE  RunsGoOn
<1> DEFINE n == FreeRun
<1>1. n \in Run /\ run[n].op = "none"
  BY DEF Start, FreeRun, Free
<1> HIDE DEF n
<1>2. run' = [c \in Run |->
       IF c = n
       THEN [op |-> op, tab |-> t, visit |-> v, from |-> v, ask |-> ask, wants |-> wants,
             answer |-> "none", data |-> Nothing,
             alone |-> v # tab[t].visit \/ Pending(t) = {}]
       ELSE IF c \in Pending(t) THEN [run[c] EXCEPT !.alone = FALSE] ELSE run[c]]
  BY DEF Start, n
<1>3. /\ run'[n].op = op /\ run'[n].tab = t /\ run'[n].visit = v /\ run'[n].from = v
      /\ run'[n].wants = wants /\ run'[n].answer = "none"
      /\ run'[n].alone = (v # tab[t].visit \/ Pending(t) = {})
  BY <1>1, <1>2
<1>4. ASSUME NEW c \in Run \ {n}
      PROVE  /\ Same(c)
             /\ run'[c].alone => run[c].alone
             /\ c \in Pending(t) => ~run'[c].alone
  <2>1. run[c] \in RunState
    BY DEF PInv
  <2>2. run'[c] = IF c \in Pending(t) THEN [run[c] EXCEPT !.alone = FALSE] ELSE run[c]
    BY <1>2
  <2>3. CASE c \in Pending(t)
    BY <2>1, <2>2, <2>3 DEF RunState, Same
  <2>4. CASE c \notin Pending(t)
    BY <2>2, <2>4 DEF Same
  <2> QED
    BY <2>3, <2>4
<1>5. \A c \in Run \ {n} : GoesOn(c) /\ Enters(c)
  BY <1>4 DEF Same, GoesOn, Enters, Used
<1>6. OthersWait(n)
  BY <1>4 DEF OthersWait, Same, Used
<1>7. ASSUME NEW d \in Run \ {n}, Used(d), run[d].tab = t, InFlight(d), run[d].visit = v
      PROVE  ~run'[n].alone /\ ~run'[d].alone
  <2>1. tab[t].visit \in Nat /\ run[d].visit <= tab[t].visit
    BY <1>7 DEF PInv, TabState, Place, Used
  <2>2. v = tab[t].visit
    BY <1>7, <2>1
  <2>3. d \in Pending(t)
    BY <1>7, <2>2 DEF Pending, Here
  <2> QED
    BY <1>3, <1>4, <2>2, <2>3
<1>8. wants = "list" => op = "load"
  BY DEF Begins
<1>9. Enters(n)
  BY <1>3, <1>6, <1>7, <1>8 DEF Enters
<1>10. GoesOn(n)
  BY <1>1 DEF GoesOn, Used
<1> QED
  BY <1>5, <1>9, <1>10 DEF RunsGoOn

LEMMA AnswerGoesOn ==
  ASSUME PInv, NEW c \in Run, InFlight(c), NEW code, NEW data, Answer(c, code, data),
         run[c].wants = "list" /\ code = "ok" => data = Mine',
         IsChange(c) /\ run[c].wants # "list" /\ code = "ok" => Shows(ledger', c)
  PROVE  RunsGoOn
<1>1. run \in [Run -> RunState] /\ run[c] \in RunState
  BY DEF PInv
<1>2. /\ run'[c].op = run[c].op /\ run'[c].tab = run[c].tab
      /\ run'[c].visit = run[c].visit /\ run'[c].from = run[c].from
      /\ run'[c].ask = run[c].ask /\ run'[c].wants = run[c].wants
      /\ run'[c].answer = code /\ run'[c].data = data /\ run'[c].alone = run[c].alone
      /\ \A d \in Run \ {c} : run'[d] = run[d]
  <2>1. run' = [run EXCEPT ![c] = [run[c] EXCEPT !.answer = code, !.data = data]]
    BY <1>1 DEF Answer
  <2> QED
    BY <1>1, <2>1 DEF RunState
<1>3. IsChange(c) /\ run[c].wants # "list" /\ code = "ok" => Shows(ledger, c)'
  BY <1>2 DEF Shows
<1>4. GoesOn(c)
  BY <1>2, <1>3 DEF GoesOn, InFlight
<1>5. Enters(c)
  BY <1>2 DEF Enters, Used
<1> QED
  BY <1>2, <1>4, <1>5, Waits DEF RunsGoOn

LEMMA EndedGoesOn ==
  ASSUME PInv, NEW c \in Run, InFlight(c), Ended(c),
         IsChange(c) /\ Here(c) /\ run[c].answer = "ok" =>
           run[c].wants = "list" /\ tab'[run[c].tab].list = run[c].data
  PROVE  RunsGoOn
<1>1. run \in [Run -> RunState] /\ run[c] \in RunState
  BY DEF PInv
<1>2. /\ run'[c].op = run[c].op /\ run'[c].tab = run[c].tab
      /\ run'[c].visit = run[c].visit /\ run'[c].from = run[c].from
      /\ run'[c].ask = run[c].ask /\ run'[c].wants = "none"
      /\ run'[c].answer = run[c].answer /\ run'[c].alone = run[c].alone
      /\ \A d \in Run \ {c} : run'[d] = run[d]
  <2>1. run' = [run EXCEPT ![c] = [run[c] EXCEPT !.wants = "none", !.data = Nothing]]
    BY <1>1 DEF Ended
  <2> QED
    BY <1>1, <2>1 DEF RunState
<1>3. GoesOn(c)
  BY <1>2 DEF GoesOn, InFlight
<1>4. Enters(c)
  BY <1>2 DEF Enters, Used
<1> QED
  BY <1>2, <1>3, <1>4, Waits DEF RunsGoOn

LEMMA AskingGoesOn ==
  ASSUME PInv, NEW c \in Run, InFlight(c), NEW wants \in {"search", "list"}, NEW v,
         Asking(c, wants, v),
         \/ v = run[c].visit /\ wants = "search" /\ ~IsChange(c)
         \/ v = run[c].visit /\ IsChange(c) /\ run[c].answer = "ok"
         \/ /\ run[c].op = "confirm" /\ wants = "list"
            /\ v = tab[run[c].tab].visit + 1 /\ tab'[run[c].tab].visit = v
            /\ tab'[run[c].tab].page = "mine"
  PROVE  RunsGoOn /\ run'[c].visit = v
<1>1. run \in [Run -> RunState] /\ run[c] \in RunState
  BY DEF PInv
<1>2. /\ run'[c].op = run[c].op /\ run'[c].tab = run[c].tab
      /\ run'[c].visit = v /\ run'[c].from = run[c].from
      /\ run'[c].ask = run[c].ask /\ run'[c].wants = wants
      /\ run'[c].answer = "none" /\ run'[c].alone = run[c].alone
      /\ \A d \in Run \ {c} : run'[d] = run[d]
  <2>1. run' = [run EXCEPT ![c] = [run[c] EXCEPT !.wants = wants, !.visit = v,
                                                 !.answer = "none", !.data = Nothing]]
    BY <1>1 DEF Asking
  <2> QED
    BY <1>1, <2>1 DEF RunState
<1>3. OthersWait(c)
  BY <1>2 DEF OthersWait, Used
<1>4. GoesOn(c)
  BY <1>2, <1>3 DEF GoesOn, InFlight, IsChange, Jumps
<1>5. Enters(c)
  BY <1>2 DEF Enters, Used
<1> QED
  BY <1>2, <1>4, <1>5, Waits DEF RunsGoOn

-----------------------------------------------------------------------------
(* What a step does to the tabs *)

TabsGoOn == \A t \in Tab : Stays(t) \/ Leaves(t)

LEMMA TabWaits ==
  ASSUME NEW t \in Tab, tab'[t] = tab[t]
  PROVE  Stays(t)
BY DEF Stays

\* The component of t renders x, which differs in what a run of it has found.
LEMMA RenderGoesOn ==
  ASSUME PInv, NEW t \in Tab, NEW x \in TabState, Render(t, x),
         x.visit = tab[t].visit, x.page = tab[t].page, x.seen = tab[t].seen,
         \/ x.rooms = tab[t].rooms
         \/ \E c \in Run : /\ run[c].op \in {"search", "confirm"} /\ run[c].tab = t /\ Here(c)
                           /\ run[c].wants = "search",
         \/ x.list = tab[t].list
         \/ \E c \in Run : /\ Used(c) /\ run[c].tab = t /\ Here(c)
                           /\ run[c].wants = "list" /\ run[c].answer = "ok"
                           /\ x.list = run[c].data
  PROVE  TabsGoOn /\ tab'[t].list = x.list
<1> DEFINE y == IF x # tab[t] /\ x.page = "mine" THEN [x EXCEPT !.seen = now] ELSE x
<1>1. tab' = [tab EXCEPT ![t] = y] /\ tab \in [Tab -> TabState]
  BY DEF Render, PInv
<1>2. /\ y.page = x.page /\ y.rooms = x.rooms /\ y.list = x.list /\ y.visit = x.visit
      /\ y.seen \in {x.seen, now}
  BY DEF TabState
<1> HIDE DEF y
<1>3. tab'[t] = y /\ \A u \in Tab \ {t} : tab'[u] = tab[u]
  BY <1>1
<1>4. Stays(t)
  BY <1>2, <1>3 DEF Stays
<1> QED
  BY <1>2, <1>3, <1>4, TabWaits DEF TabsGoOn

\* t goes to another page.
LEMMA LeaveGoesOn ==
  ASSUME PInv, NEW t \in Tab, NEW x, tab' = [tab EXCEPT ![t] = x],
         x.visit = tab[t].visit + 1, x.rooms = Nothing, x.list = Nothing,
         x.seen \in {0, now},
         \/ tab[t].visit < MaxVisits
         \/ \E c \in Run : /\ run[c].op = "confirm" /\ run[c].tab = t /\ run[c].wants = "create"
                           /\ run'[c].visit = x.visit
  PROVE  TabsGoOn
<1>1. tab'[t] = x /\ \A u \in Tab \ {t} : tab'[u] = tab[u]
  BY DEF PInv
<1>2. Leaves(t)
  BY <1>1 DEF Leaves
<1> QED
  BY <1>1, <1>2, TabWaits DEF TabsGoOn
-----------------------------------------------------------------------------
(* What a step does to the ledger *)

LEMMA OwnRow ==
  ASSUME PInv, NEW b \in BookingId, Own(b)
  PROVE  ledger[b] \in Row /\ ledger[b].end \in Nat
BY DEF PInv, Table, Own, Row

LEMMA LedgerWaits ==
  ASSUME PInv, UNCHANGED ledger
  PROVE  LedgerKeeps
BY OwnRow DEF LedgerKeeps, Own

LEMMA LedgerShrinks ==
  ASSUME PInv, NEW d \in BookingId, ledger[d] \in Row, NonEmpty(ledger[d]), Changes(d)
  PROVE  LedgerKeeps
<1>1. PICK y : Shrunk(y, ledger[d]) /\ ledger' = [ledger EXCEPT ![d] = y]
  BY CancelledShrinks, EndsAtShrinks DEF Changes
<1>2. /\ y \in Row /\ y # NoRow /\ y.user = ledger[d].user /\ y.end <= ledger[d].end
      /\ ledger[d].status = "CANCELLED" => y.status = "CANCELLED"
  BY <1>1, NoRowAssumption DEF Shrunk
<1>3. y.end \in Nat
  BY <1>2 DEF Row
<1> HIDE DEF Row
<1>4. ledger'[d] = y /\ \A b \in BookingId \ {d} : ledger'[b] = ledger[b]
  BY <1>1 DEF PInv, Table
<1> SUFFICES ASSUME NEW b \in BookingId, Own(b)
             PROVE  /\ Own(b)'
                    /\ ledger[b].status = "CANCELLED" => ledger'[b].status = "CANCELLED"
                    /\ ledger[b].end \in Nat /\ ledger'[b].end \in Nat
                    /\ ledger'[b].end <= ledger[b].end
  BY DEF LedgerKeeps
<1>5. ledger[b].end \in Nat
  BY OwnRow
<1>6. CASE b = d
  BY <1>2, <1>3, <1>4, <1>5, <1>6 DEF Own
<1>7. CASE b # d
  BY <1>4, <1>5, <1>7 DEF Own
<1> QED
  BY <1>6, <1>7

LEMMA LedgerEnters ==
  ASSUME PInv, NEW by, NEW rows, ledger' = Entered(by, rows),
         \A b \in BookingId : b.by = by => ledger[b] = NoRow
  PROVE  LedgerKeeps
<1> SUFFICES ASSUME NEW b \in BookingId, Own(b)
             PROVE  ledger'[b] = ledger[b]
  BY OwnRow DEF LedgerKeeps, Own
<1>1. b.by # by
  BY DEF Own
<1> QED
  BY <1>1 DEF Entered

-----------------------------------------------------------------------------
(* The actions *)

LEMMA NewPageIsEmpty ==
  ASSUME NEW p, NEW v
  PROVE  LET x == NewPage(p, v) IN
         /\ x.page = p /\ x.visit = v /\ x.rooms = Nothing /\ x.list = Nothing
         /\ x.seen \in {0, now}
BY DEF NewPage

LEMMA BookingPageIsEmpty ==
  ASSUME NEW m, NEW w, NEW v
  PROVE  LET x == BookingPage(m, w, v) IN
         /\ x.visit = v /\ x.rooms = Nothing /\ x.list = Nothing /\ x.seen \in {0, now}
BY DEF NewPage, BookingPage

LEMMA VisitSteps ==
  ASSUME PInv, NEW t \in Tab, Visit(t)
  PROVE  Steps
<1> DEFINE v == tab[t].visit + 1
<1>1. tab \in [Tab -> TabState] /\ tab[t] \in TabState /\ v \in Nat
  BY DEF PInv, TabState
<1>2. UNCHANGED <<now, ledger, lost>>
  BY VisitTabs
<1>3. LedgerKeeps
  BY <1>2, LedgerWaits
<1>4. ASSUME NEW p \in {"search", "series", "mine"}, Open(t, p) PROVE TabsGoOn /\ RunsGoOn
  <2> DEFINE x == NewPage(p, v)
  <2>1. /\ tab' = [tab EXCEPT ![t] = x] /\ tab[t].visit < MaxVisits
        /\ IF p = "mine" THEN Start(t, v, "load", "list", Nothing) ELSE UNCHANGED run
    BY <1>4 DEF Open
  <2>2. /\ x.page = p /\ x.visit = v /\ x.rooms = Nothing /\ x.list = Nothing
        /\ x.seen \in {0, now}
    BY NewPageIsEmpty
  <2> HIDE DEF x
  <2>3. TabsGoOn
    BY <2>1, <2>2, LeaveGoesOn
  <2>4. tab'[t] = x
    BY <1>1, <2>1
  <2>5. CASE p = "mine"
    <3>1. Begins("load", "list", Nothing)
      BY DEF Begins
    <3> QED
      BY <1>1, <2>1, <2>2, <2>3, <2>4, <2>5, <3>1, StartGoesOn
  <2> QED
    BY <2>1, <2>3, <2>5, RunsWait
<1>5. ASSUME NEW m \in Room, Choose(t, m) PROVE TabsGoOn /\ RunsGoOn
  <2> DEFINE x == BookingPage(m, tab[t].window, v)
  <2>1. tab' = [tab EXCEPT ![t] = x] /\ tab[t].visit < MaxVisits /\ UNCHANGED run
    BY <1>5 DEF Choose
  <2>2. x.visit = v /\ x.rooms = Nothing /\ x.list = Nothing /\ x.seen \in {0, now}
    BY BookingPageIsEmpty
  <2> HIDE DEF x
  <2> QED
    BY <2>1, <2>2, LeaveGoesOn, RunsWait
<1>6. ASSUME NEW m \in Room, Instead(t, m) PROVE TabsGoOn /\ RunsGoOn
  <2> DEFINE x == [tab[t] EXCEPT !.room = m]
  <2>1. /\ x \in TabState /\ x.page = tab[t].page /\ x.visit = tab[t].visit
        /\ x.rooms = tab[t].rooms /\ x.list = tab[t].list /\ x.seen = tab[t].seen
    BY <1>1 DEF TabState
  <2>2. Render(t, x) /\ UNCHANGED run
    BY <1>6 DEF Instead
  <2> HIDE DEF x
  <2> QED
    BY <2>1, <2>2, RenderGoesOn, RunsWait
<1>7. ASSUME Dismiss(t) PROVE TabsGoOn /\ RunsGoOn
  <2> DEFINE x == [tab[t] EXCEPT !.conflict = FALSE]
  <2>1. /\ x \in TabState /\ x.page = tab[t].page /\ x.visit = tab[t].visit
        /\ x.rooms = tab[t].rooms /\ x.list = tab[t].list /\ x.seen = tab[t].seen
    BY <1>1 DEF TabState
  <2>2. Render(t, x) /\ UNCHANGED run
    BY <1>7 DEF Dismiss
  <2> HIDE DEF x
  <2> QED
    BY <2>1, <2>2, RenderGoesOn, RunsWait
<1> QED
  BY <1>2, <1>3, <1>4, <1>5, <1>6, <1>7 DEF Visit, Steps, TabsGoOn, RunsGoOn

LEMMA SubmitSteps ==
  ASSUME PInv, NEW t \in Tab, Submit(t)
  PROVE  Steps
<1>1. tab[t] \in TabState /\ GoodTab(tab[t]) /\ tab[t].visit \in Nat
  BY DEF PInv, TabState
<1>2. PICK op, wants, ask : Submits(t, op, wants, ask)
  BY SubmitsSomething
<1>3. UNCHANGED <<now, ledger, lost>>
  BY <1>2 DEF Submits
<1>4. PICK x : /\ x = Submitted(tab[t]) \/ x = Forgiven(tab[t])
               /\ Render(t, x)
  BY <1>2 DEF Submits
<1>5. /\ x \in TabState /\ x.page = tab[t].page /\ x.visit = tab[t].visit
      /\ x.room = tab[t].room /\ x.window = tab[t].window /\ x.rooms = tab[t].rooms
      /\ x.list = tab[t].list /\ x.seen = tab[t].seen
  BY <1>1, <1>4 DEF TabState, Submitted, Forgiven, Codes
<1>6. TabsGoOn
  BY <1>4, <1>5, RenderGoesOn
<1>7. tab'[t].visit = tab[t].visit /\ tab'[t].page = tab[t].page
  <2>1. GoodTab(x)
    BY <1>1, <1>5, Touched
  <2> QED
    BY <1>3, <1>4, <1>5, <2>1, RenderStep
<1>8. op \in {"search", "confirm", "series", "cancel", "shorten"}
  BY <1>2 DEF Submits
<1>9. RunsGoOn
  BY <1>1, <1>2, <1>7, <1>8, StartGoesOn DEF Submits
<1> QED
  BY <1>3, <1>6, <1>9, LedgerWaits DEF Steps, TabsGoOn, RunsGoOn
LEMMA TabsWait ==
  ASSUME UNCHANGED tab
  PROVE  TabsGoOn
BY TabWaits DEF TabsGoOn

LEMMA ServeSteps ==
  ASSUME PInv, NEW c \in Run, Serve(c)
  PROVE  Steps
<1>1. /\ run[c].answer = "none" /\ UNCHANGED <<now, tab, lost>> /\ Serves(c)
      /\ GoodRun(run[c])
  BY ServeStep DEF Serve, PInv
<1>2. CASE ServeCreate(c)
  <2>1. run[c].wants = "create" /\ ~IsChange(c) /\ InFlight(c)
    BY <1>1, <1>2 DEF ServeCreate, GoodRun, IsChange, InFlight
  <2>2. \E code : Answer(c, code, Nothing)
    BY <1>2 DEF ServeCreate
  <2>3. RunsGoOn
    BY <2>1, <2>2, AnswerGoesOn
  <2>4. LedgerKeeps
    BY <1>1, <2>1, CreateFacts, LedgerWaits, LedgerEnters DEF Serves
  <2> QED
    BY <1>1, <2>3, <2>4, TabsWait DEF Steps, TabsGoOn, RunsGoOn
<1>3. CASE ServeChange(c)
  <2> DEFINE d == run[c].ask.target
  <2>1. run[c].wants \in {"cancel", "shorten"} /\ InFlight(c) /\ run[c].op = run[c].wants
    BY <1>1, <1>3 DEF ServeChange, GoodRun, InFlight
  <2>2. /\ d \in BookingId /\ ledger[d] \in Row /\ NonEmpty(ledger[d])
        /\ run[c].wants = "shorten" => run[c].ask.end \in Nat
    BY <2>1, ChangeFacts
  <2>3. LedgerKeeps
    BY <1>1, <2>1, <2>2, LedgerWaits, LedgerShrinks DEF Serves
  <2>4. PICK code : /\ Answer(c, code, Nothing)
                    /\ \/ code # "ok"
                       \/ /\ run[c].wants = "cancel"
                          /\ ledger' = [ledger EXCEPT ![d].status = "CANCELLED"]
                       \/ /\ run[c].wants = "shorten"
                          /\ ledger' = [ledger EXCEPT ![d].end = run[c].ask.end]
    BY <1>3 DEF ServeChange
  <2>5. ASSUME code = "ok" PROVE Shows(ledger', c)
    <3>1. ledger \in Table
      BY DEF PInv
    <3>2. CASE /\ run[c].wants = "cancel"
               /\ ledger' = [ledger EXCEPT ![d].status = "CANCELLED"]
      <4>1. ledger'[d].status = "CANCELLED"
        BY <2>2, <3>1, <3>2 DEF Row, Table
      <4> QED
        BY <2>1, <3>2, <4>1 DEF Shows
    <3>3. CASE /\ run[c].wants = "shorten"
               /\ ledger' = [ledger EXCEPT ![d].end = run[c].ask.end]
      <4>1. ledger'[d].end = run[c].ask.end
        BY <2>2, <3>1, <3>3 DEF Row, Table
      <4>2. ledger'[d].end <= run[c].ask.end
        BY <2>2, <3>3, <4>1
      <4> QED
        BY <2>1, <3>3, <4>2 DEF Shows
    <3> QED
      BY <2>4, <2>5, <3>2, <3>3
  <2>6. RunsGoOn
    BY <2>1, <2>4, <2>5, AnswerGoesOn
  <2> QED
    BY <1>1, <2>3, <2>6, TabsWait DEF Steps, TabsGoOn, RunsGoOn
<1>4. CASE ServeRead(c)
  <2>1. UNCHANGED ledger /\ run[c].wants \in {"search", "list"} /\ InFlight(c)
    BY <1>4 DEF ServeRead, InFlight
  <2>2. run[c].wants = "search" => ~IsChange(c)
    BY <1>1 DEF GoodRun, IsChange
  <2>3. Mine' = Mine
    BY <2>1 DEF Mine
  <2>4. PICK code, data : Answer(c, code, data) /\ (run[c].wants = "list" => data = Mine)
    BY <1>4 DEF ServeRead
  <2>5. RunsGoOn
    BY <2>1, <2>2, <2>3, <2>4, AnswerGoesOn
  <2> QED
    BY <1>1, <2>1, <2>5, LedgerWaits, TabsWait DEF Steps, TabsGoOn, RunsGoOn
<1> QED
  BY <1>2, <1>3, <1>4 DEF Serve

LEMMA LoseSteps ==
  ASSUME PInv, NEW c \in Run, Lose(c)
  PROVE  Steps
<1>1. InFlight(c) /\ UNCHANGED <<now, ledger, tab>> /\ Answer(c, "failed", Nothing)
  BY DEF Lose
<1>2. RunsGoOn
  BY <1>1, AnswerGoesOn
<1> QED
  BY <1>1, <1>2, LedgerWaits, TabsWait DEF Steps, TabsGoOn, RunsGoOn

LEMMA BookingSteps ==
  ASSUME PInv, UNCHANGED <<tab, run>>, now' \in {now, now + 1}, LedgerKeeps
  PROVE  Steps
BY TabsWait, RunsWait DEF Steps, TabsGoOn, RunsGoOn

LEMMA TheySteps ==
  ASSUME PInv,
         \/ \E o \in Other, m \in Room, w \in Windows, k \in Weeks : TheyBook(o, m, w, k)
         \/ \E b \in BookingId : TheyCancel(b)
  PROVE  Steps
<1>1. ASSUME NEW o, NEW m, NEW w, NEW k, TheyBook(o, m, w, k) PROVE Steps
  BY <1>1, LedgerEnters, BookingSteps DEF TheyBook
<1>2. ASSUME NEW d \in BookingId, TheyCancel(d) PROVE Steps
  <2>1. /\ Confirmed(ledger[d]) /\ UNCHANGED <<now, tab, run>> /\ Changes(d)
    BY <1>2 DEF TheyCancel, Changes, Cancelled
  <2>2. ledger[d] \in Row /\ NonEmpty(ledger[d])
    <3>1. ledger[d] \in Row \cup {NoRow} /\ RowOK(d)
      BY DEF PInv, Table
    <3> QED
      BY <2>1, <3>1 DEF RowOK, Confirmed
  <2> QED
    BY <2>1, <2>2, LedgerShrinks, BookingSteps
<1> QED
  BY <1>1, <1>2
\* What a continuation of c may put on the page.
Finds(c, x) ==
  LET y == tab[run[c].tab] IN
  /\ x \in TabState /\ x.visit = y.visit /\ x.page = y.page /\ x.seen = y.seen
  /\ \/ x.rooms = y.rooms
     \/ run[c].op \in {"search", "confirm"} /\ run[c].wants = "search"
  /\ \/ x.list = y.list
     \/ run[c].wants = "list" /\ run[c].answer = "ok" /\ x.list = run[c].data

LEMMA ShowGoesOn ==
  ASSUME PInv, NEW c \in Run, Used(c), NEW x, ShowIfHere(c, x), Here(c) => Finds(c, x)
  PROVE  TabsGoOn /\ (Here(c) => tab'[run[c].tab].list = x.list)
<1> DEFINE t == run[c].tab
<1>1. t \in Tab
  BY DEF PInv, GoodRun, Used
<1>2. CASE Here(c)
  <2>1. Render(t, x) /\ Finds(c, x)
    BY <1>2 DEF ShowIfHere
  <2>2. /\ x \in TabState /\ x.visit = tab[t].visit /\ x.page = tab[t].page
        /\ x.seen = tab[t].seen
    BY <2>1 DEF Finds
  <2>3. \/ x.rooms = tab[t].rooms
        \/ \E d \in Run : /\ run[d].op \in {"search", "confirm"} /\ run[d].tab = t /\ Here(d)
                          /\ run[d].wants = "search"
    BY <1>2, <2>1 DEF Finds
  <2>4. \/ x.list = tab[t].list
        \/ \E d \in Run : /\ Used(d) /\ run[d].tab = t /\ Here(d)
                          /\ run[d].wants = "list" /\ run[d].answer = "ok"
                          /\ x.list = run[d].data
    BY <1>2, <2>1 DEF Finds
  <2> HIDE DEF t
  <2>5. TabsGoOn /\ tab'[t].list = x.list
    BY <1>1, <2>1, <2>2, <2>3, <2>4, RenderGoesOn
  <2> QED
    BY <2>5 DEF t
<1>3. CASE ~Here(c)
  BY <1>3, TabsWait DEF ShowIfHere
<1> QED
  BY <1>2, <1>3

\* A page that differs from y in its messages and buttons.
Alike(x, y) ==
  /\ x \in TabState /\ x.visit = y.visit /\ x.page = y.page /\ x.seen = y.seen
  /\ x.rooms = y.rooms /\ x.list = y.list

LEMMA Messages ==
  ASSUME NEW y \in TabState, NEW error \in Codes \cup {"load"}
  PROVE  /\ Alike([y EXCEPT !.busy = FALSE], y)
         /\ Alike([y EXCEPT !.error = error], y)
         /\ Alike([y EXCEPT !.created = TRUE], y)
         /\ Alike([y EXCEPT !.conflict = TRUE], y)
         /\ Alike([y EXCEPT !.busy = FALSE, !.error = error], y)
<1>1. Alike([y EXCEPT !.busy = FALSE], y)
  BY DEF TabState, Alike
<1>2. Alike([y EXCEPT !.error = error], y)
  BY DEF TabState, Alike
<1>3. Alike([y EXCEPT !.created = TRUE], y)
  BY DEF TabState, Alike
<1>4. Alike([y EXCEPT !.conflict = TRUE], y)
  BY DEF TabState, Alike
<1>5. Alike([y EXCEPT !.busy = FALSE, !.error = error], y)
  BY DEF TabState, Alike
<1> QED
  BY <1>1, <1>2, <1>3, <1>4, <1>5

LEMMA AlikeFinds ==
  ASSUME NEW c \in Run, NEW x, NEW y, Alike(x, y), Alike(y, tab[run[c].tab])
  PROVE  Finds(c, x)
BY DEF Alike, Finds

LEMMA ReceiveSteps ==
  ASSUME PInv, NEW c \in Run, Receive(c)
  PROVE  Steps
<1> DEFINE t == run[c].tab
           y == tab[t]
           idle == [y EXCEPT !.busy = FALSE]
<1>1. /\ InFlight(c) /\ run[c].answer \in Codes \ {"none"} /\ UNCHANGED <<now, ledger, lost>>
      /\ GoodRun(run[c]) /\ Place(c) /\ Used(c) /\ t \in Tab
  BY DEF Receive, PInv, GoodRun, RunState, InFlight, Used
<1>2. y \in TabState
  BY <1>1 DEF PInv
<1>3. {"conflict", "started", "failed", "load"} \subseteq Codes \cup {"load"}
  BY DEF Codes
<1>4. LedgerKeeps
  BY <1>1, LedgerWaits
<1>5. TabsGoOn /\ RunsGoOn => Steps
  BY <1>1, <1>4 DEF Steps, TabsGoOn, RunsGoOn
<1>6. idle \in TabState /\ Alike(idle, y) /\ Alike(y, y)
  BY <1>2, Messages DEF Alike
<1>7. ASSUME NEW error \in Codes \cup {"load"}
      PROVE  /\ Finds(c, idle)
             /\ Finds(c, [idle EXCEPT !.error = error])
             /\ Finds(c, [idle EXCEPT !.created = TRUE])
             /\ Finds(c, [y EXCEPT !.busy = FALSE, !.error = error])
             /\ Finds(c, [y EXCEPT !.error = error])
             /\ Finds(c, [y EXCEPT !.conflict = TRUE])
  <2> HIDE DEF y, idle
  <2>1. /\ Alike([idle EXCEPT !.error = error], idle)
        /\ Alike([idle EXCEPT !.created = TRUE], idle)
        /\ Alike([y EXCEPT !.busy = FALSE, !.error = error], y)
        /\ Alike([y EXCEPT !.error = error], y)
        /\ Alike([y EXCEPT !.conflict = TRUE], y)
    BY <1>2, <1>6, Messages
  <2>2. Alike(idle, tab[run[c].tab]) /\ Alike(y, tab[run[c].tab])
    BY <1>6 DEF y
  <2>3. ASSUME NEW x, Alike(x, idle) \/ Alike(x, y) PROVE Finds(c, x)
    BY <2>2, <2>3, AlikeFinds
  <2> QED
    BY <1>6, <2>1, <2>3
<1>8. ASSUME Ended(c), ~IsChange(c) \/ run[c].answer # "ok" \/ ~Here(c) PROVE RunsGoOn
  BY <1>1, <1>8, EndedGoesOn
<1>9. ASSUME AfterSearch(c) PROVE Steps
  <2> DEFINE x == IF run[c].answer = "ok"
                  THEN [idle EXCEPT !.rooms = run[c].data, !.window = run[c].ask.window]
                  ELSE [idle EXCEPT !.error = run[c].answer]
  <2>1. ShowIfHere(c, x) /\ Ended(c) /\ run[c].op = "search" /\ run[c].wants = "search"
    BY <1>1, <1>9 DEF AfterSearch, GoodRun, InFlight
  <2>2. ASSUME Here(c) PROVE Finds(c, x)
    <3>1. CASE run[c].answer = "ok"
      <4>1. x = [idle EXCEPT !.rooms = run[c].data, !.window = run[c].ask.window]
        BY <3>1
      <4>2. run[c].data \in SUBSET Room /\ run[c].ask.window \in Windows
        BY <1>1, <2>1, <3>1 DEF GoodRun, ToSearch
      <4> HIDE DEF idle, y, x
      <4>3. /\ x \in TabState /\ x.visit = idle.visit /\ x.page = idle.page
            /\ x.seen = idle.seen /\ x.list = idle.list
        BY <1>6, <4>1, <4>2 DEF TabState
      <4> QED
        BY <1>6, <2>1, <4>3 DEF Finds, Alike, y
    <3>2. CASE run[c].answer # "ok"
      BY <1>1, <1>7, <3>2
    <3> QED
      BY <3>1, <3>2
  <2> HIDE DEF x
  <2> QED
    BY <1>1, <1>5, <1>8, <2>1, <2>2, ShowGoesOn DEF IsChange
<1>10. ASSUME AfterSeries(c) PROVE Steps
  <2> DEFINE x == IF run[c].answer = "ok" THEN [idle EXCEPT !.created = TRUE]
                                          ELSE [idle EXCEPT !.error = "conflict"]
  <2>1. ShowIfHere(c, x) /\ Ended(c) /\ run[c].op = "series"
    BY <1>10 DEF AfterSeries
  <2>2. Finds(c, x)
    BY <1>3, <1>7
  <2> HIDE DEF x
  <2> QED
    BY <1>1, <1>5, <1>8, <2>1, <2>2, ShowGoesOn DEF IsChange
<1>11. ASSUME Loaded(c) PROVE Steps
  <2> DEFINE x == IF run[c].answer = "ok" THEN [y EXCEPT !.list = run[c].data]
                                          ELSE [y EXCEPT !.error = "load"]
  <2>1. ShowIfHere(c, x) /\ Ended(c) /\ run[c].wants = "list"
    BY <1>11 DEF Loaded
  <2>2. ASSUME run[c].answer = "ok"
        PROVE  Finds(c, x) /\ x.list = run[c].data
    <3>1. x = [y EXCEPT !.list = run[c].data]
      BY <2>2
    <3>2. run[c].data \in Table
      BY <1>1, <2>1, <2>2 DEF GoodRun
    <3> HIDE DEF y, x, Table
    <3>3. /\ x \in TabState /\ x.visit = y.visit /\ x.page = y.page
          /\ x.seen = y.seen /\ x.list = run[c].data /\ x.rooms = y.rooms
      BY <1>2, <3>1, <3>2 DEF TabState
    <3> QED
      BY <2>1, <2>2, <3>3 DEF Finds, y
  <2>3. CASE run[c].answer = "ok"
    <3> HIDE DEF x
    <3>1. TabsGoOn /\ (Here(c) => tab'[t].list = run[c].data)
      BY <1>1, <2>1, <2>2, <2>3, ShowGoesOn
    <3> QED
      BY <1>1, <1>5, <2>1, <3>1, EndedGoesOn
  <2>4. CASE run[c].answer # "ok"
    <3>1. Finds(c, x)
      BY <1>3, <1>7, <2>4
    <3> HIDE DEF x
    <3> QED
      BY <1>1, <1>5, <1>8, <2>1, <2>4, <3>1, ShowGoesOn
  <2> QED
    BY <2>3, <2>4
<1>12. ASSUME Changed(c) PROVE Steps
  <2>1. IsChange(c) /\ run[c].wants \in {"cancel", "shorten"}
    BY <1>1, <1>12 DEF Changed, GoodRun, IsChange
  <2>2. CASE UNCHANGED tab /\ run[c].answer = "ok" /\ Asking(c, "list", run[c].visit)
    BY <1>1, <1>5, <2>1, <2>2, AskingGoesOn, TabsWait
  <2>3. CASE UNCHANGED tab /\ ~Here(c) /\ Ended(c)
    BY <1>5, <1>8, <2>3, TabsWait
  <2>4. ASSUME NEW error \in {"started", "failed"}, run[c].answer # "ok",
               ShowIfHere(c, [y EXCEPT !.error = error]), Ended(c)
        PROVE  Steps
    <3> DEFINE x == [y EXCEPT !.error = error]
    <3>1. Finds(c, x) /\ ShowIfHere(c, x)
      BY <1>3, <1>7, <2>4
    <3> HIDE DEF x
    <3> QED
      BY <1>1, <1>5, <1>8, <2>4, <3>1, ShowGoesOn
  <2> QED
    BY <1>12, <2>2, <2>3, <2>4 DEF Changed
<1>13. ASSUME run[c].op = "confirm", Booked(c) PROVE Steps
  <2>1. CASE UNCHANGED tab /\ Ended(c)
    BY <1>5, <1>8, <1>13, <2>1, TabsWait DEF IsChange
  <2>2. CASE y.page # "mine"
    <3> DEFINE v == y.visit + 1
               x == NewPage("mine", v)
    <3>1. tab' = [tab EXCEPT ![t] = x] /\ Asking(c, "list", v) /\ run[c].wants = "create"
      BY <1>13, <2>2 DEF Booked
    <3>2. /\ x.page = "mine" /\ x.visit = v /\ x.rooms = Nothing /\ x.list = Nothing
          /\ x.seen \in {0, now}
      BY NewPageIsEmpty
    <3> HIDE DEF x
    <3>3. tab'[t] = x
      BY <1>1, <3>1 DEF PInv
    <3>4. RunsGoOn /\ run'[c].visit = v
      BY <1>1, <1>13, <3>1, <3>2, <3>3, AskingGoesOn
    <3>5. TabsGoOn
      BY <1>1, <1>13, <3>1, <3>2, <3>4, LeaveGoesOn
    <3> QED
      BY <1>5, <3>4, <3>5
  <2> QED
    BY <1>13, <2>1, <2>2 DEF Booked
<1>14. ASSUME run[c].op = "confirm", Conflicted(c) PROVE Steps
  <2> DEFINE x == [y EXCEPT !.conflict = TRUE]
  <2>1. ShowIfHere(c, x) /\ Asking(c, "search", run[c].visit)
    BY <1>14 DEF Conflicted
  <2>2. Finds(c, x)
    BY <1>3, <1>7
  <2> HIDE DEF x
  <2> QED
    BY <1>1, <1>5, <1>14, <2>1, <2>2, AskingGoesOn, ShowGoesOn DEF IsChange
<1>15. ASSUME run[c].op = "confirm", Refused(c) PROVE Steps
  <2> DEFINE x == [y EXCEPT !.busy = FALSE, !.error = run[c].answer]
  <2>1. ShowIfHere(c, x) /\ Ended(c)
    BY <1>15 DEF Refused
  <2>2. Finds(c, x)
    BY <1>1, <1>7
  <2> HIDE DEF x
  <2> QED
    BY <1>1, <1>5, <1>8, <1>15, <2>1, <2>2, ShowGoesOn DEF IsChange
<1>16. ASSUME run[c].op = "confirm", Rechecked(c) PROVE Steps
  <2> DEFINE x == IF run[c].answer = "ok" THEN [idle EXCEPT !.rooms = run[c].data]
                                          ELSE idle
  <2>1. ShowIfHere(c, x) /\ Ended(c) /\ run[c].wants = "search"
    BY <1>16 DEF Rechecked
  <2>2. Finds(c, x)
    <3>1. CASE run[c].answer = "ok"
      <4>1. x = [idle EXCEPT !.rooms = run[c].data]
        BY <3>1
      <4>2. run[c].data \in SUBSET Room
        BY <1>1, <2>1, <3>1 DEF GoodRun
      <4> HIDE DEF idle, y, x
      <4>3. /\ x \in TabState /\ x.visit = idle.visit /\ x.page = idle.page
            /\ x.seen = idle.seen /\ x.list = idle.list
        BY <1>6, <4>1, <4>2 DEF TabState
      <4> QED
        BY <1>6, <1>16, <2>1, <4>3 DEF Finds, Alike, y
    <3>2. CASE run[c].answer # "ok"
      BY <1>3, <1>7, <3>2
    <3> QED
      BY <3>1, <3>2
  <2> HIDE DEF x
  <2> QED
    BY <1>1, <1>5, <1>8, <1>16, <2>1, <2>2, ShowGoesOn DEF IsChange
<1> QED
  BY <1>9, <1>10, <1>11, <1>12, <1>13, <1>14, <1>15, <1>16 DEF Receive

LEMMA NextSteps == PInv /\ [Next]_vars => Steps
<1> SUFFICES ASSUME PInv, [Next]_vars PROVE Steps
  OBVIOUS
<1>1. CASE UNCHANGED vars
  BY <1>1, LedgerWaits, BookingSteps DEF vars
<1>2. ASSUME NEW t \in Tab, Visit(t) \/ Submit(t) PROVE Steps
  BY <1>2, VisitSteps, SubmitSteps
<1>3. ASSUME NEW c \in Run, Serve(c) \/ Lose(c) \/ Receive(c) PROVE Steps
  BY <1>3, ServeSteps, LoseSteps, ReceiveSteps
<1>4. CASE Tick
  BY <1>4, LedgerWaits, BookingSteps DEF Tick
<1> QED
  BY <1>1, <1>2, <1>3, <1>4, TheySteps DEF Next

LEMMA NextKInv == PInv /\ PInv' /\ KInv /\ [Next]_vars => KInv'
BY NextSteps, KFrame

LEMMA KInvariance == Spec => [](PInv /\ KInv)
BY InitPInv, InitKInv, NextPInv, NextKInv, PTL DEF Spec

\* Every variable of the pages keeps its type: rooms and bookings are listed
\* only where they belong, and a tab visits no more pages than the bound and the
\* confirmations allow.
THEOREM PagesTypeCorrect == Spec => []TypeOK
<1>1. PInv /\ KInv => TypeOK
  <2> SUFFICES ASSUME PInv, KInv PROVE TypeOK
    OBVIOUS
  <2>1. ASSUME NEW t \in Tab
        PROVE  /\ tab[t].page \in {"search", "book", "series", "mine"}
               /\ tab[t].visit \in 1 .. MaxVisits + Cardinality(Run) /\ tab[t].seen \in 0 .. now
               /\ tab[t].rooms # Nothing =>
                    tab[t].page \in {"search", "book"} /\ tab[t].rooms \subseteq Room
               /\ tab[t].page = "book" => tab[t].room \in Room /\ tab[t].window \in Windows
               /\ tab[t].list # Nothing =>
                    /\ tab[t].page = "mine"
                    /\ \A b \in BookingId : tab[t].list[b] # NoRow =>
                         ledger[b] # NoRow /\ ledger[b].user = Me
               /\ tab[t].error \in Codes \cup {"load"}
               /\ {tab[t].created, tab[t].conflict, tab[t].busy} \subseteq BOOLEAN
    <3>1. PageOK(t) /\ GoodTab(tab[t]) /\ tab[t] \in TabState /\ now \in Nat
      BY DEF PInv, KInv
    <3>2. /\ Cardinality(Jumped(t)) \in Nat /\ Cardinality(Run) \in Nat
          /\ Cardinality(Jumped(t)) <= Cardinality(Run) /\ MaxVisits \in Nat
      <4>1. Jumped(t) \subseteq Run
        BY DEF Jumped
      <4> QED
        BY <4>1, RunAssumption, VisitsAssumption, FS_Subset, FS_CardinalityType
    <3>3. tab[t].visit \in Nat /\ tab[t].seen \in Nat
      BY <3>1 DEF TabState
    <3>4. tab[t].visit \in 1 .. MaxVisits + Cardinality(Run) /\ tab[t].seen \in 0 .. now
      BY <3>1, <3>2, <3>3 DEF PageOK
    <3>5. /\ tab[t].page \in {"search", "book", "series", "mine"}
          /\ tab[t].rooms # Nothing => tab[t].rooms \subseteq Room
          /\ tab[t].error \in Codes \cup {"load"}
          /\ {tab[t].created, tab[t].conflict, tab[t].busy} \subseteq BOOLEAN
      BY <3>1 DEF TabState
    <3> QED
      BY <3>1, <3>4, <3>5 DEF PageOK, GoodTab, Own
  <2>2. ASSUME NEW c \in Run
        PROVE  /\ run[c].op \in
                    {"none", "search", "confirm", "series", "load", "cancel", "shorten"}
               /\ run[c].wants \in {"none", "search", "create", "list", "cancel", "shorten"}
               /\ run[c].answer \in Codes
    BY DEF PInv, RunState
  <2>3. now \in Nat /\ lost \in Nat /\ ledger \in [BookingId -> Row \cup {NoRow}]
    BY DEF PInv, Table
  <2> QED
    BY <2>1, <2>2, <2>3 DEF TypeOK
<1> QED
  BY <1>1, KInvariance, PTL

\* When the user makes one change at a time and all is answered, the list on the
\* page shows the changes, whatever others and other tabs do, and in whatever
\* order answers come or are lost.
THEOREM ListsKeepUp == Spec => []ListKeepsUp
<1>1. PInv /\ KInv => ListKeepsUp
  <2> SUFFICES ASSUME PInv, KInv, NEW t \in Tab, tab[t].list # Nothing, Pending(t) = {},
                      \A c \in Run : run[c].tab = t /\ Here(c) => run[c].alone,
                      NEW c \in Run, run[c].tab = t, Here(c), run[c].answer = "ok"
               PROVE  Shows(tab[t].list, c)
    BY DEF ListKeepsUp, Shows
  <2>1. AllAlone(t) /\ ~InFlight(c)
    BY DEF AllAlone, Pending
  <2>2. CASE IsChange(c)
    BY <2>1, <2>2 DEF KInv, ListOK
  <2>3. CASE ~IsChange(c)
    BY <2>3 DEF IsChange, Shows
  <2> QED
    BY <2>2, <2>3
<1> QED
  BY <1>1, KInvariance, PTL
=============================================================================
