--------------------------------- MODULE Pages ---------------------------------
(* The pages with which one user searches for rooms, books them and changes   *)
(* bookings, in the tabs of a browser, against the ledger of bookings that    *)
(* other users change too.  A run is one use of a handler of a page: it makes *)
(* a request and goes on, one continuation at a time, when the answer is      *)
(* there.  Meanwhile the user may go elsewhere, the clock advances, and       *)
(* answers of several runs come in any order or not at all.                   *)
(*                                                                            *)
(* The server does what a request asks in one step: Bookings shows how its    *)
(* statements come to that, and BookingLedger what may be relied on.          *)
EXTENDS Intervals, FiniteSets

CONSTANTS
  Tab,        \* the tabs of the user
  Run,        \* the uses of handlers there may be
  Other,      \* the bookings of other users
  Room,       \* the rooms
  Windows,    \* what the forms may hold
  Week,       \* the ticks of a week
  MaxCount,   \* the most occurrences of a series
  MaxEnd,     \* the latest end a shortening asks for
  MaxVisits,  \* bound on the pages that a tab visits
  MaxTime,    \* bound on the clock
  MaxLost,    \* bound on failed requests
  Me, They,   \* the user of the pages, and the others
  Nothing, NoRow

ASSUME RunAssumption == IsFiniteSet(Run) /\ Run \cap Other = {}
ASSUME WindowsAssumption == Windows \subseteq {w \in Window : NonEmpty(w)}
ASSUME PeopleAssumption == Me # They
ASSUME CalendarAssumption == Week \in Nat /\ MaxCount \in Nat \ {0} /\ MaxEnd \in Nat
ASSUME VisitsAssumption == MaxVisits \in Nat \ {0}

VARIABLES
  now,     \* the clock
  ledger,  \* the bookings table
  tab,     \* what each tab shows, and the state of the component it mounted
  run,     \* the uses of handlers
  lost     \* how many requests have failed

vars == <<now, ledger, tab, run, lost>>

Weeks == 0 .. MaxCount - 1
BookingId == [by : Run \cup Other, week : Weeks]

Row == [room : Room, user : {Me, They}, start : Nat, end : Nat,
        status : {"CONFIRMED", "CANCELLED"}]

ASSUME NoRowAssumption == NoRow \notin Row

Confirmed(x) == x # NoRow /\ x.status = "CONFIRMED"

-----------------------------------------------------------------------------
(* Tabs and runs *)

\* The useState of the four pages.  visit counts the components that the tab has
\* mounted, seen is the time of its last rendering.
NewPage(p, v) ==
  [page |-> p, visit |-> v, room |-> Nothing, window |-> Nothing,
   rooms |-> Nothing, list |-> Nothing, created |-> FALSE, conflict |-> FALSE,
   error |-> "none", busy |-> FALSE, seen |-> IF p = "mine" THEN now ELSE 0]

Unused == [op |-> "none", tab |-> Nothing, visit |-> 0, from |-> 0, ask |-> Nothing,
           wants |-> "none", answer |-> "none", data |-> Nothing, alone |-> TRUE]

InFlight(c) == run[c].wants # "none"
Here(c) == run[c].visit = tab[run[c].tab].visit

Free == {c \in Run : run[c].op = "none"}
FreeRun == CHOOSE c \in Free : TRUE

\* The runs that the component of the tab has under way.
Pending(t) == {c \in Run : InFlight(c) /\ run[c].tab = t /\ Here(c)}

\* The component of t, in visit v, starts a run; alone tells whether it ever
\* overlaps with another one (history).
Start(t, v, op, wants, ask) ==
  /\ Free # {}
  /\ run' = [c \in Run |->
       IF c = FreeRun
       THEN [op |-> op, tab |-> t, visit |-> v, from |-> v, ask |-> ask, wants |-> wants,
             answer |-> "none", data |-> Nothing,
             alone |-> v # tab[t].visit \/ Pending(t) = {}]
       ELSE IF c \in Pending(t) THEN [run[c] EXCEPT !.alone = FALSE] ELSE run[c]]

\* The tab renders when its state has changed, and with it the buttons of
\* MyBookingsPage, which depend on the clock.
Render(t, x) ==
  tab' = [tab EXCEPT ![t] = IF x # @ /\ x.page = "mine" THEN [x EXCEPT !.seen = now] ELSE x]

\* MyBookingsPage renders "Loading" and nothing else while it has no list.
Loading(t) == tab[t].page = "mine" /\ tab[t].list = Nothing

\* The error that is rendered.
Visible(t) == IF Loading(t) THEN "none" ELSE tab[t].error

Click == UNCHANGED <<now, ledger, lost>>

\* What an answer says; "none" while there is none.
Codes == {"none", "ok", "past", "conflict", "started", "invalid", "failed"}

-----------------------------------------------------------------------------
(* Where the user goes *)

\* The links of the navigation bar, and "View my bookings".  MyBookingsPage
\* loads its list when it is mounted.
Open(t, p) ==
  LET v == tab[t].visit + 1 IN
  /\ tab[t].page # p /\ tab[t].visit < MaxVisits
  /\ tab' = [tab EXCEPT ![t] = NewPage(p, v)]
  /\ IF p = "mine" THEN Start(t, v, "load", "list", Nothing) ELSE UNCHANGED run
  /\ Click

\* RoomResultCard: the URL of the booking page carries the room and the window
\* that was searched.  Such a URL may also be the first one that a tab opens.
BookingPage(m, w, v) == [NewPage("book", v) EXCEPT !.room = m, !.window = w]

Choose(t, m) ==
  /\ tab[t].page = "search" /\ tab[t].rooms # Nothing /\ m \in tab[t].rooms
  /\ tab[t].visit < MaxVisits
  /\ tab' = [tab EXCEPT ![t] = BookingPage(m, tab[t].window, tab[t].visit + 1)]
  /\ UNCHANGED run /\ Click

\* "Book this instead": another URL of the same route.  The component stays
\* mounted and keeps all its state.
Instead(t, m) ==
  /\ tab[t].page = "book" /\ tab[t].conflict
  /\ tab[t].rooms # Nothing /\ m \in tab[t].rooms \ {tab[t].room}
  /\ Render(t, [tab[t] EXCEPT !.room = m])
  /\ UNCHANGED run /\ Click

Dismiss(t) ==
  /\ tab[t].page = "book" /\ tab[t].conflict
  /\ Render(t, [tab[t] EXCEPT !.conflict = FALSE])
  /\ UNCHANGED run /\ Click

-----------------------------------------------------------------------------
(* What the user starts *)

Submitted(x) == [x EXCEPT !.error = "none", !.conflict = FALSE, !.busy = TRUE]

\* handleSearch, with the window that the filters hold.
Search(t, w) ==
  /\ tab[t].page = "search" /\ ~tab[t].busy
  /\ Start(t, tab[t].visit, "search", "search", [window |-> w])
  /\ Render(t, Submitted(tab[t]))
  /\ Click

\* Mutant of Confirm: the button stays enabled while the booking is submitted.
ConfirmAgain(t) ==
  /\ tab[t].page = "book" /\ ~tab[t].conflict
  /\ Start(t, tab[t].visit, "confirm", "create",
           [room |-> tab[t].room, window |-> tab[t].window, count |-> 1])
  /\ Render(t, Submitted(tab[t]))
  /\ Click

\* handleConfirm of BookingFormPage; the banner hides the button.
Confirm(t) ==
  /\ tab[t].page = "book" /\ ~tab[t].conflict /\ ~tab[t].busy
  /\ Start(t, tab[t].visit, "confirm", "create",
           [room |-> tab[t].room, window |-> tab[t].window, count |-> 1])
  /\ Render(t, Submitted(tab[t]))
  /\ Click

\* handleSubmit of RecurringBookingFormPage.
SubmitSeries(t, m, w, n) ==
  /\ tab[t].page = "series" /\ ~tab[t].created /\ ~tab[t].busy
  /\ Start(t, tab[t].visit, "series", "create", [room |-> m, window |-> w, count |-> n])
  /\ Render(t, Submitted(tab[t]))
  /\ Click

InSeries(b) == run[b.by].op = "series"

\* BookingListItem offers the buttons of a booking that is not cancelled and had
\* not started when the page was rendered.  Nothing disables them while another
\* change is under way.
Offered(t, b) ==
  /\ tab[t].page = "mine" /\ tab[t].list # Nothing
  /\ Confirmed(tab[t].list[b]) /\ tab[t].seen < tab[t].list[b].start

Forgiven(x) == [x EXCEPT !.error = "none"]

\* handleCancel and handleCancelOccurrence.
ClickCancel(t, b) ==
  /\ Offered(t, b)
  /\ Start(t, tab[t].visit, "cancel", "cancel", [target |-> b])
  /\ Render(t, Forgiven(tab[t]))
  /\ Click

\* submitShorten, whose check of the new end passes, and handleShorten.
ClickShorten(t, b, e) ==
  /\ Offered(t, b) /\ ~InSeries(b)
  /\ e < tab[t].list[b].end
  /\ Start(t, tab[t].visit, "shorten", "shorten", [target |-> b, end |-> e])
  /\ Render(t, Forgiven(tab[t]))
  /\ Click

-----------------------------------------------------------------------------
(* The server and the network *)

Occurrence(u, m, w, k) ==
  [room |-> m, user |-> u, start |-> w.start + k * Week, end |-> w.end + k * Week,
   status |-> "CONFIRMED"]

Taken(x) == \E b \in BookingId : /\ Confirmed(ledger[b]) /\ ledger[b].room = x.room
                                 /\ Overlap(ledger[b], x)

Wanted(c) == LET q == run[c].ask IN
  [k \in 0 .. q.count - 1 |-> Occurrence(Me, q.room, q.window, k)]

\* A series may be in its own way.
Clashes(rows) ==
  \/ \E k \in DOMAIN rows : Taken(rows[k])
  \/ \E j, k \in DOMAIN rows : j # k /\ Overlap(rows[j], rows[k])

Entered(by, rows) ==
  [b \in BookingId |-> IF b.by = by /\ b.week \in DOMAIN rows THEN rows[b.week] ELSE ledger[b]]

\* Mutant of Mine: bookings of everybody are listed.
MineAndTheirs == ledger

Mine == [b \in BookingId |->
           IF ledger[b] # NoRow /\ ledger[b].user = Me THEN ledger[b] ELSE NoRow]

Answer(c, code, data) == run' = [run EXCEPT ![c].answer = code, ![c].data = data]

\* Mutant of ServeCreate: the occurrences before the one that clashes remain.
ServeCreateEach(c) ==
  LET q == run[c].ask
      rows == Wanted(c)
      good == {k \in DOMAIN rows : ~Taken(rows[k])} IN
  /\ run[c].wants = "create"
  /\ ledger' = IF now < q.window.start THEN Entered(c, [k \in good |-> rows[k]]) ELSE ledger
  /\ Answer(c, IF q.window.start <= now THEN "past"
               ELSE IF Clashes(rows) THEN "conflict" ELSE "ok", Nothing)

\* POST /bookings and /bookings/series: the schema, then all the rows or none.
ServeCreate(c) ==
  LET q == run[c].ask
      rows == Wanted(c) IN
  /\ run[c].wants = "create"
  /\ \/ /\ q.window.start <= now
        /\ UNCHANGED ledger /\ Answer(c, "past", Nothing)
     \/ /\ now < q.window.start /\ Clashes(rows)
        /\ UNCHANGED ledger /\ Answer(c, "conflict", Nothing)
     \/ /\ now < q.window.start /\ ~Clashes(rows)
        /\ ledger' = Entered(c, rows) /\ Answer(c, "ok", Nothing)

\* DELETE of a booking or an occurrence, PATCH of an end.
ServeChange(c) ==
  LET q == run[c].ask
      x == ledger[q.target] IN
  /\ run[c].wants \in {"cancel", "shorten"}
  /\ \/ /\ x.start <= now
        /\ UNCHANGED ledger /\ Answer(c, "started", Nothing)
     \/ /\ now < x.start /\ run[c].wants = "cancel"
        /\ ledger' = [ledger EXCEPT ![q.target].status = "CANCELLED"]
        /\ Answer(c, "ok", Nothing)
     \/ /\ now < x.start /\ run[c].wants = "shorten"
        /\ IF x.start < q.end /\ q.end < x.end
           THEN /\ ledger' = [ledger EXCEPT ![q.target].end = q.end]
                /\ Answer(c, "ok", Nothing)
           ELSE UNCHANGED ledger /\ Answer(c, "invalid", Nothing)

\* GET /rooms/search and /bookings/me.
ServeRead(c) ==
  LET w == run[c].ask.window IN
  /\ UNCHANGED ledger
  /\ \/ /\ run[c].wants = "search" /\ w.start <= now
        /\ Answer(c, "past", Nothing)
     \/ /\ run[c].wants = "search" /\ now < w.start
        /\ Answer(c, "ok", {m \in Room : ~Taken(Occurrence(Me, m, w, 0))})
     \/ /\ run[c].wants = "list"
        /\ Answer(c, "ok", Mine)

Serve(c) ==
  /\ run[c].answer = "none"
  /\ ServeCreate(c) \/ ServeChange(c) \/ ServeRead(c)
  /\ UNCHANGED <<now, tab, lost>>

\* The request or its answer does not arrive, the server answers 500, or it
\* does not get the acknowledgement of a commit: what was asked for may or may
\* not have been done.
Lose(c) ==
  /\ InFlight(c) /\ run[c].answer # "failed" /\ lost < MaxLost
  /\ lost' = lost + 1
  /\ Answer(c, "failed", Nothing)
  /\ UNCHANGED <<now, ledger, tab>>

-----------------------------------------------------------------------------
(* How the handlers go on *)

\* The run is over, or asks for something else next.
Ended(c) == run' = [run EXCEPT ![c].wants = "none", ![c].data = Nothing]
Asking(c, wants, v) ==
  run' = [run EXCEPT ![c].wants = wants, ![c].visit = v, ![c].answer = "none",
                     ![c].data = Nothing]

\* setState of a component that is not mounted any more does nothing.
ShowIfHere(c, x) == IF Here(c) THEN Render(run[c].tab, x) ELSE UNCHANGED tab

AfterSearch(c) ==
  LET x == [tab[run[c].tab] EXCEPT !.busy = FALSE] IN
  /\ run[c].op = "search"
  /\ ShowIfHere(c, IF run[c].answer = "ok"
                   THEN [x EXCEPT !.rooms = run[c].data, !.window = run[c].ask.window]
                   ELSE [x EXCEPT !.error = run[c].answer])
  /\ Ended(c)

\* The booking is there: to /my-bookings, from wherever the user is by now,
\* which loads its list unless it is there already.
Booked(c) ==
  LET t == run[c].tab
      v == tab[t].visit + 1 IN
  /\ run[c].wants = "create" /\ run[c].answer = "ok"
  /\ IF tab[t].page = "mine"
     THEN UNCHANGED tab /\ Ended(c)
     ELSE tab' = [tab EXCEPT ![t] = NewPage("mine", v)] /\ Asking(c, "list", v)

\* The banner, and the same search again.
Conflicted(c) ==
  /\ run[c].wants = "create" /\ run[c].answer = "conflict"
  /\ ShowIfHere(c, [tab[run[c].tab] EXCEPT !.conflict = TRUE])
  /\ Asking(c, "search", run[c].visit)

Refused(c) ==
  /\ run[c].wants = "create" /\ run[c].answer \notin {"ok", "conflict"}
  /\ ShowIfHere(c, [tab[run[c].tab] EXCEPT !.busy = FALSE, !.error = run[c].answer])
  /\ Ended(c)

\* Mutant of Rechecked: submitting is reset after a new list only.
RecheckedOnly(c) ==
  /\ run[c].wants = "search"
  /\ IF run[c].answer = "ok"
     THEN ShowIfHere(c, [tab[run[c].tab] EXCEPT !.rooms = run[c].data, !.busy = FALSE])
     ELSE UNCHANGED tab
  /\ Ended(c)

\* A failure of the second search is swallowed; what an earlier one has found
\* stays.
Rechecked(c) ==
  LET x == [tab[run[c].tab] EXCEPT !.busy = FALSE] IN
  /\ run[c].wants = "search"
  /\ ShowIfHere(c, IF run[c].answer = "ok" THEN [x EXCEPT !.rooms = run[c].data] ELSE x)
  /\ Ended(c)

\* Every error of a series is shown as a conflict.
AfterSeries(c) ==
  LET x == [tab[run[c].tab] EXCEPT !.busy = FALSE] IN
  /\ run[c].op = "series"
  /\ ShowIfHere(c, IF run[c].answer = "ok" THEN [x EXCEPT !.created = TRUE]
                                           ELSE [x EXCEPT !.error = "conflict"])
  /\ Ended(c)

\* reload: it reports its own failures.
Loaded(c) ==
  LET x == tab[run[c].tab] IN
  /\ run[c].wants = "list"
  /\ ShowIfHere(c, IF run[c].answer = "ok" THEN [x EXCEPT !.list = run[c].data]
                                           ELSE [x EXCEPT !.error = "load"])
  /\ Ended(c)

\* Mutant of Changed: the list on the page is taken to be right after a change.
ChangedOnly(c) ==
  /\ run[c].wants \in {"cancel", "shorten"}
  /\ IF run[c].answer = "ok" THEN UNCHANGED tab
     ELSE ShowIfHere(c, [tab[run[c].tab] EXCEPT !.error = "failed"])
  /\ Ended(c)

\* The list is loaded after the change is answered; a list that nobody would
\* see is left out.  handleCancelOccurrence has one message for every error.
Changed(c) ==
  LET started == run[c].answer = "started"
                 /\ ~(run[c].wants = "cancel" /\ InSeries(run[c].ask.target)) IN
  /\ run[c].wants \in {"cancel", "shorten"}
  /\ \/ /\ run[c].answer = "ok" /\ Here(c)
        /\ UNCHANGED tab /\ Asking(c, "list", run[c].visit)
     \/ /\ run[c].answer = "ok" /\ ~Here(c)
        /\ UNCHANGED tab /\ Ended(c)
     \/ /\ run[c].answer # "ok"
        /\ ShowIfHere(c, [tab[run[c].tab] EXCEPT
                            !.error = IF started THEN "started" ELSE "failed"])
        /\ Ended(c)

Receive(c) ==
  /\ InFlight(c) /\ run[c].answer # "none"
  /\ \/ AfterSearch(c) \/ AfterSeries(c) \/ Loaded(c) \/ Changed(c)
     \/ run[c].op = "confirm" /\ (Booked(c) \/ Conflicted(c) \/ Refused(c) \/ Rechecked(c))
  /\ UNCHANGED <<now, ledger, lost>>

-----------------------------------------------------------------------------
(* Everybody else *)

Tick == now < MaxTime /\ now' = now + 1 /\ UNCHANGED <<ledger, tab, run, lost>>

TheyBook(o, m, w, k) ==
  LET x == Occurrence(They, m, w, k) IN
  /\ now < x.start
  /\ \A b \in BookingId : b.by = o => ledger[b] = NoRow
  /\ ~Taken(x)
  /\ ledger' = Entered(o, [j \in {0} |-> x])
  /\ UNCHANGED <<now, tab, run, lost>>

TheyCancel(b) ==
  /\ Confirmed(ledger[b]) /\ ledger[b].user = They /\ now < ledger[b].start
  /\ ledger' = [ledger EXCEPT ![b].status = "CANCELLED"]
  /\ UNCHANGED <<now, tab, run, lost>>

Init ==
  /\ now = 0
  /\ ledger = [b \in BookingId |-> NoRow]
  /\ tab \in [Tab -> {NewPage("search", 1)}
                     \cup {BookingPage(m, w, 1) : m \in Room, w \in Windows}]
  /\ run = [c \in Run |-> Unused]
  /\ lost = 0

Visit(t) ==
  \/ \E p \in {"search", "series", "mine"} : Open(t, p)
  \/ \E m \in Room : Choose(t, m) \/ Instead(t, m)
  \/ Dismiss(t)

Submit(t) ==
  \/ \E w \in Windows : Search(t, w)
  \/ Confirm(t)
  \/ \E m \in Room, w \in Windows, n \in 1 .. MaxCount : SubmitSeries(t, m, w, n)
  \/ \E b \in BookingId : ClickCancel(t, b)
  \/ \E b \in BookingId, e \in 0 .. MaxEnd : ClickShorten(t, b, e)

Next ==
  \/ \E t \in Tab : Visit(t) \/ Submit(t)
  \/ \E c \in Run : Serve(c) \/ Lose(c) \/ Receive(c)
  \/ Tick
  \/ \E o \in Other, m \in Room, w \in Windows, k \in Weeks : TheyBook(o, m, w, k)
  \/ \E b \in BookingId : TheyCancel(b)

Spec == Init /\ [][Next]_vars

\* Requests are served and answers, or their failure, reach the page.
FairSpec == Spec /\ WF_vars(\E c \in Run : Serve(c) \/ Receive(c))

-----------------------------------------------------------------------------
(* Properties *)

\* Every variable keeps its type: in particular a page shows rooms or bookings
\* only where it has a list of them, a booking page is never without a room and
\* a window, and a tab lists bookings of the user only.
TypeOK ==
  /\ now \in Nat /\ lost \in Nat
  /\ ledger \in [BookingId -> Row \cup {NoRow}]
  /\ \A t \in Tab :
       /\ tab[t].page \in {"search", "book", "series", "mine"}
       /\ tab[t].visit \in 1 .. MaxVisits + Cardinality(Run) /\ tab[t].seen \in 0 .. now
       /\ tab[t].rooms # Nothing => tab[t].page \in {"search", "book"} /\ tab[t].rooms \subseteq Room
       /\ tab[t].page = "book" => tab[t].room \in Room /\ tab[t].window \in Windows
       /\ tab[t].list # Nothing =>
            /\ tab[t].page = "mine"
            /\ \A b \in BookingId : tab[t].list[b] # NoRow =>
                 ledger[b] # NoRow /\ ledger[b].user = Me
       /\ tab[t].error \in Codes \cup {"load"}
       /\ {tab[t].created, tab[t].conflict, tab[t].busy} \subseteq BOOLEAN
  /\ \A c \in Run :
       /\ run[c].op \in {"none", "search", "confirm", "series", "load", "cancel", "shorten"}
       /\ run[c].wants \in {"none", "search", "create", "list", "cancel", "shorten"}
       /\ run[c].answer \in Codes

\* As long as no request fails, a visit of the booking page books at most once,
\* however the user goes on to other rooms from it after a conflict.
OneBookingPerVisit ==
  lost = 0 =>
    \A c, d \in Run :
      /\ run[c].op = "confirm" /\ run[d].op = "confirm" /\ c # d
      /\ run[c].tab = run[d].tab /\ run[c].from = run[d].from
      => NoRow \in {ledger[[by |-> c, week |-> 0]], ledger[[by |-> d, week |-> 0]]}

\* When the user makes one change at a time and all is answered, the list on the
\* page shows the changes made from it, whatever others and other tabs do: a
\* cancelled booking as cancelled, a shortened one with an end no later than the
\* one asked for.
ListKeepsUp ==
  \A t \in Tab :
    ( /\ tab[t].page = "mine" /\ tab[t].list # Nothing
      /\ Pending(t) = {}
      /\ \A c \in Run : run[c].tab = t /\ Here(c) => run[c].alone )
    => \A c \in Run :
         run[c].tab = t /\ Here(c) /\ run[c].answer = "ok" =>
           /\ run[c].op = "cancel" =>
                tab[t].list[run[c].ask.target].status = "CANCELLED"
           /\ run[c].op = "shorten" =>
                tab[t].list[run[c].ask.target].end <= run[c].ask.end

\* In the end every form can be submitted again, and a page of bookings has its
\* list unless the request for the list of that very visit has failed: no order
\* of answers, failures and visits leaves a button disabled, or a page waiting
\* for a list that has been sent.  (A page whose request has failed does wait, see
\* FailuresAreSeen; and the list may not be the latest one.)
PagesSettle ==
  <>[](\A t \in Tab :
         /\ ~tab[t].busy
         /\ Loading(t) =>
              \E c \in Run : /\ run[c].op \in {"load", "confirm"}
                             /\ run[c].tab = t /\ Here(c) /\ run[c].answer = "failed")

\* What the pages and the others do to the ledger, however requests are lost,
\* repeated and answered out of order, are the changes that BookingLedger
\* allows.
Ledger == INSTANCE BookingLedger WITH
  User <- {Me, They},
  entered <- [b \in BookingId |->
                IF ledger[b] = NoRow THEN NoRow
                ELSE IF b.by \in Run THEN Wanted(b.by)[b.week]
                ELSE [ledger[b] EXCEPT !.status = "CONFIRMED"]]

ImplementsLedger == Ledger!LedgerSpec

-----------------------------------------------------------------------------
(* What the repository says and the code does not keep *)

\* The banner is on the page only when the server has refused the room on that
\* page for the window on that page.
BannerIsTrue ==
  \A t \in Tab :
    tab[t].page = "book" /\ tab[t].conflict =>
      \E c \in Run : /\ run[c].op = "confirm" /\ run[c].tab = t
                     /\ run[c].ask.room = tab[t].room
                     /\ run[c].ask.window = tab[t].window

\* "Genuinely unexpected failures (500, network drop) still need SOME visible
\* feedback": an error that a page keeps is one that it shows.  MyBookingsPage
\* renders its error below the list, and without a list only "Loading".
FailuresAreSeen == \A t \in Tab : tab[t].error # "none" => Visible(t) # "none"

=============================================================================
