# Verification of the meeting-room booking service

TLA+ modules, TLC configurations and TLAPS proofs for the service under `src/`: an
Express/TypeScript API over PostgreSQL (`src/api`) and a React client (`src/web`).
The promise the service makes is short - a room is never double-booked, *even when
two requests arrive at the exact same instant* (`src/README.md:5`) - and the code
that keeps it is spread over a SQL constraint, a raw INSERT, a transaction and an
error handler.

Contents: [inventory](#inventory), [plan](#plan), [bookings](#the-bookings-modules),
[auth](#the-auth-module), [the session in the browser](#the-session-in-the-browser),
[rooms](#the-room-catalogue), [reading](#search-and-utilisation),
[pages](#the-pages), [runs and bounds](#runs-and-bounds), [fairness](#fairness),
[what is proved](#what-is-proved), [what the repository says and the code does not
do](#what-the-repository-says-and-the-code-does-not-do), [not
modelled](#not-modelled), [running the checks](#running-the-checks).

## Inventory

| Component | State it keeps | Operations | Hard behaviour | What makes it correct |
|---|---|---|---|---|
| `modules/bookings` (API) | table `bookings`, table `booking_series` | create, cancel, shorten, create a series, cancel one occurrence, list | check before an await and write after it; several requests on one row; a transaction of up to 52 inserts | no double booking; a series is whole or absent; only the owner's named booking changes; answers tell the truth; every request is answered |
| `bookings_no_overlap` (PostgreSQL) | GiST index over confirmed rows | checked by every INSERT and UPDATE of a confirmed row | waits for open transactions, deadlocks, 23P01 | half-open overlap and nothing else is refused |
| `modules/auth`, `lib/jwt` | tables `users`, `refresh_tokens` | register, login, refresh (revoke, then issue), logout | read-check-revoke-issue with an await between each; crash between revoke and issue; logout racing a refresh | a token is only good for its user, before expiry and revocation; an address has one account; a session forks only among refreshes that overlap |
| `middleware/authenticate`, `requireAdmin` | none | verify the access token, check the role | a role or a token that is stale until it expires | no handler runs for an anonymous caller |
| `middleware/errorHandler`, `lib/errors`, `asyncHandler` | none | turn an error into an answer | database errors of a shape it does not know | one answer per request, 500 for the unexpected |
| `modules/rooms` | tables `rooms`, `attributes`, `room_attributes` | create, update, list, search | delete-and-recreate of the attributes of a room without a lock on it; upserts of shared attributes | what the form saves is saved whole; a refused request leaves nothing; deadlocks end |
| search (`searchAvailableRooms`) | none (reads `rooms`, `bookings`) | two SQL queries, of `attributes` and of rooms, bookings and links | rooms and bookings change between them; availability is stale when it is used | the answer was right at some moment of the search |
| `modules/utilisation` | none (reads `bookings`) | one aggregate query | week boundaries, bookings across them | reports of adjoining days add up; no hour of a room is counted twice |
| web `api/client.js`, `api/auth.js`, `auth/AuthContext.jsx` | access token in memory, `refreshPromise`, session status, the cookie | fetch with silent refresh, bootstrap, login, logout | concurrent 401s, several tabs, a reload or a logout during a refresh | a tab does not end its own session; pages are shown only with a token; every call settles |
| web pages and components | form state, lists | search, book, shorten, cancel, administer rooms | double clicks, answers after unmount, stale lists | a visit books once; the list shows what was changed from it; no page stays busy; the ledger is kept |
| `prisma/schema.prisma`, init migration | the tables | - | - | unique indexes as modelled with their tables |
| `config/env`, `logger`, `requestId`, `server`, `app` | configuration | start-up wiring | - | not modelled: no behaviour over time |

How they interact.  A page calls `apiFetch`, which sends the access token and, on a
401, refreshes it once with the cookie and repeats the request.  `app.ts` routes the
request through `authenticate`, `validate` and a handler wrapped in `asyncHandler`;
the handler calls its service, which calls Prisma.  Handlers share nothing but the
database, and the Node process switches between them at every `await`.  Errors reach
`errorHandler`, the only place that answers them. The modules follow these seams:
`WebSession` contains the auth module, statement by statement, and the client code
around it; `Pages` stands on `BookingLedger`, which `Bookings` is proved to
implement.

## Plan

The most important behaviour first.

1. **Bookings** (done): `Intervals`, `BookingLedger`, `Bookings`, `BookingClaims`,
   `MCBookings`; proofs in `IntervalTheorems`, `BookingsProofs` and
   `BookingsLedgerProofs`.
2. **Sessions on the server** (done): `AuthTokens`, `MCAuthTokens`; proofs in
   `AuthTokensProofs`.
3. **Sessions in the browser** (done): `WebSession`, composed with `AuthTokens`, and
   `MCWebSession`; proofs in `WebSessionProofs`.
4. **Rooms** (done): `RoomCatalog`, `MCRoomCatalog`; proofs in `RoomCatalogProofs`.
5. **Reading** (done): `RoomQueries` - the search and the report - and
   `MCRoomQueries`; proofs in `RoomQueriesProofs`.
6. **Pages** (done): `Pages`, `MCPages`; proofs in `PagesProofs`.

What the plan leaves is under [not modelled](#not-modelled); of proofs, only
liveness is left, see the end of [what is proved](#what-is-proved).

## The bookings modules

`Intervals` is the booking window.  `Overlap` is `tsrange '[)' &&` as the constraint
has it; `ShareInstant` says independently what a clash is.

`Bookings` is the core.  Each HTTP request is a process that goes through the calls
of its handler:

| `pc` | The request waits for | Action that ends the wait |
|---|---|---|
| `idle` | its arrival | `Arrive`: `authenticate`, `validate` (with the clock), first query sent |
| `check` | `assertRoomExists` or `findUnique` of the booking | `CheckRoom`, `CheckBooking`: the checks follow the row without an await |
| `write` | its INSERT or UPDATE to get the row lock | `Write`: the version is in the table, uncommitted |
| `verify` | the constraint check | `Pass`, `Violate` (23P01), `Deadlock` (40P01) |
| `commit` | the commit | `Commit`: all versions become visible, the request is answered |
| `done` | nothing | - |

`table` is the committed table, `dirty[r]` what the open transaction of `r` has
written.  A row id is the request that inserts it and its week, which stands for a
fresh `randomUUID()`.  A series goes round `write` and `verify` once per week before
it commits; its `booking_series` row is inserted in the same transaction, nothing
reads it, and it is not represented.  A single statement is a transaction of its
own.  `CallFails` is any call that rejects (pool, connection, the time limit of an
interactive transaction); the second disjunct of `Commit` is the lost
acknowledgement; `Crash` restarts the API: open series are rolled back, single
statements may live on as orphans whose client is `severed`.

PostgreSQL is modelled from the documented behaviour the code relies on and marked
external: READ COMMITTED, row locks on UPDATE, and an exclusion check that inserts
first and looks afterwards.  `Visible` gives the check the committed rows and its
own; a conflicting row of an open transaction, or a committed one that an open
transaction is replacing, makes it wait (`Blockers`); a wait on a cycle ends with a
deadlock error.  An UPDATE writes one column of the newest version, not the row that
was read.

`BookingLedger` is the abstract specification: bookings are entered (one, or the
consecutive weeks of a series), cancelled, or have their end moved, each in one
step, never past the end they were entered with and never into a double booking.
`Bookings!ImplementsLedger` is the refinement: the committed table is the ledger,
and everything before a commit is a stutter.  That the end may also move to a
*later* time is not a weakness of the abstraction: the code does it, see
`ShorteningShrinks` below.

`BookingClaims` states what comments and tests say of the same code and the code
does not keep.  `MCBookings` holds the casts of requests for TLC.

### Properties

| Property | Says |
|---|---|
| `NoDoubleBooking` | no instant at which two confirmed bookings hold one room |
| `SeriesAllOrNothing` | a series is in the table with all its weeks or none, at every moment |
| `AnswersAreTrue` | 201: every row is there; 4xx: none is; 204: cancelled, and stays so |
| `NeverBeyondOriginal` | however shortenings interleave, a booking stays within the window it was made for and keeps a length |
| `CancelledForGood` | no operation revives a cancelled booking |
| `OnlyTheNamedBooking` | a step changes at most one existing booking, the one its owner named |
| `TooLateOnArrival` | a request that arrives after a booking's start neither changes nor creates it (one that arrives before may do so after it: the code checks, awaits, and writes) |
| `ConflictsAreReal` | a conflict is answered only for a committed booking (or a series that clashes with itself) |
| `SomebodyGetsTheRoom` | of rivals for one hour exactly one wins |
| `EveryRequestAnswered` | every accepted request is answered (liveness) |
| `ImplementsLedger` | refinement of `BookingLedger` |

## The auth module

`AuthTokens` models the four operations of `auth.service.ts` with the cookie part of
`auth.controller.ts`.  A request is again a process, and every `await` on the
database a place where others come in:

| `pc` | The request waits for | Action that ends the wait |
|---|---|---|
| `idle` | its arrival | `ArriveWithPassword`; `ArriveWithCookie`: no cookie or an expired JWT ends it at once |
| `findUser` | `user.findUnique`, then bcrypt | `FindUser` |
| `createUser` | the INSERT of the user | `CreateUser`: the unique index has the last word |
| `findToken` | `refreshToken.findUnique` and the user's | `FindToken`: the check of the row |
| `revoke` | the UPDATE of `revoked_at` | `RotateOut` (refresh), `RevokeOut` (logout) |
| `issue` | the INSERT of the new token | `Issue`, which answers |
| `done` | nothing | - |

A token is named after the request that issues it, an account after its address.
`cookie[r]` is the token a request carries: any token that was ever handed out,
since tabs and repeated requests may send an old one.  A statement that was executed
may still reject (`Acknowledged`), a call may fail without effect (`CallFails`), and
the process may stop (`Crash`); `MaxFaults` bounds them together.  A rejected call
is a 500, except in `logout`, whose `catch` makes it a 204 (`Failure`).  bcrypt is
the flag `right` of a request; the role and the access token are not represented
here, since no code of this module reads them back (`WebSession` adds the access
token).  The look-ups of the token and of its user are one step: users are never
deleted.  The expiry in the token and in its row come from one duration and are one
number here, with the two comparisons the code makes of it (`<` by the JWT library,
`<=` by the row).

| Property | Says |
|---|---|
| `RevokedIsRefused` | a refresh that arrives with a token revoked or expired by then is never answered with a session |
| `RotationIsComplete` | a token issued by a refresh is of the same account as the one given, which is revoked |
| `RevokedForGood` | a revocation is never taken back, a token never changes hands |
| `OneAccountPerEmail` | an address never gets a second account |
| `OkMeansSession` | a successful answer stands for a stored token of the account asked for, revoked only by a request that carried it |
| `LogoutRevokes` | while no call fails, an answered logout has revoked the token it carried, or that had expired |

`RotationIsComplete` is what is left of "one token, one successor": between the
check of the row and the revocation there are two awaits, so refreshes that overlap
fork the session.

## The session in the browser

`WebSession` EXTENDS `AuthTokens` and adds the client: tabs of one browser, the
cookie they share, and the calls that pages make.

| State | Code |
|---|---|
| `jar` | the refresh cookie of the browser, set by `Set-Cookie` and sent with every request under `/auth` |
| `tab[t]` | `accessToken` and `refreshPromise` of `client.js`, `status` and `user` of `AuthContext` |
| `call[c]` | one use of `apiFetch`, or of an operation of `api/auth.js` that uses it: where it is (`at`), its request under `/auth`, the refresh it awaits, the token it sent, and what the page is told |
| `lost` | answers that did not reach the browser |

A call goes from `idle` to `first` (the first `doFetch`), on a 401 to `refresh` (it
awaits `refreshPromise`), from there to `again` (the one repetition), and ends in
`settled`; `gone` is a call whose page was reloaded.  A tab may have any number of
calls under way, forms included: only the button of the form that was submitted is
disabled, and the links between `/login` and `/register` mount another one.  When
the refresh that several forms await succeeds, their repetitions are sent in the
same turn but reach the API in any order; `resend` is a repetition that has not
arrived.

| Action | Code |
|---|---|
| `Load` | the page loads, or is loaded again: new module state, `bootstrapSession` |
| `SubmitPassword`, `ClickLogout`, `SendData` | the forms, the button in `NavBar`, any request of a page behind `RequireAuth` |
| `Authenticate` | the middleware: `verifyAccessToken` against the clock |
| `SessionStarts`, `LoadFindsNoSession`, `LogoutEnds` | what `api/auth.js` and `AuthContext` do with the answer |
| `Answered`, `Unreachable`, `RetryUnreachable` | any other answer; `fetch` rejects, outside and inside the `try` of `apiFetch` |
| `Refused` | the first 401, also of a login with a wrong password: start or join the refresh of the tab |
| `RefreshSucceeds`, `RefreshFails` | `refreshPromise` settles; all that await it go on in the same turn of the event loop |
| `Repeat` | the repetition of a form arrives at the API |

The statements of the API (`Serve`) interleave with all of these.  The network is
external: `Delivered` hands an answer over or loses it, in any order.  The browser
names the requests it makes under `/auth` from a script (`Scripts`), whose logins
are all alike: a form that is repeated is the same form.

| Property | Says |
|---|---|
| `NotExpiredByItself` | while nothing fails, a call is told `SESSION_EXPIRED` only if the cookie was absent, expired, or also used by a request that the tab does not share |
| `ShownWithToken` | a tab shows its pages only with an access token and a user, in whatever order loads, logins, logouts and refreshes end |
| `OnlyLateTokens` | the end of a session (a logout, a load without one, a refused refresh) leaves its tab without an access token; after it, until somebody logs in, a token comes only in the very step in which a refresh of the tab that was still under way ends well |
| `EveryCallSettles` | every call is answered, refused or given up (liveness) |

## The room catalogue

`RoomCatalog` is `createRoom` and `updateRoom`: transactions over `rooms`,
`attributes` and `room_attributes`.  A request is a process once more, and its `pc`
is the statement it executes next:

| `pc` | Statement | Action |
|---|---|---|
| `find` | `room.findUnique`, outside the transaction | `FindRoom` |
| `row` | `room.create` or `room.update`; without a column to set it touches no row | `WriteRow` |
| `delete`, `lock` | `roomAttribute.deleteMany`: what it finds, then its locks | `FindLinks`, `DeleteLinks` |
| `select`, `insert` | `attribute.upsert`: look, then insert | `SelectAttribute`, `InsertAttribute` |
| `link` | `roomAttribute.create` | `Link` |
| `commit` | COMMIT | `Commit` |

`writer` (rooms, by who wrote their columns last), `links` and `coined` are the
committed tables; `work[r]` is what the open transaction of `r` has written.  READ
COMMITTED, row locks and unique indexes are modelled as the code relies on them
(external): a statement waits for the transactions in `WaitsFor`, a wait on a cycle
ends with 40P01, and `deleteMany` does not see what is committed after it started.
An upsert that loses the race for a new name takes the other's row or fails on the
unique index: which of the two depends on the version of the ORM, so both are
allowed.  Every error is a 500 (`Rollback`).

| Property | Says |
|---|---|
| `SavedWhole` | a room has the attributes of the request that wrote its columns last, unless requests for the attributes alone come between |
| `RefusedLeavesNothing` | the committed tables change only in a step in which one request ends and all that it asks for is there: one that is refused, or ended by a failed call or a crash, adds and removes nothing, also of the links of a room that was there |
| `EveryRequestEnds` | deadlocks among upserts and deletions end (liveness) |

`RoomForm` always sends the columns together with the list, and so `SavedWhole` is
what its users get.  The API also takes the list alone: `ReplacesTheSet` is
[below](#what-the-repository-says-and-the-code-does-not-do).

## Search and utilisation

`RoomQueries` has the two computations the API makes by reading.  A search is a
request of two queries: `Ask` or `Refuse` (the schema), `LookUp` (ids of the names,
with the early return) and `Select` (the raw query).  `Tick`, `Reserve`, `Cancel`
and `SaveRoom` are transactions of others before, between and after.  `Meant` is the
reference: rooms large enough, with every attribute, and free at every instant of
the window.  `Report` is the aggregate query, a row for each `Group` of bookings of
one room that begin in one week, with the sum of their `Length`s; `DaysReport` is
what `AdminUtilisationPage` asks for.  The table is finite, the window of a booking
is not empty and a capacity is a number; the proofs use these assumptions.

| Property | Says |
|---|---|
| `SearchIsAtomic` | for distinct names, the answer is what was meant at one moment while the search was under way |
| `DaysAddUp` | a report of days counts every confirmed booking that begins on them once and whole, so adjoining reports add up |
| `HoursFit` | the hours of a room in a week fit between the beginning of the week and the end of its last booking: none is counted twice |

## The pages

`Pages` is the user: `SearchPage`, `BookingFormPage`, `RecurringBookingFormPage` and
`MyBookingsPage` in the tabs of a browser.  `tab[t]` holds the `useState` of the
mounted component, `visit` which component that is, and `seen` when it last
rendered, since the buttons of `BookingListItem` compare with the clock of the
rendering.  A `run` is one use of a handler: it asks for something (`wants`), gets
an answer, and goes on.

| Action | Code |
|---|---|
| `Open`, `Choose`, `Instead`, `Dismiss` | the links, `RoomResultCard`, "Book this instead" (the same route: the component keeps its state), the banner |
| `Search`, `Confirm`, `SubmitSeries`, `ClickCancel`, `ClickShorten` | the handlers up to their first `await` |
| `ServeCreate`, `ServeChange`, `ServeRead` | the API, in one step |
| `Lose` | the request or the answer is lost, or a 500 |
| `AfterSearch`, `Booked`, `Conflicted`, `Refused`, `Rechecked`, `AfterSeries`, `Loaded`, `Changed` | the handlers after it, with the second request some of them make |
| `Tick`, `TheyBook`, `TheyCancel` | the clock and the other users |

That the API answers in one step is what `ServiceImplementsLedger` allows: every
transaction of `Bookings` is one atomic change of the ledger or none.  One thing is
coarser: an answer between the check of a start and its UPDATE.  `setState` of a
component that is not mounted does nothing (`Here`).

| Property | Says |
|---|---|
| `ImplementsLedger` | double clicks, lost answers and repetitions change the ledger only as `BookingLedger` allows |
| `OneBookingPerVisit` | while no request fails, a visit of the booking page books at most once, over all the rooms it goes on to |
| `ListKeepsUp` | a user who makes one change at a time from a visit of the list sees each that was answered well, whatever is lost and whatever other users and other tabs do |
| `PagesSettle` | in the end no form is busy, and a page of bookings has its list unless the request for it, in that very visit, has failed (liveness) |

That a page whose request has failed keeps loading is `FailuresAreSeen`,
[below](#what-the-repository-says-and-the-code-does-not-do).  How old a list is, is
not claimed: after a failed second search the old one stays, and of overlapping
loads the older may come last.

## Runs and bounds

Every property of a passing run has a mutant: a definition with a plausible bug in
it (defined just before the one it replaces) under which TLC finds the property
violated.  The runs named `claim_...` are the subject of [a section of their
own](#what-the-repository-says-and-the-code-does-not-do).

| Run | Cast and bounds | Shows |
|---|---|---|
| `bookings` | 3 requests in one of two casts, clock 0-2. Rivals: creations out of 9 (bookings, series of 2 weeks, two rooms, a missing room, an empty window, a series longer than the week). Changes: one books an hour or a series, the others are two out of those that cancel, shorten or book over it, of two users, before and after it is made | concurrent creation (no double booking, whole series, one winner among rivals, no conflict because of a row that may be rolled back), changes, ownership, time, refinement |
| `faults` | 3 requests out of 6, 2 faults anywhere, fair | atomicity and truthful answers under failure; nobody waits for ever |
| `auth_tokens` | one earlier session, 3 requests out of 7 on two addresses, clock 0-3 with tokens of 2 ticks, 1 fault anywhere | accounts, rotation and revocation |
| `web_session` | 2 tabs in one of five casts: both load, the first makes a call, and it is loaded again, or both log out, or it logs in; or only the first loads, and makes a call, sends a login and logs out, or sends two logins from two forms. Up to 8 requests under `/auth`; access tokens of 1 tick, refresh tokens of 2, clock 0-1, 1 lost answer, fair | who is told what about the session, and what stays in a tab |
| `rooms` | one earlier room, 2 requests out of 14, 3 attributes, lists of up to 2 names, 1 fault, fair | whole saves, clean refusals, deadlocks that end |
| `queries` | 2 rooms, 2 names, 2 bookings, 4 windows, 6 searches, days of 2 ticks, weeks of 2 days, 2 changes at any moment | both queries against their references |
| `pages` | 1 tab, 3 uses of handlers, 1 booking of another user, 2 rooms, 1 window, series of up to 2 weeks, 2 visits, clock 0-1, 1 lost request, fair | the pages with answers in any order |
| `claim_shrinks`, `claim_losers` | casts of their own (rivals for one hour; a booking, its shortenings and a rival), no clock | see below |
| `claim_replace` | one room, 2 requests for its attributes | see below |
| `claim_banner`, `claim_loads` | as `pages`, with 2 uses of handlers, or 1 and a lost request | see below |

Why they are enough.  A week of bookings is 3 ticks and a series has at most 2
weeks: an occurrence can overlap, touch or repeat another a week later, and a series
can clash with itself.  Three requests are the least for a wait behind a wait and a
cycle with a bystander.  Of sessions, three requests and an earlier one are the
least for two refreshes of one token with a logout or a late refresh beside them;
the clock passes the expiry of the first token and reaches that of one issued at the
first tick.  In the browser, the access token expires at the first tick, so a call
finds itself in a refresh while its own tab logs out or is loaded again, or shares
it with a login, or two logins share one; meanwhile the other tab loads or logs out
with the same cookie.  The casts are told apart by the script, and `OnlyCast`, an
action constraint, keeps the user from starting calls of another one.  It forbids
nothing else, and no fairness asks for a call to be started, so it hides no
behaviour in which a call that was started does not settle.  Two requests with two
names each are the least for a deadlock between upserts.  Three uses of handlers let
two confirmations of one visit, a change and a reload, or a lost answer and a
repetition overlap.

Requests of the server modules are interchangeable where no cast names them, and so
are the rooms and bookings of the queries: hence the symmetry sets, which no run
with a liveness property uses.  `MaxTime`, `MaxFaults`, `MaxLost`, `MaxChanges`,
`MaxVisits`, `MaxNames`, `MaxCount`, `MaxEnd`, `LastDay` and the sets of requests,
calls and runs are all the bounds there are.  The systems stop when everything is
answered and the clock is at its bound, so a state without a successor is not an
error here; the liveness properties ask the stronger question.

## Fairness

Each module has one weak fairness condition, over all its progress together: of
`Bookings` and `RoomCatalog` the steps of any request, of `WebSession` a statement
of the API, the middleware or a continuation in a tab, of `Pages` an answer or a
continuation.  The code justifies it: Node goes on with a handler when a query
returns, PostgreSQL executes what it was sent and its deadlock detector runs after
`deadlock_timeout`, the event loop of a tab runs the continuations of settled
promises.  Since requests, calls and runs are finitely many and each makes finitely
many steps, nothing more is needed; in particular it is not assumed of any one
request.  The clock, users, arrivals, failures, lost answers and crashes are not
fair.

## What is proved

For every value of the constants: any set of users, rooms, addresses, requests,
tabs, calls and attributes, any length of a week, a series or a list, any number of
ticks, faults and lost answers.  The assumptions are those named with the constants
of each module (requests are well formed, values for absence are none of the others,
a week and a series have a length, and so on).

| Module | Theorems |
|---|---|
| `IntervalTheorems` | `OverlapIsSharing`: the range operator of the constraint holds of two windows with a length exactly when some instant lies in both. `ShorteningKeepsApart`: a window that shrinks cannot begin to clash - the valid half of the argument in the comments of `shortenBooking` |
| `BookingsProofs` | `TypeCorrect`, `NeverDoubleBooked`, `NeverOutgrown`: `TypeOK`, `NoDoubleBooking` and `NeverBeyondOriginal` |
| `BookingsLedgerProofs` | `SeriesAreWhole`, `AnswersTellTheTruth`, `CancelledStays`, `OnlyOwnersChange`, `LateRequestsChangeNothing`, `RefusalsAreJustified`, `RoomIsNotWasted`, and `ServiceImplementsLedger`, the refinement |
| `AuthTokensProofs` | `AuthTypeCorrect`, `RevokedStaysOut`, `RotatesCompletely`, `RevocationsStay`, `AccountsAreUnique`, `AnswersCarrySessions`, `LogoutEndsSession` |
| `WebSessionProofs` | `BrowserIsAClient`: `WebSpec => Spec`, so that the theorems on tokens hold of the browser, as `RevokedStaysOutOfBrowser` says; `WebTypeCorrect`, `PagesHaveToken`, `TokensAreLate`, `TabsDoNotExpireThemselves` |
| `RoomCatalogProofs` | `CatalogTypeCorrect`, `RoomsAreSavedWhole`, `RefusedRequestsLeaveNothing` |
| `RoomQueriesProofs` | `QueriesTypeCorrect`, `SearchLooksAtomic`, `DaysOfReportAddUp`, `ReportedHoursFit` |
| `PagesProofs` | `PagesKeepTheLedger`, the refinement; `PagesTypeCorrect`, `VisitsBookOnce`, `ListsKeepUp` |

Every invariant and every action property that a passing run checks is stated by one
of these theorems.

**No double booking.**  `NoDoubleBooking` is not inductive: it says nothing of rows
that are not yet committed.  `IInv` adds what a commit needs:

- `AdmittedOK`: what the schema and the first query established about a request
  still holds when it writes (rooms are never deleted, a booking's start and the end
  it was made with never change);
- `WindowsOK`: every version of a row, committed or not, lies within the window the
  row was entered with;
- `LocksOK`: two open transactions never hold versions of one row;
- `ChecksOK`, the heart: a version that passed the check clashes with no committed
  row and with no other version that passed.  `PassStep` gets it from the check
  having seen no conflict and having had to wait for none; `CommitStep` uses it for
  the table and hands it on to the transactions that remain open;
- `TableOK`: no two committed rows conflict, in the terms of the constraint.

Each action has a lemma; the steps that only move a request, and those that only
roll back, share one each (`MovesOnly`, `RollsBack`).  `OverlapIsSharing` turns
`TableOK` into `NoDoubleBooking`.

**The ledger.**  `LInv`, on top of `IInv`, says exactly what an open transaction has
written at every point of it (`DirtyOK`), that the rows of a request come all
together or not at all (`RowsOK`), that a request under way came in time and names a
booking of its user (`MayOK`), and what its answer means (`AnswerOK`).  Only
`Commit` touches the table, and there `DirtyOK` says that it enters all occurrences
of one request or changes the one booking that it names.  A conflict is real because
the check answers one only for a row it sees: a committed one, or an earlier week of
its own series (`WhatIsInTheWay`).

For `RoomIsNotWasted`, `WinnerOK` adds that, among rivals, once one of them is
answered there is one that has the room or whose open transaction holds an
occurrence (`Holds`): a rival that is turned away leaves behind the one that was in
its way, whose row is committed or who waits on the same cycle.

**Tokens and accounts.**  The invariant of `AuthTokensProofs` has one part per
request: `InPlace` (which requests wait for which call), `Carries` (a cookie names a
row that exists, and at `issue` a revoked one), `Rotated` and `Stopped`.  That the
row of `Issue` is new, so that no revocation is overwritten, is the fact all rest
on.  The second part of the module states once what any step may do to the tables
(`Effect`), shows it of each action, and derives from it that of the registrations
of an address one is past its INSERT (`OwnersOK`), whose token is whose
(`SessionOK`) and which are revoked (`LoggedOut`).

**The browser.**  Every step of a tab is a step of the auth module or leaves it
alone (`WebStep`); that takes `WInv`, since the cookie must have been issued, and a
repetition, like a first submission, is a request that has not arrived yet
(`OwnRefresh`: no refresh is awaited by two tabs).

`TokensAreLate` goes through the steps: those that end a session clear the token;
one that leaves a tab without a user sets a token only if it is the end of the
refresh that this tab awaits (`TokenStays`, `SettlingKeeps`, `AnswerKeeps`,
`RefreshKeeps`).

`TabsDoNotExpireThemselves` needs `XInv`.  The refreshes of a tab follow one
another, and an answer that is still awaited carries a cookie that nobody has sent
yet (`FreshOK`); so a refresh that has ended has left another cookie in the jar than
the one it carried, or there is an excuse - it was refused for one, or the page was
loaded again and its bootstrap carries the cookie as well (`PastOK`).  Two refreshes
of one tab therefore do not carry one cookie without an excuse (`AloneOK`).  Whoever
revoked a token carried it (`RevokerOK`), so a refusal has an excuse (`FateOK`), and
what a call is told is the refusal of the refresh it awaited (`ToldOK`).

**Rooms.**  A request that writes the columns holds the row of its room until it
commits (`OneWriter`), so that what it has found to delete is all there is (`CutOK`)
and what it has linked are the names before its loop variable (`LoopOK`, `AddOK`):
its commit leaves the room with its list.  `RefusedLeavesNothing` comes from the
same invariant: only a COMMIT touches the committed tables (`OnlyCommitsWrite`), and
then the loop is over, so what has been linked is the whole list and what has been
inserted are names of it (`NamesAtCommit`, `CommitSaves`).

**Reading.**  Names are never deleted, and a room is linked only with names that are
in the table.  What `LookUp` has found are therefore names asked for, all of them if
it goes on, and `Select` answers what is meant at that moment; if it finds fewer,
some name has no row, no room is linked with it, and the empty answer is right at
the moment of the first query.  That takes distinct names, as the property says.
The report is about sums over finite sets.  The provers cannot use an induction
theorem, so the lemmas on sums are proved from a smallest counterexample
(`SmallestSet`): that the equation of the fold has one solution, and what the sum
loses with a member.  From them, the sums of the groups are the sum of the whole
(`DaysOfReportAddUp`), and a group fits between the beginning of its week and its
last end, since without its last booking the rest fits before that one begins
(`ReportedHoursFit`).

**Pages.**  `PInv` relates the ledger to the runs: a row is what its run asked for,
but for its status and an earlier end (`RowOK`), a run asks only for what its
handler can ask for (`GoodRun`), and bookings are apart (`Apart`).  The ask of a run
never changes, so what the refinement mapping calls `entered` never does.
`VisitsBookOnce` adds `OInv`: a confirmation that is not decided keeps its page
busy, one that has its booking is about to leave the page, so that of the
confirmations of a visit one at most is alive or has booked.

`ListsKeepUp` adds `KInv`: of two handlers of a visit that are under way at once
neither is alone (`AloneOK`), so while every one is, changes and readings follow one
another.  A change that was answered well is in the ledger and stays there, though
it may be shortened further or cancelled (`DoneOK`); a list read after it shows it
(`ReadOK`), and so does the page that was given that list (`ListOK`).
`PagesTypeCorrect` needs the one thing that moves a tab beyond `MaxVisits`, a
confirmation that has its booking and goes to the list: those are counted
(`PageOK`), and there are no more of them than runs.

Only model-checked: liveness (`EveryRequestAnswered`, `EveryCallSettles`,
`EveryRequestEnds`, `PagesSettle`), since the provers handle neither fairness nor
ENABLED; and the claims of the next section, which are violated.

## What the repository says and the code does not do

Each of these has a run that finds the counterexample.

- `ShorteningShrinks` (`claim_shrinks`): two concurrent shortenings both pass the
  check against the row as it was; the later UPDATE moves the end to a later time.
  `bookings.service.ts:173` says that the check guarantees the opposite.
- `LosersGetConflict` (`claim_losers`): of two INSERTs that wait for each other, the
  victim of the deadlock detector is answered 500, not the 409 of
  `bookings.concurrency.test.ts:52`.
- `ReplacesTheSet` (`claim_replace`): two updates of the attributes alone leave a
  room with a mixture of both lists; `rooms.service.ts:54` means to replace the
  whole set.
- `BannerIsTrue` (`claim_banner`): after "Book this instead" the banner of the first
  room, "This slot was just booked by someone else", stands on the page of the
  second, which nobody has tried to book, and hides its button.
- `FailuresAreSeen` (`claim_loads`): when the first load of the bookings fails,
  `MyBookingsPage` keeps the error and renders "Loading…" (line 59) above the line
  that would show it, for good.  `ErrorBanner.jsx:5` says that "genuinely unexpected
  failures (500, network drop) still need SOME visible feedback".

Read in the code, or met on the way to a property, and without a run of their own:

- `bookings.service.ts:18`: "no constraint-violation path" for a shortening.  The
  extension above can meet a booking that took the freed time; the error of the
  typed update is not one `errorHandler` translates: 500.
- `bookings.service.ts:119`: a booking that has started "can no longer be shortened
  or cancelled".  It may start between the check and the UPDATE; `TooLateOnArrival`
  is what holds.
- `auth.service.ts:70`: a taken address is a 409.  Of two registrations that both
  found it free, the later is answered 500.
- `auth.service.ts:162`: the `catch` of `logout` is meant for invalid tokens and
  also takes a failed revocation: 204, cookie cleared, token valid.  Hence `faults =
  0` in `LogoutRevokes`.
- `client.js:54`: "only the FIRST of those three refresh calls would succeed".
  Refreshes that overlap on the server can all succeed (`RotationIsComplete` is what
  holds), and the shared promise does not reach other tabs or `bootstrapSession`.
- `auth.js:32`: logout clears the local state "regardless".  A refresh under way
  sets the token again (`OnlyLateTokens`).
- `RecurringBookingFormPage.jsx:38`: "a single generic message is accurate here".
  It is shown for any error, a lost answer of a series that was created included.
- `app.ts:44` says that the cookie has `Path=/auth/refresh`; `auth.controller.ts:36`
  sets `/auth`.
- `tests/bookings.validation.test.ts:77` expects a 201 for a booking that began an
  hour ago, which `CreateBookingSchema` refuses.

## Not modelled

- *Time.*  A tick counter; a comparison within one synchronous stretch of code sees
  one value.  Session time zones (raw `::timestamptz` values stored in `timestamp`
  columns) and daylight saving time are left out.
- *Tables.*  Rooms and users are never deleted by the code; foreign keys therefore
  never fail and are left out, as is `booking_series`, which nothing reads.
- *Reads.*  `listMyBookings` (but for its answer in `Pages`) and `listRooms`; the
  percentage of 40 hours that the report derives from its sum.
- *Roles.*  `requireAdmin` is a flag of a request; no code changes a role.
- *Pages.*  `AdminRoomsPage`, `RoomForm` and `RegisterPage` beyond the requests they
  make; double effects of StrictMode; list requests whose page is gone; layout,
  wording, formats.
- *The API as `Pages` sees it* is atomic, see there.
- *Start-up and wiring* (`config/env`, `logger`, `requestId`, `server`, `app`) has
  no behaviour over time; *tests* are read for what they promise.

## Running the checks

    tlasany MCBookings.tla
    tlc -workers 2 -config Bookings.cfg MCBookings.tla
    tlc -workers 2 -config BookingsFaults.cfg MCBookings.tla
    tlc -workers 2 -config AuthTokens.cfg MCAuthTokens.tla
    tlc -workers 2 -config WebSession.cfg MCWebSession.tla
    tlc -workers 2 -config RoomCatalog.cfg MCRoomCatalog.tla
    tlc -workers 2 -config RoomQueries.cfg MCRoomQueries.tla
    tlc -workers 2 -config Pages.cfg MCPages.tla
    tlc -workers 2 -config ClaimShrinks.cfg MCBookings.tla       (a violation)
    tlc -workers 2 -config ClaimLosers.cfg MCBookings.tla        (a violation)
    tlc -workers 2 -config ClaimReplace.cfg MCRoomCatalog.tla    (a violation)
    tlc -workers 2 -config ClaimBanner.cfg MCPages.tla           (a violation)
    tlc -workers 2 -config ClaimLoads.cfg MCPages.tla            (a violation)
    tlapm BookingsProofs.tla

and likewise for `IntervalTheorems`, `BookingsLedgerProofs`, `AuthTokensProofs`,
`WebSessionProofs`, `RoomCatalogProofs`, `RoomQueriesProofs` and `PagesProofs`; the
last takes about seven minutes, the others less.
