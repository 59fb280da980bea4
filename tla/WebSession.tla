------------------------------ MODULE WebSession ------------------------------
(* The session of the web client: the module variables of api/client.js and   *)
(* the state of AuthContext in each tab of one browser, the refresh cookie    *)
(* that the tabs share, and the calls that pages make, composed with the auth *)
(* module of the API (AuthTokens), whose statements interleave with all this. *)
(*                                                                            *)
(* A call is one use of apiFetch, or of an operation of api/auth.js that uses *)
(* it.  The HTTP requests it makes under /auth are requests of AuthTokens;    *)
(* any other path is a "data" call, which the API only authenticates.  An     *)
(* access token is named after the request that issued it.  The continuations *)
(* of one promise run in one step: nothing comes between microtasks.          *)
EXTENDS AuthTokens

CONSTANTS
  Scripts,    \* what the requests under /auth may ask for; bounds their number
  First,      \* the cookie the browser starts with
  Tab,        \* the tabs of the browser
  Call,       \* the calls that pages make
  TabOf,      \* the tab of each call
  Asks,       \* what each call asks for
  AccessTtl,  \* the lifetime of an access token
  MaxLost,    \* bound on answers lost on their way to the browser
  NoUser      \* nobody is logged in

\* "load" is bootstrapSession, which AuthContext calls when the page loads.
Ops == {"register", "login", "logout", "load", "data"}

\* A form that is sent again is the same: in a script, all logins are of one
\* user and password, and all registrations.
ASSUME ScriptsAssumption ==
  /\ Scripts \subseteq [Req -> Requests]
  /\ \A s \in Scripts : \A q, r \in Req \ Earlier : s[q].op = s[r].op => s[q] = s[r]
ASSUME FirstAssumption == First \in Earlier \cup {NoCookie}
ASSUME CallAssumption == TabOf \in [Call -> Tab] /\ Asks \in [Call -> Ops]
ASSUME NoTokenIsNoRequest == NoToken \notin Req
ASSUME NoUserAssumption == NoUser \notin Email

VARIABLES
  jar,   \* the refresh cookie of the browser
  tab,   \* access: accessToken, refresh: refreshPromise, status, user
  call,  \* at: how far the call is, http: its request under /auth,
         \* refresh: the shared refresh it awaits or has awaited,
         \* bearer: the access token it sent, verdict: what authenticate says,
         \* outcome: what the page is told
  lost   \* how many answers have been lost

web == <<jar, tab, call, lost>>

Tabs == [access : Req \cup {NoToken}, refresh : Req \cup {NoToken},
         status : {"checking", "authenticated", "anonymous"},
         user : Email \cup {NoUser}]

WebCalls == [at : {"idle", "first", "refresh", "resend", "again", "settled", "gone"},
             http : Req \cup {NoToken}, refresh : Req \cup {NoToken},
             bearer : Req \cup {NoToken},
             verdict : {"pending", "ok", "unauthorized"},
             outcome : Answers \cup {"expired", "network"}]

NewTab == [access |-> NoToken, refresh |-> NoToken, status |-> "checking", user |-> NoUser]
NewCall == [at |-> "idle", http |-> NoToken, refresh |-> NoToken, bearer |-> NoToken,
            verdict |-> "pending", outcome |-> "none"]

In(t) == {c \in Call : TabOf[c] = t}

\* The request under /auth that a call, or a refresh, makes next.
Path(c) == IF Asks[c] = "load" THEN "refresh" ELSE Asks[c]
Unused(op) == {r \in Req : pc[r] = "idle" /\ req[r].op = op}
NextHttp(op) == CHOOSE r \in Unused(op) : TRUE

\* fetch with credentials: the browser attaches the cookie it has now.
Post(op) ==
  /\ Unused(op) # {}
  /\ LET r == NextHttp(op) IN
       IF op \in {"register", "login"} THEN ArriveWithPassword(r)
                                           ELSE ArriveWithCookie(r, jar)

-----------------------------------------------------------------------------
(* What a page starts *)

\* doFetch of a data call, with the access token in its header.
Sent(old, at, access) == [old EXCEPT !.at = at, !.bearer = access, !.verdict = "pending"]

\* doFetch of a call under /auth.
Posted(old, at, op) == [old EXCEPT !.at = at, !.http = NextHttp(op)]

\* The page loads, also again: the memory of the tab is new, the requests that
\* were under way are abandoned, and the mount of AuthProvider refreshes.
Load(c) ==
  /\ call[c].at = "idle" /\ Asks[c] = "load"
  /\ Post(Path(c))
  /\ tab' = [tab EXCEPT ![TabOf[c]] = NewTab]
  /\ call' = [d \in Call |->
       IF d = c THEN Posted(call[d], "first", Path(c))
       ELSE IF d \in In(TabOf[c]) /\ call[d].at \in {"first", "refresh", "resend", "again"}
            THEN [call[d] EXCEPT !.at = "gone"] ELSE call[d]]
  /\ UNCHANGED <<jar, lost>>

\* The forms of /login and /register can be reached at any time once the page
\* has loaded.  Only the button of the form that was submitted is disabled: the
\* links between the two pages mount a new form while the first one's
\* submission is still under way.
SubmitPassword(c) ==
  /\ call[c].at = "idle" /\ Asks[c] \in {"register", "login"}
  /\ \E d \in In(TabOf[c]) : Asks[d] = "load" /\ call[d].at # "idle"
  /\ Post(Path(c))
  /\ call' = [call EXCEPT ![c] = Posted(@, "first", Path(c))]
  /\ UNCHANGED <<jar, tab, lost>>

\* RequireAuth and NavBar show the pages and the button Log out only to an
\* authenticated user.
SendData(c) ==
  /\ call[c].at = "idle" /\ Asks[c] = "data"
  /\ tab[TabOf[c]].status = "authenticated"
  /\ call' = [call EXCEPT ![c] = Sent(@, "first", tab[TabOf[c]].access)]
  /\ UNCHANGED <<vars, jar, tab, lost>>

ClickLogout(c) ==
  /\ call[c].at = "idle" /\ Asks[c] = "logout"
  /\ tab[TabOf[c]].status = "authenticated"
  /\ Post(Path(c))
  /\ call' = [call EXCEPT ![c] = Posted(@, "first", Path(c))]
  /\ UNCHANGED <<jar, tab, lost>>

-----------------------------------------------------------------------------
(* The API and the network *)

\* verifyAccessToken: signed with the row, for a lifetime of its own.
AccessValid(a) == a # NoToken /\ now < token[a].expires - RefreshTtl + AccessTtl

\* The middleware of every path but /auth; whatever the handler says next
\* settles the call in the same way.
Authenticate(c) ==
  /\ Asks[c] = "data" /\ call[c].at \in {"first", "again"} /\ call[c].verdict = "pending"
  /\ call' = [call EXCEPT ![c].verdict =
                IF AccessValid(call[c].bearer) THEN "ok" ELSE "unauthorized"]
  /\ UNCHANGED <<vars, jar, tab, lost>>

\* An answer that is ready reaches the browser as it is, or the connection
\* breaks and fetch rejects.  A crash of the API has the same effect.
Delivered(ready, a) ==
  /\ ready # "pending"
  /\ \/ a = ready /\ UNCHANGED lost
     \/ a = "none" /\ ready # "none" /\ lost < MaxLost /\ lost' = lost + 1

HttpAnswer(r) == IF pc[r] = "done" THEN answer[r] ELSE "pending"

Receives(c, a) ==
  /\ call[c].at \in {"first", "again"}
  /\ Delivered(IF Asks[c] = "data" THEN call[c].verdict ELSE HttpAnswer(call[c].http), a)

-----------------------------------------------------------------------------
(* What the client makes of an answer *)

Settled(old, outcome) == [old EXCEPT !.at = "settled", !.outcome = outcome]
Settle(c, outcome) == call' = [call EXCEPT ![c] = Settled(@, outcome)]

SignedIn(t, r) == [tab[t] EXCEPT !.access = r, !.user = token[r].user, !.status = "authenticated"]
SignedOut(t) == [tab[t] EXCEPT !.access = NoToken, !.user = NoUser, !.status = "anonymous"]

\* register, login and bootstrapSession set the access token, AuthContext the
\* user, whatever has happened in the tab since the request was sent.
SessionStarts(c) ==
  /\ Asks[c] \in {"register", "login", "load"}
  /\ Receives(c, "ok")
  /\ jar' = call[c].http
  /\ tab' = [tab EXCEPT ![TabOf[c]] = SignedIn(TabOf[c], call[c].http)]
  /\ Settle(c, "ok")
  /\ UNCHANGED vars

\* bootstrapSession catches every error.
LoadFindsNoSession(c) ==
  /\ Asks[c] = "load"
  /\ \E a \in Answers \ {"ok"} : Receives(c, a) /\ Settle(c, a)
  /\ tab' = [tab EXCEPT ![TabOf[c]] = SignedOut(TabOf[c])]
  /\ UNCHANGED <<vars, jar>>

\* Mutant of LogoutEnds: the access token is left to the next refresh.
LogoutKeepsToken(c) ==
  /\ Asks[c] = "logout"
  /\ \E a \in Answers :
       /\ Receives(c, a)
       /\ Settle(c, a)
       /\ jar' = IF a = "noContent" THEN NoCookie ELSE jar
  /\ tab' = [tab EXCEPT ![TabOf[c]].status = "anonymous", ![TabOf[c]].user = NoUser]
  /\ UNCHANGED vars

\* logout clears what the tab knows even if its request fails; the answer
\* clears the cookie.
LogoutEnds(c) ==
  /\ Asks[c] = "logout"
  /\ \E a \in Answers :
       /\ Receives(c, a)
       /\ Settle(c, a)
       /\ jar' = IF a = "noContent" THEN NoCookie ELSE jar
  /\ tab' = [tab EXCEPT ![TabOf[c]] = SignedOut(TabOf[c])]
  /\ UNCHANGED vars

\* Any answer but a first 401 settles a call, as a result or as an ApiError.
Answered(c) ==
  /\ \E a \in {"ok", "unauthorized", "emailTaken", "internal"} :
       /\ a = "ok" => Asks[c] = "data"
       /\ a = "unauthorized" => call[c].at = "again"
       /\ Receives(c, a)
       /\ Settle(c, a)
  /\ Asks[c] \in {"data", "register", "login"}
  /\ UNCHANGED <<vars, jar, tab>>

\* fetch rejects the first time: the error is not caught here.
Unreachable(c) ==
  /\ call[c].at = "first" /\ Asks[c] \in {"data", "register", "login"}
  /\ Receives(c, "none")
  /\ Settle(c, "network")
  /\ UNCHANGED <<vars, jar, tab>>

\* fetch rejects the second time: the catch takes it for the end of the session.
RetryUnreachable(c) ==
  /\ call[c].at = "again"
  /\ Receives(c, "none")
  /\ tab' = [tab EXCEPT ![TabOf[c]] = SignedOut(TabOf[c])]
  /\ Settle(c, "expired")
  /\ UNCHANGED <<vars, jar>>

Awaiting(old, r) == [old EXCEPT !.at = "refresh", !.refresh = r]

\* Mutant of Refused: every call refreshes on its own.
RefusedAlone(c) ==
  /\ call[c].at = "first" /\ Asks[c] \in {"data", "register", "login"}
  /\ Receives(c, "unauthorized")
  /\ Post("refresh")
  /\ tab' = [tab EXCEPT ![TabOf[c]].refresh = NextHttp("refresh")]
  /\ call' = [call EXCEPT ![c] = Awaiting(@, NextHttp("refresh"))]
  /\ UNCHANGED jar

\* refreshAccessToken after a first 401, also of a login with a wrong password:
\* the calls of a tab share the refresh that is under way.
Refused(c) ==
  LET t == TabOf[c] IN
  /\ call[c].at = "first" /\ Asks[c] \in {"data", "register", "login"}
  /\ Receives(c, "unauthorized")
  /\ \/ /\ tab[t].refresh # NoToken
        /\ call' = [call EXCEPT ![c] = Awaiting(@, tab[t].refresh)]
        /\ UNCHANGED <<vars, tab>>
     \/ /\ tab[t].refresh = NoToken
        /\ Post("refresh")
        /\ tab' = [tab EXCEPT ![t].refresh = NextHttp("refresh")]
        /\ call' = [call EXCEPT ![c] = Awaiting(@, NextHttp("refresh"))]
  /\ UNCHANGED jar

Waiters(r) == {c \in Call : call[c].at = "refresh" /\ call[c].refresh = r}

\* The refresh brings a token: it is the tab's from now on, and whoever awaited
\* it repeats his request: a data call with the new token, a form as it was.
RefreshSucceeds(t) ==
  LET r == tab[t].refresh IN
  /\ r # NoToken /\ Delivered(HttpAnswer(r), "ok")
  /\ jar' = r
  /\ tab' = [tab EXCEPT ![t].access = r, ![t].refresh = NoToken]
  /\ call' = [c \in Call |->
       IF c \notin Waiters(r) THEN call[c]
       ELSE IF Asks[c] = "data" THEN Sent(call[c], "again", r)
       ELSE [call[c] EXCEPT !.at = "resend"]]
  /\ UNCHANGED vars

\* The repeated submission of a form arrives at the API, which reads no cookie
\* and no token of it; those of several forms arrive in any order.
Repeat(c) ==
  /\ call[c].at = "resend"
  /\ Post(Path(c))
  /\ call' = [call EXCEPT ![c] = Posted(@, "again", Path(c))]
  /\ UNCHANGED <<jar, tab, lost>>

\* Mutant of RefreshFails: the tab is not told (onSessionExpired is not set).
RefreshFailsSilently(t) ==
  LET r == tab[t].refresh IN
  /\ r # NoToken
  /\ \E a \in Answers \ {"ok"} : Delivered(HttpAnswer(r), a)
  /\ tab' = [tab EXCEPT ![t].refresh = NoToken, ![t].access = NoToken]
  /\ call' = [c \in Call |-> IF c \in Waiters(r) THEN Settled(call[c], "expired") ELSE call[c]]
  /\ UNCHANGED <<vars, jar>>

\* Mutant of RefreshFails: only one of the callers gets to know.
RefreshFailsOne(t) ==
  LET r == tab[t].refresh IN
  /\ r # NoToken
  /\ \E a \in Answers \ {"ok"} : Delivered(HttpAnswer(r), a)
  /\ tab' = [tab EXCEPT ![t] = [SignedOut(t) EXCEPT !.refresh = NoToken]]
  /\ \E c \in Waiters(r) : Settle(c, "expired")
  /\ UNCHANGED <<vars, jar>>

\* Mutant of RefreshFails: the status of the answer is not looked at.
RefreshTrusted(t) ==
  LET r == tab[t].refresh IN
  /\ r # NoToken
  /\ \E a \in Answers \ {"ok"} : Delivered(HttpAnswer(r), a)
  /\ tab' = [tab EXCEPT ![t].refresh = NoToken, ![t].access = r]
  /\ call' = [c \in Call |-> IF c \in Waiters(r) THEN Settled(call[c], "expired") ELSE call[c]]
  /\ UNCHANGED <<vars, jar>>

\* It fails in any way: whoever awaited it is told that the session is over.
RefreshFails(t) ==
  LET r == tab[t].refresh IN
  /\ r # NoToken
  /\ \E a \in Answers \ {"ok"} : Delivered(HttpAnswer(r), a)
  /\ tab' = [tab EXCEPT ![t] = [SignedOut(t) EXCEPT !.refresh = NoToken]]
  /\ call' = [c \in Call |-> IF c \in Waiters(r) THEN Settled(call[c], "expired") ELSE call[c]]
  /\ UNCHANGED <<vars, jar>>

-----------------------------------------------------------------------------

WebInit ==
  /\ req \in Scripts
  /\ Init
  /\ jar = First
  /\ tab = [t \in Tab |-> NewTab]
  /\ call = [c \in Call |-> NewCall]
  /\ lost = 0

PageStep(c) == Load(c) \/ SubmitPassword(c) \/ SendData(c) \/ ClickLogout(c)

ClientStep(c) ==
  \/ SessionStarts(c) \/ LoadFindsNoSession(c) \/ LogoutEnds(c)
  \/ Answered(c) \/ Unreachable(c) \/ RetryUnreachable(c) \/ Refused(c) \/ Repeat(c)

RefreshStep(t) == RefreshSucceeds(t) \/ RefreshFails(t)

Serve(r) ==
  FindUser(r) \/ CreateUser(r) \/ FindToken(r) \/ RotateOut(r) \/ RevokeOut(r) \/ Issue(r)

WebNext ==
  \/ \E c \in Call : PageStep(c) \/ ClientStep(c) \/ Authenticate(c)
  \/ \E t \in Tab : RefreshStep(t)
  \/ (Tick \/ Crash \/ \E r \in Req : Serve(r) \/ CallFails(r)) /\ UNCHANGED web

WebSpec == WebInit /\ [][WebNext]_<<vars, web>>

Progress ==
  \/ \E r \in Req : Serve(r) /\ UNCHANGED web
  \/ \E c \in Call : ClientStep(c) \/ Authenticate(c)
  \/ \E t \in Tab : RefreshStep(t)

\* While the server has a request or an event loop an answer, something goes
\* on; nothing says that a user does anything, that time passes or that a call
\* fails.
WebFairness == WF_<<vars, web>>(Progress)

FairWebSpec == WebSpec /\ WebFairness

-----------------------------------------------------------------------------
(* Properties *)

\* Every variable of the client keeps its type, and what it holds as a cookie
\* or as an access token was issued.
WebTypeOK ==
  /\ jar \in Held \cup {NoCookie}
  /\ tab \in [Tab -> Tabs]
  /\ call \in [Call -> WebCalls]
  /\ lost \in Nat
  /\ \A t \in Tab : tab[t].access = NoToken \/ tab[t].access \in Held

SharedRefresh(t, r) == \E c \in In(t) : call[c].refresh = r

\* A tab does not end its own session: when no call fails and no answer is
\* lost, a call is told SESSION_EXPIRED only if the cookie of the refresh was
\* absent or expired, or was also carried by a request that the tab does not
\* share: of another tab, of a page load, or of a logout.  However many calls
\* of a tab find their token expired at once, they do not refuse each other.
NotExpiredByItself ==
  \A c \in Call :
    call[c].outcome = "expired" /\ faults = 0 /\ lost = 0 =>
      LET r == call[c].refresh IN
        \/ cookie[r] = NoCookie
        \/ token[cookie[r]].expires <= now
        \/ \E s \in Req \ {r} : cookie[s] = cookie[r] /\ ~SharedRefresh(TabOf[c], s)

\* Pages are shown to a user only while the tab has an access token and knows
\* whose it is, in whatever order loads, logins, logouts and refreshes end.
ShownWithToken ==
  \A t \in Tab : tab[t].status = "authenticated" =>
    tab[t].access # NoToken /\ tab[t].user # NoUser

\* The call ends in this step and its page is told that nobody is logged in:
\* a logout, a load that found no session, a call whose session is over.
EndsSession(c) ==
  /\ call[c].at # "settled" /\ call'[c].at = "settled"
  /\ \/ Asks[c] = "logout"
     \/ Asks[c] = "load" /\ call'[c].outcome # "ok"
     \/ call'[c].outcome = "expired"

\* The refresh of the tab ends in this step, with a token that the tab keeps.
RefreshBrings(t) ==
  LET r == tab[t].refresh IN
  /\ r # NoToken /\ HttpAnswer(r) = "ok"
  /\ tab'[t].refresh = NoToken /\ tab'[t].access = r

\* What a step may do to the access token of a tab where nobody is logged in.
KeepsLateTokens(t) ==
  /\ (\E c \in In(t) : EndsSession(c)) => tab'[t].access = NoToken
  /\ tab'[t].status = "anonymous" /\ tab'[t].access # NoToken =>
       /\ tab[t].status = "anonymous"
       /\ tab'[t].access = tab[t].access \/ RefreshBrings(t)

\* The end of a session clears the access token, whatever else is under way in
\* the tab, and from then on until somebody logs in the tab has a token only if
\* a refresh of its own that was under way brings it, in the step in which that
\* refresh ends: no earlier token survives the logout and none comes back.
OnlyLateTokens == [][\A t \in Tab : KeepsLateTokens(t)]_<<vars, web>>

\* Every call that a page makes is answered, refused or given up, however the
\* refresh it waits for ends: a page does not go on checking, and no caller is
\* left with a promise that nobody settles.
EveryCallSettles ==
  <>[](\A c \in Call : call[c].at \in {"idle", "settled", "gone"})

=============================================================================
