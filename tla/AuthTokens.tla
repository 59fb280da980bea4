------------------------------ MODULE AuthTokens ------------------------------
(* The auth module of the API: register, login, refresh and logout, each run *)
(* by its own HTTP request over the tables users and refresh_tokens.  No      *)
(* handler uses a transaction: each statement commits on its own, and between *)
(* two of them other requests, the clock, a failed call or a crash come in.   *)
(*                                                                            *)
(* A refresh token is named after the request that issues it (its jti is a    *)
(* fresh randomUUID()); an account is named by its email address.             *)
EXTENDS Naturals

CONSTANTS
  Email,       \* the email addresses
  Req,         \* the requests
  Earlier,     \* logins that were answered before the model starts
  Requests,    \* what a request may ask for
  RefreshTtl,  \* the lifetime of a refresh token
  MaxTime,     \* bound on the clock
  MaxFaults,   \* bound on failed calls and crashes
  NoToken,     \* no such row
  NoCookie     \* a request without the refresh cookie

Token == [user : Email, revoked : BOOLEAN, expires : Nat]

\* right says whether the password is the one of the account.
Request == [op : {"register"}, email : Email]
           \cup [op : {"login"}, email : Email, right : BOOLEAN]
           \cup [op : {"refresh", "logout"}]

ASSUME RequestsAssumption == Requests \subseteq Request
ASSUME EarlierAssumption == Earlier \subseteq Req
ASSUME TtlAssumption == RefreshTtl \in Nat
ASSUME NoTokenAssumption == NoToken \notin Token
ASSUME NoCookieAssumption == NoCookie \notin Req

VARIABLES
  now,     \* the clock
  req,     \* what each request asks for; fixed from the start
  pc,      \* the call each request waits for
  cookie,  \* the refresh token each request carries
  stale,   \* whether that token was revoked or expired on arrival (history)
  users,   \* the rows of users
  token,   \* the rows of refresh_tokens
  answer,  \* the HTTP answer of each request
  faults   \* how many failed calls and crashes there have been

vars == <<now, req, pc, cookie, stale, users, token, answer, faults>>

Calls == {"idle", "findUser", "createUser", "findToken", "revoke", "issue", "done"}

Answers == {"none", "ok", "noContent", "unauthorized", "emailTaken", "internal"}

InFlight(r) == pc[r] \notin {"idle", "done"}

\* The tokens that a client has received; a browser may send any of them, also
\* one that another tab or an earlier answer has replaced since.
Held == {t \in Req : answer[t] = "ok" /\ token[t] # NoToken}

Live(t) == token[t] # NoToken /\ ~token[t].revoked /\ now <= token[t].expires

-----------------------------------------------------------------------------

Goto(r, call) == pc' = [pc EXCEPT ![r] = call] /\ UNCHANGED answer

Reply(r, code) ==
  /\ pc' = [pc EXCEPT ![r] = "done"]
  /\ answer' = [answer EXCEPT ![r] = code]

\* What a rejected database call becomes: errorHandler answers an internal
\* error, but the catch of logout takes any error for an invalid token.
Failure(r) == IF req[r].op = "logout" THEN "noContent" ELSE "internal"

Fault(r) ==
  /\ faults < MaxFaults
  /\ faults' = faults + 1
  /\ Reply(r, Failure(r))

\* A statement that has been executed is acknowledged, or its connection breaks
\* first and the call rejects.
Acknowledged(r, call) ==
  \/ Goto(r, call) /\ UNCHANGED faults
  \/ Fault(r)

AcknowledgedLast(r, code) ==
  \/ Reply(r, code) /\ UNCHANGED faults
  \/ Fault(r)

Tick ==
  /\ now < MaxTime
  /\ now' = now + 1
  /\ UNCHANGED <<req, pc, cookie, stale, users, token, answer, faults>>

\* validate passes a registration or a login; the service sends its query.
ArriveWithPassword(r) ==
  /\ pc[r] = "idle"
  /\ req[r].op \in {"register", "login"}
  /\ Goto(r, "findUser")
  /\ UNCHANGED <<now, req, cookie, stale, users, token, faults>>

\* A refresh or a logout brings the cookie c.  Without one refreshHandler
\* answers 401 and logout does nothing; verifyRefreshToken refuses an expired
\* JWT before the database is asked, and logout takes that for done.
ArriveWithCookie(r, c) ==
  LET usable == c # NoCookie /\ now < token[c].expires IN
  /\ pc[r] = "idle"
  /\ req[r].op \in {"refresh", "logout"}
  /\ cookie' = [cookie EXCEPT ![r] = c]
  /\ stale' = [stale EXCEPT ![r] = c # NoCookie /\ ~Live(c)]
  /\ \/ usable /\ req[r].op = "refresh" /\ Goto(r, "findToken")
     \/ usable /\ req[r].op = "logout" /\ Goto(r, "revoke")
     \/ ~usable /\ req[r].op = "refresh" /\ Reply(r, "unauthorized")
     \/ ~usable /\ req[r].op = "logout" /\ Reply(r, "noContent")
  /\ UNCHANGED <<now, req, users, token, faults>>

\* Mutant of FindUser: login does not ask whether there is a user.
FindAnyUser(r) ==
  LET known == req[r].email \in users IN
  /\ pc[r] = "findUser"
  /\ \/ req[r].op = "register" /\ known /\ Reply(r, "emailTaken")
     \/ req[r].op = "register" /\ ~known /\ Goto(r, "createUser")
     \/ req[r].op = "login" /\ req[r].right /\ Goto(r, "issue")
     \/ req[r].op = "login" /\ ~req[r].right /\ Reply(r, "unauthorized")
  /\ UNCHANGED <<now, req, cookie, stale, users, token, faults>>

\* findUnique by email.  register goes on to bcrypt.hash and create; login has
\* bcrypt.compare decide, against the dummy hash when there is no account.
FindUser(r) ==
  LET known == req[r].email \in users IN
  /\ pc[r] = "findUser"
  /\ \/ req[r].op = "register" /\ known /\ Reply(r, "emailTaken")
     \/ req[r].op = "register" /\ ~known /\ Goto(r, "createUser")
     \/ req[r].op = "login" /\ known /\ req[r].right /\ Goto(r, "issue")
     \/ req[r].op = "login" /\ ~(known /\ req[r].right) /\ Reply(r, "unauthorized")
  /\ UNCHANGED <<now, req, cookie, stale, users, token, faults>>

\* Mutant of CreateUser: an upsert, so that the second registration of an
\* address gets a session of the first one's account.
UpsertUser(r) ==
  /\ pc[r] = "createUser"
  /\ users' = users \cup {req[r].email}
  /\ Acknowledged(r, "issue")
  /\ UNCHANGED <<now, req, cookie, stale, token>>

\* INSERT INTO users: the unique index refuses the address if another request
\* has registered it since it was looked up, which errorHandler does not know.
CreateUser(r) ==
  /\ pc[r] = "createUser"
  /\ \/ /\ req[r].email \notin users
        /\ users' = users \cup {req[r].email}
        /\ Acknowledged(r, "issue")
     \/ /\ req[r].email \in users
        /\ Reply(r, "internal")
        /\ UNCHANGED <<users, faults>>
  /\ UNCHANGED <<now, req, cookie, stale, token>>

\* Mutant of Usable: the JWT alone is trusted.
UsableJwt(t) == token[t] # NoToken

\* The row is there, not revoked and not expired.
Usable(t) ==
  token[t] # NoToken /\ ~token[t].revoked /\ ~(token[t].expires < now)

\* findUnique of the token row, the check, and findUnique of its user, who
\* exists: no code deletes a user.
FindToken(r) ==
  /\ pc[r] = "findToken"
  /\ \/ Usable(cookie[r]) /\ Goto(r, "revoke")
     \/ ~Usable(cookie[r]) /\ Reply(r, "unauthorized")
  /\ UNCHANGED <<now, req, cookie, stale, users, token, faults>>

\* Mutant of RotateOut: the old token is not revoked before the new one is
\* issued.
RotateNothing(r) ==
  /\ pc[r] = "revoke"
  /\ req[r].op = "refresh"
  /\ Acknowledged(r, "issue")
  /\ UNCHANGED <<now, req, cookie, stale, users, token>>

\* refresh revokes the token it was given, whatever became of it since.
RotateOut(r) ==
  /\ pc[r] = "revoke"
  /\ req[r].op = "refresh"
  /\ token' = [token EXCEPT ![cookie[r]].revoked = TRUE]
  /\ Acknowledged(r, "issue")
  /\ UNCHANGED <<now, req, cookie, stale, users>>

\* Mutant of RevokeOut: the updateMany toggles revokedAt where it should only
\* set it (the condition revokedAt: null is dropped).
ToggleOut(r) ==
  /\ pc[r] = "revoke"
  /\ req[r].op = "logout"
  /\ token' = [token EXCEPT ![cookie[r]].revoked = ~@]
  /\ AcknowledgedLast(r, "noContent")
  /\ UNCHANGED <<now, req, cookie, stale, users>>

\* logout revokes the token unless it is revoked already.
RevokeOut(r) ==
  /\ pc[r] = "revoke"
  /\ req[r].op = "logout"
  /\ token' = [token EXCEPT ![cookie[r]].revoked = TRUE]
  /\ AcknowledgedLast(r, "noContent")
  /\ UNCHANGED <<now, req, cookie, stale, users>>

Owner(r) ==
  IF req[r].op = "refresh" THEN token[cookie[r]].user ELSE req[r].email

\* Mutant of Issue: nobody waits for the insert, which may fail.
IssueUnawaited(r) ==
  /\ pc[r] = "issue"
  /\ Reply(r, "ok")
  /\ UNCHANGED <<now, req, cookie, stale, users, token, faults>>

\* issueTokenPair: the row of the new refresh token; the answer carries it in
\* the cookie and the access token in the body.
Issue(r) ==
  /\ pc[r] = "issue"
  /\ token' = [token EXCEPT ![r] = [user |-> Owner(r), revoked |-> FALSE,
                                    expires |-> now + RefreshTtl]]
  /\ AcknowledgedLast(r, "ok")
  /\ UNCHANGED <<now, req, cookie, stale, users>>

\* A database call rejects without effect.
CallFails(r) ==
  /\ InFlight(r)
  /\ Fault(r)
  /\ UNCHANGED <<now, req, cookie, stale, users, token>>

\* The API process stops: nobody answers the requests it was serving.
Crash ==
  /\ faults < MaxFaults
  /\ faults' = faults + 1
  /\ pc' = [r \in Req |-> IF InFlight(r) THEN "done" ELSE pc[r]]
  /\ UNCHANGED <<now, req, cookie, stale, users, token, answer>>

-----------------------------------------------------------------------------

Init ==
  /\ now = 0
  /\ req \in [Req -> Requests]
  /\ \A r \in Earlier : req[r].op = "login"
  /\ pc = [r \in Req |-> IF r \in Earlier THEN "done" ELSE "idle"]
  /\ cookie = [r \in Req |-> NoCookie]
  /\ stale = [r \in Req |-> FALSE]
  /\ users = {req[r].email : r \in Earlier}
  /\ token = [r \in Req |->
                IF r \in Earlier
                THEN [user |-> req[r].email, revoked |-> FALSE, expires |-> RefreshTtl]
                ELSE NoToken]
  /\ answer = [r \in Req |-> IF r \in Earlier THEN "ok" ELSE "none"]
  /\ faults = 0

Step(r) ==
  \/ ArriveWithPassword(r)
  \/ \E c \in Held \cup {NoCookie} : ArriveWithCookie(r, c)
  \/ FindUser(r) \/ CreateUser(r) \/ FindToken(r)
  \/ RotateOut(r) \/ RevokeOut(r) \/ Issue(r) \/ CallFails(r)

Next == Tick \/ (\E r \in Req : Step(r)) \/ Crash

Spec == Init /\ [][Next]_vars

-----------------------------------------------------------------------------
(* Properties *)

\* Every variable keeps its type, and every token belongs to an account.
TypeOK ==
  /\ now \in Nat
  /\ req \in [Req -> Requests]
  /\ pc \in [Req -> Calls]
  /\ cookie \in [Req -> Req \cup {NoCookie}]
  /\ stale \in [Req -> BOOLEAN]
  /\ users \subseteq Email
  /\ token \in [Req -> Token \cup {NoToken}]
  /\ answer \in [Req -> Answers]
  /\ faults \in Nat
  /\ \A t \in Req : token[t] # NoToken => token[t].user \in users

\* A refresh that arrives with a token that was revoked or has expired is
\* refused, however its queries interleave with other requests: rotation and
\* logout take effect for whoever comes later.
RevokedIsRefused == \A r \in Req : stale[r] => answer[r] # "ok"

\* A token that a refresh has issued is of the same account as the token it
\* was given, and that one is revoked by then: a session does not change hands
\* and does not fork, except among refreshes that read the token before either
\* revoked it.
RotationIsComplete ==
  \A r \in Req : req[r].op = "refresh" /\ token[r] # NoToken =>
    /\ cookie[r] # NoCookie
    /\ token[cookie[r]].revoked
    /\ token[cookie[r]].user = token[r].user

\* Rows of tokens stay, with their user, and a revocation is not undone.
KeepsRevocations ==
  \A t \in Req : token[t] # NoToken =>
    /\ token'[t] # NoToken
    /\ token[t].revoked => token'[t].revoked
    /\ token'[t].user = token[t].user

\* A revoked token never becomes valid again: neither a refresh nor a second
\* logout undoes a revocation, in whatever order their statements arrive.
RevokedForGood == [][KeepsRevocations]_vars

\* An address has one account: a registration succeeds only if the address had
\* no account, and of several for one address only one does, whichever way
\* their look-ups, their hashing and their inserts interleave.
OneAccountPerEmail ==
  LET registered(r) == req[r].op = "register" /\ answer[r] = "ok" IN
  \A r, s \in Req :
    /\ registered(r)
    /\ registered(s) \/ s \in Earlier
    /\ req[s].email = req[r].email
    => r = s

\* The cookie a client is given is worth something: the token in a successful
\* answer was issued, for the account asked for, and only a refresh or a logout
\* that carried it can have revoked it.
OkMeansSession ==
  \A r \in Req : answer[r] = "ok" =>
    /\ token[r] # NoToken
    /\ req[r].op \in {"register", "login"} => token[r].user = req[r].email
    /\ token[r].revoked => \E s \in Req : cookie[s] = r

\* A logout that is answered ends the session whose cookie it carried, as long
\* as no call fails: whatever refreshes and logouts of the same token are under
\* way, it is revoked, or its JWT had expired before.
LogoutRevokes ==
  \A r \in Req :
    req[r].op = "logout" /\ answer[r] = "noContent" /\ cookie[r] # NoCookie
      /\ faults = 0
    => token[cookie[r]].revoked \/ token[cookie[r]].expires <= now

=============================================================================
