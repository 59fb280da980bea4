--------------------------- MODULE AuthTokensProofs ---------------------------
(* TypeOK, RotationIsComplete and RevokedIsRefused hold of AuthTokens for     *)
(* every set of requests, accounts and every bound; in the second part,       *)
(* OneAccountPerEmail, OkMeansSession and LogoutRevokes.                      *)
EXTENDS AuthTokens, TLAPS

-----------------------------------------------------------------------------
(* The inductive invariant *)

\* Which requests wait for which call: only a refresh looks a token up, only a
\* registration inserts a user, a logout issues nothing, and a request that has
\* not been finished has no answer and no token.
InPlace(r) ==
  /\ pc[r] # "done" => token[r] = NoToken /\ answer[r] = "none"
  /\ pc[r] = "findToken" => req[r].op = "refresh"
  /\ pc[r] = "findUser" => req[r].op \in {"register", "login"}
  /\ pc[r] = "createUser" => req[r].op = "register"
  /\ pc[r] = "issue" => req[r].op # "logout"
  /\ pc[r] = "issue" /\ req[r].op # "refresh" => req[r].email \in users

\* A request carries a token that exists, and a refresh carries one while it
\* works; when it issues the new one, the old one is revoked.
Carries(r) ==
  /\ cookie[r] # NoCookie => token[cookie[r]] # NoToken
  /\ pc[r] \in {"findToken", "revoke"} => cookie[r] # NoCookie
  /\ pc[r] = "issue" /\ req[r].op = "refresh" =>
       cookie[r] # NoCookie /\ token[cookie[r]].revoked

Rotated(r) ==
  req[r].op = "refresh" /\ token[r] # NoToken =>
    /\ cookie[r] # NoCookie
    /\ token[cookie[r]].revoked
    /\ token[cookie[r]].user = token[r].user

\* A token that was not valid on arrival is not valid later, and its refresh
\* does not get past the check.
Stopped(r) ==
  stale[r] =>
    /\ cookie[r] # NoCookie
    /\ ~Live(cookie[r])
    /\ req[r].op \in {"refresh", "logout"}
    /\ req[r].op = "refresh" => pc[r] \in {"findToken", "done"}
    /\ answer[r] # "ok"

Kept(r) == InPlace(r) /\ Carries(r) /\ Rotated(r) /\ Stopped(r)

IInv == TypeOK /\ \A r \in Req : Kept(r)

-----------------------------------------------------------------------------
(* The initial states *)

\* The program starts in a state of the invariant.
LEMMA InitIInv == Init => IInv
<1> SUFFICES ASSUME Init PROVE IInv
  OBVIOUS
<1> USE RequestsAssumption, EarlierAssumption, TtlAssumption, NoCookieAssumption
<1>1. \A r \in Earlier : req[r].email \in Email
  <2> SUFFICES ASSUME NEW r \in Earlier PROVE req[r].email \in Email
    OBVIOUS
  <2>1. req[r] \in Request /\ req[r].op = "login"
    BY DEF Init
  <2> QED
    BY <2>1 DEF Request
<1>2. TypeOK
  BY <1>1, NoTokenAssumption DEF Init, TypeOK, Calls, Answers, Token
<1>3. \A r \in Req : Kept(r)
  BY NoTokenAssumption DEF Init, Kept, InPlace, Carries, Rotated, Stopped
<1> QED
  BY <1>2, <1>3 DEF IInv

-----------------------------------------------------------------------------
(* The steps *)

\* A row is a record, and a request carries the fields of its operation.
LEMMA Fields ==
  ASSUME TypeOK, NEW r \in Req
  PROVE  /\ token[r] # NoToken => token[r] \in Token
         /\ req[r].op \in {"register", "login", "refresh", "logout"}
         /\ req[r].op \in {"register", "login"} => req[r].email \in Email
BY RequestsAssumption DEF TypeOK, Request

\* Time passes: what is not valid stays so.
LEMMA TickIInv == IInv /\ Tick => IInv'
<1> SUFFICES ASSUME IInv, Tick PROVE IInv'
  OBVIOUS
<1>1. TypeOK'
  BY DEF IInv, Tick, TypeOK
<1>2. ASSUME NEW r \in Req PROVE Kept(r)'
  <2>1. Kept(r) /\ TypeOK
    BY DEF IInv
  <2>2. cookie[r] # NoCookie => cookie[r] \in Req
    BY <2>1 DEF TypeOK
  <2>3. \A t \in Req : token[t] # NoToken => token[t] \in Token
    BY <2>1, Fields
  <2>4. \A t \in Req : ~Live(t) => ~Live(t)'
    BY <2>1, <2>3 DEF Tick, Live, TypeOK, Token
  <2> QED
    BY <2>1, <2>2, <2>4 DEF Tick, Kept, InPlace, Carries, Rotated, Stopped
<1> QED
  BY <1>1, <1>2 DEF IInv

\* The process stops: requests end without an answer.
LEMMA CrashIInv == IInv /\ Crash => IInv'
<1> SUFFICES ASSUME IInv, Crash PROVE IInv'
  OBVIOUS
<1>1. TypeOK'
  BY DEF IInv, Crash, TypeOK, Calls
<1>2. ASSUME NEW r \in Req PROVE Kept(r)'
  <2>1. Kept(r) /\ TypeOK
    BY DEF IInv
  <2>2. pc'[r] \in {pc[r], "done"}
    BY DEF Crash
  <2> QED
    BY <2>1, <2>2 DEF Crash, Kept, InPlace, Carries, Rotated, Stopped, Live
<1> QED
  BY <1>1, <1>2 DEF IInv

\* Nothing but the position and the answer of request r changes: the other
\* requests keep what they had, and r has the new position's part to show.
LEMMA OnlyMoves ==
  ASSUME IInv, NEW r \in Req,
         UNCHANGED <<now, req, cookie, stale, users, token>>,
         \A s \in Req \ {r} : pc'[s] = pc[s] /\ answer'[s] = answer[s],
         Kept(r)'
  PROVE  \A s \in Req : Kept(s)'
<1> SUFFICES ASSUME NEW s \in Req \ {r} PROVE Kept(s)'
  OBVIOUS
<1>1. Kept(s) /\ pc'[s] = pc[s] /\ answer'[s] = answer[s]
  BY DEF IInv
<1> QED
  BY <1>1 DEF Kept, InPlace, Carries, Rotated, Stopped, Live

\* A request ends, with or without an answer that issues nothing.
LEMMA RefusalKeeps ==
  ASSUME IInv, NEW r \in Req, NEW code, Reply(r, code), code # "ok",
         UNCHANGED <<now, req, cookie, stale, users, token>>
  PROVE  \A s \in Req : Kept(s)'
<1>1. \A s \in Req \ {r} : pc'[s] = pc[s] /\ answer'[s] = answer[s]
  BY DEF Reply, IInv, TypeOK
<1>2. pc'[r] = "done" /\ answer'[r] = code
  BY DEF Reply, IInv, TypeOK
<1>3. Kept(r)
  BY DEF IInv
<1>4. Kept(r)'
  BY <1>2, <1>3 DEF Kept, InPlace, Carries, Rotated, Stopped, Live
<1> QED
  BY <1>1, <1>4, OnlyMoves

\* A call that fails without effect ends its request.
LEMMA CallFailsIInv == ASSUME IInv, NEW r \in Req, CallFails(r) PROVE IInv'
<1>1. Failure(r) \in Answers \ {"ok"}
  BY DEF Failure, Answers
<1>2. TypeOK'
  BY <1>1 DEF IInv, CallFails, Fault, Reply, TypeOK, Calls
<1>3. \A s \in Req : Kept(s)'
  BY <1>1, RefusalKeeps DEF CallFails, Fault
<1> QED
  BY <1>2, <1>3 DEF IInv

\* The look-ups read the tables and choose the next call.
LEMMA LooksIInv ==
  ASSUME IInv, NEW r \in Req,
         ArriveWithPassword(r) \/ FindUser(r) \/ FindToken(r)
  PROVE  IInv'
<1>1. /\ UNCHANGED <<now, req, cookie, stale, users, token, faults>>
      /\ \/ \E call \in {"findUser", "createUser", "revoke", "issue"} : Goto(r, call)
         \/ \E code \in {"emailTaken", "unauthorized"} : Reply(r, code)
  BY DEF ArriveWithPassword, FindUser, FindToken
<1>2. TypeOK'
  BY <1>1 DEF IInv, Goto, Reply, TypeOK, Calls, Answers
<1>3. Kept(r) /\ TypeOK
  BY DEF IInv
<1>4. CASE \E code \in {"emailTaken", "unauthorized"} : Reply(r, code)
  <2>1. \A s \in Req : Kept(s)'
    BY <1>1, <1>4, RefusalKeeps
  <2> QED
    BY <1>2, <2>1 DEF IInv
<1>5. CASE \E call \in {"findUser", "createUser", "revoke", "issue"} : Goto(r, call)
  <2>1. answer' = answer /\ \A s \in Req \ {r} : pc'[s] = pc[s]
    BY <1>3, <1>5 DEF Goto, TypeOK
  <2>2. Kept(r)'
    <3>1. CASE ArriveWithPassword(r)
      <4>1. pc'[r] = "findUser"
        BY <1>3, <3>1 DEF ArriveWithPassword, Goto, TypeOK
      <4> QED
        BY <1>1, <1>3, <2>1, <3>1, <4>1
        DEF ArriveWithPassword, Kept, InPlace, Carries, Rotated, Stopped
    <3>2. CASE FindUser(r)
      <4>1. \/ pc'[r] = "createUser" /\ req[r].op = "register"
            \/ /\ pc'[r] = "issue" /\ req[r].op = "login"
               /\ req[r].email \in users
        BY <1>3, <1>5, <3>2 DEF FindUser, Goto, Reply, TypeOK
      <4>2. pc[r] = "findUser"
        BY <3>2 DEF FindUser
      <4> QED
        BY <1>1, <1>3, <2>1, <4>1, <4>2
        DEF Kept, InPlace, Carries, Rotated, Stopped
    <3>3. CASE FindToken(r)
      <4>1. pc[r] = "findToken" /\ pc'[r] = "revoke" /\ Usable(cookie[r])
        BY <1>3, <1>5, <3>3 DEF FindToken, Goto, Reply, TypeOK
      <4>2. cookie[r] # NoCookie /\ cookie[r] \in Req
        BY <1>3, <4>1 DEF Kept, Carries, TypeOK
      <4>3. Live(cookie[r])
        <5>1. token[cookie[r]] \in Token
          BY <1>3, <4>1, <4>2, Fields DEF Usable
        <5> QED
          BY <1>3, <4>1, <5>1 DEF Usable, Live, Token, TypeOK
      <4> QED
        BY <1>1, <1>3, <2>1, <4>1, <4>2, <4>3
        DEF Kept, InPlace, Carries, Rotated, Stopped
    <3> QED
      BY <3>1, <3>2, <3>3
  <2>3. \A s \in Req : Kept(s)'
    BY <1>1, <2>1, <2>2, OnlyMoves
  <2> QED
    BY <1>2, <2>3 DEF IInv
<1> QED
  BY <1>1, <1>4, <1>5

\* A refresh or a logout arrives with a token that somebody holds.
LEMMA ArriveWithCookieIInv ==
  ASSUME IInv, NEW r \in Req, NEW c \in Held \cup {NoCookie}, ArriveWithCookie(r, c)
  PROVE  IInv'
<1>1. Kept(r) /\ TypeOK /\ pc[r] = "idle" /\ req[r].op \in {"refresh", "logout"}
  BY DEF IInv, ArriveWithCookie
<1>2. c \in Req \cup {NoCookie} /\ (c # NoCookie => token[c] # NoToken)
  BY DEF Held
<1>3. /\ UNCHANGED <<now, req, users, token, faults>>
      /\ cookie' = [cookie EXCEPT ![r] = c]
      /\ stale' = [stale EXCEPT ![r] = c # NoCookie /\ ~Live(c)]
  BY DEF ArriveWithCookie
<1>4. \/ /\ c # NoCookie
         /\ \/ req[r].op = "refresh" /\ Goto(r, "findToken")
            \/ req[r].op = "logout" /\ Goto(r, "revoke")
      \/ Reply(r, "unauthorized")
      \/ Reply(r, "noContent")
  BY DEF ArriveWithCookie
<1>5. TypeOK'
  BY <1>1, <1>2, <1>3, <1>4 DEF Goto, Reply, TypeOK, Calls, Answers
<1>6. Kept(r)'
  <2>1. cookie'[r] = c /\ (stale'[r] => c # NoCookie /\ ~Live(c))
    BY <1>1, <1>3 DEF TypeOK
  <2>2. /\ token[r] = NoToken /\ answer[r] = "none"
        /\ \/ pc'[r] = "findToken" /\ req[r].op = "refresh" /\ c # NoCookie
           \/ pc'[r] = "revoke" /\ req[r].op = "logout" /\ c # NoCookie
           \/ pc'[r] = "done"
        /\ answer'[r] # "ok" /\ (pc'[r] # "done" => answer'[r] = "none")
    BY <1>1, <1>4 DEF Goto, Reply, TypeOK, Kept, InPlace
  <2> QED
    BY <1>1, <1>2, <1>3, <2>1, <2>2
    DEF Kept, InPlace, Carries, Rotated, Stopped, Live
<1>7. ASSUME NEW s \in Req \ {r} PROVE Kept(s)'
  <2>1. /\ Kept(s) /\ pc'[s] = pc[s] /\ answer'[s] = answer[s]
        /\ cookie'[s] = cookie[s] /\ stale'[s] = stale[s]
    BY <1>1, <1>3, <1>4 DEF IInv, Goto, Reply, TypeOK
  <2> QED
    BY <1>3, <2>1 DEF Kept, InPlace, Carries, Rotated, Stopped, Live
<1> QED
  BY <1>5, <1>6, <1>7 DEF IInv

\* What the last steps do to the place of their request.
LEMMA Moves ==
  ASSUME TypeOK, NEW r \in Req, NEW call \in Calls,
         NEW code \in Answers, code # "ok",
         Acknowledged(r, call) \/ AcknowledgedLast(r, code)
  PROVE  /\ \A s \in Req \ {r} : pc'[s] = pc[s] /\ answer'[s] = answer[s]
         /\ \/ pc'[r] = call /\ answer'[r] = answer[r]
            \/ pc'[r] = "done" /\ answer'[r] # "ok"
         /\ pc' \in [Req -> Calls] /\ answer' \in [Req -> Answers]
         /\ faults' \in Nat
BY DEF Acknowledged, AcknowledgedLast, Goto, Fault, Reply, Failure, TypeOK,
       Calls, Answers


\* A registration inserts its user, or finds the address taken.
LEMMA CreateUserIInv == ASSUME IInv, NEW r \in Req, CreateUser(r) PROVE IInv'
<1>1. Kept(r) /\ TypeOK /\ pc[r] = "createUser" /\ req[r].op = "register"
  BY DEF IInv, CreateUser, Kept, InPlace
<1>2. UNCHANGED <<now, req, cookie, stale, token>>
  BY DEF CreateUser
<1>3. CASE Reply(r, "internal") /\ UNCHANGED <<users, faults>>
  <2>1. TypeOK'
    BY <1>1, <1>2, <1>3 DEF Reply, TypeOK, Calls, Answers
  <2>2. \A s \in Req : Kept(s)'
    BY <1>2, <1>3, RefusalKeeps
  <2> QED
    BY <2>1, <2>2 DEF IInv
<1>4. CASE users' = users \cup {req[r].email} /\ Acknowledged(r, "issue")
  <2>1. /\ \A s \in Req \ {r} : pc'[s] = pc[s] /\ answer'[s] = answer[s]
        /\ \/ pc'[r] = "issue" /\ answer'[r] = answer[r]
           \/ pc'[r] = "done" /\ answer'[r] # "ok"
        /\ pc' \in [Req -> Calls] /\ answer' \in [Req -> Answers]
        /\ faults' \in Nat
    <3>1. "issue" \in Calls /\ "internal" \in Answers
      BY DEF Calls, Answers
    <3> QED
      BY <1>1, <1>4, <3>1, Moves
  <2>2. TypeOK'
    BY <1>1, <1>2, <1>4, <2>1, Fields DEF TypeOK
  <2>3. ASSUME NEW s \in Req PROVE Kept(s)'
    <3>1. Kept(s)
      BY DEF IInv
    <3>2. CASE s = r
      BY <1>1, <1>2, <1>4, <2>1, <3>2
      DEF Kept, InPlace, Carries, Rotated, Stopped, Live
    <3>3. CASE s # r
      BY <1>2, <1>4, <2>1, <3>1, <3>3
      DEF Kept, InPlace, Carries, Rotated, Stopped, Live
    <3> QED
      BY <3>2, <3>3
  <2> QED
    BY <2>2, <2>3 DEF IInv
<1> QED
  BY <1>3, <1>4 DEF CreateUser

\* Setting revokedAt keeps the row and its user, and makes nothing valid.
LEMMA Revoking ==
  ASSUME TypeOK, NEW c \in Req, token[c] # NoToken, UNCHANGED now,
         token' = [token EXCEPT ![c].revoked = TRUE]
  PROVE  /\ token' \in [Req -> Token \cup {NoToken}]
         /\ token'[c].revoked
         /\ \A t \in Req :
              /\ token'[t] = NoToken <=> token[t] = NoToken
              /\ token[t] # NoToken =>
                   /\ token'[t].user = token[t].user
                   /\ token[t].revoked => token'[t].revoked
              /\ ~Live(t) => ~Live(t)'
<1>1. token[c] \in Token /\ token \in [Req -> Token \cup {NoToken}]
  BY Fields DEF TypeOK
<1>2. /\ token'[c] = [token[c] EXCEPT !.revoked = TRUE]
      /\ \A t \in Req \ {c} : token'[t] = token[t]
  BY <1>1
<1>3. token'[c] \in Token /\ token'[c].revoked /\ token'[c].user = token[c].user
  BY <1>1, <1>2 DEF Token
<1>4. token' \in [Req -> Token \cup {NoToken}]
  BY <1>1, <1>2, <1>3
<1> QED
  BY <1>1, <1>2, <1>3, <1>4, NoTokenAssumption DEF Live

\* A refresh or a logout revokes the token that it carries.
LEMMA RevokeIInv ==
  ASSUME IInv, NEW r \in Req, RotateOut(r) \/ RevokeOut(r) PROVE IInv'
<1>1. /\ Kept(r) /\ TypeOK /\ pc[r] = "revoke"
      /\ UNCHANGED <<now, req, cookie, stale, users>>
      /\ token' = [token EXCEPT ![cookie[r]].revoked = TRUE]
      /\ \/ req[r].op = "refresh" /\ Acknowledged(r, "issue")
         \/ req[r].op = "logout" /\ AcknowledgedLast(r, "noContent")
  BY DEF IInv, RotateOut, RevokeOut
<1>2. cookie[r] \in Req /\ token[cookie[r]] # NoToken
  BY <1>1 DEF Kept, Carries, TypeOK
<1>3. /\ token' \in [Req -> Token \cup {NoToken}]
      /\ token'[cookie[r]].revoked
      /\ \A t \in Req :
           /\ token'[t] = NoToken <=> token[t] = NoToken
           /\ token[t] # NoToken =>
                /\ token'[t].user = token[t].user
                /\ token[t].revoked => token'[t].revoked
           /\ ~Live(t) => ~Live(t)'
  BY <1>1, <1>2, Revoking
<1>4. /\ \A s \in Req \ {r} : pc'[s] = pc[s] /\ answer'[s] = answer[s]
      /\ \/ pc'[r] = "issue" /\ req[r].op = "refresh" /\ answer'[r] = answer[r]
         \/ pc'[r] = "done" /\ answer'[r] # "ok"
      /\ pc' \in [Req -> Calls] /\ answer' \in [Req -> Answers]
      /\ faults' \in Nat
  <2>1. {"issue", "done"} \subseteq Calls /\ "noContent" \in Answers
    BY DEF Calls, Answers
  <2>2. CASE req[r].op = "refresh" /\ Acknowledged(r, "issue")
    BY <1>1, <2>1, <2>2, Moves
  <2>3. CASE AcknowledgedLast(r, "noContent")
    BY <1>1, <2>3 DEF AcknowledgedLast, Reply, Fault, Failure, TypeOK, Calls, Answers
  <2> QED
    BY <1>1, <2>2, <2>3
<1>5. TypeOK'
  BY <1>1, <1>3, <1>4 DEF TypeOK
<1>6. ASSUME NEW s \in Req PROVE Kept(s)'
  <2>1. Kept(s) /\ (cookie[s] # NoCookie => cookie[s] \in Req)
    BY <1>1 DEF IInv, TypeOK
  <2>2. CASE s = r
    BY <1>1, <1>2, <1>3, <1>4, <2>2
    DEF Kept, InPlace, Carries, Rotated, Stopped
  <2>3. CASE s # r
    BY <1>1, <1>3, <1>4, <2>1, <2>3
    DEF Kept, InPlace, Carries, Rotated, Stopped
  <2> QED
    BY <2>2, <2>3
<1> QED
  BY <1>5, <1>6 DEF IInv

\* The new token is a row that no request carries yet.
LEMMA IssueIInv == ASSUME IInv, NEW r \in Req, Issue(r) PROVE IInv'
<1> DEFINE new == [user |-> Owner(r), revoked |-> FALSE, expires |-> now + RefreshTtl]
<1>1. /\ Kept(r) /\ TypeOK /\ pc[r] = "issue"
      /\ UNCHANGED <<now, req, cookie, stale, users>>
      /\ token' = [token EXCEPT ![r] = new]
      /\ AcknowledgedLast(r, "ok")
  BY DEF IInv, Issue
<1>2. token[r] = NoToken /\ req[r].op \in {"register", "login", "refresh"}
  BY <1>1, Fields DEF Kept, InPlace
<1>3. Owner(r) \in users /\ Owner(r) \in Email
  <2>1. CASE req[r].op = "refresh"
    <3>1. cookie[r] \in Req /\ token[cookie[r]] # NoToken
      BY <1>1, <2>1 DEF Kept, Carries, TypeOK
    <3> QED
      BY <1>1, <2>1, <3>1 DEF Owner, TypeOK
  <2>2. CASE req[r].op # "refresh"
    BY <1>1, <1>2, <2>2 DEF Kept, InPlace, Owner, TypeOK
  <2> QED
    BY <2>1, <2>2
<1>4. new \in Token /\ new # NoToken
  <2>1. now + RefreshTtl \in Nat
    BY <1>1, TtlAssumption DEF TypeOK
  <2>2. new \in Token
    BY <1>3, <2>1 DEF Token
  <2> QED
    BY <2>2, NoTokenAssumption
<1>5. /\ \A s \in Req \ {r} : pc'[s] = pc[s] /\ answer'[s] = answer[s]
      /\ pc'[r] = "done"
      /\ pc' \in [Req -> Calls] /\ answer' \in [Req -> Answers]
      /\ faults' \in Nat
  BY <1>1 DEF AcknowledgedLast, Reply, Fault, Failure, TypeOK, Calls, Answers
<1>6. token'[r] = new /\ \A t \in Req \ {r} : token'[t] = token[t]
  BY <1>1 DEF TypeOK
<1>7. TypeOK'
  <2>1. token' \in [Req -> Token \cup {NoToken}]
    BY <1>1, <1>4 DEF TypeOK
  <2>2. \A t \in Req : token'[t] # NoToken => token'[t].user \in users
    BY <1>1, <1>3, <1>6 DEF TypeOK
  <2> HIDE DEF new
  <2> QED
    BY <1>1, <1>5, <2>1, <2>2 DEF TypeOK
<1>8. \A s \in Req : cookie[s] # NoCookie => cookie[s] \in Req \ {r}
  BY <1>1, <1>2 DEF IInv, TypeOK, Kept, Carries
<1>9. ASSUME NEW s \in Req PROVE Kept(s)'
  <2>1. CASE s = r
    <3>1. ~stale[r]
      BY <1>1, <1>2 DEF Kept, Stopped
    <3>2. req[r].op = "refresh" => Rotated(r)'
      BY <1>1, <1>6, <1>8 DEF Kept, Carries, Rotated, Owner
    <3> QED
      BY <1>1, <1>2, <1>5, <1>6, <1>8, <2>1, <3>1, <3>2
      DEF Kept, InPlace, Carries, Rotated, Stopped
  <2>2. CASE s # r
    <3>1. /\ Kept(s) /\ UNCHANGED <<pc[s], answer[s], token[s], req[s]>>
          /\ UNCHANGED <<cookie[s], stale[s], users>>
          /\ cookie[s] # NoCookie => /\ token[cookie[s]]' = token[cookie[s]]
                                     /\ ~Live(cookie[s]) => ~Live(cookie[s])'
      BY <1>1, <1>5, <1>6, <1>8, <2>2 DEF IInv, Live
    <3> QED
      BY <3>1 DEF Kept, InPlace, Carries, Rotated, Stopped
  <2> QED
    BY <2>1, <2>2
<1> QED
  BY <1>7, <1>9 DEF IInv

-----------------------------------------------------------------------------
(* The theorems *)

\* Every step of the program preserves the invariant.
LEMMA StepIInv == IInv /\ [Next]_vars => IInv'
<1> SUFFICES ASSUME IInv, [Next]_vars PROVE IInv'
  OBVIOUS
<1>1. CASE Tick
  BY <1>1, TickIInv
<1>2. CASE Crash
  BY <1>2, CrashIInv
<1>3. ASSUME NEW r \in Req, Step(r) PROVE IInv'
  <2>1. CASE ArriveWithPassword(r) \/ FindUser(r) \/ FindToken(r)
    BY <2>1, LooksIInv
  <2>2. CASE \E c \in Held \cup {NoCookie} : ArriveWithCookie(r, c)
    BY <2>2, ArriveWithCookieIInv
  <2>3. CASE CreateUser(r)
    BY <2>3, CreateUserIInv
  <2>4. CASE RotateOut(r) \/ RevokeOut(r)
    BY <2>4, RevokeIInv
  <2>5. CASE Issue(r)
    BY <2>5, IssueIInv
  <2>6. CASE CallFails(r)
    BY <2>6, CallFailsIInv
  <2> QED
    BY <1>3, <2>1, <2>2, <2>3, <2>4, <2>5, <2>6 DEF Step
<1>4. CASE UNCHANGED vars
  BY <1>4 DEF vars, IInv, TypeOK, Kept, InPlace, Carries, Rotated, Stopped, Live
<1> QED
  BY <1>1, <1>2, <1>3, <1>4 DEF Next

LEMMA Invariance == Spec => []IInv
BY InitIInv, StepIInv, PTL DEF Spec

\* The state of the auth module is of its type in every behaviour, and every
\* token belongs to an account.
THEOREM AuthTypeCorrect == Spec => []TypeOK
<1>1. IInv => TypeOK
  BY DEF IInv
<1> QED
  BY <1>1, Invariance, PTL

\* Whatever the interleaving, a refresh that arrives with a token revoked or
\* expired by then is not answered with a session.
THEOREM RevokedStaysOut == Spec => []RevokedIsRefused
<1>1. IInv => RevokedIsRefused
  BY DEF IInv, Kept, Stopped, RevokedIsRefused
<1> QED
  BY <1>1, Invariance, PTL

\* When refresh issues a token, the one it was given is revoked, also when the
\* process stops between the two statements: it may lose a session, not fork it.
THEOREM RotatesCompletely == Spec => []RotationIsComplete
<1>1. IInv => RotationIsComplete
  BY DEF IInv, Kept, Rotated, RotationIsComplete
<1> QED
  BY <1>1, Invariance, PTL


\* No step takes a row or a revocation back; in particular the row that Issue
\* writes is a new one.
LEMMA StepKeeps == IInv /\ [Next]_vars => [KeepsRevocations]_vars
<1> SUFFICES ASSUME IInv, Next PROVE KeepsRevocations
  BY DEF vars, KeepsRevocations
<1>1. TypeOK /\ \A r \in Req : Kept(r)
  BY DEF IInv
<1>2. CASE UNCHANGED token
  BY <1>2 DEF KeepsRevocations
<1>3. ASSUME NEW r \in Req, RotateOut(r) \/ RevokeOut(r) PROVE KeepsRevocations
  <2>1. cookie[r] \in Req /\ token[cookie[r]] # NoToken
    BY <1>1, <1>3 DEF RotateOut, RevokeOut, Kept, Carries, TypeOK
  <2>2. UNCHANGED now /\ token' = [token EXCEPT ![cookie[r]].revoked = TRUE]
    BY <1>3 DEF RotateOut, RevokeOut
  <2> QED
    BY <1>1, <2>1, <2>2, Revoking DEF KeepsRevocations
<1>4. ASSUME NEW r \in Req, Issue(r) PROVE KeepsRevocations
  <2>1. token[r] = NoToken
    BY <1>1, <1>4 DEF Issue, Kept, InPlace
  <2>2. \A t \in Req \ {r} : token'[t] = token[t]
    BY <1>1, <1>4 DEF Issue, TypeOK
  <2> QED
    BY <2>1, <2>2 DEF KeepsRevocations
<1> QED
  BY <1>2, <1>3, <1>4
  DEF Next, Step, Tick, Crash, ArriveWithPassword, ArriveWithCookie, FindUser,
      CreateUser, FindToken, CallFails

\* Revocation is for good in every behaviour.
THEOREM RevocationsStay == Spec => RevokedForGood
<1>1. Spec => [][Next]_vars
  BY PTL DEF Spec
<1> QED
  BY <1>1, Invariance, StepKeeps, PTL DEF RevokedForGood

-----------------------------------------------------------------------------
(* Accounts and sessions: the invariant.  What one step may do to the tables *)
(* is stated once, in Effect; each action is shown to do no more, and the     *)
(* invariant follows from the effects alone.                                  *)

\* The account of the address that r registers is r's: its INSERT went through
\* and was acknowledged.
Owns(r) == req[r].op = "register" /\ (pc[r] = "issue" \/ answer[r] = "ok")

\* An account has one owner, because from its INSERT on the address is in users.
OwnersOK ==
  /\ \A r \in Req : Owns(r) => req[r].email \in users
  /\ \A r \in Earlier : req[r].op = "login" /\ req[r].email \in users
  /\ \A r, s \in Req :
       Owns(r) /\ (Owns(s) \/ s \in Earlier) /\ req[s].email = req[r].email => r = s

\* The row named after r is of the account r asked for, it is there when r is
\* answered, and whoever revoked it carried it.
SessionOK(r) ==
  /\ pc[r] = "idle" => cookie[r] = NoCookie
  /\ answer[r] = "ok" => token[r] # NoToken
  /\ token[r] # NoToken =>
       /\ req[r].op \in {"register", "login"} => token[r].user = req[r].email
       /\ token[r].revoked => \E s \in Req : cookie[s] = r

LoggedOut(r) ==
  req[r].op = "logout" /\ answer[r] = "noContent" /\ cookie[r] # NoCookie
    /\ faults = 0
  => token[cookie[r]].revoked \/ token[cookie[r]].expires <= now

AInv == OwnersOK /\ \A r \in Req : SessionOK(r) /\ LoggedOut(r)

-----------------------------------------------------------------------------
(* What one step may do *)

\* To the row of t: it stays, it can be revoked by a request that carries it,
\* and it is inserted, as it should be, by the request it is named after.
RowEffect(t) ==
  /\ token[t] # NoToken =>
       /\ token'[t] # NoToken
       /\ token'[t].user = token[t].user /\ token'[t].expires = token[t].expires
       /\ token[t].revoked => token'[t].revoked
       /\ token'[t].revoked => token[t].revoked \/ \E s \in Req : cookie[s] = t
  /\ token[t] = NoToken /\ token'[t] # NoToken =>
       token'[t].revoked = FALSE /\ token'[t].user = Owner(t)

\* To the request r: only its arrival gives it a cookie, "ok" follows the
\* insert, an answer stays, and a logout that no fault has met is answered when
\* its token is worth nothing.
RequestEffect(r) ==
  /\ pc[r] # "idle" => pc'[r] # "idle" /\ cookie'[r] = cookie[r]
  /\ pc'[r] = "idle" => cookie'[r] = cookie[r]
  /\ answer[r] = "ok" => answer'[r] = "ok"
  /\ answer'[r] = "ok" =>
       answer[r] = "ok" \/ (pc[r] = "issue" /\ token'[r] # NoToken)
  /\ req[r].op = "logout" /\ answer'[r] = "noContent" /\ cookie'[r] # NoCookie
       /\ faults' = 0 =>
       \/ faults = 0 /\ answer[r] = "noContent" /\ cookie'[r] = cookie[r]
       \/ token'[cookie'[r]].revoked
       \/ token'[cookie'[r]].expires <= now'

\* To the accounts: a request becomes the owner of one only when nobody had it,
\* and no other request does in the same step.
OwnerEffect ==
  \/ \A s \in Req : Owns(s)' => Owns(s)
  \/ \E r \in Req : /\ req[r].email \notin users /\ req[r].email \in users'
                    /\ \A s \in Req \ {r} : Owns(s)' => Owns(s)

Effect ==
  /\ req' = req /\ users \subseteq users' /\ now <= now'
  /\ faults' = 0 => faults = 0
  /\ \A r \in Req : RowEffect(r) /\ RequestEffect(r)
  /\ OwnerEffect

\* A step that does no more than that keeps the invariant.
LEMMA EffectKeeps == ASSUME IInv, AInv, TypeOK', Effect PROVE AInv'
<1>1. /\ req' = req /\ users \subseteq users' /\ now \in Nat /\ now' \in Nat
      /\ now <= now' /\ (faults' = 0 => faults = 0)
      /\ \A s \in Req : cookie[s] \in Req \cup {NoCookie}
      /\ \A s \in Req : cookie[s] # NoCookie => token[cookie[s]] \in Token
  BY Fields DEF Effect, IInv, TypeOK, Kept, Carries
<1>2. OwnersOK'
  <2>1. CASE \A s \in Req : Owns(s)' => Owns(s)
    BY <1>1, <2>1 DEF AInv, OwnersOK
  <2>2. ASSUME NEW r \in Req, req[r].email \notin users, req[r].email \in users',
               \A s \in Req \ {r} : Owns(s)' => Owns(s)
        PROVE  OwnersOK'
    BY <1>1, <2>2, EarlierAssumption DEF AInv, OwnersOK
  <2> QED
    BY <2>1, <2>2 DEF Effect, OwnerEffect
<1>3. ASSUME NEW r \in Req PROVE SessionOK(r)'
  <2>1. SessionOK(r) /\ RowEffect(r) /\ RequestEffect(r)
    BY DEF AInv, Effect
  <2>2. ASSUME NEW s \in Req, cookie[s] = r PROVE cookie'[s] = r
    <3>1. SessionOK(s) /\ RequestEffect(s)
      BY DEF AInv, Effect
    <3>2. pc[s] # "idle"
      BY <2>2, <3>1, NoCookieAssumption DEF SessionOK
    <3> QED
      BY <2>2, <3>1, <3>2 DEF RequestEffect
  <2>3. (\E s \in Req : cookie[s] = r) => \E s \in Req : cookie'[s] = r
    BY <2>2
  <2>4. /\ pc'[r] = "idle" => cookie'[r] = NoCookie
        /\ answer'[r] = "ok" => token'[r] # NoToken
    BY <2>1 DEF SessionOK, RowEffect, RequestEffect
  <2>5. ASSUME token'[r] # NoToken
        PROVE  /\ req[r].op \in {"register", "login"} => token'[r].user = req[r].email
               /\ token'[r].revoked => \E s \in Req : cookie'[s] = r
    BY <2>1, <2>3, <2>5 DEF SessionOK, RowEffect, Owner
  <2> QED
    BY <1>1, <2>4, <2>5 DEF SessionOK
<1>4. ASSUME NEW r \in Req PROVE LoggedOut(r)'
  <2> SUFFICES ASSUME req[r].op = "logout", answer'[r] = "noContent",
                      cookie'[r] # NoCookie, faults' = 0
               PROVE  token'[cookie'[r]].revoked \/ token'[cookie'[r]].expires <= now'
    BY <1>1 DEF LoggedOut
  <2>1. LoggedOut(r) /\ RequestEffect(r)
    BY DEF AInv, Effect
  <2>2. CASE faults = 0 /\ answer[r] = "noContent" /\ cookie'[r] = cookie[r]
    <3>1. cookie[r] \in Req /\ RowEffect(cookie[r]) /\ token[cookie[r]] \in Token
      BY <1>1, <2>2 DEF Effect
    <3>2. token[cookie[r]].expires \in Nat /\ token[cookie[r]] # NoToken
      BY <3>1, NoTokenAssumption DEF Token
    <3> QED
      BY <1>1, <2>1, <2>2, <3>1, <3>2 DEF LoggedOut, RowEffect
  <2> QED
    BY <2>1, <2>2 DEF RequestEffect
<1> QED
  BY <1>2, <1>3, <1>4 DEF AInv

-----------------------------------------------------------------------------
(* Each action does no more *)

\* A step that leaves the tables and the answered requests alone, and makes
\* nobody an owner.
LEMMA QuietEffect ==
  ASSUME IInv, UNCHANGED <<now, req, cookie, users, token>>,
         faults' \in Nat, faults' = 0 => faults = 0,
         \A s \in Req :
           /\ pc[s] # "idle" => pc'[s] # "idle"
           /\ answer'[s] = "ok" <=> answer[s] = "ok"
           /\ Owns(s)' => Owns(s)
           /\ req[s].op = "logout" /\ answer'[s] = "noContent" /\ faults' = 0 =>
                answer[s] = "noContent"
  PROVE  Effect
<1>1. now <= now'
  BY DEF IInv, TypeOK
<1>2. \A s \in Req : RowEffect(s) /\ RequestEffect(s)
  BY DEF RowEffect, RequestEffect
<1> QED
  BY <1>1, <1>2 DEF Effect, OwnerEffect

LEMMA TickEffect == ASSUME IInv, Tick PROVE Effect
BY DEF Tick, IInv, TypeOK, Effect, RowEffect, RequestEffect, OwnerEffect, Owns

LEMMA CrashEffect == ASSUME IInv, Crash PROVE Effect
<1>1. \A s \in Req : pc'[s] = "done" \/ pc'[s] = pc[s]
  BY DEF Crash
<1>2. faults' \in Nat /\ (faults' = 0 => faults = 0)
  BY DEF Crash, IInv, TypeOK
<1>3. /\ UNCHANGED <<now, req, cookie, users, token, answer>>
      /\ \A s \in Req : (pc[s] # "idle" => pc'[s] # "idle") /\ (Owns(s)' => Owns(s))
  BY <1>1 DEF Crash, Owns
<1> QED
  BY <1>2, <1>3, QuietEffect

\* The end of a request that is still under way, without a session.
LEMMA ReplyMoves ==
  ASSUME IInv, NEW r \in Req, NEW code, code # "ok", pc[r] # "done", Reply(r, code)
  PROVE  \A s \in Req :
           /\ s # r => pc'[s] = pc[s] /\ answer'[s] = answer[s]
           /\ pc[s] # "idle" => pc'[s] # "idle"
           /\ answer'[s] = "ok" <=> answer[s] = "ok"
           /\ req' = req => (Owns(s)' => Owns(s))
<1>1. Kept(r) /\ TypeOK
  BY DEF IInv
<1>2. answer[r] = "none"
  BY <1>1 DEF Kept, InPlace
<1>3. /\ pc'[r] = "done" /\ answer'[r] = code
      /\ \A s \in Req \ {r} : pc'[s] = pc[s] /\ answer'[s] = answer[s]
  BY <1>1 DEF Reply, TypeOK
<1> QED
  BY <1>2, <1>3 DEF Owns

\* Without a fault only the last step of a logout answers it.
LEMMA FaultMoves ==
  ASSUME IInv, NEW r \in Req, pc[r] # "done", Fault(r)
  PROVE  /\ faults' \in Nat /\ faults' # 0
         /\ \A s \in Req :
              /\ s # r => pc'[s] = pc[s] /\ answer'[s] = answer[s]
              /\ pc[s] # "idle" => pc'[s] # "idle"
              /\ answer'[s] = "ok" <=> answer[s] = "ok"
              /\ req' = req => (Owns(s)' => Owns(s))
<1>1. Failure(r) # "ok" /\ Reply(r, Failure(r))
  BY DEF Fault, Failure
<1>2. faults' \in Nat /\ faults' # 0
  BY DEF Fault, IInv, TypeOK
<1> QED
  BY <1>1, <1>2, ReplyMoves

LEMMA CallFailsEffect == ASSUME IInv, NEW r \in Req, CallFails(r) PROVE Effect
<1>1. /\ pc[r] # "done" /\ Fault(r)
      /\ UNCHANGED <<now, req, cookie, users, token>>
  BY DEF CallFails, InFlight
<1> QED
  BY <1>1, FaultMoves, QuietEffect

\* Arrivals with a password and look-ups.
LEMMA LooksEffect ==
  ASSUME IInv, NEW r \in Req,
         ArriveWithPassword(r) \/ FindUser(r) \/ FindToken(r)
  PROVE  Effect
<1>1. /\ UNCHANGED <<now, req, cookie, users, token, faults>>
      /\ TypeOK /\ Kept(r) /\ pc[r] \in {"idle", "findUser", "findToken"}
  BY DEF ArriveWithPassword, FindUser, FindToken, IInv
<1>2. req[r].op # "logout" /\ (pc[r] = "findToken" => req[r].op = "refresh")
  BY <1>1 DEF ArriveWithPassword, FindUser, FindToken, Kept, InPlace
<1>3. faults' \in Nat /\ (faults' = 0 => faults = 0)
  BY <1>1 DEF TypeOK
<1>4. CASE \E code \in {"emailTaken", "unauthorized"} : Reply(r, code)
  <2>1. \A s \in Req :
          /\ s # r => pc'[s] = pc[s] /\ answer'[s] = answer[s]
          /\ pc[s] # "idle" => pc'[s] # "idle"
          /\ answer'[s] = "ok" <=> answer[s] = "ok"
          /\ Owns(s)' => Owns(s)
    BY <1>1, <1>4, ReplyMoves
  <2> QED
    BY <1>1, <1>2, <1>3, <2>1, QuietEffect
<1>5. CASE \E call \in {"findUser", "createUser", "revoke", "issue"} :
             Goto(r, call) /\ (call = "issue" => req[r].op = "login")
  <2>1. /\ UNCHANGED answer /\ \A s \in Req \ {r} : pc'[s] = pc[s]
        /\ pc'[r] # "idle" /\ (pc'[r] = "issue" => req[r].op = "login")
    BY <1>1, <1>5 DEF Goto, TypeOK
  <2>2. \A s \in Req : (pc[s] # "idle" => pc'[s] # "idle") /\ (Owns(s)' => Owns(s))
    BY <1>1, <2>1 DEF Owns
  <2> QED
    BY <1>1, <1>3, <2>1, <2>2, QuietEffect
<1> QED
  BY <1>4, <1>5 DEF ArriveWithPassword, FindUser, FindToken

\* The cookie is set when a refresh or a logout arrives; a logout that is
\* answered at once carries nothing or an expired token.
LEMMA ArriveWithCookieEffect ==
  ASSUME IInv, NEW r \in Req, NEW c \in Held \cup {NoCookie}, ArriveWithCookie(r, c)
  PROVE  Effect
<1>1. /\ pc[r] = "idle" /\ req[r].op \in {"refresh", "logout"}
      /\ UNCHANGED <<now, req, users, token, faults>>
      /\ TypeOK /\ Kept(r)
  BY DEF ArriveWithCookie, IInv
<1>2. cookie' = [cookie EXCEPT ![r] = c]
  BY DEF ArriveWithCookie
<1>3. \A s \in Req : /\ s # r => cookie'[s] = cookie[s]
                     /\ s = r => cookie'[s] = c
  BY <1>1, <1>2 DEF TypeOK
<1>4. /\ \A s \in Req \ {r} : pc'[s] = pc[s] /\ answer'[s] = answer[s]
      /\ pc'[r] \in {"findToken", "revoke", "done"}
      /\ answer[r] = "none"
      /\ \/ answer'[r] \in {"none", "unauthorized"}
         \/ answer'[r] = "noContent" /\ ~(c # NoCookie /\ now < token[c].expires)
  BY <1>1 DEF ArriveWithCookie, Goto, Reply, Kept, InPlace, TypeOK
<1>5. c # NoCookie => c \in Req /\ token[c].expires \in Nat
  <2> SUFFICES ASSUME c # NoCookie PROVE c \in Req /\ token[c].expires \in Nat
    OBVIOUS
  <2>1. c \in Req /\ token[c] # NoToken
    BY DEF Held
  <2>2. token[c] \in Token
    BY <1>1, <2>1, Fields
  <2> QED
    BY <2>1, <2>2 DEF Token
<1>6. now <= now' /\ now \in Nat
  BY <1>1 DEF TypeOK
<1>7. \A s \in Req : RowEffect(s) /\ (Owns(s)' => Owns(s))
  BY <1>1, <1>4 DEF RowEffect, Owns
<1>8. ASSUME NEW s \in Req PROVE RequestEffect(s)
  <2>1. CASE s # r
    BY <1>1, <1>3, <1>4, <2>1 DEF RequestEffect
  <2>2. CASE s = r
    <3>1. cookie'[r] = c
      BY <1>3
    <3>2. answer'[r] = "noContent" /\ c # NoCookie => token'[c].expires <= now'
      BY <1>1, <1>4, <1>5, <1>6
    <3> QED
      BY <1>1, <1>4, <2>2, <3>1, <3>2 DEF RequestEffect
  <2> QED
    BY <2>1, <2>2
<1> QED
  BY <1>1, <1>6, <1>7, <1>8 DEF Effect, OwnerEffect

\* The INSERT into users makes its request the owner of a new account.
LEMMA CreateUserEffect == ASSUME IInv, NEW r \in Req, CreateUser(r) PROVE Effect
<1>1. /\ pc[r] = "createUser" /\ TypeOK /\ Kept(r)
      /\ UNCHANGED <<now, req, cookie, token>>
  BY DEF CreateUser, IInv
<1>2. req[r].op = "register" /\ answer[r] = "none"
  BY <1>1 DEF Kept, InPlace
<1>3. CASE req[r].email \in users /\ Reply(r, "internal") /\ UNCHANGED <<users, faults>>
  <2>1. \A s \in Req :
          /\ s # r => pc'[s] = pc[s] /\ answer'[s] = answer[s]
          /\ pc[s] # "idle" => pc'[s] # "idle"
          /\ answer'[s] = "ok" <=> answer[s] = "ok"
          /\ Owns(s)' => Owns(s)
    BY <1>1, <1>3, ReplyMoves
  <2>2. faults' \in Nat /\ (faults' = 0 => faults = 0)
    BY <1>1, <1>3 DEF TypeOK
  <2> QED
    BY <1>1, <1>2, <1>3, <2>1, <2>2, QuietEffect
<1>4. CASE /\ req[r].email \notin users
           /\ users' = users \cup {req[r].email} /\ Acknowledged(r, "issue")
  <2>1. /\ \A s \in Req \ {r} : pc'[s] = pc[s] /\ answer'[s] = answer[s]
        /\ pc'[r] # "idle" /\ answer'[r] \notin {"ok", "noContent"}
        /\ faults' = 0 => faults = 0
    BY <1>1, <1>2, <1>4
    DEF Acknowledged, Goto, Fault, Reply, Failure, TypeOK
  <2>2. \A s \in Req \ {r} : Owns(s)' => Owns(s)
    BY <1>1, <2>1 DEF Owns
  <2>3. \A s \in Req : RowEffect(s) /\ RequestEffect(s)
    BY <1>1, <1>2, <2>1 DEF RowEffect, RequestEffect
  <2>4. now <= now'
    BY <1>1 DEF TypeOK
  <2> QED
    BY <1>1, <1>4, <2>1, <2>2, <2>3, <2>4 DEF Effect, OwnerEffect
<1> QED
  BY <1>3, <1>4 DEF CreateUser

\* A refresh and a logout revoke the token that they carry.
LEMMA RevokeEffect ==
  ASSUME IInv, NEW r \in Req, RotateOut(r) \/ RevokeOut(r) PROVE Effect
<1>1. /\ pc[r] = "revoke" /\ TypeOK /\ Kept(r)
      /\ UNCHANGED <<now, req, cookie, users>>
      /\ token' = [token EXCEPT ![cookie[r]].revoked = TRUE]
      /\ \/ req[r].op = "refresh" /\ Acknowledged(r, "issue")
         \/ req[r].op = "logout" /\ AcknowledgedLast(r, "noContent")
  BY DEF RotateOut, RevokeOut, IInv
<1>2. /\ cookie[r] \in Req /\ token[cookie[r]] # NoToken /\ answer[r] = "none"
      /\ token[cookie[r]] \in Token
  BY <1>1, Fields DEF Kept, Carries, InPlace, TypeOK
<1>3. /\ \A t \in Req \ {cookie[r]} : token'[t] = token[t]
      /\ token'[cookie[r]] = [token[cookie[r]] EXCEPT !.revoked = TRUE]
  BY <1>1, <1>2 DEF TypeOK
<1>4. /\ token'[cookie[r]] \in Token /\ token'[cookie[r]].revoked
      /\ token'[cookie[r]].user = token[cookie[r]].user
      /\ token'[cookie[r]].expires = token[cookie[r]].expires
  BY <1>2, <1>3 DEF Token
<1>5. \A t \in Req : RowEffect(t)
  BY <1>2, <1>3, <1>4, NoTokenAssumption DEF RowEffect
<1>6. /\ \A s \in Req \ {r} : pc'[s] = pc[s] /\ answer'[s] = answer[s]
      /\ pc'[r] # "idle" /\ (pc'[r] = "issue" => req[r].op = "refresh")
      /\ answer'[r] # "ok" /\ (faults' = 0 => faults = 0)
  BY <1>1, <1>2
  DEF Acknowledged, AcknowledgedLast, Goto, Fault, Reply, Failure, TypeOK
<1>7. \A s \in Req : Owns(s)' => Owns(s)
  BY <1>1, <1>6 DEF Owns
<1>8. ASSUME NEW s \in Req PROVE RequestEffect(s)
  <2>1. CASE s = r
    BY <1>1, <1>2, <1>4, <1>6, <2>1 DEF RequestEffect
  <2>2. CASE s # r
    BY <1>1, <1>6, <2>2 DEF RequestEffect
  <2> QED
    BY <2>1, <2>2
<1>9. now <= now'
  BY <1>1 DEF TypeOK
<1> QED
  BY <1>1, <1>5, <1>6, <1>7, <1>8, <1>9 DEF Effect, OwnerEffect

\* The new row is its owner's and not revoked.
LEMMA IssueEffect == ASSUME IInv, TypeOK', NEW r \in Req, Issue(r) PROVE Effect
<1> DEFINE new == [user |-> Owner(r), revoked |-> FALSE, expires |-> now + RefreshTtl]
<1>1. /\ pc[r] = "issue" /\ TypeOK /\ Kept(r)
      /\ UNCHANGED <<now, req, cookie, users>>
      /\ token' = [token EXCEPT ![r] = new]
      /\ AcknowledgedLast(r, "ok")
  BY DEF Issue, IInv
<1>2. /\ token[r] = NoToken /\ answer[r] = "none" /\ req[r].op # "logout"
  BY <1>1 DEF Kept, InPlace
<1>3. token'[r] = new /\ \A t \in Req \ {r} : token'[t] = token[t]
  BY <1>1 DEF TypeOK
<1>4. new # NoToken
  <2>1. req[r].op # "refresh" => Owner(r) \in Email
    BY <1>1, <1>2, Fields DEF Kept, InPlace, Owner, TypeOK
  <2>2. req[r].op = "refresh" => Owner(r) \in Email
    <3> SUFFICES ASSUME req[r].op = "refresh" PROVE Owner(r) \in Email
      OBVIOUS
    <3>1. cookie[r] \in Req /\ token[cookie[r]] # NoToken
      BY <1>1 DEF Kept, Carries, TypeOK
    <3> QED
      BY <1>1, <3>1 DEF Owner, TypeOK
  <2>3. now + RefreshTtl \in Nat
    BY <1>1, TtlAssumption DEF TypeOK
  <2>4. new \in Token
    BY <2>1, <2>2, <2>3 DEF Token
  <2> QED
    BY <2>4, NoTokenAssumption
<1>5. \A t \in Req : RowEffect(t)
  <2>1. token'[r].revoked = FALSE /\ token'[r].user = Owner(r)
    BY <1>3
  <2> HIDE DEF new
  <2> QED
    BY <1>2, <1>3, <1>4, <2>1 DEF RowEffect
<1>6. /\ \A s \in Req \ {r} : pc'[s] = pc[s] /\ answer'[s] = answer[s]
      /\ pc'[r] = "done" /\ (faults' = 0 => faults = 0)
  BY <1>1 DEF AcknowledgedLast, Reply, Fault, Failure, TypeOK
<1>7. \A s \in Req : Owns(s)' => Owns(s)
  BY <1>1, <1>6 DEF Owns
<1> HIDE DEF new
<1>8. ASSUME NEW s \in Req PROVE RequestEffect(s)
  <2>1. CASE s = r
    BY <1>1, <1>2, <1>3, <1>4, <1>6, <2>1 DEF RequestEffect
  <2>2. CASE s # r
    <3>1. cookie[s] # r
      BY <1>2, NoCookieAssumption DEF IInv, TypeOK, Kept, Carries
    <3> QED
      BY <1>1, <1>3, <1>6, <2>2, <3>1 DEF RequestEffect
  <2> QED
    BY <2>1, <2>2
<1>9. now <= now'
  BY <1>1 DEF TypeOK
<1> QED
  BY <1>1, <1>5, <1>6, <1>7, <1>8, <1>9 DEF Effect, OwnerEffect

\* Every step of the program is such a step.
LEMMA StepEffect == ASSUME IInv, IInv', Next PROVE Effect
<1>1. ASSUME NEW r \in Req, Step(r) PROVE Effect
  <2>1. CASE ArriveWithPassword(r) \/ FindUser(r) \/ FindToken(r)
    BY <2>1, LooksEffect
  <2>2. CASE \E c \in Held \cup {NoCookie} : ArriveWithCookie(r, c)
    BY <2>2, ArriveWithCookieEffect
  <2>3. CASE CreateUser(r)
    BY <2>3, CreateUserEffect
  <2>4. CASE RotateOut(r) \/ RevokeOut(r)
    BY <2>4, RevokeEffect
  <2>5. CASE Issue(r)
    BY <2>5, IssueEffect DEF IInv
  <2>6. CASE CallFails(r)
    BY <2>6, CallFailsEffect
  <2> QED
    BY <1>1, <2>1, <2>2, <2>3, <2>4, <2>5, <2>6 DEF Step
<1> QED
  BY <1>1, TickEffect, CrashEffect DEF Next

-----------------------------------------------------------------------------
(* The theorems *)

LEMMA InitAInv == Init => AInv
<1> SUFFICES ASSUME Init PROVE AInv
  OBVIOUS
<1>1. OwnersOK
  BY EarlierAssumption DEF Init, OwnersOK, Owns
<1>2. ASSUME NEW r \in Req PROVE SessionOK(r) /\ LoggedOut(r)
  <2>1. r \in Earlier =>
          [user |-> req[r].email, revoked |-> FALSE, expires |-> RefreshTtl] # NoToken
    <3> SUFFICES ASSUME r \in Earlier
                 PROVE  [user |-> req[r].email, revoked |-> FALSE,
                         expires |-> RefreshTtl] \in Token
      BY NoTokenAssumption
    <3>1. TypeOK /\ req[r].op = "login"
      BY InitIInv DEF Init, IInv
    <3>2. req[r].email \in Email
      BY <3>1, Fields
    <3> QED
      BY <3>2, TtlAssumption DEF Token
  <2> QED
    BY <2>1 DEF Init, SessionOK, LoggedOut
<1> QED
  BY <1>1, <1>2 DEF AInv

LEMMA StepAInv == IInv /\ AInv /\ [Next]_vars => AInv'
<1> SUFFICES ASSUME IInv, AInv, [Next]_vars PROVE AInv'
  OBVIOUS
<1>1. CASE Next
  <2>1. IInv' /\ TypeOK'
    BY <1>1, StepIInv DEF IInv
  <2> QED
    BY <1>1, <2>1, StepEffect, EffectKeeps
<1>2. CASE UNCHANGED vars
  BY <1>2 DEF vars, AInv, OwnersOK, Owns, SessionOK, LoggedOut
<1> QED
  BY <1>1, <1>2

LEMMA AccountsInvariance == Spec => []AInv
BY InitAInv, StepAInv, Invariance, PTL DEF Spec

\* Two registrations of one address never both succeed, and none succeeds for
\* an address that had an account: the unique index decides, whatever the
\* look-ups before it have seen.
THEOREM AccountsAreUnique == Spec => []OneAccountPerEmail
<1>1. AInv => OneAccountPerEmail
  BY DEF AInv, OwnersOK, Owns, OneAccountPerEmail
<1> QED
  BY <1>1, AccountsInvariance, PTL

\* A successful answer carries a token of the right account, which only a
\* refresh or a logout with that very token revokes.
THEOREM AnswersCarrySessions == Spec => []OkMeansSession
<1>1. AInv => OkMeansSession
  BY DEF AInv, SessionOK, OkMeansSession
<1> QED
  BY <1>1, AccountsInvariance, PTL

\* As long as no call fails, a logout that was answered has ended its session.
THEOREM LogoutEndsSession == Spec => []LogoutRevokes
<1>1. AInv => LogoutRevokes
  BY DEF AInv, LoggedOut, LogoutRevokes
<1> QED
  BY <1>1, AccountsInvariance, PTL

=============================================================================
