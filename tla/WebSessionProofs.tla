--------------------------- MODULE WebSessionProofs ---------------------------
(* The browser of WebSession is one of the clients that AuthTokens allows for *)
(* (WebSpec => Spec), so that every theorem about the tokens holds with it;   *)
(* and ShownWithToken, OnlyLateTokens and NotExpiredByItself hold for any     *)
(* number of tabs, calls, page loads, requests, faults and lost answers.      *)
EXTENDS WebSession, AuthTokensProofs

-----------------------------------------------------------------------------
(* The invariant *)

\* What the memory of a tab says about its access token and its refresh.
TabOK(t) ==
  /\ tab[t].refresh # NoToken => SharedRefresh(t, tab[t].refresh)
  /\ tab[t].refresh # NoToken => pc[tab[t].refresh] # "idle"
  /\ tab[t].status = "authenticated" => tab[t].access # NoToken /\ tab[t].user # NoUser

\* A call awaits one refresh at most in its life, and that one is its tab's.
CallOK(c) ==
  /\ call[c].at \in {"idle", "first"} => call[c].refresh = NoToken
  /\ call[c].at \in {"first", "again"} /\ Asks[c] # "data" => call[c].http \in Req
  /\ call[c].at = "refresh" => /\ Asks[c] \in {"data", "register", "login"}
                               /\ call[c].refresh # NoToken
                               /\ tab[TabOf[c]].refresh = call[c].refresh
  /\ call[c].at = "resend" => Asks[c] \in {"register", "login"}

\* No two tabs wait for the answer of the same refresh.
OwnRefresh ==
  \A t, u \in Tab : tab[t].refresh # NoToken /\ tab[t].refresh = tab[u].refresh => t = u

WInv ==
  /\ WebTypeOK
  /\ \A t \in Tab : TabOK(t)
  /\ \A c \in Call : CallOK(c)
  /\ OwnRefresh

Known == IInv /\ AInv /\ WInv

\* What a step of the API does to the cookies, the tokens and the requests that
\* the browser knows.
AuthKeeps ==
  /\ IInv' /\ AInv'
  /\ Held \subseteq Held'
  /\ \A r \in Req : pc[r] # "idle" => pc'[r] # "idle"

LEMMA AuthStep == ASSUME IInv, AInv, [Next]_vars PROVE AuthKeeps
<1>1. IInv' /\ AInv'
  BY StepIInv, StepAInv
<1>2. CASE Next
  <2>1. \A r \in Req : RowEffect(r) /\ RequestEffect(r)
    BY <1>1, <1>2, StepEffect DEF Effect
  <2> QED
    BY <1>1, <2>1 DEF AuthKeeps, Held, RowEffect, RequestEffect
<1>3. CASE UNCHANGED vars
  BY <1>1, <1>3 DEF AuthKeeps, Held, vars
<1> QED
  BY <1>2, <1>3

-----------------------------------------------------------------------------
(* The frame of a step of the browser *)

TabMoves(t) ==
  \/ tab'[t] = tab[t]
  \/ tab'[t].refresh \in {NoToken, tab[t].refresh}
  \/ pc[tab'[t].refresh] = "idle" /\ tab'[t].refresh \in Req
       /\ \A u \in Tab \ {t} : tab'[u] = tab[u]

\* A step keeps the invariant if it keeps the part of each call and each tab
\* that it touches.
LEMMA Frame ==
  ASSUME Known, AuthKeeps,
         jar' \in Held' \cup {NoCookie}, lost' \in Nat,
         tab' \in [Tab -> Tabs], call' \in [Call -> WebCalls],
         \A t \in Tab : tab'[t].access \in {NoToken, tab[t].access} \cup Held',
         \A t \in Tab : TabMoves(t) /\ (tab'[t] = tab[t] \/ TabOK(t)'),
         \A c \in Call : call[c].refresh # NoToken => call'[c].refresh = call[c].refresh,
         \A c \in Call : CallOK(c)'
  PROVE  WInv'
<1>1. WebTypeOK'
  BY DEF WebTypeOK, Known, WInv, AuthKeeps
<1>2. \A t \in Tab, r \in Req : SharedRefresh(t, r) => SharedRefresh(t, r)'
  BY NoTokenIsNoRequest DEF SharedRefresh, In
<1>3. \A t \in Tab : tab[t] \in Tabs
  BY DEF Known, WInv, WebTypeOK
<1>4. ASSUME NEW t \in Tab PROVE TabOK(t)'
  <2>1. TabOK(t) /\ tab[t].refresh \in Req \cup {NoToken}
        /\ tab[t].access \in Req \cup {NoToken}
    BY <1>3 DEF Known, WInv, Tabs
  <2>2. CASE tab'[t] = tab[t]
    BY <1>2, <2>1, <2>2 DEF TabOK, AuthKeeps
  <2> QED
    BY <2>2
<1>5. OwnRefresh'
  <2>1. \A t \in Tab : tab[t].refresh # NoToken => pc[tab[t].refresh] # "idle"
    BY DEF Known, WInv, TabOK
  <2> QED
    BY <2>1 DEF OwnRefresh, TabMoves, Known, WInv
<1> QED
  BY <1>1, <1>4, <1>5 DEF WInv

\* The next request under /auth that the browser makes is one the API can get.
LEMMA PostIsNext ==
  ASSUME Known, NEW op, Post(op)
  PROVE  /\ Next
         /\ NextHttp(op) \in Req
         /\ pc[NextHttp(op)] = "idle"
         /\ pc'[NextHttp(op)] # "idle"
<1> DEFINE r == NextHttp(op)
<1>1. r \in Req /\ pc[r] = "idle"
  BY DEF Post, NextHttp, Unused
<1>2. jar \in Held \cup {NoCookie}
  BY DEF Known, WInv, WebTypeOK
<1>3. ArriveWithPassword(r) \/ ArriveWithCookie(r, jar)
  BY DEF Post
<1>4. pc'[r] # "idle"
  BY <1>1, <1>3 DEF ArriveWithPassword, ArriveWithCookie, Goto, Reply, Known, IInv, TypeOK
<1>5. Step(r)
  BY <1>2, <1>3 DEF Step
<1> QED
  BY <1>1, <1>4, <1>5 DEF Next

\* A call keeps its type in each of the ways in which it moves, and only
\* Awaiting gives it a refresh.
LEMMA SentShape ==
  ASSUME NEW old \in WebCalls, NEW at \in {"first", "again"}, NEW a \in Req \cup {NoToken}
  PROVE  /\ Sent(old, at, a) \in WebCalls
         /\ Sent(old, at, a).at = at
         /\ Sent(old, at, a).refresh = old.refresh
BY DEF WebCalls, Sent

LEMMA PostedShape ==
  ASSUME NEW old \in WebCalls, NEW at \in {"first", "again"}, NEW op,
         NextHttp(op) \in Req
  PROVE  /\ Posted(old, at, op) \in WebCalls
         /\ Posted(old, at, op).at = at
         /\ Posted(old, at, op).refresh = old.refresh
         /\ Posted(old, at, op).http = NextHttp(op)
BY DEF WebCalls, Posted

LEMMA SettledShape ==
  ASSUME NEW old \in WebCalls, NEW o \in Answers \cup {"expired", "network"}
  PROVE  /\ Settled(old, o) \in WebCalls
         /\ Settled(old, o).at = "settled"
         /\ Settled(old, o).refresh = old.refresh
BY DEF WebCalls, Settled

LEMMA OutcomeOfSettled ==
  ASSUME NEW old \in WebCalls, NEW o PROVE Settled(old, o).outcome = o
BY DEF WebCalls, Settled

LEMMA AwaitingShape ==
  ASSUME NEW old \in WebCalls, NEW r \in Req
  PROVE  /\ Awaiting(old, r) \in WebCalls
         /\ Awaiting(old, r).at = "refresh"
         /\ Awaiting(old, r).refresh = r
BY DEF WebCalls, Awaiting

LEMMA MovedShape ==
  ASSUME NEW old \in WebCalls, NEW at \in {"gone", "resend"}
  PROVE  /\ [old EXCEPT !.at = at] \in WebCalls
         /\ [old EXCEPT !.at = at].at = at
         /\ [old EXCEPT !.at = at].refresh = old.refresh
         /\ [old EXCEPT !.at = at].outcome = old.outcome
BY DEF WebCalls

LEMMA VerdictShape ==
  ASSUME NEW old \in WebCalls, NEW v \in {"ok", "unauthorized"}
  PROVE  /\ [old EXCEPT !.verdict = v] \in WebCalls
         /\ [old EXCEPT !.verdict = v].at = old.at
         /\ [old EXCEPT !.verdict = v].refresh = old.refresh
         /\ [old EXCEPT !.verdict = v].http = old.http
BY DEF WebCalls

\* So does a tab.
LEMMA TabShapes ==
  ASSUME Known, NEW t \in Tab
  PROVE  /\ NewTab \in Tabs /\ SignedOut(t) \in Tabs
         /\ \A r \in Held : /\ SignedIn(t, r) \in Tabs
                            /\ SignedIn(t, r).access = r /\ r # NoToken
                            /\ SignedIn(t, r).refresh = tab[t].refresh
                            /\ SignedIn(t, r).user # NoUser
                            /\ SignedIn(t, r).status = "authenticated"
         /\ SignedOut(t).access = NoToken /\ SignedOut(t).status = "anonymous"
         /\ SignedOut(t).refresh = tab[t].refresh
<1>1. tab[t] \in Tabs
  BY DEF Known, WInv, WebTypeOK
<1>2. \A r \in Held : token[r].user \in Email /\ r \in Req
  BY DEF Known, IInv, TypeOK, Held
<1> QED
  BY <1>1, <1>2, NoUserAssumption, NoTokenIsNoRequest
  DEF Tabs, NewTab, SignedOut, SignedIn

-----------------------------------------------------------------------------
(* What a page starts *)

LEMMA LoadStep == ASSUME Known, NEW c \in Call, Load(c) PROVE WInv'
<1> DEFINE t == TabOf[c]
<1>1. t \in Tab /\ Post("refresh") /\ Path(c) = "refresh" /\ Asks[c] = "load"
  BY CallAssumption DEF Load, Path
<1>2. NextHttp("refresh") \in Req /\ AuthKeeps
  BY <1>1, PostIsNext, AuthStep DEF Known
<1>3. /\ jar' = jar /\ lost' = lost /\ call[c].at = "idle"
      /\ tab' = [tab EXCEPT ![t] = NewTab]
      /\ call' = [d \in Call |->
           IF d = c THEN Posted(call[d], "first", "refresh")
           ELSE IF d \in In(t) /\ call[d].at \in {"first", "refresh", "resend", "again"}
                THEN [call[d] EXCEPT !.at = "gone"] ELSE call[d]]
  BY <1>1 DEF Load
<1>4. /\ \A d \in Call : call[d] \in WebCalls /\ CallOK(d)
      /\ jar \in Held \cup {NoCookie} /\ lost \in Nat /\ tab \in [Tab -> Tabs]
  BY DEF Known, WInv, WebTypeOK
<1>5. call' \in [Call -> WebCalls]
  BY <1>2, <1>3, <1>4, PostedShape, MovedShape
<1>6. /\ tab' \in [Tab -> Tabs] /\ \A u \in Tab : u # t => tab'[u] = tab[u]
      /\ tab'[t] = NewTab
  BY <1>1, <1>3, <1>4, TabShapes
<1>7. \A u \in Tab : /\ TabMoves(u) /\ (tab'[u] = tab[u] \/ TabOK(u)')
                     /\ tab'[u].access \in {NoToken, tab[u].access}
  BY <1>6 DEF TabMoves, TabOK, NewTab
<1>8. \A d \in Call : call'[d].refresh = call[d].refresh
  BY <1>2, <1>3, <1>4, PostedShape, MovedShape
<1>9. /\ call'[c].at = "first" /\ call'[c].http \in Req /\ call'[c].refresh = NoToken
      /\ \A d \in Call \ {c} : \/ call'[d] = call[d] /\ ~(d \in In(t) /\ call[d].at = "refresh")
                               \/ call'[d].at = "gone"
  BY <1>2, <1>3, <1>4, PostedShape, MovedShape DEF CallOK
<1>10. \A d \in Call : CallOK(d)'
  BY <1>4, <1>6, <1>9, CallAssumption DEF CallOK, In
<1> QED
  BY <1>2, <1>3, <1>4, <1>5, <1>6, <1>7, <1>8, <1>10, Frame DEF AuthKeeps

\* The submission of a form, also again, and the click on Log out.
LEMMA Submission ==
  ASSUME Known, NEW c \in Call, SubmitPassword(c) \/ ClickLogout(c) \/ Repeat(c)
  PROVE  /\ Post(Path(c)) /\ Asks[c] \in {"register", "login", "logout"}
         /\ UNCHANGED <<jar, tab, lost>>
         /\ \E at \in {"first", "again"} :
              /\ call' = [call EXCEPT ![c] = Posted(@, at, Path(c))]
              /\ at = "first" => call[c].at = "idle"
<1>1. CASE SubmitPassword(c) \/ ClickLogout(c)
  BY <1>1 DEF SubmitPassword, ClickLogout
<1>2. CASE Repeat(c)
  BY <1>2 DEF Repeat, Known, WInv, CallOK
<1> QED
  BY <1>1, <1>2

LEMMA SubmitStep ==
  ASSUME Known, NEW c \in Call, SubmitPassword(c) \/ ClickLogout(c) \/ Repeat(c)
  PROVE  WInv'
<1>1. /\ Post(Path(c)) /\ Asks[c] \in {"register", "login", "logout"}
      /\ UNCHANGED <<jar, tab, lost>>
  BY Submission
<1>2. NextHttp(Path(c)) \in Req /\ AuthKeeps
  BY <1>1, PostIsNext, AuthStep DEF Known
<1>3. PICK at \in {"first", "again"} :
        /\ call' = [call EXCEPT ![c] = Posted(@, at, Path(c))]
        /\ at = "first" => call[c].at = "idle"
  BY Submission
<1>4. /\ \A d \in Call : call[d] \in WebCalls /\ CallOK(d)
      /\ call \in [Call -> WebCalls]
      /\ jar \in Held \cup {NoCookie} /\ lost \in Nat /\ tab \in [Tab -> Tabs]
  BY DEF Known, WInv, WebTypeOK
<1>5. /\ call'[c] = Posted(call[c], at, Path(c))
      /\ \A d \in Call \ {c} : call'[d] = call[d]
  BY <1>3, <1>4
<1>6. /\ call'[c] \in WebCalls /\ call'[c].at = at
      /\ call'[c].http \in Req /\ call'[c].refresh = call[c].refresh
  BY <1>2, <1>4, <1>5, PostedShape
<1>7. call' \in [Call -> WebCalls] /\ \A d \in Call : CallOK(d)'
  BY <1>1, <1>3, <1>4, <1>5, <1>6 DEF CallOK
<1>8. \A t \in Tab : TabMoves(t)
  BY <1>1 DEF TabMoves
<1> QED
  BY <1>1, <1>2, <1>4, <1>5, <1>6, <1>7, <1>8, Frame DEF AuthKeeps

\* One call moves on, without a request, and the tabs stay as they are.
LEMMA OneCall ==
  ASSUME Known, NEW c \in Call, NEW new \in WebCalls,
         UNCHANGED <<vars, tab>>, jar' = jar, lost' \in Nat,
         call' = [call EXCEPT ![c] = new],
         new.refresh = call[c].refresh,
         \/ new.at = "settled"
         \/ new.at = call[c].at /\ new.http = call[c].http
         \/ new.at = "first" /\ call[c].at = "idle" /\ Asks[c] = "data"
  PROVE  WInv'
<1>1. AuthKeeps
  BY AuthStep DEF Known
<1>2. /\ \A d \in Call : call[d] \in WebCalls /\ CallOK(d)
      /\ call \in [Call -> WebCalls]
      /\ jar \in Held \cup {NoCookie} /\ tab \in [Tab -> Tabs]
  BY DEF Known, WInv, WebTypeOK
<1>3. call'[c] = new /\ \A d \in Call \ {c} : call'[d] = call[d]
  BY <1>2
<1>4. call' \in [Call -> WebCalls] /\ \A d \in Call : CallOK(d)'
  BY <1>2, <1>3 DEF CallOK
<1>5. \A t \in Tab : TabMoves(t)
  BY DEF TabMoves
<1> QED
  BY <1>1, <1>2, <1>3, <1>4, <1>5, Frame DEF AuthKeeps

LEMMA DataStep ==
  ASSUME Known, NEW c \in Call, SendData(c) \/ Authenticate(c) PROVE WInv'
<1>1. UNCHANGED <<vars, tab>> /\ jar' = jar /\ lost' \in Nat
  BY DEF SendData, Authenticate, Known, WInv, WebTypeOK
<1>2. call[c] \in WebCalls /\ tab[TabOf[c]] \in Tabs
  BY CallAssumption DEF Known, WInv, WebTypeOK
<1>3. CASE SendData(c)
  <2> DEFINE new == Sent(call[c], "first", tab[TabOf[c]].access)
  <2>1. tab[TabOf[c]].access \in Req \cup {NoToken}
    BY <1>2 DEF Tabs
  <2>2. new \in WebCalls /\ new.at = "first" /\ new.refresh = call[c].refresh
    BY <1>2, <2>1, SentShape
  <2>3. /\ call' = [call EXCEPT ![c] = new]
        /\ call[c].at = "idle" /\ Asks[c] = "data"
    BY <1>3 DEF SendData
  <2> HIDE DEF new
  <2> QED
    BY <1>1, <2>2, <2>3, OneCall
<1>4. CASE Authenticate(c)
  <2> DEFINE v == IF AccessValid(call[c].bearer) THEN "ok" ELSE "unauthorized"
             new == [call[c] EXCEPT !.verdict = v]
  <2>1. /\ new \in WebCalls /\ new.at = call[c].at /\ new.refresh = call[c].refresh
        /\ new.http = call[c].http
    BY <1>2, VerdictShape
  <2>2. call' = [call EXCEPT ![c] = new]
    BY <1>4 DEF Authenticate
  <2> HIDE DEF new
  <2> QED
    BY <1>1, <2>1, <2>2, OneCall
<1> QED
  BY <1>3, <1>4

-----------------------------------------------------------------------------
(* What the client makes of an answer *)

LEMMA LostIsNat ==
  ASSUME Known, NEW ready, NEW a, Delivered(ready, a) PROVE lost' \in Nat
BY DEF Delivered, Known, WInv, WebTypeOK

\* A token that is delivered was issued.
LEMMA OkIsHeld ==
  ASSUME Known, NEW r \in Req, Delivered(HttpAnswer(r), "ok") PROVE r \in Held
<1>1. answer[r] = "ok"
  BY DEF Delivered, HttpAnswer
<1> QED
  BY <1>1 DEF Held, Known, AInv, SessionOK

\* A call settles; its tab may be signed in or out at the same time.
LEMMA Settling ==
  ASSUME Known, NEW c \in Call, NEW o \in Answers \cup {"expired", "network"},
         Settle(c, o), UNCHANGED vars, lost' \in Nat,
         jar' \in Held \cup {NoCookie}, NEW new \in Tabs,
         tab' = [tab EXCEPT ![TabOf[c]] = new],
         \/ new = tab[TabOf[c]]
         \/ new = SignedOut(TabOf[c])
         \/ \E r \in Held : new = SignedIn(TabOf[c], r)
  PROVE  WInv'
<1> DEFINE t == TabOf[c]
<1>1. AuthKeeps /\ Held' = Held
  BY AuthStep DEF Known, Held, vars
<1>2. /\ \A d \in Call : call[d] \in WebCalls /\ CallOK(d)
      /\ call \in [Call -> WebCalls] /\ tab \in [Tab -> Tabs] /\ t \in Tab
      /\ TabOK(t)
  BY CallAssumption DEF Known, WInv, WebTypeOK
<1>3. /\ call' \in [Call -> WebCalls]
      /\ call'[c].at = "settled" /\ call'[c].refresh = call[c].refresh
      /\ \A d \in Call \ {c} : call'[d] = call[d]
  BY <1>2, SettledShape DEF Settle
<1>4. /\ tab' \in [Tab -> Tabs] /\ tab'[t] = new
      /\ \A u \in Tab : u # t => tab'[u] = tab[u]
  BY <1>2
<1>5. /\ new.refresh = tab[t].refresh
      /\ \/ new = tab[t]
         \/ new.access = NoToken /\ new.status = "anonymous"
         \/ /\ new.access \in Held /\ new.access # NoToken
            /\ new.user # NoUser /\ new.status = "authenticated"
  BY <1>2, TabShapes
<1>6. tab[t].refresh # NoToken => SharedRefresh(t, tab[t].refresh)'
  <2>1. \A d \in Call : call'[d].refresh = call[d].refresh
    BY <1>3
  <2> QED
    BY <1>2, <1>4, <1>5, <2>1 DEF TabOK, SharedRefresh, In
<1>7. \A u \in Tab : /\ TabMoves(u)
                     /\ tab'[u] = tab[u] \/ TabOK(u)'
                     /\ tab'[u].access \in {NoToken, tab[u].access} \cup Held'
  BY <1>1, <1>2, <1>4, <1>5, <1>6 DEF TabMoves, TabOK, vars
<1>8. \A d \in Call : CallOK(d)'
  BY <1>2, <1>3, <1>4, <1>5, CallAssumption DEF CallOK
<1> HIDE DEF t
<1> QED
  BY <1>1, <1>3, <1>4, <1>7, <1>8, Frame

\* The tab stays as it is.
LEMMA SettlingOnly ==
  ASSUME Known, NEW c \in Call, NEW o \in Answers \cup {"expired", "network"},
         Settle(c, o), UNCHANGED vars, lost' \in Nat, UNCHANGED <<jar, tab>>
  PROVE  WInv'
<1>1. /\ tab' = [tab EXCEPT ![TabOf[c]] = tab[TabOf[c]]] /\ tab[TabOf[c]] \in Tabs
      /\ jar' \in Held \cup {NoCookie}
  BY CallAssumption DEF Known, WInv, WebTypeOK
<1> QED
  BY <1>1, Settling

LEMMA AnswerStep ==
  ASSUME Known, NEW c \in Call,
         \/ SessionStarts(c) \/ LoadFindsNoSession(c) \/ LogoutEnds(c)
         \/ Answered(c) \/ Unreachable(c) \/ RetryUnreachable(c)
  PROVE  WInv' /\ UNCHANGED vars
<1>1. /\ TabOf[c] \in Tab /\ jar \in Held \cup {NoCookie} /\ CallOK(c)
      /\ SignedOut(TabOf[c]) \in Tabs
  BY CallAssumption, TabShapes DEF Known, WInv, WebTypeOK
<1>2. CASE SessionStarts(c)
  <2> DEFINE r == call[c].http
  <2>1. r \in Req /\ Delivered(HttpAnswer(r), "ok")
    BY <1>1, <1>2 DEF SessionStarts, Receives, CallOK
  <2>2. r \in Held /\ lost' \in Nat
    BY <2>1, OkIsHeld, LostIsNat
  <2>3. SignedIn(TabOf[c], r) \in Tabs
    BY <1>1, <2>2, TabShapes
  <2>4. /\ jar' = r /\ tab' = [tab EXCEPT ![TabOf[c]] = SignedIn(TabOf[c], r)]
        /\ Settle(c, "ok") /\ UNCHANGED vars /\ "ok" \in Answers
    BY <1>2 DEF SessionStarts, Answers
  <2> HIDE DEF r
  <2> QED
    BY <2>2, <2>3, <2>4, Settling
<1>3. CASE LoadFindsNoSession(c)
  <2>1. PICK a \in Answers : Receives(c, a) /\ Settle(c, a)
    BY <1>3 DEF LoadFindsNoSession
  <2>2. lost' \in Nat
    BY <2>1, LostIsNat DEF Receives
  <2>3. UNCHANGED <<vars, jar>> /\ tab' = [tab EXCEPT ![TabOf[c]] = SignedOut(TabOf[c])]
    BY <1>3 DEF LoadFindsNoSession
  <2> QED
    BY <1>1, <2>1, <2>2, <2>3, Settling
<1>4. CASE LogoutEnds(c)
  <2>1. PICK a \in Answers : /\ Receives(c, a) /\ Settle(c, a)
                             /\ jar' = IF a = "noContent" THEN NoCookie ELSE jar
    BY <1>4 DEF LogoutEnds
  <2>2. lost' \in Nat
    BY <2>1, LostIsNat DEF Receives
  <2>3. UNCHANGED vars /\ tab' = [tab EXCEPT ![TabOf[c]] = SignedOut(TabOf[c])]
    BY <1>4 DEF LogoutEnds
  <2> QED
    BY <1>1, <2>1, <2>2, <2>3, Settling
<1>5. CASE Answered(c)
  <2>1. PICK a \in {"ok", "unauthorized", "emailTaken", "internal"} :
               Receives(c, a) /\ Settle(c, a)
    BY <1>5 DEF Answered
  <2>2. lost' \in Nat /\ a \in Answers
    BY <2>1, LostIsNat DEF Receives, Answers
  <2>3. UNCHANGED <<vars, jar, tab>>
    BY <1>5 DEF Answered
  <2> QED
    BY <2>1, <2>2, <2>3, SettlingOnly
<1>6. CASE Unreachable(c)
  <2>1. lost' \in Nat
    BY <1>6, LostIsNat DEF Unreachable, Receives
  <2> QED
    BY <1>6, <2>1, SettlingOnly DEF Unreachable
<1>7. CASE RetryUnreachable(c)
  <2>1. lost' \in Nat
    BY <1>7, LostIsNat DEF RetryUnreachable, Receives
  <2>2. /\ UNCHANGED <<vars, jar>> /\ Settle(c, "expired")
        /\ tab' = [tab EXCEPT ![TabOf[c]] = SignedOut(TabOf[c])]
    BY <1>7 DEF RetryUnreachable
  <2> QED
    BY <1>1, <2>1, <2>2, Settling
<1> QED
  BY <1>2, <1>3, <1>4, <1>5, <1>6, <1>7

\* A first 401: the call joins the refresh of its tab, or starts it.
LEMMA RefusedStep ==
  ASSUME Known, NEW c \in Call, Refused(c) PROVE WInv' /\ [Next]_vars
<1> DEFINE t == TabOf[c]
<1>1. /\ t \in Tab /\ call[c].at = "first" /\ Asks[c] \in {"data", "register", "login"}
      /\ Receives(c, "unauthorized") /\ jar' = jar
  BY CallAssumption DEF Refused
<1>2. /\ \A d \in Call : call[d] \in WebCalls /\ CallOK(d)
      /\ call \in [Call -> WebCalls] /\ tab \in [Tab -> Tabs] /\ TabOK(t)
      /\ jar \in Held \cup {NoCookie} /\ call[c].refresh = NoToken
      /\ tab[t] \in Tabs
  BY <1>1 DEF Known, WInv, WebTypeOK, CallOK
<1>3. lost' \in Nat
  BY <1>1, LostIsNat DEF Receives
<1>4. ASSUME NEW r \in Req, call' = [call EXCEPT ![c] = Awaiting(@, r)],
             AuthKeeps,
             \A u \in Tab \ {t} : tab'[u] = tab[u],
             \/ tab' = tab /\ r = tab[t].refresh
             \/ /\ tab[t].refresh = NoToken /\ tab' = [tab EXCEPT ![t].refresh = r]
                /\ pc[r] = "idle" /\ pc'[r] # "idle"
      PROVE  WInv'
  <2>1. /\ call' \in [Call -> WebCalls] /\ call'[c] \in WebCalls
        /\ call'[c].at = "refresh" /\ call'[c].refresh = r
        /\ \A d \in Call \ {c} : call'[d] = call[d]
    BY <1>2, <1>4, AwaitingShape
  <2>2. /\ tab' \in [Tab -> Tabs] /\ tab'[t].refresh = r
        /\ tab'[t].access = tab[t].access /\ tab'[t].status = tab[t].status
        /\ tab'[t].user = tab[t].user
    BY <1>1, <1>2, <1>4 DEF Tabs
  <2>3. pc'[r] # "idle"
    BY <1>2, <1>4, NoTokenIsNoRequest DEF TabOK, AuthKeeps
  <2>4. SharedRefresh(t, r)'
    BY <2>1 DEF SharedRefresh, In
  <2>5. TabOK(t)'
    BY <1>2, <2>2, <2>3, <2>4 DEF TabOK
  <2>6. \A u \in Tab : /\ TabMoves(u) /\ (tab'[u] = tab[u] \/ TabOK(u)')
                       /\ tab'[u].access \in {NoToken, tab[u].access} \cup Held'
    BY <1>4, <2>2, <2>5 DEF TabMoves
  <2>7. ASSUME NEW d \in Call PROVE CallOK(d)'
    <3>1. CASE d = c
      BY <1>1, <2>1, <2>2, <3>1, NoTokenIsNoRequest DEF CallOK
    <3>2. CASE d # c /\ call[d].at # "refresh"
      BY <1>2, <2>1, <3>2 DEF CallOK
    <3>3. CASE d # c /\ call[d].at = "refresh"
      <4>1. TabOf[d] = t => tab[t].refresh = call[d].refresh /\ call[d].refresh # NoToken
        BY <1>2, <3>3 DEF CallOK
      <4>2. tab'[TabOf[d]].refresh = tab[TabOf[d]].refresh
        BY <1>4, <2>2, <4>1, CallAssumption
      <4> QED
        BY <1>2, <2>1, <3>3, <4>2 DEF CallOK
    <3> QED
      BY <3>1, <3>2, <3>3
  <2>8. \A d \in Call : call[d].refresh # NoToken => call'[d].refresh = call[d].refresh
    BY <1>2, <2>1
  <2> HIDE DEF t
  <2> QED
    BY <1>1, <1>2, <1>3, <1>4, <2>1, <2>2, <2>6, <2>7, <2>8, Frame DEF AuthKeeps
<1>5. CASE tab[t].refresh # NoToken /\ UNCHANGED <<vars, tab>>
           /\ call' = [call EXCEPT ![c] = Awaiting(@, tab[t].refresh)]
  <2>1. tab[t].refresh \in Req /\ AuthKeeps
    BY <1>2, <1>5, AuthStep DEF Tabs, Known
  <2> QED
    BY <1>4, <1>5, <2>1
<1>6. CASE /\ tab[t].refresh = NoToken /\ Post("refresh")
           /\ tab' = [tab EXCEPT ![t].refresh = NextHttp("refresh")]
           /\ call' = [call EXCEPT ![c] = Awaiting(@, NextHttp("refresh"))]
  <2>1. /\ Next /\ AuthKeeps /\ NextHttp("refresh") \in Req
        /\ pc[NextHttp("refresh")] = "idle" /\ pc'[NextHttp("refresh")] # "idle"
    BY <1>6, PostIsNext, AuthStep DEF Known
  <2>2. \A u \in Tab \ {t} : tab'[u] = tab[u]
    BY <1>2, <1>6
  <2> QED
    BY <1>4, <1>6, <2>1, <2>2
<1> QED
  BY <1>5, <1>6 DEF Refused

\* The calls that wait for the refresh of a tab are the tab's own.
LEMMA OwnWaiters ==
  ASSUME Known, NEW t \in Tab, tab[t].refresh # NoToken
  PROVE  \A c \in Waiters(tab[t].refresh) :
           /\ TabOf[c] = t /\ call[c].at = "refresh"
           /\ Asks[c] \in {"data", "register", "login"}
<1> SUFFICES ASSUME NEW c \in Waiters(tab[t].refresh)
             PROVE  /\ TabOf[c] = t /\ call[c].at = "refresh"
                    /\ Asks[c] \in {"data", "register", "login"}
  OBVIOUS
<1>1. c \in Call /\ call[c].at = "refresh" /\ call[c].refresh = tab[t].refresh
  BY DEF Waiters
<1>2. tab[TabOf[c]].refresh = tab[t].refresh /\ Asks[c] \in {"data", "register", "login"}
  BY <1>1 DEF Known, WInv, CallOK
<1> QED
  BY <1>1, <1>2, CallAssumption DEF Known, WInv, OwnRefresh

\* The refresh of a tab is over: the tab no longer has one, and whoever awaited
\* it goes on.
LEMMA RefreshEnds ==
  ASSUME Known, AuthKeeps, NEW t \in Tab, NEW new \in Tabs,
         tab[t].refresh # NoToken, new.refresh = NoToken,
         tab' = [tab EXCEPT ![t] = new],
         \/ new.access = NoToken /\ new.status = "anonymous"
         \/ /\ new.access = tab[t].refresh /\ tab[t].refresh \in Held'
            /\ new.status = tab[t].status /\ new.user = tab[t].user,
         jar' \in Held' \cup {NoCookie}, lost' \in Nat,
         call' \in [Call -> WebCalls],
         \A c \in Call :
           IF c \in Waiters(tab[t].refresh)
           THEN /\ call'[c].refresh = call[c].refresh
                /\ call'[c].at \in {"again", "resend", "settled"}
                /\ call'[c].at # "settled" =>
                     (call'[c].at = "again" <=> Asks[c] = "data")
           ELSE call'[c] = call[c]
  PROVE  WInv'
<1> DEFINE W == Waiters(tab[t].refresh)
<1>1. \A c \in W : /\ TabOf[c] = t /\ call[c].at = "refresh"
                   /\ Asks[c] \in {"data", "register", "login"}
  BY OwnWaiters
<1>2. /\ \A c \in Call : call[c] \in WebCalls /\ CallOK(c)
      /\ tab \in [Tab -> Tabs] /\ TabOK(t)
  BY DEF Known, WInv, WebTypeOK
<1>3. \A c \in Call : call'[c].refresh = call[c].refresh
  OBVIOUS
<1>4. /\ tab' \in [Tab -> Tabs] /\ tab'[t] = new
      /\ \A u \in Tab \ {t} : tab'[u] = tab[u]
  BY <1>2
<1>5. SharedRefresh(t, tab[t].refresh) /\ (\E c \in In(t) : call'[c].refresh = tab[t].refresh)
  BY <1>2, <1>3 DEF TabOK, SharedRefresh, In
<1>6. TabOK(t)'
  <2>1. CASE new.access = NoToken /\ new.status = "anonymous"
    BY <1>4, <2>1 DEF TabOK
  <2>2. CASE new.access = tab[t].refresh /\ new.status = tab[t].status
             /\ new.user = tab[t].user
    BY <1>2, <1>4, <1>5, <2>2 DEF TabOK, SharedRefresh
  <2> QED
    BY <2>1, <2>2
<1>7. \A u \in Tab : /\ TabMoves(u) /\ (tab'[u] = tab[u] \/ TabOK(u)')
                     /\ tab'[u].access \in {NoToken, tab[u].access} \cup Held'
  BY <1>4, <1>6 DEF TabMoves
<1>8. ASSUME NEW c \in Call PROVE CallOK(c)'
  <2>1. CASE c \in W
    BY <1>1, <2>1 DEF CallOK
  <2>2. CASE c \notin W
    <3>1. call'[c] = call[c]
      BY <2>2
    <3>2. call[c].at = "refresh" => TabOf[c] # t
      BY <1>2, <2>2 DEF Waiters, CallOK
    <3> QED
      BY <1>2, <1>4, <3>1, <3>2, CallAssumption DEF CallOK
  <2> QED
    BY <2>1, <2>2
<1> QED
  BY <1>3, <1>4, <1>7, <1>8, Frame

LEMMA RefreshSucceedsStep ==
  ASSUME Known, NEW t \in Tab, RefreshSucceeds(t) PROVE WInv' /\ UNCHANGED vars
<1> DEFINE r == tab[t].refresh
           W == Waiters(r)
           new == [tab[t] EXCEPT !.access = r, !.refresh = NoToken]
<1>1. /\ r # NoToken /\ Delivered(HttpAnswer(r), "ok") /\ jar' = r /\ UNCHANGED vars
      /\ tab' = [tab EXCEPT ![t].access = r, ![t].refresh = NoToken]
      /\ call' = [c \in Call |->
           IF c \notin W THEN call[c]
           ELSE IF Asks[c] = "data" THEN Sent(call[c], "again", r)
           ELSE [call[c] EXCEPT !.at = "resend"]]
  BY DEF RefreshSucceeds
<1>2. tab[t] \in Tabs /\ tab \in [Tab -> Tabs] /\ \A c \in Call : call[c] \in WebCalls
  BY DEF Known, WInv, WebTypeOK
<1>3. r \in Req
  BY <1>1, <1>2 DEF Tabs
<1>4. r \in Held /\ lost' \in Nat
  BY <1>1, <1>3, OkIsHeld, LostIsNat
<1>5. AuthKeeps /\ Held' = Held
  BY <1>1, AuthStep DEF Known, Held, vars
<1>6. ASSUME NEW c \in Call
      PROVE  /\ call'[c] \in WebCalls
             /\ IF c \in W
                THEN /\ call'[c].refresh = call[c].refresh
                     /\ call'[c].at \in {"again", "resend", "settled"}
                     /\ call'[c].at # "settled" =>
                          (call'[c].at = "again" <=> Asks[c] = "data")
                ELSE call'[c] = call[c]
  <2>1. CASE c \notin W
    BY <1>1, <1>2, <2>1
  <2>2. CASE c \in W /\ Asks[c] = "data"
    BY <1>1, <1>2, <1>3, <2>2, SentShape
  <2>3. CASE c \in W /\ Asks[c] # "data"
    BY <1>1, <1>2, <2>3, MovedShape
  <2> QED
    BY <2>1, <2>2, <2>3
<1>7. call' \in [Call -> WebCalls]
  <2>1. call' = [c \in Call |-> call'[c]]
    BY <1>1
  <2> QED
    BY <1>6, <2>1
<1>8. /\ tab' = [tab EXCEPT ![t] = new] /\ new \in Tabs /\ new.refresh = NoToken
      /\ new.access = r /\ new.status = tab[t].status /\ new.user = tab[t].user
  BY <1>1, <1>2, <1>3 DEF Tabs
<1> HIDE DEF new
<1> QED
  BY <1>1, <1>4, <1>5, <1>6, <1>7, <1>8, RefreshEnds

LEMMA RefreshFailsStep ==
  ASSUME Known, NEW t \in Tab, RefreshFails(t) PROVE WInv' /\ UNCHANGED vars
<1> DEFINE r == tab[t].refresh
           new == [SignedOut(t) EXCEPT !.refresh = NoToken]
<1>1. /\ r # NoToken /\ tab' = [tab EXCEPT ![t] = new]
      /\ call' = [c \in Call |-> IF c \in Waiters(r) THEN Settled(call[c], "expired")
                                                   ELSE call[c]]
      /\ UNCHANGED <<vars, jar>>
  BY DEF RefreshFails
<1>2. lost' \in Nat
  <2>1. PICK a \in Answers \ {"ok"} : Delivered(HttpAnswer(r), a)
    BY DEF RefreshFails
  <2> QED
    BY <2>1, LostIsNat
<1>3. /\ tab[t] \in Tabs /\ \A c \in Call : call[c] \in WebCalls
      /\ jar \in Held \cup {NoCookie}
  BY DEF Known, WInv, WebTypeOK
<1>4. /\ new \in Tabs /\ new.refresh = NoToken
      /\ new.access = NoToken /\ new.status = "anonymous"
  BY <1>3, TabShapes DEF Tabs
<1>5. AuthKeeps /\ Held' = Held
  BY <1>1, AuthStep DEF Known, Held, vars
<1>6. /\ call' \in [Call -> WebCalls]
      /\ \A c \in Call :
           IF c \in Waiters(r)
           THEN call'[c].refresh = call[c].refresh /\ call'[c].at = "settled"
           ELSE call'[c] = call[c]
  BY <1>1, <1>3, SettledShape
<1> HIDE DEF new
<1> QED
  BY <1>1, <1>2, <1>3, <1>4, <1>5, <1>6, RefreshEnds

-----------------------------------------------------------------------------
(* The theorems *)

LEMMA WebInitKnown == WebInit => Known
<1> SUFFICES ASSUME WebInit PROVE Known
  OBVIOUS
<1>1. Init /\ IInv /\ AInv
  BY InitIInv, InitAInv DEF WebInit
<1>2. jar \in Held \cup {NoCookie}
  BY <1>1, FirstAssumption, EarlierAssumption
  DEF WebInit, Init, Held, AInv, SessionOK
<1>3. NewTab \in Tabs /\ NewCall \in WebCalls
  BY DEF NewTab, Tabs, NewCall, WebCalls, Answers
<1>4. WebTypeOK
  BY <1>2, <1>3 DEF WebInit, WebTypeOK, NewTab
<1>5. WInv
  BY <1>4 DEF WebInit, WInv, TabOK, NewTab, CallOK, NewCall, OwnRefresh
<1> QED
  BY <1>1, <1>5 DEF Known

\* Whatever the browser does, the API sees a request that it allows for, or
\* nothing; and what the browser knows stays true.
LEMMA WebStep == Known /\ [WebNext]_<<vars, web>> => [Next]_vars /\ Known'
<1> SUFFICES ASSUME Known, [WebNext]_<<vars, web>> PROVE [Next]_vars /\ WInv'
  BY AuthStep DEF Known, AuthKeeps
<1>1. ASSUME NEW c \in Call, PageStep(c) PROVE [Next]_vars /\ WInv'
  <2>1. CASE Load(c)
    BY <2>1, LoadStep, PostIsNext DEF Load
  <2>2. CASE SubmitPassword(c) \/ ClickLogout(c)
    BY <2>2, SubmitStep, Submission, PostIsNext
  <2>3. CASE SendData(c)
    BY <2>3, DataStep DEF SendData
  <2> QED
    BY <1>1, <2>1, <2>2, <2>3 DEF PageStep
<1>2. ASSUME NEW c \in Call, ClientStep(c) PROVE [Next]_vars /\ WInv'
  BY <1>2, AnswerStep, RefusedStep, SubmitStep, Submission, PostIsNext DEF ClientStep
<1>3. ASSUME NEW c \in Call, Authenticate(c) PROVE [Next]_vars /\ WInv'
  BY <1>3, DataStep DEF Authenticate
<1>4. ASSUME NEW t \in Tab, RefreshStep(t) PROVE [Next]_vars /\ WInv'
  BY <1>4, RefreshSucceedsStep, RefreshFailsStep DEF RefreshStep
<1>5. ASSUME Tick \/ Crash \/ (\E r \in Req : Serve(r) \/ CallFails(r)), UNCHANGED web
      PROVE  [Next]_vars /\ WInv'
  <2>1. Next
    BY <1>5 DEF Next, Step, Serve
  <2>2. AuthKeeps
    BY <2>1, AuthStep DEF Known
  <2>3. /\ jar' \in Held' \cup {NoCookie} /\ lost' \in Nat
        /\ tab' \in [Tab -> Tabs] /\ call' \in [Call -> WebCalls]
    BY <1>5, <2>2 DEF web, Known, WInv, WebTypeOK, AuthKeeps
  <2>4. \A t \in Tab : TabMoves(t) /\ tab'[t] = tab[t]
    BY <1>5 DEF web, TabMoves
  <2>5. \A c \in Call : CallOK(c)' /\ call'[c] = call[c]
    BY <1>5 DEF web, Known, WInv, CallOK
  <2> QED
    BY <2>1, <2>2, <2>3, <2>4, <2>5, Frame
<1>6. CASE UNCHANGED <<vars, web>>
  <2>1. WInv'
    BY <1>6 DEF vars, web, Known, WInv, WebTypeOK, Held, TabOK, CallOK, OwnRefresh,
                SharedRefresh
  <2> QED
    BY <1>6, <2>1
<1> QED
  BY <1>1, <1>2, <1>3, <1>4, <1>5, <1>6 DEF WebNext

LEMMA WebInvariance == WebSpec => []Known
BY WebInitKnown, WebStep, PTL DEF WebSpec

\* The browser uses the API only as AuthTokens lets any client use it: it
\* sends the cookie it was given, or none.  What is proved of the tokens holds
\* whatever the tabs do.
THEOREM BrowserIsAClient == WebSpec => Spec
<1>1. WebInit => Init
  BY DEF WebInit
<1> QED
  BY <1>1, WebInvariance, WebStep, PTL DEF WebSpec, Spec

\* The memory of every tab is of its type, and the cookie and the access tokens
\* that the browser holds were issued.
THEOREM WebTypeCorrect == WebSpec => []WebTypeOK
<1>1. Known => WebTypeOK
  BY DEF Known, WInv
<1> QED
  BY <1>1, WebInvariance, PTL

\* A tab shows its pages only with a token and a user.
THEOREM PagesHaveToken == WebSpec => []ShownWithToken
<1>1. Known => ShownWithToken
  BY DEF Known, WInv, TabOK, ShownWithToken
<1> QED
  BY <1>1, WebInvariance, PTL

\* A step that ends no call and leaves the tab its token and its status.
LEMMA TokenStays ==
  ASSUME NEW t \in Tab, \A c \in In(t) : ~EndsSession(c),
         tab'[t].access = tab[t].access, tab'[t].status = tab[t].status
  PROVE  KeepsLateTokens(t)
BY DEF KeepsLateTokens

\* The call c settles, and its tab becomes new.
LEMMA SettlingKeeps ==
  ASSUME Known, NEW c \in Call, NEW o \in Answers \cup {"expired", "network"},
         Settle(c, o), NEW new, tab' = [tab EXCEPT ![TabOf[c]] = new],
         \/ new.access = NoToken
         \/ /\ new = tab[TabOf[c]] \/ new.status = "authenticated"
            /\ Asks[c] # "logout" /\ o # "expired" /\ (Asks[c] = "load" => o = "ok"),
         NEW t \in Tab
  PROVE  KeepsLateTokens(t)
<1>1. /\ call \in [Call -> WebCalls] /\ tab \in [Tab -> Tabs] /\ TabOf[c] \in Tab
  BY CallAssumption DEF Known, WInv, WebTypeOK
<1>2. \A d \in Call \ {c} : call'[d] = call[d]
  BY <1>1 DEF Settle
<1>3. call'[c].outcome = o
  BY <1>1, OutcomeOfSettled DEF Settle
<1>4. \A d \in Call : EndsSession(d) =>
        /\ d = c
        /\ Asks[c] = "logout" \/ o = "expired" \/ (Asks[c] = "load" /\ o # "ok")
  BY <1>2, <1>3 DEF EndsSession
<1>5. CASE t # TabOf[c]
  <2>1. tab'[t] = tab[t] /\ \A d \in In(t) : ~EndsSession(d)
    BY <1>1, <1>4, <1>5 DEF In
  <2> QED
    BY <2>1, TokenStays
<1>6. CASE t = TabOf[c]
  <2>1. tab'[t] = new
    BY <1>1, <1>6
  <2>2. CASE new.access = NoToken
    BY <2>1, <2>2 DEF KeepsLateTokens
  <2>3. CASE /\ new = tab[TabOf[c]] \/ new.status = "authenticated"
             /\ Asks[c] # "logout" /\ o # "expired" /\ (Asks[c] = "load" => o = "ok")
    <3>1. \A d \in In(t) : ~EndsSession(d)
      BY <1>4, <2>3 DEF In
    <3> QED
      BY <1>6, <2>1, <2>3, <3>1 DEF KeepsLateTokens
  <2> QED
    BY <2>2, <2>3
<1> QED
  BY <1>5, <1>6

\* What a page starts or sends again settles nothing and touches no token but
\* that of the page it replaces.
LEMMA StartKeeps ==
  ASSUME Known, NEW c \in Call,
         PageStep(c) \/ Repeat(c) \/ Authenticate(c) \/ Refused(c), NEW t \in Tab
  PROVE  KeepsLateTokens(t)
<1>1. /\ call \in [Call -> WebCalls] /\ tab \in [Tab -> Tabs] /\ TabOf[c] \in Tab
      /\ \A d \in Call : call[d] \in WebCalls
  BY CallAssumption DEF Known, WInv, WebTypeOK
<1>2. ASSUME \A d \in Call : call'[d].at = "settled" => call[d].at = "settled"
      PROVE  \A d \in In(t) : ~EndsSession(d)
  BY <1>2 DEF EndsSession, In
<1>3. CASE Load(c)
  <2>1. /\ tab' = [tab EXCEPT ![TabOf[c]] = NewTab]
        /\ \A d \in Call : \/ call'[d] = Posted(call[d], "first", Path(c))
                            \/ call'[d] = [call[d] EXCEPT !.at = "gone"]
                            \/ call'[d] = call[d]
    BY <1>3 DEF Load
  <2>2. \A d \in Call : call'[d].at = "settled" => call[d].at = "settled"
    BY <1>1, <2>1 DEF WebCalls, Posted
  <2>3. tab'[t] = tab[t] \/ tab'[t] = NewTab
    BY <1>1, <2>1
  <2>4. CASE tab'[t] = tab[t]
    BY <1>2, <2>2, <2>4, TokenStays
  <2>5. CASE tab'[t] = NewTab
    BY <2>5 DEF NewTab, KeepsLateTokens
  <2> QED
    BY <2>3, <2>4, <2>5
<1>4. CASE SubmitPassword(c) \/ ClickLogout(c) \/ Repeat(c)
  <2>1. PICK at \in {"first", "again"} :
          call' = [call EXCEPT ![c] = Posted(@, at, Path(c))]
    BY <1>4, Submission
  <2>2. tab' = tab
    BY <1>4, Submission
  <2>3. \A d \in Call : call'[d].at = "settled" => call[d].at = "settled"
    BY <1>1, <2>1 DEF WebCalls, Posted
  <2> QED
    BY <1>2, <2>2, <2>3, TokenStays
<1>5. CASE SendData(c)
  <2>1. call' = [call EXCEPT ![c] = Sent(@, "first", tab[TabOf[c]].access)] /\ tab' = tab
    BY <1>5 DEF SendData
  <2>2. \A d \in Call : call'[d].at = "settled" => call[d].at = "settled"
    BY <1>1, <2>1 DEF WebCalls, Sent
  <2> QED
    BY <1>2, <2>1, <2>2, TokenStays
<1>6. CASE Authenticate(c)
  <2>1. PICK v \in {"ok", "unauthorized"} : call' = [call EXCEPT ![c].verdict = v]
    BY <1>6 DEF Authenticate
  <2>2. \A d \in Call : call'[d].at = "settled" => call[d].at = "settled"
    BY <1>1, <2>1 DEF WebCalls
  <2>3. tab' = tab
    BY <1>6 DEF Authenticate
  <2> QED
    BY <1>2, <2>2, <2>3, TokenStays
<1>7. CASE Refused(c)
  <2>1. PICK r : /\ call' = [call EXCEPT ![c] = Awaiting(@, r)]
                 /\ tab' = tab \/ tab' = [tab EXCEPT ![TabOf[c]].refresh = r]
    BY <1>7 DEF Refused
  <2>2. \A d \in Call : call'[d].at = "settled" => call[d].at = "settled"
    BY <1>1, <2>1 DEF WebCalls, Awaiting
  <2>3. tab'[t].access = tab[t].access /\ tab'[t].status = tab[t].status
    BY <1>1, <2>1 DEF Tabs
  <2> QED
    BY <1>2, <2>2, <2>3, TokenStays
<1> QED
  BY <1>3, <1>4, <1>5, <1>6, <1>7 DEF PageStep

LEMMA AnswerKeeps ==
  ASSUME Known, NEW c \in Call,
         \/ SessionStarts(c) \/ LoadFindsNoSession(c) \/ LogoutEnds(c)
         \/ Answered(c) \/ Unreachable(c) \/ RetryUnreachable(c),
         NEW t \in Tab
  PROVE  KeepsLateTokens(t)
<1>1. /\ TabOf[c] \in Tab /\ SignedOut(TabOf[c]).access = NoToken
      /\ tab \in [Tab -> Tabs] /\ CallOK(c)
  BY CallAssumption, TabShapes DEF Known, WInv, WebTypeOK
<1>2. CASE SessionStarts(c)
  <2> DEFINE new == SignedIn(TabOf[c], call[c].http)
  <2>1. /\ Asks[c] \in {"register", "login", "load"} /\ Settle(c, "ok")
        /\ tab' = [tab EXCEPT ![TabOf[c]] = new]
        /\ call[c].http \in Req /\ Delivered(HttpAnswer(call[c].http), "ok")
    BY <1>1, <1>2 DEF SessionStarts, Receives, CallOK
  <2>2. new.status = "authenticated"
    BY <1>1, <2>1, OkIsHeld, TabShapes
  <2>3. Asks[c] # "logout" /\ "ok" # "expired" /\ "ok" \in Answers
    BY <2>1 DEF Answers
  <2> HIDE DEF new
  <2> QED
    BY <2>1, <2>2, <2>3, SettlingKeeps
<1>3. CASE LoadFindsNoSession(c) \/ LogoutEnds(c) \/ RetryUnreachable(c)
  <2>1. /\ tab' = [tab EXCEPT ![TabOf[c]] = SignedOut(TabOf[c])]
        /\ \E o \in Answers \cup {"expired"} : Settle(c, o)
    BY <1>3 DEF LoadFindsNoSession, LogoutEnds, RetryUnreachable
  <2> QED
    BY <1>1, <2>1, SettlingKeeps
<1>4. CASE Answered(c) \/ Unreachable(c)
  <2>1. /\ Asks[c] \in {"data", "register", "login"} /\ tab' = tab
        /\ \E o \in {"ok", "unauthorized", "emailTaken", "internal", "network"} :
             Settle(c, o)
    BY <1>4 DEF Answered, Unreachable
  <2>2. tab' = [tab EXCEPT ![TabOf[c]] = tab[TabOf[c]]]
    BY <1>1, <2>1
  <2> QED
    BY <2>1, <2>2, SettlingKeeps DEF Answers
<1> QED
  BY <1>2, <1>3, <1>4

LEMMA RefreshKeeps ==
  ASSUME Known, NEW u \in Tab, RefreshStep(u), NEW t \in Tab
  PROVE  KeepsLateTokens(t)
<1> DEFINE r == tab[u].refresh
<1>1. /\ tab \in [Tab -> Tabs] /\ tab[u] \in Tabs
      /\ \A c \in Call : call[c] \in WebCalls
  BY DEF Known, WInv, WebTypeOK
<1>2. CASE RefreshSucceeds(u)
  <2>1. /\ r # NoToken /\ HttpAnswer(r) = "ok"
        /\ tab' = [tab EXCEPT ![u].access = r, ![u].refresh = NoToken]
        /\ \A c \in Call : \/ call'[c] = call[c]
                            \/ call'[c] = Sent(call[c], "again", r)
                            \/ call'[c] = [call[c] EXCEPT !.at = "resend"]
    BY <1>2 DEF RefreshSucceeds, Delivered
  <2>2. \A c \in In(t) : ~EndsSession(c)
    BY <1>1, <2>1 DEF EndsSession, In, WebCalls, Sent
  <2>3. CASE t = u
    <3>1. tab'[u].access = r /\ tab'[u].refresh = NoToken /\ tab'[u].status = tab[u].status
      BY <1>1, <2>1 DEF Tabs
    <3> QED
      BY <2>1, <2>2, <2>3, <3>1 DEF KeepsLateTokens, RefreshBrings
  <2>4. CASE t # u
    BY <1>1, <2>1, <2>2, <2>4, TokenStays
  <2> QED
    BY <2>3, <2>4
<1>3. CASE RefreshFails(u)
  <2>1. /\ r # NoToken
        /\ tab' = [tab EXCEPT ![u] = [SignedOut(u) EXCEPT !.refresh = NoToken]]
        /\ call' = [c \in Call |-> IF c \in Waiters(r) THEN Settled(call[c], "expired")
                                                     ELSE call[c]]
    BY <1>3 DEF RefreshFails
  <2>2. CASE t = u
    <3>1. tab'[t].access = NoToken
      BY <1>1, <2>1, <2>2 DEF SignedOut, Tabs
    <3> QED
      BY <3>1 DEF KeepsLateTokens
  <2>3. CASE t # u
    <3>1. \A c \in In(t) : c \notin Waiters(r)
      BY <2>1, <2>3, OwnWaiters DEF In
    <3>2. \A c \in In(t) : ~EndsSession(c)
      BY <2>1, <3>1 DEF EndsSession, In
    <3> QED
      BY <1>1, <2>1, <2>3, <3>2, TokenStays
  <2> QED
    BY <2>2, <2>3
<1> QED
  BY <1>2, <1>3 DEF RefreshStep

\* The end of a session clears the token, and whatever token a tab has while
\* nobody is logged in came with a refresh that ended later.
THEOREM TokensAreLate == WebSpec => OnlyLateTokens
<1>1. Known /\ [WebNext]_<<vars, web>> => [\A t \in Tab : KeepsLateTokens(t)]_<<vars, web>>
  <2> SUFFICES ASSUME Known, WebNext, NEW t \in Tab PROVE KeepsLateTokens(t)
    OBVIOUS
  <2>1. ASSUME NEW c \in Call, PageStep(c) \/ ClientStep(c) \/ Authenticate(c)
        PROVE  KeepsLateTokens(t)
    BY <2>1, StartKeeps, AnswerKeeps DEF ClientStep
  <2>2. CASE UNCHANGED web
    <3>1. tab' = tab /\ call' = call
      BY <2>2 DEF web
    <3> QED
      BY <3>1, TokenStays DEF EndsSession
  <2> QED
    BY <2>1, <2>2, RefreshKeeps DEF WebNext
<1> QED
  BY <1>1, WebInvariance, PTL DEF WebSpec, OnlyLateTokens

\* A refresh that arrives with a revoked or expired token is refused, also when
\* several tabs refresh, log in and log out at the same time.
THEOREM RevokedStaysOutOfBrowser == WebSpec => []RevokedIsRefused
BY BrowserIsAClient, RevokedStaysOut, PTL

-----------------------------------------------------------------------------
(* Who ends the session of a tab *)

\* There was nothing wrong with the tab t when a refresh with the cookie k was
\* refused to it: NotExpiredByItself, said of a tab and a cookie.
Excused(t, k) ==
  \/ k = NoCookie
  \/ token[k].expires <= now
  \/ \E s \in Req : cookie[s] = k /\ ~SharedRefresh(t, s)

NoMishap == faults = 0 /\ lost = 0

SharedOK ==
  \A t \in Tab, r \in Req : SharedRefresh(t, r) => pc[r] # "idle" /\ req[r].op = "refresh"

\* Whoever revoked a token carried it and is past the statement that did it.
RevokerOK ==
  \A k \in Req : token[k] # NoToken /\ token[k].revoked =>
    \E s \in Req : cookie[s] = k /\ pc[s] \in {"issue", "done"}

\* Only a crash leaves a request without an answer.
SilentOK == \A r \in Req : pc[r] = "done" /\ answer[r] = "none" => faults # 0

\* The request under /auth whose answer a call awaits by itself.
Http(c) ==
  IF Asks[c] # "data" /\ call[c].at \in {"first", "again"} THEN call[c].http ELSE NoToken

Undelivered(r) == jar # r /\ \A s \in Req : cookie[s] # r

\* An answer that somebody awaits is awaited in one place, and its cookie has
\* not been in the browser yet.
FreshOK ==
  /\ \A c \in Call : Http(c) # NoToken => pc[Http(c)] # "idle" /\ Undelivered(Http(c))
  /\ \A c, d \in Call : Http(c) # NoToken /\ Http(c) = Http(d) => c = d
  /\ \A c \in Call, t \in Tab : Http(c) # NoToken => Http(c) # tab[t].refresh
  /\ \A t \in Tab : tab[t].refresh # NoToken => Undelivered(tab[t].refresh)

\* A refresh that the tab no longer awaits did not leave its cookie in the jar,
\* unless there is an excuse: it succeeded, and its own cookie took the place;
\* it was refused; or the page was loaded again, and sent the cookie as well.
PastOK ==
  \A t \in Tab, r \in Req :
    SharedRefresh(t, r) /\ cookie[r] = jar /\ r # tab[t].refresh => Excused(t, jar)

\* So two refreshes of a tab do not carry one cookie without an excuse, ...
AloneOK ==
  \A t \in Tab : \A r, s \in Req :
    SharedRefresh(t, r) /\ SharedRefresh(t, s) /\ r # s /\ cookie[r] = cookie[s] =>
      Excused(t, cookie[r])

\* ... none of them is refused without one, ...
FateOK ==
  \A t \in Tab, r \in Req :
    SharedRefresh(t, r) /\ pc[r] = "done" /\ answer[r] # "ok" => Excused(t, cookie[r])

\* ... and no call is told so.
ToldOK ==
  \A c \in Call : call[c].outcome = "expired" =>
    call[c].refresh # NoToken /\ Excused(TabOf[c], cookie[call[c].refresh])

XInv ==
  /\ SharedOK /\ RevokerOK /\ SilentOK /\ FreshOK
  /\ NoMishap => PastOK /\ AloneOK /\ FateOK /\ ToldOK

-----------------------------------------------------------------------------
(* What a step of the API does to the refreshes under way *)

\* A refresh that no fault has met is refused only when it looks its token up
\* and finds it revoked or expired; only a request that carries a token, and
\* gets past its revocation with that, revokes it.
Turn(r) ==
  /\ pc[r] = "done" => pc'[r] = "done" /\ answer'[r] = answer[r]
  /\ pc[r] = "issue" => pc'[r] \in {"issue", "done"}
  /\ pc[r] # "done" /\ pc'[r] = "done" /\ faults' = 0 =>
       /\ answer'[r] # "none"
       /\ req[r].op = "refresh" /\ answer'[r] # "ok" =>
            \/ pc[r] = "idle"
            \/ pc[r] = "findToken" /\ ~Usable(cookie[r])
  /\ token'[r] # NoToken /\ token'[r].revoked =>
       \/ token[r] # NoToken /\ token[r].revoked
       \/ \E s \in Req : cookie[s] = r /\ cookie'[s] = r /\ pc'[s] \in {"issue", "done"}

AuthMoves ==
  /\ req' = req /\ now \in Nat /\ now' \in Nat /\ now <= now'
  /\ faults' = 0 => faults = 0
  /\ \A r \in Req : RowEffect(r) /\ RequestEffect(r) /\ Turn(r)

\* A step in which the request r is the only one to move, and revokes nothing.
LEMMA PlainTurn ==
  ASSUME IInv, NEW r \in Req, pc[r] # "done",
         \A s \in Req \ {r} : pc'[s] = pc[s] /\ answer'[s] = answer[s],
         pc[r] = "issue" => pc'[r] \in {"issue", "done"},
         pc'[r] = "done" /\ faults' = 0 =>
           /\ answer'[r] # "none"
           /\ req[r].op = "refresh" /\ answer'[r] # "ok" =>
                \/ pc[r] = "idle"
                \/ pc[r] = "findToken" /\ ~Usable(cookie[r]),
         \A k \in Req : token'[k] # NoToken /\ token'[k].revoked =>
           \/ token[k] # NoToken /\ token[k].revoked
           \/ \E s \in Req : cookie[s] = k /\ cookie'[s] = k /\ pc'[s] \in {"issue", "done"}
  PROVE  \A s \in Req : Turn(s)
BY DEF Turn

\* A request moves on, or it ends, or a fault ends it.
LEMMA GotoShape ==
  ASSUME IInv, NEW r \in Req, NEW l, Goto(r, l)
  PROVE  /\ pc'[r] = l /\ answer'[r] = answer[r]
         /\ \A s \in Req \ {r} : pc'[s] = pc[s] /\ answer'[s] = answer[s]
BY DEF Goto, IInv, TypeOK

LEMMA ReplyShape ==
  ASSUME IInv, NEW r \in Req, NEW code, Reply(r, code)
  PROVE  /\ pc'[r] = "done" /\ answer'[r] = code
         /\ \A s \in Req \ {r} : pc'[s] = pc[s] /\ answer'[s] = answer[s]
BY DEF Reply, IInv, TypeOK

LEMMA FaultShape ==
  ASSUME IInv, NEW r \in Req, Fault(r)
  PROVE  /\ pc'[r] = "done" /\ faults' # 0
         /\ \A s \in Req \ {r} : pc'[s] = pc[s] /\ answer'[s] = answer[s]
<1>1. Reply(r, Failure(r)) /\ faults' = faults + 1 /\ faults \in Nat
  BY DEF Fault, IInv, TypeOK
<1> QED
  BY <1>1, ReplyShape

LEMMA LookTurn ==
  ASSUME IInv, NEW r \in Req,
         \/ ArriveWithPassword(r) \/ FindUser(r) \/ FindToken(r) \/ CallFails(r)
         \/ \E c \in Held \cup {NoCookie} : ArriveWithCookie(r, c)
  PROVE  \A s \in Req : Turn(s)
<1>1. UNCHANGED token /\ pc[r] # "done"
  BY DEF ArriveWithPassword, FindUser, FindToken, CallFails, ArriveWithCookie, InFlight
<1>2. Kept(r) /\ \A k \in Req : token'[k] # NoToken /\ token'[k].revoked =>
                                  token[k] # NoToken /\ token[k].revoked
  BY <1>1 DEF IInv
<1>3. CASE ArriveWithPassword(r)
  <2>1. Goto(r, "findUser") /\ pc[r] = "idle"
    BY <1>3 DEF ArriveWithPassword
  <2> QED
    BY <1>1, <1>2, <2>1, GotoShape, PlainTurn
<1>4. CASE FindUser(r)
  <2>1. pc[r] = "findUser" /\ req[r].op # "refresh"
    BY <1>2, <1>4 DEF FindUser, Kept, InPlace
  <2>2. \/ \E l \in {"createUser", "issue"} : Goto(r, l)
        \/ \E a \in {"emailTaken", "unauthorized"} : Reply(r, a)
    BY <1>4 DEF FindUser
  <2> QED
    BY <1>1, <1>2, <2>1, <2>2, GotoShape, ReplyShape, PlainTurn
<1>5. CASE FindToken(r)
  <2>1. pc[r] = "findToken"
    BY <1>5 DEF FindToken
  <2>2. Goto(r, "revoke") \/ (~Usable(cookie[r]) /\ Reply(r, "unauthorized"))
    BY <1>5 DEF FindToken
  <2> QED
    BY <1>1, <1>2, <2>1, <2>2, GotoShape, ReplyShape, PlainTurn
<1>6. CASE CallFails(r)
  BY <1>1, <1>2, <1>6, FaultShape, PlainTurn DEF CallFails
<1>7. ASSUME NEW c \in Held \cup {NoCookie}, ArriveWithCookie(r, c)
      PROVE  \A s \in Req : Turn(s)
  <2>1. pc[r] = "idle"
    BY <1>7 DEF ArriveWithCookie
  <2>2. \/ \E l \in {"findToken", "revoke"} : Goto(r, l)
        \/ \E a \in {"noContent", "unauthorized"} : Reply(r, a)
    BY <1>7 DEF ArriveWithCookie
  <2> QED
    BY <1>1, <1>2, <2>1, <2>2, GotoShape, ReplyShape, PlainTurn
<1> QED
  BY <1>3, <1>4, <1>5, <1>6, <1>7

LEMMA WriteTurn ==
  ASSUME IInv, NEW r \in Req,
         CreateUser(r) \/ RotateOut(r) \/ RevokeOut(r) \/ Issue(r)
  PROVE  \A s \in Req : Turn(s)
<1>1. Kept(r) /\ token \in [Req -> Token \cup {NoToken}] /\ cookie' = cookie
  BY DEF IInv, TypeOK, CreateUser, RotateOut, RevokeOut, Issue
<1>2. CASE CreateUser(r)
  <2>1. /\ pc[r] = "createUser" /\ req[r].op # "refresh" /\ token' = token
        /\ Goto(r, "issue") \/ Reply(r, "internal") \/ Fault(r)
    BY <1>1, <1>2 DEF CreateUser, Acknowledged, Kept, InPlace
  <2> QED
    BY <1>1, <2>1, GotoShape, ReplyShape, FaultShape, PlainTurn
<1>3. CASE RotateOut(r) \/ RevokeOut(r)
  <2>1. /\ pc[r] = "revoke"
        /\ token' = [token EXCEPT ![cookie[r]].revoked = TRUE]
        /\ Goto(r, "issue") \/ Fault(r) \/ (Reply(r, "noContent") /\ req[r].op = "logout")
    BY <1>3 DEF RotateOut, RevokeOut, Acknowledged, AcknowledgedLast
  <2>2. pc'[r] \in {"issue", "done"}
    BY <2>1, GotoShape, ReplyShape, FaultShape
  <2>3. \A k \in Req : token'[k] # NoToken /\ token'[k].revoked =>
          \/ token[k] # NoToken /\ token[k].revoked
          \/ \E s \in Req : cookie[s] = k /\ cookie'[s] = k /\ pc'[s] \in {"issue", "done"}
    BY <1>1, <2>1, <2>2
  <2> QED
    BY <1>1, <2>1, <2>3, GotoShape, ReplyShape, FaultShape, PlainTurn
<1>4. CASE Issue(r)
  <2>1. pc[r] = "issue" /\ (Reply(r, "ok") \/ Fault(r))
    BY <1>4 DEF Issue, AcknowledgedLast
  <2>2. \A k \in Req : token'[k] # NoToken /\ token'[k].revoked =>
          token[k] # NoToken /\ token[k].revoked
    BY <1>1, <1>4 DEF Issue
  <2> QED
    BY <1>1, <2>1, <2>2, ReplyShape, FaultShape, PlainTurn
<1> QED
  BY <1>2, <1>3, <1>4

LEMMA AuthMovesStep == ASSUME IInv, AInv, [Next]_vars PROVE AuthMoves
<1>1. IInv' /\ now \in Nat /\ now' \in Nat
  BY StepIInv DEF IInv, TypeOK
<1>2. CASE Next
  <2>1. Effect
    BY <1>1, <1>2, StepEffect
  <2>2. \A r \in Req : Turn(r)
    <3>1. ASSUME NEW r \in Req, Step(r) PROVE \A s \in Req : Turn(s)
      BY <3>1, LookTurn, WriteTurn DEF Step
    <3>2. CASE Tick
      BY <3>2 DEF Tick, Turn
    <3>3. CASE Crash
      <4>1. faults' # 0 /\ UNCHANGED <<token, answer>>
            /\ \A s \in Req : pc'[s] = pc[s] \/ (pc'[s] = "done" /\ pc[s] # "idle")
        BY <3>3 DEF Crash, InFlight, IInv, TypeOK
      <4> QED
        BY <4>1 DEF Turn
    <3> QED
      BY <1>2, <3>1, <3>2, <3>3 DEF Next
  <2> QED
    BY <1>1, <2>1, <2>2 DEF AuthMoves, Effect
<1>3. CASE UNCHANGED vars
  BY <1>1, <1>3 DEF AuthMoves, vars, RowEffect, RequestEffect, Turn, AInv, LoggedOut
<1> QED
  BY <1>2, <1>3

-----------------------------------------------------------------------------
(* The frame of a step, for what is said about refreshes *)

\* A cookie is attached to a request when it arrives, and it is the one of the
\* browser.
CookieMoves ==
  \A s \in Req : cookie'[s] = cookie[s] \/ (pc[s] = "idle" /\ cookie'[s] = jar)

\* The browser gets a cookie from an answer that somebody awaited.
JarMoves ==
  \/ jar' \in {jar, NoCookie}
  \/ \E c \in Call : jar' = Http(c) /\ jar' # NoToken /\ Http(c)' # jar'
  \/ \E t \in Tab : jar' = tab[t].refresh /\ jar' # NoToken /\ tab'[t].refresh # jar'

New(r) == r \in Req /\ pc[r] = "idle" /\ pc'[r] # "idle"

\* Of the answers that are awaited, one at most is of a new request.
HttpMoves ==
  \/ /\ \A c \in Call : Http(c)' \in {NoToken, Http(c)}
     /\ \A t \in Tab : tab'[t].refresh \in {NoToken, tab[t].refresh}
  \/ \E c \in Call :
       /\ New(Http(c)')
       /\ \A d \in Call \ {c} : Http(d)' \in {NoToken, Http(d)}
       /\ \A t \in Tab : tab'[t].refresh \in {NoToken, tab[t].refresh}
  \/ \E t \in Tab :
       /\ New(tab'[t].refresh)
       /\ \A u \in Tab \ {t} : tab'[u].refresh \in {NoToken, tab[u].refresh}
       /\ \A c \in Call : Http(c)' \in {NoToken, Http(c)}

\* The tab t starts the refresh r.
Starts(t, r) ==
  /\ New(r) /\ req[r].op = "refresh"
  /\ tab[t].refresh = NoToken /\ tab'[t].refresh = r
  /\ jar' = jar /\ cookie'[r] = jar
  /\ pc'[r] = "done" => jar = NoCookie \/ token'[jar].expires <= now'

ShareMoves ==
  \A t \in Tab, r \in Req :
    /\ SharedRefresh(t, r) => SharedRefresh(t, r)'
    /\ SharedRefresh(t, r)' => SharedRefresh(t, r) \/ Starts(t, r)

\* A tab is done with a refresh whose cookie stays in the jar only when there is
\* an excuse.
RefreshMoves ==
  \A t \in Tab, r \in Req :
    /\ tab[t].refresh = r /\ tab'[t].refresh # r
    /\ NoMishap' /\ cookie'[r] = jar'
    => Excused(t, jar)'

OutcomeMoves ==
  \A c \in Call : call'[c].outcome = "expired" /\ NoMishap' =>
    /\ call'[c].refresh = call[c].refresh
    /\ \/ call[c].outcome = "expired"
       \/ call[c].refresh # NoToken /\ Excused(TabOf[c], cookie[call[c].refresh])

Conduct ==
  /\ lost' = 0 => lost = 0
  /\ CookieMoves /\ JarMoves /\ HttpMoves /\ ShareMoves /\ RefreshMoves /\ OutcomeMoves

\* Whoever has a cookie has one of a token that exists; a request that has not
\* been made has neither a cookie nor a token.
LEMMA CookieFacts ==
  ASSUME Known, NEW r \in Req
  PROVE  /\ cookie[r] \in Req \cup {NoCookie}
         /\ cookie[r] # NoCookie => token[cookie[r]] \in Token
         /\ pc[r] = "idle" => cookie[r] = NoCookie /\ token[r] = NoToken
         /\ jar \in Req \cup {NoCookie}
         /\ jar # NoCookie => token[jar] \in Token
         /\ \A t \in Tab : tab[t].refresh # NoToken =>
              tab[t].refresh \in Req /\ pc[tab[t].refresh] # "idle"
<1>1. Kept(r) /\ SessionOK(r) /\ cookie[r] \in Req \cup {NoCookie}
      /\ token \in [Req -> Token \cup {NoToken}]
  BY DEF Known, IInv, AInv, TypeOK
<1>2. jar \in Held \cup {NoCookie}
  BY DEF Known, WInv, WebTypeOK
<1>3. \A t \in Tab : /\ tab[t] \in Tabs
                     /\ tab[t].refresh # NoToken => pc[tab[t].refresh] # "idle"
  BY DEF Known, WInv, WebTypeOK, TabOK
<1>4. cookie[r] # NoCookie => token[cookie[r]] \in Token
  BY <1>1 DEF Kept, Carries
<1>5. jar # NoCookie => jar \in Req /\ token[jar] \in Token
  BY <1>1, <1>2 DEF Held
<1>6. pc[r] = "idle" => cookie[r] = NoCookie /\ token[r] = NoToken
  BY <1>1 DEF Kept, InPlace, SessionOK
<1>7. \A t \in Tab : tab[t].refresh # NoToken =>
        tab[t].refresh \in Req /\ pc[tab[t].refresh] # "idle"
  BY <1>3 DEF Tabs
<1> QED
  BY <1>1, <1>4, <1>5, <1>6, <1>7

\* An excuse stays one.
LEMMA ExcuseStays ==
  ASSUME Known, SharedOK, AuthMoves, ShareMoves, NEW t \in Tab,
         NEW k \in Req \cup {NoCookie}, k # NoCookie => token[k] \in Token, Excused(t, k)
  PROVE  Excused(t, k)'
<1>1. CASE k = NoCookie
  BY <1>1 DEF Excused
<1>2. CASE k \in Req /\ token[k] \in Token /\ token[k].expires <= now
  <2>1. token'[k].expires = token[k].expires /\ token[k].expires \in Nat
    BY <1>2, NoTokenAssumption DEF AuthMoves, RowEffect, Token
  <2>2. now \in Nat /\ now' \in Nat /\ now <= now'
    BY DEF AuthMoves
  <2>3. token'[k].expires <= now'
    BY <1>2, <2>1, <2>2
  <2> QED
    BY <2>3 DEF Excused
<1>3. ASSUME NEW s \in Req, cookie[s] = k, k # NoCookie, ~SharedRefresh(t, s)
      PROVE  Excused(t, k)'
  <2>1. pc[s] # "idle"
    BY <1>3, CookieFacts
  <2>2. cookie'[s] = k /\ ~SharedRefresh(t, s)'
    BY <1>3, <2>1 DEF AuthMoves, RequestEffect, ShareMoves, Starts, New
  <2> QED
    BY <2>2 DEF Excused
<1> QED
  BY <1>1, <1>2, <1>3 DEF Excused

LEMMA FreshFrame ==
  ASSUME Known, FreshOK, AuthMoves, Conduct
  PROVE  FreshOK'
<1>1. \A s \in Req : /\ cookie'[s] \in {cookie[s], jar}
                     /\ pc[s] # "idle" => pc'[s] # "idle"
  BY DEF AuthMoves, RequestEffect, Conduct, CookieMoves
<1>2. \A c \in Call : Http(c) \in Req \cup {NoToken}
  BY DEF Http, Known, WInv, CallOK
<1>3. \A t \in Tab : tab[t].refresh # NoToken =>
        tab[t].refresh \in Req /\ pc[tab[t].refresh] # "idle"
  BY CookieFacts DEF Known, WInv, WebTypeOK, Tabs, TabOK
<1>4. JarMoves /\ HttpMoves
  BY DEF Conduct
<1>5. ASSUME NEW r, New(r) PROVE Undelivered(r)'
  <2>1. r \in Req /\ pc[r] = "idle" /\ r # NoToken /\ r # NoCookie
    BY <1>5, NoCookieAssumption, NoTokenIsNoRequest DEF New
  <2>2. token[r] = NoToken /\ NoToken \notin Token
    BY <2>1, CookieFacts, NoTokenAssumption
  <2>3. jar # r /\ \A s \in Req : cookie[s] # r
    BY <2>1, <2>2, CookieFacts
  <2>4. jar' # r
    BY <1>2, <1>3, <1>4, <2>1, <2>3 DEF JarMoves, FreshOK
  <2> QED
    BY <1>1, <2>3, <2>4 DEF Undelivered
<1>6. ASSUME NEW r \in Req, Undelivered(r), jar' # r PROVE Undelivered(r)'
  BY <1>1, <1>6 DEF Undelivered
<1>7. ASSUME NEW c \in Call, Http(c) # NoToken, Http(c)' = Http(c) PROVE jar' # Http(c)
  BY <1>2, <1>4, <1>7, NoCookieAssumption DEF JarMoves, FreshOK, Undelivered
<1>8. ASSUME NEW t \in Tab, tab[t].refresh # NoToken, tab'[t].refresh = tab[t].refresh
      PROVE  jar' # tab[t].refresh
  BY <1>3, <1>4, <1>8, NoCookieAssumption
  DEF JarMoves, FreshOK, Undelivered, Known, WInv, OwnRefresh
<1>9. \A c \in Call : Http(c)' # NoToken => Http(c)' = Http(c) \/ New(Http(c)')
  BY <1>4 DEF HttpMoves
<1>10. \A t \in Tab : tab'[t].refresh # NoToken =>
         tab'[t].refresh = tab[t].refresh \/ New(tab'[t].refresh)
  BY <1>4 DEF HttpMoves
<1>11. ASSUME NEW c \in Call, Http(c)' # NoToken
       PROVE  pc'[Http(c)'] # "idle" /\ Undelivered(Http(c))'
  <2>1. CASE Http(c)' = Http(c)
    <3>1. Undelivered(Http(c)) /\ pc[Http(c)] # "idle" /\ Http(c) \in Req
      BY <1>2, <1>11, <2>1 DEF FreshOK
    <3>2. jar' # Http(c)
      BY <1>7, <1>11, <2>1
    <3> DEFINE r == Http(c)
    <3>3. r \in Req /\ Undelivered(r) /\ jar' # r /\ pc'[r] # "idle"
      BY <1>1, <3>1, <3>2
    <3> QED
      BY <2>1, <3>3, <1>1 DEF Undelivered
  <2>2. CASE New(Http(c)')
    BY <1>5, <2>2 DEF New, Undelivered
  <2> QED
    BY <1>9, <1>11, <2>1, <2>2
<1>12. ASSUME NEW t \in Tab, tab'[t].refresh # NoToken
       PROVE  Undelivered(tab[t].refresh)'
  <2>1. CASE tab'[t].refresh = tab[t].refresh
    <3>1. Undelivered(tab[t].refresh) /\ tab[t].refresh \in Req /\ jar' # tab[t].refresh
      BY <1>3, <1>8, <1>12, <2>1 DEF FreshOK
    <3> QED
      BY <1>1, <2>1, <3>1 DEF Undelivered
  <2>2. CASE New(tab'[t].refresh)
    BY <1>5, <2>2 DEF Undelivered
  <2> QED
    BY <1>10, <1>12, <2>1, <2>2
<1>13. \A c, d \in Call : Http(c)' # NoToken /\ Http(c)' = Http(d)' => c = d
  BY <1>4 DEF HttpMoves, FreshOK, New
<1>14. \A c \in Call, t \in Tab : Http(c)' # NoToken => Http(c)' # tab'[t].refresh
  BY <1>3, <1>4 DEF HttpMoves, FreshOK, New
<1> QED
  BY <1>11, <1>12, <1>13, <1>14 DEF FreshOK

\* A step that does no more than that keeps the invariant.
LEMMA XFrame ==
  ASSUME Known, XInv, AuthMoves, Conduct
  PROVE  XInv'
<1>1. SharedOK /\ RevokerOK /\ SilentOK /\ FreshOK
  BY DEF XInv
<1>2. /\ CookieMoves /\ JarMoves /\ ShareMoves /\ RefreshMoves /\ OutcomeMoves
      /\ req' = req /\ now \in Nat /\ now' \in Nat /\ now <= now'
      /\ NoMishap' => NoMishap
      /\ \A r \in Req : RowEffect(r) /\ RequestEffect(r) /\ Turn(r)
  BY DEF Conduct, AuthMoves, NoMishap
<1>3. FreshOK'
  BY <1>1, FreshFrame
<1>4. SharedOK'
  BY <1>1, <1>2 DEF SharedOK, ShareMoves, Starts, New, RequestEffect
<1>5. RevokerOK'
  <2> SUFFICES ASSUME NEW k \in Req, token'[k] # NoToken, token'[k].revoked
               PROVE  \E s \in Req : cookie'[s] = k /\ pc'[s] \in {"issue", "done"}
    BY DEF RevokerOK
  <2>1. CASE token[k] # NoToken /\ token[k].revoked
    <3>1. PICK s \in Req : cookie[s] = k /\ pc[s] \in {"issue", "done"}
      BY <1>1, <2>1 DEF RevokerOK
    <3> QED
      BY <1>2, <3>1 DEF Turn, RequestEffect
  <2> QED
    BY <1>2, <2>1 DEF Turn
<1>6. SilentOK'
  BY <1>1, <1>2 DEF SilentOK, Turn, AuthMoves
<1>7. ASSUME NEW t \in Tab, NEW r \in Req, SharedRefresh(t, r), Excused(t, cookie[r])
      PROVE  Excused(t, cookie[r])'
  <2>1. pc[r] # "idle"
    BY <1>1, <1>7 DEF SharedOK
  <2>2. cookie'[r] = cookie[r]
    BY <1>2, <2>1 DEF RequestEffect
  <2> DEFINE k == cookie[r]
  <2>3. k \in Req \cup {NoCookie} /\ (k # NoCookie => token[k] \in Token)
    BY CookieFacts
  <2>4. Excused(t, k)
    BY <1>7
  <2>5. k = NoCookie \/ token'[k].expires <= now'
        \/ \E s \in Req : cookie'[s] = k /\ ~SharedRefresh(t, s)'
    <3> HIDE DEF k
    <3> QED
      BY <1>1, <1>2, <2>3, <2>4, ExcuseStays DEF Excused
  <2> QED
    BY <2>2, <2>5 DEF Excused
\* A refresh that the tab starts carries what is in the jar.
<1>8. ASSUME NoMishap', NEW t \in Tab, NEW r \in Req, Excused(t, jar), cookie'[r] = jar
      PROVE  Excused(t, cookie[r])'
  <2>1. jar \in Req \cup {NoCookie} /\ (jar # NoCookie => token[jar] \in Token)
    BY CookieFacts
  <2>2. jar = NoCookie \/ token'[jar].expires <= now'
        \/ \E s \in Req : cookie'[s] = jar /\ ~SharedRefresh(t, s)'
    BY <1>1, <1>2, <1>8, <2>1, ExcuseStays DEF Excused
  <2> QED
    BY <1>8, <2>2 DEF Excused
<1>9. ASSUME NoMishap' PROVE PastOK'
  <2> SUFFICES ASSUME NEW t \in Tab, NEW r \in Req, SharedRefresh(t, r)',
                      cookie'[r] = jar', r # tab'[t].refresh
               PROVE  Excused(t, cookie[r])'
    BY DEF PastOK, Excused
  <2>1. SharedRefresh(t, r) /\ cookie'[r] = cookie[r]
    BY <1>1, <1>2 DEF ShareMoves, Starts, SharedOK, RequestEffect
  <2>2. CASE r = tab[t].refresh
    BY <1>2, <1>9, <2>2 DEF RefreshMoves, Excused
  <2>3. CASE r # tab[t].refresh /\ jar' = jar
    <3>1. PastOK
      BY <1>2, <1>9 DEF XInv
    <3>2. Excused(t, jar)
      BY <2>1, <2>3, <3>1 DEF PastOK
    <3> QED
      BY <1>7, <2>1, <2>3, <3>2
  <2>4. CASE jar' = NoCookie
    BY <2>4 DEF Excused
  <2>5. CASE jar' # NoCookie /\ jar' # jar
    <3>1. Undelivered(jar')
      BY <1>1, <1>2, <2>5 DEF JarMoves, FreshOK
    <3> QED
      BY <2>1, <3>1 DEF Undelivered
  <2> QED
    BY <2>2, <2>3, <2>4, <2>5
<1>10. ASSUME NoMishap' PROVE AloneOK'
  <2> SUFFICES ASSUME NEW t \in Tab, NEW r \in Req, NEW s \in Req, r # s,
                      SharedRefresh(t, r)', SharedRefresh(t, s)', cookie'[r] = cookie'[s]
               PROVE  Excused(t, cookie[r])'
    BY DEF AloneOK
  <2>1. PastOK /\ AloneOK
    BY <1>2, <1>10 DEF XInv
  <2>2. \A q \in Req : SharedRefresh(t, q) => cookie'[q] = cookie[q]
    BY <1>1, <1>2 DEF SharedOK, RequestEffect
  <2>3. CASE SharedRefresh(t, r) /\ SharedRefresh(t, s)
    <3>1. Excused(t, cookie[r])
      BY <2>1, <2>2, <2>3 DEF AloneOK
    <3> QED
      BY <1>7, <2>3, <3>1
  <2>4. ASSUME NEW q \in {r, s}, NEW p \in {r, s}, p # q, Starts(t, p), SharedRefresh(t, q)
        PROVE  Excused(t, jar) /\ cookie'[r] = jar
    <3>1. /\ tab[t].refresh = NoToken /\ cookie'[p] = jar
          /\ cookie[q] = cookie'[q] /\ cookie'[q] = cookie'[p] /\ q # NoToken
      BY <2>2, <2>4, NoTokenIsNoRequest DEF Starts
    <3> QED
      BY <2>1, <2>4, <3>1 DEF PastOK
  <2>5. CASE Starts(t, r) /\ Starts(t, s)
    BY <2>5 DEF Starts
  <2> QED
    BY <1>2, <1>8, <1>10, <2>3, <2>4, <2>5 DEF ShareMoves
<1>11. ASSUME NoMishap' PROVE FateOK'
  <2> SUFFICES ASSUME NEW t \in Tab, NEW r \in Req, SharedRefresh(t, r)',
                      pc'[r] = "done", answer'[r] # "ok"
               PROVE  Excused(t, cookie[r])'
    BY DEF FateOK
  <2>1. FateOK /\ AloneOK /\ faults' = 0
    BY <1>2, <1>11 DEF XInv, NoMishap
  <2>2. CASE Starts(t, r)
    BY <2>2 DEF Starts, Excused
  <2>3. CASE SharedRefresh(t, r) /\ pc[r] = "done"
    <3>1. Excused(t, cookie[r])
      BY <1>2, <2>1, <2>3 DEF FateOK, Turn
    <3> QED
      BY <1>7, <2>3, <3>1
  <2>4. CASE SharedRefresh(t, r) /\ pc[r] # "done"
    <3> DEFINE k == cookie[r]
    <3>1. pc[r] = "findToken" /\ ~Usable(k)
      BY <1>1, <1>2, <2>1, <2>4 DEF SharedOK, Turn
    <3>2. k \in Req /\ token[k] \in Token /\ token[k] # NoToken
      <4>1. Kept(r) /\ k \in Req \cup {NoCookie} /\ (k # NoCookie => token[k] \in Token)
        BY CookieFacts DEF Known, IInv
      <4>2. k # NoCookie
        BY <3>1, <4>1 DEF Kept, Carries
      <4> QED
        BY <4>1, <4>2, NoTokenAssumption
    <3>3. CASE token[k].expires < now
      <4>1. token[k].expires \in Nat
        BY <3>2 DEF Token
      <4>2. Excused(t, k)
        BY <1>2, <3>3, <4>1 DEF Excused
      <4> QED
        BY <1>7, <2>4, <4>2
    <3>4. CASE token[k].revoked
      <4>1. PICK s \in Req : cookie[s] = k /\ pc[s] \in {"issue", "done"}
        BY <1>1, <3>2, <3>4 DEF RevokerOK
      <4>2. s # r
        BY <3>1, <4>1
      <4>3. CASE SharedRefresh(t, s)
        BY <1>7, <2>1, <2>4, <4>1, <4>2, <4>3 DEF AloneOK
      <4>4. CASE ~SharedRefresh(t, s)
        BY <1>7, <2>4, <4>1, <4>4 DEF Excused
      <4> QED
        BY <4>3, <4>4
    <3> QED
      BY <3>1, <3>2, <3>3, <3>4 DEF Usable
  <2> QED
    BY <1>2, <2>2, <2>3, <2>4 DEF ShareMoves
<1>12. ASSUME NoMishap' PROVE ToldOK'
  <2> SUFFICES ASSUME NEW c \in Call, call'[c].outcome = "expired"
               PROVE  /\ call'[c].refresh # NoToken
                      /\ Excused(TabOf[c], cookie[call[c].refresh])'
    BY DEF ToldOK
  <2> DEFINE t == TabOf[c]
             r == call[c].refresh
  <2>1. ToldOK /\ call'[c].refresh = r
    BY <1>2, <1>12 DEF XInv, OutcomeMoves
  <2>2. r # NoToken /\ Excused(t, cookie[r])
    BY <1>2, <1>12, <2>1 DEF OutcomeMoves, ToldOK
  <2>3. t \in Tab /\ r \in Req /\ SharedRefresh(t, r)
    <3>1. call[c] \in WebCalls
      BY DEF Known, WInv, WebTypeOK
    <3> QED
      BY <2>2, <3>1, CallAssumption DEF WebCalls, SharedRefresh, In
  <2>4. \/ cookie'[r] = NoCookie
        \/ token'[cookie'[r]].expires <= now'
        \/ \E s \in Req : cookie'[s] = cookie'[r] /\ ~SharedRefresh(t, s)'
    <3> HIDE DEF r, t
    <3> QED
      BY <1>7, <2>2, <2>3 DEF Excused
  <2> QED
    BY <2>1, <2>2, <2>4 DEF Excused
<1> QED
  BY <1>2, <1>3, <1>4, <1>5, <1>6, <1>9, <1>10, <1>11, <1>12 DEF XInv

-----------------------------------------------------------------------------
(* Every step stays within it *)

\* What becomes of the outcome of a call, and of the answer it awaits.
LEMMA OutcomeShape ==
  ASSUME NEW old \in WebCalls, NEW at, NEW a, NEW op, NEW o, NEW r
  PROVE  /\ Sent(old, at, a).outcome = old.outcome
         /\ Posted(old, at, op).outcome = old.outcome
         /\ Settled(old, o).outcome = o
         /\ Awaiting(old, r).outcome = old.outcome
         /\ \A v : [old EXCEPT !.verdict = v].outcome = old.outcome
BY DEF WebCalls, Sent, Posted, Settled, Awaiting

\* Calls get a refresh only from Refused, and are told that the session is over
\* only by RefreshFails.
LEMMA QuietConduct ==
  ASSUME lost' = 0 => lost = 0, CookieMoves, JarMoves, HttpMoves, RefreshMoves,
         \A c \in Call :
           /\ call'[c].refresh = call[c].refresh
           /\ call'[c].outcome = "expired" /\ NoMishap' => call[c].outcome = "expired"
  PROVE  Conduct
<1>1. ShareMoves
  BY DEF ShareMoves, SharedRefresh, In
<1> QED
  BY <1>1 DEF Conduct, OutcomeMoves

\* A request is sent with the cookie that is in the jar.
LEMMA PostMoves ==
  ASSUME Known, NEW op, Post(op)
  PROVE  LET r == NextHttp(op) IN
           /\ New(r) /\ CookieMoves /\ req[r].op = op
           /\ op \in {"refresh", "logout"} => cookie'[r] = jar
           /\ op = "refresh" /\ pc'[r] = "done" => jar = NoCookie \/ token'[jar].expires <= now'
<1> DEFINE r == NextHttp(op)
<1>1. New(r)
  BY PostIsNext DEF New
<1>2. req[r].op = op
  BY DEF Post, NextHttp, Unused
<1>3. IInv /\ cookie \in [Req -> Req \cup {NoCookie}] /\ r \in Req /\ pc[r] = "idle"
  BY <1>1 DEF Known, IInv, TypeOK, New
<1>4. CASE op \in {"register", "login"}
  <2>1. cookie' = cookie
    BY <1>4 DEF Post, ArriveWithPassword
  <2> QED
    BY <1>1, <1>2, <1>4, <2>1 DEF CookieMoves
<1>5. CASE op \notin {"register", "login"}
  <2>1. ArriveWithCookie(r, jar)
    BY <1>5 DEF Post
  <2>2. cookie' = [cookie EXCEPT ![r] = jar] /\ token' = token /\ now' = now
    BY <2>1 DEF ArriveWithCookie
  <2>3. CookieMoves /\ cookie'[r] = jar
    BY <1>3, <2>2 DEF CookieMoves
  <2>4. ASSUME pc'[r] = "done" PROVE jar = NoCookie \/ token[jar].expires <= now
    <3>1. ~(jar # NoCookie /\ now < token[jar].expires)
      BY <1>3, <2>1, <2>4, GotoShape DEF ArriveWithCookie
    <3>2. jar # NoCookie => token[jar].expires \in Nat /\ now \in Nat
      BY <1>3, CookieFacts DEF Token, IInv, TypeOK
    <3> QED
      BY <3>1, <3>2
  <2> QED
    BY <1>1, <1>2, <2>2, <2>3, <2>4
<1> QED
  BY <1>4, <1>5

\* The page load abandons the refresh of its tab, but sends the same cookie.
LEMMA LoadConduct == ASSUME Known, XInv, NEW c \in Call, Load(c) PROVE Conduct
<1> DEFINE t == TabOf[c]
<1>1. t \in Tab /\ Post("refresh") /\ Path(c) = "refresh" /\ Asks[c] = "load"
  BY CallAssumption DEF Load, Path
<1>2. /\ jar' = jar /\ lost' = lost
      /\ tab' = [tab EXCEPT ![t] = NewTab]
      /\ call' = [d \in Call |->
           IF d = c THEN Posted(call[d], "first", "refresh")
           ELSE IF d \in In(t) /\ call[d].at \in {"first", "refresh", "resend", "again"}
                THEN [call[d] EXCEPT !.at = "gone"] ELSE call[d]]
  BY <1>1 DEF Load
<1>3. PICK n \in Req : /\ n = NextHttp("refresh") /\ New(n) /\ CookieMoves
                      /\ cookie'[n] = jar
  BY <1>1, PostMoves DEF New
<1>4. /\ \A d \in Call : call[d] \in WebCalls
      /\ tab \in [Tab -> Tabs]
  BY DEF Known, WInv, WebTypeOK
<1>5. ASSUME NEW d \in Call
      PROVE  call'[d].refresh = call[d].refresh /\ call'[d].outcome = call[d].outcome
  <2>1. \/ call'[d] = Posted(call[d], "first", "refresh")
        \/ call'[d] = [call[d] EXCEPT !.at = "gone"]
        \/ call'[d] = call[d]
    BY <1>2
  <2>2. CASE call'[d] = Posted(call[d], "first", "refresh")
    <3>1. call'[d].refresh = call[d].refresh
      BY <1>3, <1>4, <2>2, PostedShape
    <3> QED
      BY <1>4, <2>2, <3>1, OutcomeShape
  <2>3. CASE call'[d] = [call[d] EXCEPT !.at = "gone"]
    BY <1>4, <2>3 DEF WebCalls
  <2> QED
    BY <2>1, <2>2, <2>3
<1>6. \A u \in Tab : tab'[u].refresh \in {NoToken, tab[u].refresh}
                     /\ (u # t => tab'[u] = tab[u])
  BY <1>1, <1>2, <1>4 DEF NewTab
<1>7. /\ Http(c)' = n
      /\ \A d \in Call \ {c} : Http(d)' \in {NoToken, Http(d)}
  <2>1. call'[c].at = "first" /\ call'[c].http = n
    BY <1>2, <1>3, <1>4, PostedShape
  <2>2. \A d \in Call \ {c} : call'[d] = call[d] \/ call'[d].at = "gone"
    BY <1>2, <1>4, MovedShape
  <2> QED
    BY <1>1, <2>1, <2>2 DEF Http
<1>8. HttpMoves
  BY <1>3, <1>6, <1>7 DEF HttpMoves
<1>9. RefreshMoves
  <2> SUFFICES ASSUME NEW u \in Tab, tab'[u].refresh # tab[u].refresh
               PROVE  Excused(u, jar)'
    BY DEF RefreshMoves
  <2>1. u = t
    BY <1>6
  <2>2. ~SharedRefresh(t, n)
    BY <1>1, <1>3 DEF XInv, SharedOK, New
  <2>3. ~SharedRefresh(t, n)'
    BY <1>5, <2>2 DEF SharedRefresh, In
  <2> QED
    BY <1>2, <1>3, <1>4, <2>1, <2>3 DEF Excused
<1>10. JarMoves
  BY <1>2 DEF JarMoves
<1> QED
  BY <1>2, <1>3, <1>5, <1>8, <1>9, <1>10, QuietConduct

LEMMA SubmitConduct ==
  ASSUME Known, NEW c \in Call, SubmitPassword(c) \/ ClickLogout(c) \/ Repeat(c)
  PROVE  Conduct
<1>1. /\ Post(Path(c)) /\ Asks[c] # "data"
      /\ UNCHANGED <<jar, tab, lost>>
      /\ \E at \in {"first", "again"} :
           call' = [call EXCEPT ![c] = Posted(@, at, Path(c))]
  BY Submission
<1>2. PICK n \in Req : n = NextHttp(Path(c)) /\ New(n) /\ CookieMoves
  BY <1>1, PostMoves DEF New
<1>3. PICK at \in {"first", "again"} :
        /\ call'[c] = Posted(call[c], at, Path(c))
        /\ \A d \in Call \ {c} : call'[d] = call[d]
        /\ call[c] \in WebCalls
  BY <1>1 DEF Known, WInv, WebTypeOK
<1>4. /\ call'[c].refresh = call[c].refresh /\ call'[c].at = at
      /\ call'[c].http = n /\ call'[c].outcome = call[c].outcome
  <2>1. call'[c].outcome = call[c].outcome
    BY <1>3, OutcomeShape
  <2> QED
    BY <1>2, <1>3, <2>1, PostedShape
<1>5. HttpMoves
  BY <1>1, <1>2, <1>3, <1>4 DEF HttpMoves, Http
<1>6. RefreshMoves /\ JarMoves
  BY <1>1 DEF RefreshMoves, JarMoves
<1> QED
  BY <1>1, <1>2, <1>3, <1>4, <1>5, <1>6, QuietConduct

\* One call moves on, without a request.
LEMMA OneConduct ==
  ASSUME Known, NEW c \in Call, NEW new \in WebCalls, cookie' = cookie,
         lost' = 0 => lost = 0,
         call' = [call EXCEPT ![c] = new], new.refresh = call[c].refresh,
         new.outcome = "expired" => ~NoMishap',
         \/ Asks[c] = "data" \/ new.at = "settled",
         jar' \in {jar, NoCookie} \/ (jar' = Http(c) /\ jar' \in Req /\ new.at = "settled"),
         \A t \in Tab : tab'[t].refresh = tab[t].refresh
  PROVE  Conduct
<1>1. call'[c] = new /\ \A d \in Call \ {c} : call'[d] = call[d]
  BY DEF Known, WInv, WebTypeOK
<1>2. Http(c)' = NoToken /\ \A d \in Call \ {c} : Http(d)' = Http(d)
  BY <1>1 DEF Http
<1>3. HttpMoves
  BY <1>2 DEF HttpMoves
<1>4. JarMoves
  BY <1>2, NoTokenIsNoRequest DEF JarMoves
<1>5. RefreshMoves /\ CookieMoves
  BY DEF RefreshMoves, CookieMoves
<1> QED
  BY <1>1, <1>3, <1>4, <1>5, QuietConduct

LEMMA DataConduct ==
  ASSUME Known, NEW c \in Call, SendData(c) \/ Authenticate(c) PROVE Conduct
<1>1. /\ call[c] \in WebCalls /\ TabOf[c] \in Tab /\ tab[TabOf[c]] \in Tabs
  BY CallAssumption DEF Known, WInv, WebTypeOK
<1>2. /\ cookie' = cookie /\ tab' = tab /\ jar' = jar /\ lost' = lost /\ Asks[c] = "data"
  BY DEF SendData, Authenticate, vars
<1>3. CASE SendData(c)
  <2>1. PICK a \in Req \cup {NoToken} : call' = [call EXCEPT ![c] = Sent(@, "first", a)]
    BY <1>1, <1>3 DEF SendData, Tabs
  <2>2. CallOK(c) /\ call[c].at = "idle" /\ call \in [Call -> WebCalls]
    BY <1>3 DEF SendData, Known, WInv, WebTypeOK
  <2> DEFINE new == Sent(call[c], "first", a)
  <2>3. new \in WebCalls /\ new.refresh = call[c].refresh
    BY <1>1, SentShape
  <2>4. \A d \in Call : call'[d].outcome = call[d].outcome
                        /\ call'[d].refresh = call[d].refresh
    BY <1>1, <2>1, <2>2, <2>3, OutcomeShape
  <2>5. CookieMoves /\ JarMoves /\ RefreshMoves
    BY <1>2 DEF CookieMoves, JarMoves, RefreshMoves
  <2>6. HttpMoves
    BY <1>2, <2>1, <2>2 DEF HttpMoves, Http
  <2> QED
    BY <1>2, <2>4, <2>5, <2>6, QuietConduct
<1>4. CASE Authenticate(c)
  <2>1. PICK v \in {"ok", "unauthorized"} : call' = [call EXCEPT ![c].verdict = v]
    BY <1>4 DEF Authenticate
  <2>2. call \in [Call -> WebCalls]
    BY DEF Known, WInv, WebTypeOK
  <2>3. \A d \in Call : /\ call'[d].outcome = call[d].outcome
                        /\ call'[d].refresh = call[d].refresh
    BY <1>1, <2>1, <2>2 DEF WebCalls
  <2>4. CookieMoves /\ JarMoves /\ RefreshMoves
    BY <1>2 DEF CookieMoves, JarMoves, RefreshMoves
  <2>5. HttpMoves
    BY <1>2, <2>1, <2>2 DEF HttpMoves, Http
  <2> QED
    BY <1>2, <2>3, <2>4, <2>5, QuietConduct
<1> QED
  BY <1>3, <1>4

\* Answers are lost for good.
LEMMA LostGrows ==
  ASSUME Known, NEW ready, NEW a, Delivered(ready, a)
  PROVE  lost' = 0 => lost = 0 /\ a = ready
BY DEF Delivered, Known, WInv, WebTypeOK

LEMMA SettleConduct ==
  ASSUME Known, NEW c \in Call, NEW o \in Answers \cup {"expired", "network"},
         Settle(c, o), UNCHANGED vars, lost' = 0 => lost = 0,
         o = "expired" => ~NoMishap',
         jar' \in {jar, NoCookie} \/ (jar' = Http(c) /\ jar' \in Req),
         \A t \in Tab : tab'[t].refresh = tab[t].refresh
  PROVE  Conduct
<1> DEFINE new == Settled(call[c], o)
<1>1. call[c] \in WebCalls
  BY DEF Known, WInv, WebTypeOK
<1>2. new \in WebCalls /\ new.at = "settled" /\ new.refresh = call[c].refresh
  BY <1>1, SettledShape
<1>3. new.outcome = o
  BY <1>1, OutcomeShape
<1>4. call' = [call EXCEPT ![c] = new] /\ cookie' = cookie
  BY DEF Settle, vars
<1> HIDE DEF new
<1> QED
  BY <1>2, <1>3, <1>4, OneConduct

LEMMA AnswerConduct ==
  ASSUME Known, XInv, NEW c \in Call,
         \/ SessionStarts(c) \/ LoadFindsNoSession(c) \/ LogoutEnds(c)
         \/ Answered(c) \/ Unreachable(c) \/ RetryUnreachable(c)
  PROVE  Conduct
<1>1. /\ TabOf[c] \in Tab /\ CallOK(c) /\ tab \in [Tab -> Tabs]
      /\ call[c] \in WebCalls
  BY CallAssumption DEF Known, WInv, WebTypeOK
<1>2. \A r \in Req : Delivered(HttpAnswer(r), "ok") => r \in Held
  BY OkIsHeld
<1>3. CASE SessionStarts(c)
  <2>1. /\ UNCHANGED vars /\ Settle(c, "ok") /\ Receives(c, "ok")
        /\ jar' = call[c].http /\ Asks[c] # "data"
        /\ tab' = [tab EXCEPT ![TabOf[c]] = SignedIn(TabOf[c], call[c].http)]
    BY <1>3 DEF SessionStarts
  <2>2. jar' = Http(c) /\ jar' \in Req
    BY <1>1, <2>1 DEF Receives, Http, CallOK
  <2>3. lost' = 0 => lost = 0
    BY <2>1, LostGrows DEF Receives
  <2>4. jar' \in Held
    BY <1>2, <2>1, <2>2 DEF Receives
  <2>5. SignedIn(TabOf[c], call[c].http).refresh = tab[TabOf[c]].refresh
    BY <1>1, <2>1, <2>4, TabShapes
  <2>6. \A t \in Tab : tab'[t].refresh = tab[t].refresh
    BY <1>1, <2>1, <2>5
  <2> QED
    BY <2>1, <2>2, <2>3, <2>6, SettleConduct DEF Answers
<1>4. SignedOut(TabOf[c]).refresh = tab[TabOf[c]].refresh
  BY <1>1, TabShapes
<1>5. CASE LoadFindsNoSession(c)
  <2>1. PICK a \in Answers : Receives(c, a) /\ Settle(c, a)
    BY <1>5 DEF LoadFindsNoSession
  <2>2. lost' = 0 => lost = 0
    BY <2>1, LostGrows DEF Receives
  <2>3. UNCHANGED <<vars, jar>> /\ tab' = [tab EXCEPT ![TabOf[c]] = SignedOut(TabOf[c])]
    BY <1>5 DEF LoadFindsNoSession
  <2>4. \A t \in Tab : tab'[t].refresh = tab[t].refresh
    BY <1>1, <1>4, <2>3
  <2> QED
    BY <2>1, <2>2, <2>3, <2>4, SettleConduct DEF Answers
<1>6. CASE LogoutEnds(c)
  <2>1. PICK a \in Answers : /\ Receives(c, a) /\ Settle(c, a)
                             /\ jar' = IF a = "noContent" THEN NoCookie ELSE jar
    BY <1>6 DEF LogoutEnds
  <2>2. lost' = 0 => lost = 0
    BY <2>1, LostGrows DEF Receives
  <2>3. UNCHANGED vars /\ tab' = [tab EXCEPT ![TabOf[c]] = SignedOut(TabOf[c])]
    BY <1>6 DEF LogoutEnds
  <2>4. \A t \in Tab : tab'[t].refresh = tab[t].refresh
    BY <1>1, <1>4, <2>3
  <2> QED
    BY <2>1, <2>2, <2>3, <2>4, SettleConduct DEF Answers
<1>7. CASE Answered(c)
  <2>1. PICK a \in {"ok", "unauthorized", "emailTaken", "internal"} :
               Receives(c, a) /\ Settle(c, a)
    BY <1>7 DEF Answered
  <2>2. lost' = 0 => lost = 0
    BY <2>1, LostGrows DEF Receives
  <2>3. UNCHANGED <<vars, jar, tab>> /\ a \in Answers /\ a # "expired"
    BY <1>7, <2>1 DEF Answered, Answers
  <2> QED
    BY <2>1, <2>2, <2>3, SettleConduct
<1>8. CASE Unreachable(c)
  <2>1. Receives(c, "none") /\ Settle(c, "network") /\ UNCHANGED <<vars, jar, tab>>
    BY <1>8 DEF Unreachable
  <2>2. lost' = 0 => lost = 0
    BY <2>1, LostGrows DEF Receives
  <2> QED
    BY <2>1, <2>2, SettleConduct
<1>9. CASE RetryUnreachable(c)
  <2>1. /\ Receives(c, "none") /\ Settle(c, "expired") /\ UNCHANGED <<vars, jar>>
        /\ tab' = [tab EXCEPT ![TabOf[c]] = SignedOut(TabOf[c])]
    BY <1>9 DEF RetryUnreachable
  <2> DEFINE ready == IF Asks[c] = "data" THEN call[c].verdict ELSE HttpAnswer(call[c].http)
  <2>2. lost' = 0 => lost = 0 /\ "none" = ready
    BY <2>1, LostGrows DEF Receives
  <2>3. \A t \in Tab : tab'[t].refresh = tab[t].refresh
    BY <1>1, <1>4, <2>1
  <2>4. ready = "none" => faults # 0
    <3>1. call[c].verdict # "none"
      BY <1>1 DEF WebCalls
    <3>2. Asks[c] # "data" => call[c].http \in Req
      BY <1>1, <2>1 DEF Receives, CallOK
    <3> QED
      BY <3>1, <3>2 DEF HttpAnswer, XInv, SilentOK
  <2>5. ~NoMishap'
    <3> HIDE DEF ready
    <3> QED
      BY <2>1, <2>2, <2>4 DEF NoMishap, vars
  <2> QED
    BY <2>1, <2>2, <2>3, <2>5, SettleConduct
<1> QED
  BY <1>3, <1>5, <1>6, <1>7, <1>8, <1>9

LEMMA RefusedConduct == ASSUME Known, XInv, NEW c \in Call, Refused(c) PROVE Conduct
<1> DEFINE t == TabOf[c]
<1>1. /\ t \in Tab /\ call[c].at = "first" /\ jar' = jar
      /\ Receives(c, "unauthorized")
  BY CallAssumption DEF Refused
<1>2. /\ \A d \in Call : call[d] \in WebCalls
      /\ CallOK(c) /\ TabOK(t) /\ call[c].refresh = NoToken
      /\ call \in [Call -> WebCalls] /\ tab \in [Tab -> Tabs] /\ tab[t] \in Tabs
  BY <1>1 DEF Known, WInv, WebTypeOK, CallOK
<1>3. lost' = 0 => lost = 0
  BY <1>1, LostGrows DEF Receives
<1>4. JarMoves
  BY <1>1 DEF JarMoves
<1>5. ASSUME NEW r \in Req, call' = [call EXCEPT ![c] = Awaiting(@, r)],
             CookieMoves, \A u \in Tab \ {t} : tab'[u] = tab[u],
             tab'[t].refresh = r,
             (tab[t].refresh = r /\ SharedRefresh(t, r)) \/ Starts(t, r)
      PROVE  Conduct
  <2>1. /\ call'[c].at = "refresh" /\ call'[c].refresh = r
        /\ \A d \in Call \ {c} : call'[d] = call[d]
    BY <1>2, <1>5, AwaitingShape
  <2>2. call'[c].outcome = call[c].outcome
    BY <1>2, <1>5, OutcomeShape
  <2>3. HttpMoves
    <3>1. Http(c)' = NoToken /\ \A d \in Call \ {c} : Http(d)' = Http(d)
      BY <2>1 DEF Http
    <3> QED
      BY <1>1, <1>5, <3>1 DEF HttpMoves, Starts
  <2>4. ShareMoves
    <3> SUFFICES ASSUME NEW u \in Tab, NEW s \in Req
                 PROVE  /\ SharedRefresh(u, s) => SharedRefresh(u, s)'
                        /\ SharedRefresh(u, s)' => SharedRefresh(u, s) \/ Starts(u, s)
      BY DEF ShareMoves
    <3>1. SharedRefresh(u, s) => SharedRefresh(u, s)'
      BY <1>2, <2>1, NoTokenIsNoRequest DEF SharedRefresh, In
    <3>2. SharedRefresh(u, s)' => SharedRefresh(u, s) \/ (u = t /\ s = r)
      BY <2>1 DEF SharedRefresh, In
    <3> QED
      BY <1>5, <3>1, <3>2
  <2>5. RefreshMoves
    BY <1>5, NoTokenIsNoRequest DEF RefreshMoves, Starts
  <2>6. OutcomeMoves
    <3> SUFFICES ASSUME NEW d \in Call, call'[d].outcome = "expired", NoMishap'
                 PROVE  call'[d].refresh = call[d].refresh /\ call[d].outcome = "expired"
      BY DEF OutcomeMoves
    <3>1. AuthMoves
      BY RefusedStep, AuthMovesStep DEF Known
    <3>2. ToldOK
      BY <1>3, <3>1 DEF XInv, NoMishap, AuthMoves
    <3>3. call[d].outcome = "expired"
      BY <2>1, <2>2
    <3>4. d # c
      BY <1>2, <3>2, <3>3 DEF ToldOK
    <3> QED
      BY <2>1, <3>3, <3>4
  <2> QED
    BY <1>3, <1>4, <1>5, <2>3, <2>4, <2>5, <2>6 DEF Conduct
<1>6. CASE tab[t].refresh # NoToken /\ UNCHANGED <<vars, tab>>
           /\ call' = [call EXCEPT ![c] = Awaiting(@, tab[t].refresh)]
  <2>1. PICK r \in Req : r = tab[t].refresh
    BY <1>2, <1>6 DEF Tabs
  <2>2. CookieMoves
    BY <1>6 DEF CookieMoves, vars
  <2>3. SharedRefresh(t, r)
    BY <1>2, <1>6, <2>1 DEF TabOK
  <2> QED
    BY <1>5, <1>6, <2>1, <2>2, <2>3
<1>7. CASE /\ tab[t].refresh = NoToken /\ Post("refresh")
           /\ tab' = [tab EXCEPT ![t].refresh = NextHttp("refresh")]
           /\ call' = [call EXCEPT ![c] = Awaiting(@, NextHttp("refresh"))]
  <2>1. PICK r \in Req :
          /\ r = NextHttp("refresh") /\ New(r) /\ CookieMoves /\ req[r].op = "refresh"
          /\ cookie'[r] = jar
          /\ pc'[r] = "done" => jar = NoCookie \/ token'[jar].expires <= now'
    BY <1>7, PostMoves DEF New
  <2>2. /\ tab'[t].refresh = r /\ \A u \in Tab \ {t} : tab'[u] = tab[u]
    BY <1>1, <1>2, <1>7, <2>1 DEF Tabs
  <2>3. Starts(t, r)
    BY <1>1, <1>7, <2>1, <2>2 DEF Starts
  <2> QED
    BY <1>5, <1>7, <2>1, <2>2, <2>3
<1> QED
  BY <1>6, <1>7 DEF Refused

LEMMA RefreshSucceedsConduct ==
  ASSUME Known, XInv, NEW t \in Tab, RefreshSucceeds(t) PROVE Conduct
<1>1. PICK r : r = tab[t].refresh
  OBVIOUS
<1> DEFINE W == Waiters(r)
<1>2. /\ r # NoToken /\ Delivered(HttpAnswer(r), "ok") /\ jar' = r /\ UNCHANGED vars
      /\ tab' = [tab EXCEPT ![t].access = r, ![t].refresh = NoToken]
      /\ call' = [c \in Call |->
           IF c \notin W THEN call[c]
           ELSE IF Asks[c] = "data" THEN Sent(call[c], "again", r)
           ELSE [call[c] EXCEPT !.at = "resend"]]
  BY <1>1 DEF RefreshSucceeds
<1>3. tab[t] \in Tabs /\ tab \in [Tab -> Tabs] /\ \A c \in Call : call[c] \in WebCalls
  BY DEF Known, WInv, WebTypeOK
<1>4. r \in Req
  BY <1>1, <1>2, <1>3 DEF Tabs
<1>5. lost' = 0 => lost = 0
  BY <1>2, LostGrows
<1>6. /\ \A u \in Tab \ {t} : tab'[u] = tab[u]
      /\ tab'[t].refresh = NoToken
  BY <1>2, <1>3 DEF Tabs
<1>7. CookieMoves
  BY <1>2 DEF CookieMoves, vars
<1>8. ASSUME NEW c \in Call
      PROVE  /\ call'[c].refresh = call[c].refresh /\ call'[c].outcome = call[c].outcome
             /\ Http(c)' \in {NoToken, Http(c)}
  <2>1. CASE c \notin W
    BY <1>2, <2>1 DEF Http
  <2>2. CASE c \in W /\ Asks[c] = "data"
    <3>1. call'[c] = Sent(call[c], "again", r)
      BY <1>2, <2>2
    <3>2. call'[c].refresh = call[c].refresh
      BY <1>3, <1>4, <3>1, SentShape
    <3> QED
      BY <1>3, <2>2, <3>1, <3>2, OutcomeShape DEF Http
  <2>3. CASE c \in W /\ Asks[c] # "data"
    BY <1>2, <1>3, <2>3, MovedShape DEF Http
  <2> QED
    BY <2>1, <2>2, <2>3
<1>9. HttpMoves
  BY <1>6, <1>8 DEF HttpMoves
<1>10. JarMoves
  BY <1>1, <1>2, <1>6 DEF JarMoves
\* Nobody has sent the cookie yet that the answer brings.
<1>11. RefreshMoves
  <2>1. \A s \in Req : cookie[s] # r /\ jar # r
    BY <1>1, <1>2 DEF XInv, FreshOK, Undelivered
  <2>2. \A s \in Req : cookie'[s] # r
    BY <1>7, <2>1 DEF CookieMoves
  <2> QED
    BY <1>2, <2>2 DEF RefreshMoves
<1> QED
  BY <1>5, <1>7, <1>8, <1>9, <1>10, <1>11, QuietConduct

LEMMA RefreshFailsConduct ==
  ASSUME Known, XInv, NEW t \in Tab, RefreshFails(t) PROVE Conduct
<1>1. PICK r : r = tab[t].refresh
  OBVIOUS
<1>2. /\ r # NoToken
      /\ tab' = [tab EXCEPT ![t] = [SignedOut(t) EXCEPT !.refresh = NoToken]]
      /\ call' = [c \in Call |-> IF c \in Waiters(r) THEN Settled(call[c], "expired")
                                                   ELSE call[c]]
      /\ UNCHANGED <<vars, jar>>
  BY <1>1 DEF RefreshFails
<1>3. PICK a \in Answers \ {"ok"} : Delivered(HttpAnswer(r), a)
  BY <1>1 DEF RefreshFails
<1>4. /\ tab[t] \in Tabs /\ tab \in [Tab -> Tabs] /\ TabOK(t)
      /\ \A c \in Call : call[c] \in WebCalls
  BY DEF Known, WInv, WebTypeOK
<1>5. r \in Req /\ SharedRefresh(t, r)
  BY <1>1, <1>2, <1>4 DEF Tabs, TabOK
<1>6. lost' = 0 => lost = 0 /\ a = HttpAnswer(r)
  BY <1>3, LostGrows
<1>7. HttpAnswer(r) # "pending"
  BY <1>3 DEF Delivered
\* The refresh was refused: there is an excuse.
<1>8. NoMishap' => Excused(t, cookie[r])
  <2> SUFFICES ASSUME NoMishap' PROVE Excused(t, cookie[r])
    OBVIOUS
  <2>1. NoMishap /\ a = HttpAnswer(r)
    BY <1>2, <1>6 DEF NoMishap, vars
  <2>2. pc[r] = "done" /\ answer[r] # "ok"
    BY <1>3, <1>7, <2>1 DEF HttpAnswer
  <2> QED
    BY <1>5, <2>1, <2>2 DEF XInv, FateOK
<1>9. /\ \A u \in Tab \ {t} : tab'[u] = tab[u]
      /\ tab'[t].refresh = NoToken
  BY <1>2, <1>4, TabShapes DEF Tabs
<1>10. \A c \in Waiters(r) : c \in Call /\ TabOf[c] = t /\ call[c].refresh = r
                             /\ call[c].at = "refresh"
  BY <1>1, <1>2, OwnWaiters DEF Waiters
<1>11. \A c \in Call : call'[c].refresh = call[c].refresh
  BY <1>2, <1>4, SettledShape
<1>12. HttpMoves
  <2>1. \A c \in Call : Http(c)' \in {NoToken, Http(c)}
    <3> SUFFICES ASSUME NEW c \in Call PROVE Http(c)' \in {NoToken, Http(c)}
      OBVIOUS
    <3>1. CASE c \in Waiters(r)
      BY <1>2, <1>4, <3>1, SettledShape DEF Http
    <3> QED
      BY <1>2, <3>1 DEF Http
  <2> QED
    BY <1>9, <2>1 DEF HttpMoves
<1>13. CookieMoves /\ JarMoves
  BY <1>2 DEF CookieMoves, JarMoves, vars
<1>14. ShareMoves
  BY <1>11 DEF ShareMoves, SharedRefresh, In
<1>15. RefreshMoves
  <2> SUFFICES ASSUME NEW u \in Tab, NEW s \in Req, tab[u].refresh = s,
                      tab'[u].refresh # s, NoMishap', cookie'[s] = jar'
               PROVE  Excused(u, jar)'
    BY DEF RefreshMoves
  <2>1. u = t /\ s = r
    BY <1>1, <1>9
  <2>2. Excused(t, cookie[r]) /\ jar = cookie[r]
    BY <1>2, <1>8, <2>1 DEF vars
  <2>3. \A q \in Req : SharedRefresh(t, q)' <=> SharedRefresh(t, q)
    BY <1>11 DEF SharedRefresh, In
  <2> QED
    BY <1>2, <2>1, <2>2, <2>3 DEF Excused, vars
<1>16. OutcomeMoves
  <2> SUFFICES ASSUME NEW c \in Call, call'[c].outcome = "expired", NoMishap'
               PROVE  \/ call[c].outcome = "expired"
                      \/ /\ call[c].refresh # NoToken
                         /\ Excused(TabOf[c], cookie[call[c].refresh])
    BY <1>11 DEF OutcomeMoves
  <2>1. CASE c \in Waiters(r)
    BY <1>2, <1>8, <1>10, <2>1
  <2> QED
    BY <1>2, <2>1
<1> QED
  BY <1>6, <1>12, <1>13, <1>14, <1>15, <1>16 DEF Conduct


-----------------------------------------------------------------------------
(* The theorem *)

\* The API knows nothing of the browser.
LEMMA ApiConduct ==
  ASSUME Known, Tick \/ Crash \/ (\E r \in Req : Serve(r) \/ CallFails(r)) \/ UNCHANGED vars,
         UNCHANGED web
  PROVE  Conduct
<1>1. cookie' = cookie
  BY DEF Tick, Crash, Serve, CallFails, FindUser, CreateUser, FindToken, RotateOut,
         RevokeOut, Issue, vars
<1>2. jar' = jar /\ tab' = tab /\ call' = call /\ lost' = lost
  BY DEF web
<1>3. CookieMoves /\ JarMoves /\ HttpMoves /\ RefreshMoves
  BY <1>1, <1>2 DEF CookieMoves, JarMoves, HttpMoves, RefreshMoves, Http
<1> QED
  BY <1>2, <1>3, QuietConduct

LEMMA WebInitX == WebInit => XInv
<1> SUFFICES ASSUME WebInit PROVE XInv
  OBVIOUS
<1>1. Init /\ Known
  BY WebInitKnown DEF WebInit
<1>2. \A c \in Call : call[c] = NewCall
  BY DEF WebInit
<1>3. \A t \in Tab, r \in Req : ~SharedRefresh(t, r)
  BY <1>2, NoTokenIsNoRequest DEF SharedRefresh, In, NewCall
<1>4. \A c \in Call : Http(c) = NoToken /\ call[c].outcome # "expired"
  BY <1>2 DEF Http, NewCall
<1>5. \A t \in Tab : tab[t].refresh = NoToken
  BY DEF WebInit, NewTab
<1>6. RevokerOK
  BY <1>1 DEF Init, RevokerOK
<1>7. SilentOK
  BY <1>1 DEF Init, SilentOK
<1>8. SharedOK /\ FreshOK /\ PastOK /\ AloneOK /\ FateOK /\ ToldOK
  BY <1>3, <1>4, <1>5 DEF SharedOK, FreshOK, PastOK, AloneOK, FateOK, ToldOK
<1> QED
  BY <1>6, <1>7, <1>8 DEF XInv

LEMMA StepX == Known /\ XInv /\ [WebNext]_<<vars, web>> => XInv'
<1> SUFFICES ASSUME Known, XInv, [WebNext]_<<vars, web>> PROVE XInv'
  OBVIOUS
<1>1. AuthMoves
  BY WebStep, AuthMovesStep DEF Known
<1>2. ASSUME NEW c \in Call, PageStep(c) \/ ClientStep(c) \/ Authenticate(c)
      PROVE  Conduct
  BY <1>2, LoadConduct, SubmitConduct, DataConduct, AnswerConduct, RefusedConduct
  DEF PageStep, ClientStep
<1>3. ASSUME NEW t \in Tab, RefreshStep(t) PROVE Conduct
  BY <1>3, RefreshSucceedsConduct, RefreshFailsConduct DEF RefreshStep
<1>4. Conduct
  BY <1>2, <1>3, ApiConduct DEF WebNext
<1> QED
  BY <1>1, <1>4, XFrame

\* A tab does not end its own session: without a fault or a lost answer, a call
\* is told that the session is over only if the cookie was gone or too old, or
\* was sent from elsewhere, too.
THEOREM TabsDoNotExpireThemselves == WebSpec => []NotExpiredByItself
<1>1. Known /\ XInv => NotExpiredByItself
  <2> SUFFICES ASSUME Known, XInv, NEW c \in Call, call[c].outcome = "expired",
                      faults = 0, lost = 0
               PROVE  LET r == call[c].refresh IN
                        \/ cookie[r] = NoCookie
                        \/ token[cookie[r]].expires <= now
                        \/ \E s \in Req \ {r} : cookie[s] = cookie[r]
                                                /\ ~SharedRefresh(TabOf[c], s)
    BY DEF NotExpiredByItself
  <2> DEFINE r == call[c].refresh
  <2>1. r # NoToken /\ Excused(TabOf[c], cookie[r])
    BY DEF XInv, NoMishap, ToldOK
  <2>2. SharedRefresh(TabOf[c], r)
    BY DEF SharedRefresh, In
  <2> QED
    BY <2>1, <2>2 DEF Excused
<1>2. WebSpec => []XInv
  BY WebInitX, WebInvariance, StepX, PTL DEF WebSpec
<1> QED
  BY <1>1, <1>2, WebInvariance, PTL

=============================================================================
