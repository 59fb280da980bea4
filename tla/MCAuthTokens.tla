----------------------------- MODULE MCAuthTokens -----------------------------
(* Small instances of AuthTokens for TLC. *)
EXTENDS AuthTokens, TLC

CONSTANTS r1, r2, r3, r4, e1, e2

Register(e) == [op |-> "register", email |-> e]
Login(e, ok) == [op |-> "login", email |-> e, right |-> ok]
Refresh == [op |-> "refresh"]
Logout == [op |-> "logout"]

\* A taken address, a free one, and whatever the holder of a session may ask.
AllRequests ==
  {Register(e1), Register(e2), Login(e1, TRUE), Login(e1, FALSE),
   Login(e2, TRUE), Refresh, Logout}

LateAlike == Permutations(Req \ Earlier)
=============================================================================
