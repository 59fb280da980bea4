---------------------------- MODULE MCWebSession ----------------------------
(* A small browser for TLC: two tabs that share the cookie of an earlier     *)
(* login.  What the user does in them is one of five casts, told apart by    *)
(* what the script has besides refreshes:                                     *)
(*   reload  both pages load, the first makes a call and is loaded again;     *)
(*   leave   both pages load, the first makes a call, both log out;           *)
(*   enter   both pages load, the first makes a call and logs in;             *)
(*   form    the first page loads, makes a call, sends a login with the right *)
(*           or a wrong password, and logs out;                               *)
(*   forms   the first page loads and sends such logins from two forms.       *)
EXTENDS WebSession

CONSTANTS r0, f1, f2, f3, x1, x2, x3, x4, x5, e1, t1, t2,
          load1, load2, load3, get1, in1, in2, out1, out2

Login(right) == [op |-> "login", email |-> e1, right |-> right]

Script(logins, logouts, right) ==
  [r \in Req |-> IF r = r0 THEN Login(TRUE)
                 ELSE IF r \in logins THEN Login(right)
                 ELSE IF r \in logouts THEN [op |-> "logout"] ELSE [op |-> "refresh"]]

MCScripts ==
  {Script({}, {}, TRUE), Script({}, {x1, x2}, TRUE), Script({x1, x2}, {}, TRUE)}
  \cup {Script({x1, x2}, {x5}, right) : right \in BOOLEAN}
  \cup {Script({x1, x2, x3, x4}, {}, right) : right \in BOOLEAN}

AllAsks == {Login(TRUE), Login(FALSE), [op |-> "logout"], [op |-> "refresh"]}

MCTabOf == [c \in Call |-> IF c \in {load2, out2} THEN t2 ELSE t1]

MCAsks ==
  [c \in Call |-> IF c \in {load1, load2, load3} THEN "load"
                  ELSE IF c \in {in1, in2} THEN "login"
                  ELSE IF c \in {out1, out2} THEN "logout" ELSE "data"]

Cast ==
  CASE req[x1].op = "refresh" -> {load1, load2, load3, get1}
    [] req[x1].op = "logout" -> {load1, load2, get1, out1, out2}
    [] req[x5].op = "logout" -> {load1, get1, in1, out1}
    [] req[x4].op = "login" -> {load1, in1, in2}
    [] OTHER -> {load1, load2, get1, in1}

\* The user starts only the calls of the cast.
OnlyCast == \A c \in Call \ Cast : call'[c].at = "idle"
=============================================================================
