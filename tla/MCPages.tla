-------------------------------- MODULE MCPages --------------------------------
(* Two rooms and one window for TLC: the occurrences of a series adjoin, the  *)
(* clock reaches the start of the first one, and a booking can be shortened.  *)
EXTENDS Pages

CONSTANTS t1, t2, m1, m2, o1

MCWindows == {[start |-> 1, end |-> 3]}
=============================================================================
