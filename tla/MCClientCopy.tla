---------------------------- MODULE MCClientCopy ----------------------------
(* The attached client's copy on small instances. The tasks do not differ,   *)
(* so it does not matter which of them makes two changes and which one.      *)
EXTENDS ClientCopy

CONSTANTS t1, t2
TwoAndOne == [t \in Tasks |-> IF t = t1 THEN 2 ELSE 1]
=============================================================================
