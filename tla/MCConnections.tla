---------------------------- MODULE MCConnections ----------------------------
(* Instances of Connections for TLC. *)
EXTENDS Connections

CONSTANTS c1, c2

NoDetach == {}
OneWay == {<<c1, c2>>, <<c2, c2>>}
BothWays == {<<c1, c2>>, <<c2, c1>>}
==============================================================================
