------------------------------ MODULE MCHosts ------------------------------
(* Instances of Hosts for TLC: all buffers on one host. *)
EXTENDS Hosts

CONSTANT h1
OneHost == [b \in Buffer |-> h1]
=============================================================================
