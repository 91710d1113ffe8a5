----------------------------- MODULE MCHostLink -----------------------------
(* Instances of HostLink for TLC. *)
EXTENDS HostLink, TLC

\* Tasks are interchangeable.
TaskSymmetry == Permutations(Task)
=============================================================================
