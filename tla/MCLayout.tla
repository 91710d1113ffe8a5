------------------------------ MODULE MCLayout ------------------------------
(* Instances of Layout for TLC. *)
EXTENDS Layout

AllPlaces == {"before", "after", "tabBefore", "tabAfter"}

\* Tasks are interchangeable.
TaskSymmetry == Permutations(Tasks)
=============================================================================
