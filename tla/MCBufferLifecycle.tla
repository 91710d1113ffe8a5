------------------------- MODULE MCBufferLifecycle -------------------------
(* Small instances of BufferLifecycle for TLC. *)
EXTENDS BufferLifecycleInv, TLC

\* Keepers are interchangeable, and so are the buffers of an instance that
\* treats them alike.
KeeperSymmetry == Permutations(Keeper)
=============================================================================
