-------------------------- MODULE MCLockFreeQueue --------------------------
(***************************************************************************)
(* LockFreeQueue for TLC, with fewer nodes than items, so that nodes are   *)
(* reused and allocations fail.                                            *)
(***************************************************************************)
EXTENDS LockFreeQueue
============================================================================
