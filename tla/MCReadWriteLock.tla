-------------------------- MODULE MCReadWriteLock --------------------------
(***************************************************************************)
(* Instances of ReadWriteLock for TLC: which calls the threads make and    *)
(* where they may be cancelled.                                            *)
(***************************************************************************)
EXTENDS ReadWriteLock, TLC

Symmetry == Permutations(Thread)
============================================================================
