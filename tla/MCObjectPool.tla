---------------------------- MODULE MCObjectPool -----------------------------
(* Model checking of ObjectPool.                                            *)
EXTENDS ObjectPool, TLC

MCSymmetry == Permutations(Thread) \cup Permutations(Object)
==============================================================================
