------------------------- MODULE SharedExclusiveLock -------------------------
(***************************************************************************)
(* What a readers-writer lock promises, with no mutex, no counter and no   *)
(* condition variable: at any moment either any number of threads hold it  *)
(* shared, or one thread holds it exclusively.  Taking and giving back are *)
(* single steps.  ReadWriteLock implements this specification.             *)
(***************************************************************************)
CONSTANT Thread

VARIABLE mode   \* how each thread holds the lock

TypeOK == mode \in [Thread -> {"none", "shared", "exclusive"}]

Init == mode = [t \in Thread |-> "none"]

AcquireShared(t) ==
    /\ mode[t] = "none"
    /\ \A u \in Thread : mode[u] # "exclusive"
    /\ mode' = [mode EXCEPT ![t] = "shared"]

AcquireExclusive(t) ==
    /\ \A u \in Thread : mode[u] = "none"
    /\ mode' = [mode EXCEPT ![t] = "exclusive"]

Release(t) ==
    /\ mode[t] # "none"
    /\ mode' = [mode EXCEPT ![t] = "none"]

Next == \E t \in Thread : AcquireShared(t) \/ AcquireExclusive(t) \/ Release(t)

Spec == Init /\ [][Next]_mode
==============================================================================
