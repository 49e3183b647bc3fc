------------------------------ MODULE IdlePool -------------------------------
(***************************************************************************)
(* What cpp_utils/object_pool.cpp promises: objects wait in a queue, are   *)
(* lent to one user at a time, and come back to the end of the queue.      *)
(***************************************************************************)
EXTENDS Sequences, SequencesExt

CONSTANT Object

VARIABLES
    idle,       \* the objects in the pool, the next to be lent first
    lent        \* the objects in use

vars == <<idle, lent>>

Init == idle = <<>> /\ lent = {}

Add(o) ==
    /\ o \notin ToSet(idle) \cup lent
    /\ idle' = Append(idle, o)
    /\ UNCHANGED lent

Take ==
    /\ idle # <<>>
    /\ idle' = Tail(idle)
    /\ lent' = lent \cup {Head(idle)}

Return(o) ==
    /\ o \in lent
    /\ idle' = Append(idle, o)
    /\ lent' = lent \ {o}

Next == Take \/ \E o \in Object : Add(o) \/ Return(o)

Spec == Init /\ [][Next]_vars
==============================================================================
