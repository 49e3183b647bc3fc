------------------------------ MODULE OnePerType ------------------------------
(***************************************************************************)
(* What cpp_utils/singleton.cpp promises, with no lock and no pointer: a   *)
(* type has one object.  It is made once, before anyone is given it, and   *)
(* when the program is over it is gone, and went once.                     *)
(***************************************************************************)
EXTENDS Naturals

CONSTANT Type

VARIABLES
    objects,    \* objects[T]: how many objects of the type were made
    given,      \* the types whose object has been given to someone
    gone,       \* the types whose object has been destroyed
    over        \* the program has ended

vars == <<objects, given, gone, over>>

Made == {T \in Type : objects[T] > 0}

Init ==
    /\ objects = [T \in Type |-> 0]
    /\ given = {} /\ gone = {} /\ over = FALSE

Make(T) ==
    /\ T \notin Made
    /\ objects' = [objects EXCEPT ![T] = 1]
    /\ UNCHANGED <<given, gone, over>>

Give(T) ==
    /\ T \in Made \ gone
    /\ given' = given \cup {T}
    /\ UNCHANGED <<objects, gone, over>>

\* The last object takes the program with it, or else the program ends later.
Destroy(T) ==
    /\ T \in Made \ gone
    /\ gone' = gone \cup {T}
    /\ over' \in BOOLEAN /\ (over' => gone' = Made)
    /\ UNCHANGED <<objects, given>>

End ==
    /\ gone = Made
    /\ over' = TRUE
    /\ UNCHANGED <<objects, given, gone>>

Next == End \/ \E T \in Type : Make(T) \/ Give(T) \/ Destroy(T)

Spec == Init /\ [][Next]_vars
==============================================================================
