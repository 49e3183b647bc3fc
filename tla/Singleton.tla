------------------------------ MODULE Singleton ------------------------------
(***************************************************************************)
(* Singleton<T> of cpp_utils/singleton.cpp: Instance() makes the object of *)
(* a type when it is asked for first, by whichever thread; a static        *)
(* cleaner per type destroys it when the program ends.                     *)
(*                                                                         *)
(* The file has two versions.  From C++11 on, the first test of instance_  *)
(* is made without a lock, and the second under one spin flag, lock_,      *)
(* which the singletons of all types share ("spin").  Before, the object   *)
(* is made under pthread_once, with a control variable per type ("once").  *)
(* They differ in which gate a call passes, and in what a constructor that *)
(* throws leaves of it.                                                    *)
(*                                                                         *)
(* A constructor may itself ask for the object of another type, so that a  *)
(* thread has a stack of calls.                                            *)
(***************************************************************************)
EXTENDS Naturals, Sequences, SequencesExt

CONSTANTS
    Thread,
    Type,
    Needs,      \* Needs[T]: the types that the constructor of T asks for (one at most)
    MayThrow,   \* the types whose constructor may throw
    Build,      \* "spin" or "once"
    InOrder,    \* whether a pointer reaches memory after what it points to
    MaxCalls    \* bound: calls of a thread, those of constructors not counted

VARIABLES
    calls,      \* calls[t]: the calls thread t is in, the innermost last
    left,       \* left[t]: the calls that t may still make
    instance_,  \* the types whose pointer is set
    objects,    \* objects[T]: the objects of the type constructed so far
    held,       \* the gates that are closed: lock_, or a type's once control
    cleaners,   \* the static cleaners, in the order of their construction
    exiting,    \* main has returned
    gone,       \* the types whose object was deleted
    given,      \* history: the types whose pointer a call has returned
    threw       \* history: some constructor threw

vars == <<calls, left, instance_, objects, held, cleaners, exiting, gone, given, threw>>

Gate(T) == IF Build = "spin" THEN "lock_" ELSE T

Init ==
    /\ calls = [t \in Thread |-> <<>>]
    /\ left = [t \in Thread |-> MaxCalls]
    /\ objects = [T \in Type |-> 0]
    /\ instance_ = {} /\ held = {} /\ gone = {} /\ given = {}
    /\ cleaners = <<>>
    /\ exiting = FALSE /\ threw = FALSE

------------------------------------------------------------------------------
(* Instance().                                                              *)

Top(t) == Last(calls[t])
Asked(t) == Top(t).type
At(t, place) == calls[t] # <<>> /\ Top(t).at = place

\* The stack with its innermost call at another place.
MovedTo(stack, place) == ReplaceAt(stack, Len(stack), [Last(stack) EXCEPT !.at = place])
GoTo(t, place) == calls' = [calls EXCEPT ![t] = MovedTo(@, place)]

\* The first call for a type constructs its cleaner, a static local variable.
Enter(T) ==
    cleaners' = IF T \in ToSet(cleaners) THEN cleaners ELSE Append(cleaners, T)

Call(t, T) ==
    /\ ~exiting /\ calls[t] = <<>> /\ left[t] > 0
    /\ left' = [left EXCEPT ![t] = @ - 1]
    /\ calls' = [calls EXCEPT ![t] = <<[type |-> T, at |-> "look"]>>]
    /\ Enter(T)
    /\ UNCHANGED <<instance_, objects, held, exiting, gone, given, threw>>

\* The innermost call returns; a constructor that made it goes on.
Return(t) ==
    /\ given' = given \cup {Asked(t)}
    /\ calls' = [calls EXCEPT ![t] =
                    IF Len(@) = 1 THEN <<>> ELSE MovedTo(Front(@), "construct")]
    /\ UNCHANGED <<left, instance_, objects, cleaners, exiting, gone, threw>>

\* Whether a call returns at once: "spin" reads the pointer, "once" its control.
Done(T) == T \in instance_ /\ (Build = "once" => T \notin held)

Look(t) ==
    /\ At(t, "look")
    /\ IF Done(Asked(t))
       THEN Return(t) /\ UNCHANGED held
       ELSE /\ GoTo(t, "gate")
            /\ UNCHANGED <<left, instance_, objects, held, cleaners, exiting, gone, given, threw>>

\* The test_and_set that ends the spinning; in pthread_once, the wait is over.
Pass(t) ==
    /\ At(t, "gate")
    /\ Gate(Asked(t)) \notin held
    /\ held' = held \cup {Gate(Asked(t))}
    /\ GoTo(t, "check")
    /\ UNCHANGED <<left, instance_, objects, cleaners, exiting, gone, given, threw>>

\* Faulty variant of Missing: the pointer is not tested again.
MissingUntested(T) == TRUE

\* The second test of the pointer, behind the gate.
Missing(T) == T \notin instance_

Check(t) ==
    /\ At(t, "check")
    /\ GoTo(t, IF Missing(Asked(t)) THEN "new" ELSE "leave")
    /\ UNCHANGED <<left, instance_, objects, held, cleaners, exiting, gone, given, threw>>

\* new T: the constructor asks for what it needs.
New(t) ==
    /\ At(t, "new")
    /\ IF Needs[Asked(t)] = {}
       THEN GoTo(t, "construct") /\ UNCHANGED cleaners
       ELSE \E U \in Needs[Asked(t)] :
               /\ calls' = [calls EXCEPT ![t] = Append(@, [type |-> U, at |-> "look"])]
               /\ Enter(U)
    /\ UNCHANGED <<left, instance_, objects, held, exiting, gone, given, threw>>

Construct(t) ==
    /\ At(t, "construct")
    /\ objects' = [objects EXCEPT ![Asked(t)] = @ + 1]
    /\ GoTo(t, "store")
    /\ UNCHANGED <<left, instance_, held, cleaners, exiting, gone, given, threw>>

\* The constructor throws, and the calls of the thread end with the exception:
\* lock_ stays set, a once control is as if it had not been tried.
Throw(t) ==
    /\ At(t, "construct") /\ Asked(t) \in MayThrow
    /\ calls' = [calls EXCEPT ![t] = <<>>]
    /\ held' = IF Build = "spin" THEN held ELSE held \ {call.type : call \in ToSet(calls[t])}
    /\ threw' = TRUE
    /\ UNCHANGED <<left, instance_, objects, cleaners, exiting, gone, given>>

\* instance_ is assigned behind the constructor, or already (~InOrder) when the
\* memory is there and the constructor cannot throw.
Store(t) ==
    /\ At(t, "store") \/ (~InOrder /\ At(t, "construct") /\ Asked(t) \notin MayThrow)
    /\ instance_' = instance_ \cup {Asked(t)}
    /\ IF At(t, "store") THEN GoTo(t, "leave") ELSE UNCHANGED calls
    /\ UNCHANGED <<left, objects, held, cleaners, exiting, gone, given, threw>>

\* Faulty variant of Reopen: the flag is left set when the object was there.
ReopenIfMade(t) == IF Asked(t) \in given THEN held ELSE held \ {Gate(Asked(t))}

\* The gate is opened: lock_.clear().
Reopen(t) == held \ {Gate(Asked(t))}

Leave(t) ==
    /\ At(t, "leave")
    /\ held' = Reopen(t)
    /\ Return(t)

------------------------------------------------------------------------------
(* The end of the program: main has joined its threads, and the static      *)
(* cleaners are destroyed in the reverse order of their construction.       *)

Exit ==
    /\ ~exiting /\ \A t \in Thread : calls[t] = <<>>
    /\ exiting' = TRUE
    /\ UNCHANGED <<calls, left, instance_, objects, held, cleaners, gone, given, threw>>

Clean ==
    /\ exiting /\ cleaners # <<>>
    /\ LET T == Last(cleaners)
       IN  /\ gone' = IF T \in instance_ THEN gone \cup {T} ELSE gone
           /\ instance_' = instance_ \ {T}
    /\ cleaners' = Front(cleaners)
    /\ UNCHANGED <<calls, left, objects, held, exiting, given, threw>>

------------------------------------------------------------------------------
\* What thread t does by itself inside a call.
Step(t) ==
    \/ Look(t) \/ Pass(t) \/ Check(t) \/ New(t) \/ Construct(t) \/ Throw(t)
    \/ Store(t) \/ Leave(t)

Next ==
    \/ \E t \in Thread : Step(t) \/ \E T \in Type : Call(t, T)
    \/ Exit \/ Clean

Spec == Init /\ [][Next]_vars

------------------------------------------------------------------------------
(* Properties.                                                              *)

\* However the calls of the threads and of constructors interleave, and whatever
\* constructors throw: a type gets one object, no call returns a pointer to an
\* object that is not there (yet), and at the end each is deleted, once.
OnlyOne == INSTANCE OnePerType WITH over <- exiting /\ cleaners = <<>>
ImplementsOnePerType == OnlyOne!Spec

\* The two ways in which the shared flag is never cleared: a constructor threw
\* behind it, or waits for it in turn.
Holds(t, gate) ==
    \E call \in ToSet(calls[t]) : Gate(call.type) = gate /\ call.at \notin {"look", "gate"}
FlagLost ==
    /\ Build = "spin"
    /\ threw \/ \E t \in Thread : At(t, "gate") /\ Holds(t, "lock_")

\* Every call returns, or throws, if threads in calls are scheduled; in the
\* version with the spin flag only as long as the flag is not lost.
EveryCallReturns == \A t \in Thread : calls[t] # <<>> ~> (calls[t] = <<>> \/ FlagLost)
==============================================================================
