----------------------------- MODULE ObjectPool ------------------------------
(***************************************************************************)
(* The object pool of cpp_utils/object_pool.cpp (the branch for C++11): a  *)
(* std::queue of objects behind a mutex, whose handles give the object     *)
(* back in their deleter.  The deleter pushes without the mutex, so a push *)
(* is two steps here, as in a std::deque: the element is constructed in    *)
(* the slot at finish, and then finish moves behind it.                    *)
(*                                                                         *)
(* Slots are numbered from the first push on, and a program counter stands *)
(* between the two halves of an operation.  What an operation does under   *)
(* the mutex before it changes the queue is part of the step that does,    *)
(* but not the test of add_one: the deleter takes no mutex, and its push   *)
(* may come between that test and the push of add_one.                     *)
(* Calls that change nothing are no steps: init of an initialised pool or  *)
(* with too large a size, take_one of an empty pool, add_one to a full     *)
(* one, which destroys its object.                                         *)
(***************************************************************************)
EXTENDS Integers, FiniteSets, FiniteSetsExt

CONSTANTS
    Thread,
    Object,
    None,           \* nullptr, and no thread
    MaxPoolSize,    \* max_pool_size_
    InitSize,       \* the values of init_pool_size
    MayThrow,       \* the constructor of an object may throw
    LonePushes,     \* the program lets no push overlap with the push of a deleter
    Slots           \* bound: number of pushes followed

ASSUME ObjectPoolAssumption ==
    /\ None \notin Thread /\ None \notin Object
    /\ MaxPoolSize \in Nat /\ InitSize \subseteq Nat /\ Slots \in Nat \ {0}
    /\ MayThrow \in BOOLEAN /\ LonePushes \in BOOLEAN

Slot == 0 .. Slots - 1

VARIABLES
    slot,       \* the elements of pool_, those popped already included
    start,      \* the first of them that is in the queue
    finish,     \* the first behind the queue
    inited,     \* inited_
    mutex,      \* owner of mutex_
    pc,
    arg,        \* object that an operation of the thread is about
    end,        \* finish as a push of the thread has read it
    todo,       \* objects that init has still to make
    held,       \* objects the thread has handles of
    made,       \* history: objects constructed for the pool
    returned    \* history: pushes of deleters since the test of the add_one under way

vars == <<slot, start, finish, inited, mutex, pc, arg, end, todo, held, made, returned>>

Init ==
    /\ slot = [i \in Slot |-> None]
    /\ start = 0
    /\ finish = 0
    /\ inited = FALSE
    /\ mutex = None
    /\ pc = [t \in Thread |-> "outside"]
    /\ arg = [t \in Thread |-> None]
    /\ end = [t \in Thread |-> 0]
    /\ todo = [t \in Thread |-> 0]
    /\ held = [t \in Thread |-> {}]
    /\ made = {}
    /\ returned = 0

\* pool_.size(), which races may turn negative: a size_t that is not 0 then.
Size == finish - start

At(t, place) == pc[t] = place
Goto(t, place) == pc' = [pc EXCEPT ![t] = place]

------------------------------------------------------------------------------
(* The two halves of pool_.push.                                            *)

Pushing == {t \in Thread : pc[t] \in {"init_push", "add_push", "return_push"}}
Returning == {t \in Thread : At(t, "return_push")}

PushElement(t, o) ==
    /\ finish \in Slot
    /\ slot' = [slot EXCEPT ![finish] = o]
    /\ end' = [end EXCEPT ![t] = finish]
    /\ arg' = [arg EXCEPT ![t] = o]

MoveFinish(t) ==
    /\ finish' = end[t] + 1
    /\ arg' = [arg EXCEPT ![t] = None]

------------------------------------------------------------------------------
(* init                                                                     *)

InitCall(t, n) ==
    /\ At(t, "outside") /\ mutex = None
    /\ ~inited
    /\ n <= MaxPoolSize
    /\ mutex' = t
    /\ todo' = [todo EXCEPT ![t] = n]
    /\ Goto(t, "init")
    /\ UNCHANGED <<slot, start, finish, inited, arg, end, held, made, returned>>

InitConstruct(t, o) ==
    /\ At(t, "init") /\ todo[t] > 0
    /\ o \notin made
    /\ LonePushes => Returning = {}
    /\ made' = made \cup {o}
    /\ PushElement(t, o)
    /\ Goto(t, "init_push")
    /\ UNCHANGED <<start, finish, inited, mutex, todo, held, returned>>

InitPush(t) ==
    /\ At(t, "init_push")
    /\ MoveFinish(t)
    /\ todo' = [todo EXCEPT ![t] = @ - 1]
    /\ Goto(t, "init")
    /\ UNCHANGED <<slot, start, inited, mutex, end, held, made, returned>>

\* The constructor throws: lock_guard unlocks, and what is in the pool stays.
InitThrow(t) ==
    /\ MayThrow
    /\ At(t, "init") /\ todo[t] > 0
    /\ mutex' = None
    /\ todo' = [todo EXCEPT ![t] = 0]
    /\ Goto(t, "outside")
    /\ UNCHANGED <<slot, start, finish, inited, arg, end, held, made, returned>>

InitDone(t) ==
    /\ At(t, "init") /\ todo[t] = 0
    /\ inited' = TRUE
    /\ mutex' = None
    /\ Goto(t, "outside")
    /\ UNCHANGED <<slot, start, finish, arg, end, todo, held, made, returned>>

------------------------------------------------------------------------------
(* take_one                                                                 *)

\* Faulty variant of HasIdle: any pool.
HasIdleUntested == start \in Slot
HasIdle == Size # 0 /\ start \in Slot

\* The object is released from the front element, and then the element popped.
TakeFront(t) ==
    /\ At(t, "outside") /\ mutex = None
    /\ HasIdle
    /\ mutex' = t
    /\ arg' = [arg EXCEPT ![t] = slot[start]]
    /\ slot' = [slot EXCEPT ![start] = None]
    /\ Goto(t, "take")
    /\ UNCHANGED <<start, finish, inited, end, todo, held, made, returned>>

\* Faulty variant of TakePop: the mutex is released with the element still there.
TakePopForgotten(t) ==
    /\ At(t, "take")
    /\ held' = [held EXCEPT ![t] = @ \cup ({arg[t]} \ {None})]
    /\ arg' = [arg EXCEPT ![t] = None]
    /\ mutex' = None
    /\ Goto(t, "outside")
    /\ UNCHANGED <<slot, start, finish, inited, end, todo, made, returned>>

TakePop(t) ==
    /\ At(t, "take")
    /\ start' = start + 1
    /\ held' = [held EXCEPT ![t] = @ \cup ({arg[t]} \ {None})]
    /\ arg' = [arg EXCEPT ![t] = None]
    /\ mutex' = None
    /\ Goto(t, "outside")
    /\ UNCHANGED <<slot, finish, inited, end, todo, made, returned>>

------------------------------------------------------------------------------
(* add_one                                                                  *)

\* Faulty variant of HasRoom: off by one.
HasRoomForOneMore == Size <= MaxPoolSize
HasRoom == Size < MaxPoolSize

\* The test, which allows for one more element.
AddCall(t, o) ==
    /\ At(t, "outside") /\ mutex = None
    /\ o \notin made
    /\ HasRoom
    /\ mutex' = t
    /\ made' = made \cup {o}
    /\ arg' = [arg EXCEPT ![t] = o]
    /\ Goto(t, "add")
    /\ UNCHANGED <<slot, start, finish, inited, end, todo, held, returned>>

AddElement(t) ==
    /\ At(t, "add")
    /\ LonePushes => Returning = {}
    /\ PushElement(t, arg[t])
    /\ Goto(t, "add_push")
    /\ UNCHANGED <<start, finish, inited, mutex, todo, held, made, returned>>

AddPush(t) ==
    /\ At(t, "add_push")
    /\ MoveFinish(t)
    /\ mutex' = None
    /\ returned' = 0
    /\ Goto(t, "outside")
    /\ UNCHANGED <<slot, start, inited, end, todo, held, made>>

------------------------------------------------------------------------------
(* The deleter of a handle: no mutex, and no look at max_pool_size_.        *)

CountReturn ==
    returned' = IF \E u \in Thread : pc[u] \in {"add", "add_push"} THEN returned + 1 ELSE 0

ReturnCall(t, o) ==
    /\ At(t, "outside")
    /\ o \in held[t]
    /\ LonePushes => Pushing = {}
    /\ PushElement(t, o)
    /\ Goto(t, "return_push")
    /\ UNCHANGED <<start, finish, inited, mutex, todo, held, made, returned>>

\* Faulty variant of ReturnPush: the handle is not empty afterwards.
ReturnPushKeepsHandle(t) ==
    /\ At(t, "return_push")
    /\ MoveFinish(t)
    /\ CountReturn
    /\ Goto(t, "outside")
    /\ UNCHANGED <<slot, start, inited, mutex, end, todo, held, made>>

ReturnPush(t) ==
    /\ At(t, "return_push")
    /\ MoveFinish(t)
    /\ held' = [held EXCEPT ![t] = @ \ {arg[t]}]
    /\ CountReturn
    /\ Goto(t, "outside")
    /\ UNCHANGED <<slot, start, inited, mutex, end, todo, made>>

------------------------------------------------------------------------------
Next ==
    \E t \in Thread :
       \/ \E n \in InitSize : InitCall(t, n)
       \/ \E o \in Object : InitConstruct(t, o) \/ AddCall(t, o) \/ ReturnCall(t, o)
       \/ InitPush(t) \/ InitThrow(t) \/ InitDone(t)
       \/ TakeFront(t) \/ TakePop(t)
       \/ AddElement(t) \/ AddPush(t) \/ ReturnPush(t)

Spec == Init /\ [][Next]_vars

------------------------------------------------------------------------------
(* Properties.                                                              *)

\* Among the types: size() is the number of elements, not a size_t below 0.
TypeOK ==
    /\ Size \in 0 .. Slots
    /\ slot \in [Slot -> Object \cup {None}]
    /\ start \in 0 .. Slots /\ finish \in 0 .. Slots
    /\ inited \in BOOLEAN
    /\ mutex \in Thread \cup {None}
    /\ pc \in [Thread -> {"outside", "init", "init_push", "take",
                         "add", "add_push", "return_push"}]
    /\ arg \in [Thread -> Object \cup {None}]
    /\ end \in [Thread -> Slot]
    /\ todo \in [Thread -> Nat]
    /\ held \in [Thread -> SUBSET Object]
    /\ made \subseteq Object
    /\ returned \in Nat

\* Where an object is: the slots of the queue, and the threads that hold it or
\* are about to push it or to hand it out.
Places(o) ==
    {i \in Slot : start <= i /\ i < finish /\ slot[i] = o}
        \cup {t \in Thread : o \in held[t] \/ arg[t] = o}

\* "object returned !" (line 50): every object is in one place, the queue, a
\* handle or an operation under way; none is lost and none is in two.
NoObjectLost == \A o \in made : Cardinality(Places(o)) = 1

\* take_one hands out an object whenever it finds the pool not empty.
NoEmptyHandle == \A t \in Thread : At(t, "take") => arg[t] # None

\* Who takes the pool above its maximum: a deleter; an init of a pool that
\* add_one or an init that has thrown put objects into; and an add_one whose test
\* has gone stale, which exceeds the maximum by no more than the objects that
\* came back between its test and its push.
OnlyReturnsExceed ==
    [][Size' > MaxPoolSize /\ Size' > Size =>
         \E t \in Thread : \/ ReturnPush(t)
                           \/ InitPush(t)
                           \/ AddPush(t) /\ Size' <= MaxPoolSize + returned]_vars

\* The pool is a queue of idle objects, each lent to one user at a time.  An
\* object is lent from the moment it is released from its element.
Queued ==
    LET first == IF \E t \in Thread : At(t, "take") THEN start + 1 ELSE start
    IN  [i \in 1 .. finish - first |-> slot[first + i - 1]]
InUse == (UNION {held[t] : t \in Thread}) \cup {arg[t] : t \in {u \in Thread : At(u, "take")}}
Idle == INSTANCE IdlePool WITH idle <- Queued, lent <- InUse
ImplementsIdlePool == Idle!Spec
==============================================================================
