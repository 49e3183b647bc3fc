-------------------------- MODULE ObjectPoolProofs ---------------------------
(***************************************************************************)
(* Proofs about ObjectPool for any set of threads and of objects, any      *)
(* sizes, with and without throwing constructors, in programs that let no  *)
(* push overlap with the push of a deleter: without that the queue does    *)
(* lose objects.                                                           *)
(***************************************************************************)
EXTENDS ObjectPool, FiniteSetTheorems, SequenceTheorems, TLAPS

(* The inductive invariant.                                                 *)

\* Between the two ends of a lock_guard's scope a thread owns mutex_, and only
\* then.
Critical == {"init", "init_push", "take", "add", "add_push"}
Ownership == \A t \in Thread : pc[t] \in Critical <=> mutex = t

Keeps(t, o) == o \in held[t] \/ arg[t] = o
Queues(i, o) == start <= i /\ i < finish /\ slot[i] = o

AtMostOnePlace ==
    \A o \in Object :
       /\ \A t, u \in Thread : Keeps(t, o) /\ Keeps(u, o) => t = u
       /\ \A i, j \in Slot : Queues(i, o) /\ Queues(j, o) => i = j
       /\ \A t \in Thread, i \in Slot : ~(Keeps(t, o) /\ Queues(i, o))

SomePlace ==
    \A o \in made : \/ \E t \in Thread : Keeps(t, o)
                    \/ \E i \in Slot : Queues(i, o)

NoneForUnmade ==
    \A o \in Object \ made : /\ \A t \in Thread : ~Keeps(t, o)
                             /\ \A i \in Slot : ~Queues(i, o)

\* What the object of an operation is, by the place where the operation stands.
ArgFits ==
    \A t \in Thread :
       /\ pc[t] \in {"outside", "init"} <=> arg[t] = None
       /\ pc[t] = "return_push" => arg[t] \in held[t]
       /\ pc[t] # "return_push" => arg[t] \notin held[t]

\* A push under way is the only one, and nobody has moved finish since it began.
PushFits ==
    \A t \in Pushing :
       /\ \A u \in Pushing : u = t
       /\ end[t] = finish /\ finish \in Slot
       /\ slot[finish] = arg[t]

\* The only empty element of the queue is the first, while it is being taken.
EmptyFront ==
    /\ \A i \in Slot : Queues(i, None) => i = start /\ \E t \in Thread : At(t, "take")
    /\ \A t \in Thread : At(t, "take") => start < finish /\ slot[start] = None

\* What init has found out about sizes still holds when it pushes; what add_one
\* has found out does but for the objects that have come back since.
SizesStand ==
    \A t \in Thread : /\ At(t, "init_push") => todo[t] > 0
                      /\ pc[t] \in {"add", "add_push"} => Size < MaxPoolSize + returned

IInv ==
    /\ TypeOK
    /\ Ownership
    /\ AtMostOnePlace
    /\ SomePlace
    /\ NoneForUnmade
    /\ ArgFits
    /\ PushFits
    /\ EmptyFront
    /\ SizesStand

------------------------------------------------------------------------------
LEMMA InitCallKeeps ==
    ASSUME LonePushes = TRUE, IInv, NEW t \in Thread, NEW n \in InitSize,
           InitCall(t, n)
    PROVE  IInv'
<1> USE ObjectPoolAssumption
    DEF InitCall, At, Goto, Size, Slot, Pushing, IInv, TypeOK, Ownership, Critical
<1>1. TypeOK'
  BY DEF EmptyFront, PushFits, SizesStand
<1>2. Ownership'
  BY DEF Critical
<1>3. AtMostOnePlace'
  BY DEF AtMostOnePlace, NoneForUnmade, Keeps, Queues, PushFits, ArgFits, EmptyFront
<1>4. SomePlace'
  BY DEF SomePlace, Keeps, Queues, PushFits, ArgFits, EmptyFront
<1>5. NoneForUnmade'
  BY DEF NoneForUnmade, Keeps, Queues, PushFits, ArgFits, EmptyFront
<1>6. ArgFits'
  BY DEF ArgFits, AtMostOnePlace, NoneForUnmade, Keeps, Queues, EmptyFront, PushFits
<1>7. PushFits'
  BY DEF PushFits
<1>8. EmptyFront'
  BY DEF EmptyFront, Queues, PushFits, ArgFits
<1>9. SizesStand'
  BY DEF SizesStand, PushFits, EmptyFront
<1>10. QED
  BY <1>1, <1>2, <1>3, <1>4, <1>5, <1>6, <1>7, <1>8, <1>9

LEMMA InitConstructKeeps ==
    ASSUME LonePushes = TRUE, IInv, NEW t \in Thread, NEW o \in Object,
           InitConstruct(t, o)
    PROVE  IInv'
<1> USE ObjectPoolAssumption
    DEF InitConstruct, PushElement, Returning, At, Goto, Size, Slot, Pushing,
        IInv, TypeOK, Ownership, Critical
<1>1. TypeOK'
  BY DEF EmptyFront, PushFits, SizesStand
<1>2. Ownership'
  BY DEF Critical
<1>3. AtMostOnePlace'
  BY DEF AtMostOnePlace, NoneForUnmade, Keeps, Queues, PushFits, ArgFits, EmptyFront
<1>4. SomePlace'
  <2> SUFFICES ASSUME NEW p \in made'
               PROVE  (\E u \in Thread : Keeps(u, p)') \/ (\E i \in Slot : Queues(i, p)')
    BY DEF SomePlace
  <2>1. CASE p = o
    BY <2>1 DEF Keeps
  <2>2. CASE \E u \in Thread : Keeps(u, p)
    BY <2>2 DEF Keeps, ArgFits
  <2>3. CASE \E i \in Slot : Queues(i, p)
    BY <2>3 DEF Queues
  <2>4. QED
    BY <2>1, <2>2, <2>3 DEF SomePlace
<1>5. NoneForUnmade'
  BY DEF NoneForUnmade, Keeps, Queues, PushFits, ArgFits, EmptyFront
<1>6. ArgFits'
  BY DEF ArgFits, AtMostOnePlace, NoneForUnmade, Keeps, Queues, EmptyFront, PushFits
<1>7. PushFits'
  BY DEF PushFits
<1>8. EmptyFront'
  BY DEF EmptyFront, Queues, PushFits, ArgFits
<1>9. SizesStand'
  BY DEF SizesStand, PushFits, EmptyFront
<1>10. QED
  BY <1>1, <1>2, <1>3, <1>4, <1>5, <1>6, <1>7, <1>8, <1>9

LEMMA InitPushKeeps ==
    ASSUME LonePushes = TRUE, IInv, NEW t \in Thread,
           InitPush(t)
    PROVE  IInv'
<1> USE ObjectPoolAssumption
    DEF InitPush, MoveFinish, At, Goto, Size, Slot, Pushing,
        IInv, TypeOK, Ownership, Critical
<1>1. TypeOK'
  BY DEF EmptyFront, PushFits, SizesStand
<1>2. Ownership'
  BY DEF Critical
<1>3. AtMostOnePlace'
  <2> DEFINE q == arg[t]
  <2>1. q \in Object /\ q \notin held[t]
    BY DEF ArgFits
  <2>2. \A u \in Thread, p \in Object : Keeps(u, p)' => Keeps(u, p) /\ p # q
    BY <2>1 DEF Keeps, AtMostOnePlace
  <2>3. \A i \in Slot, p \in Object : Queues(i, p)' => Queues(i, p) \/ (p = q /\ i = finish)
    BY DEF Queues, PushFits
  <2>4. \A i \in Slot : ~Queues(i, q)
    BY <2>1 DEF AtMostOnePlace, Keeps
  <2> HIDE DEF q
  <2>5. QED
    BY <2>2, <2>3, <2>4 DEF AtMostOnePlace
<1>4. SomePlace'
  <2> SUFFICES ASSUME NEW p \in made
               PROVE  (\E u \in Thread : Keeps(u, p)') \/ (\E i \in Slot : Queues(i, p)')
    BY DEF SomePlace
  <2>0. finish \in Slot /\ start <= finish /\ finish' = finish + 1 /\ slot[finish] = arg[t]
    BY DEF PushFits
  <2>1. CASE p = arg[t]
    BY <2>0, <2>1 DEF Queues
  <2>2. CASE p # arg[t] /\ \E u \in Thread : Keeps(u, p)
    BY <2>2 DEF Keeps
  <2>3. CASE \E i \in Slot : Queues(i, p)
    BY <2>0, <2>3 DEF Queues
  <2>4. QED
    BY <2>1, <2>2, <2>3 DEF SomePlace
<1>5. NoneForUnmade'
  BY DEF NoneForUnmade, Keeps, Queues, PushFits, ArgFits, EmptyFront
<1>6. ArgFits'
  BY DEF ArgFits, AtMostOnePlace, NoneForUnmade, Keeps, Queues, EmptyFront, PushFits
<1>7. PushFits'
  BY DEF PushFits
<1>8. EmptyFront'
  <2>1. \A i \in Slot : Queues(i, None)' => Queues(i, None)
    BY DEF Queues, PushFits, ArgFits
  <2>2. \A u \in Thread : At(u, "take")' <=> At(u, "take")
    OBVIOUS
  <2>3. QED
    BY <2>1, <2>2 DEF EmptyFront, PushFits
<1>9. SizesStand'
  BY DEF SizesStand, PushFits, EmptyFront
<1>10. QED
  BY <1>1, <1>2, <1>3, <1>4, <1>5, <1>6, <1>7, <1>8, <1>9

LEMMA InitThrowKeeps ==
    ASSUME LonePushes = TRUE, IInv, NEW t \in Thread,
           InitThrow(t)
    PROVE  IInv'
<1> USE ObjectPoolAssumption
    DEF InitThrow, At, Goto, Size, Slot, Pushing, IInv, TypeOK, Ownership, Critical
<1>1. TypeOK'
  BY DEF EmptyFront, PushFits, SizesStand
<1>2. Ownership'
  BY DEF Critical
<1>3. AtMostOnePlace'
  BY DEF AtMostOnePlace, NoneForUnmade, Keeps, Queues, PushFits, ArgFits, EmptyFront
<1>4. SomePlace'
  BY DEF SomePlace, Keeps, Queues, PushFits, ArgFits, EmptyFront
<1>5. NoneForUnmade'
  BY DEF NoneForUnmade, Keeps, Queues, PushFits, ArgFits, EmptyFront
<1>6. ArgFits'
  BY DEF ArgFits, AtMostOnePlace, NoneForUnmade, Keeps, Queues, EmptyFront, PushFits
<1>7. PushFits'
  BY DEF PushFits
<1>8. EmptyFront'
  BY DEF EmptyFront, Queues, PushFits, ArgFits
<1>9. SizesStand'
  BY DEF SizesStand, PushFits, EmptyFront
<1>10. QED
  BY <1>1, <1>2, <1>3, <1>4, <1>5, <1>6, <1>7, <1>8, <1>9

LEMMA InitDoneKeeps ==
    ASSUME LonePushes = TRUE, IInv, NEW t \in Thread,
           InitDone(t)
    PROVE  IInv'
<1> USE ObjectPoolAssumption
    DEF InitDone, At, Goto, Size, Slot, Pushing, IInv, TypeOK, Ownership, Critical
<1>1. TypeOK'
  BY DEF EmptyFront, PushFits, SizesStand
<1>2. Ownership'
  BY DEF Critical
<1>3. AtMostOnePlace'
  BY DEF AtMostOnePlace, NoneForUnmade, Keeps, Queues, PushFits, ArgFits, EmptyFront
<1>4. SomePlace'
  BY DEF SomePlace, Keeps, Queues, PushFits, ArgFits, EmptyFront
<1>5. NoneForUnmade'
  BY DEF NoneForUnmade, Keeps, Queues, PushFits, ArgFits, EmptyFront
<1>6. ArgFits'
  BY DEF ArgFits, AtMostOnePlace, NoneForUnmade, Keeps, Queues, EmptyFront, PushFits
<1>7. PushFits'
  BY DEF PushFits
<1>8. EmptyFront'
  BY DEF EmptyFront, Queues, PushFits, ArgFits
<1>9. SizesStand'
  BY DEF SizesStand, PushFits, EmptyFront
<1>10. QED
  BY <1>1, <1>2, <1>3, <1>4, <1>5, <1>6, <1>7, <1>8, <1>9

LEMMA TakeFrontKeeps ==
    ASSUME LonePushes = TRUE, IInv, NEW t \in Thread,
           TakeFront(t)
    PROVE  IInv'
<1> USE ObjectPoolAssumption
    DEF TakeFront, HasIdle, At, Goto, Size, Slot, Pushing, IInv, TypeOK, Ownership, Critical
<1>1. TypeOK'
  BY DEF EmptyFront, PushFits, SizesStand
<1>2. Ownership'
  BY DEF Critical
<1>3. AtMostOnePlace'
  BY DEF AtMostOnePlace, NoneForUnmade, Keeps, Queues, PushFits, ArgFits, EmptyFront
<1>4. SomePlace'
  BY DEF SomePlace, Keeps, Queues, PushFits, ArgFits, EmptyFront
<1>5. NoneForUnmade'
  BY DEF NoneForUnmade, Keeps, Queues, PushFits, ArgFits, EmptyFront
<1>6. ArgFits'
  BY DEF ArgFits, AtMostOnePlace, NoneForUnmade, Keeps, Queues, EmptyFront, PushFits
<1>7. PushFits'
  BY DEF PushFits
<1>8. EmptyFront'
  BY DEF EmptyFront, Queues, PushFits, ArgFits
<1>9. SizesStand'
  BY DEF SizesStand, PushFits, EmptyFront
<1>10. QED
  BY <1>1, <1>2, <1>3, <1>4, <1>5, <1>6, <1>7, <1>8, <1>9

LEMMA TakePopKeeps ==
    ASSUME LonePushes = TRUE, IInv, NEW t \in Thread,
           TakePop(t)
    PROVE  IInv'
<1> USE ObjectPoolAssumption
    DEF TakePop, At, Goto, Size, Slot, Pushing, IInv, TypeOK, Ownership, Critical
<1>1. TypeOK'
  BY DEF EmptyFront, PushFits, SizesStand
<1>2. Ownership'
  BY DEF Critical
<1>3. AtMostOnePlace'
  BY DEF AtMostOnePlace, NoneForUnmade, Keeps, Queues, PushFits, ArgFits, EmptyFront
<1>4. SomePlace'
  <2> SUFFICES ASSUME NEW p \in made
               PROVE  (\E u \in Thread : Keeps(u, p)') \/ (\E i \in Slot : Queues(i, p)')
    BY DEF SomePlace
  <2>1. CASE \E u \in Thread : Keeps(u, p)
    BY <2>1 DEF Keeps
  <2>2. CASE \E i \in Slot : Queues(i, p)
    <3>1. p # None /\ slot[start] = None
      BY DEF EmptyFront
    <3>2. QED
      BY <2>2, <3>1 DEF Queues
  <2>3. QED
    BY <2>1, <2>2 DEF SomePlace
<1>5. NoneForUnmade'
  BY DEF NoneForUnmade, Keeps, Queues, PushFits, ArgFits, EmptyFront
<1>6. ArgFits'
  BY DEF ArgFits, AtMostOnePlace, NoneForUnmade, Keeps, Queues, EmptyFront, PushFits
<1>7. PushFits'
  BY DEF PushFits
<1>8. EmptyFront'
  BY DEF EmptyFront, Queues, PushFits, ArgFits
<1>9. SizesStand'
  BY DEF SizesStand, PushFits, EmptyFront
<1>10. QED
  BY <1>1, <1>2, <1>3, <1>4, <1>5, <1>6, <1>7, <1>8, <1>9

LEMMA AddCallKeeps ==
    ASSUME LonePushes = TRUE, IInv, NEW t \in Thread, NEW o \in Object,
           AddCall(t, o)
    PROVE  IInv'
<1> USE ObjectPoolAssumption
    DEF AddCall, HasRoom, At, Goto, Size, Slot, Pushing, IInv, TypeOK, Ownership, Critical
<1>1. TypeOK'
  BY DEF EmptyFront, PushFits, SizesStand
<1>2. Ownership'
  BY DEF Critical
<1>3. AtMostOnePlace'
  BY DEF AtMostOnePlace, NoneForUnmade, Keeps, Queues, PushFits, ArgFits, EmptyFront
<1>4. SomePlace'
  <2> SUFFICES ASSUME NEW p \in made'
               PROVE  (\E u \in Thread : Keeps(u, p)') \/ (\E i \in Slot : Queues(i, p)')
    BY DEF SomePlace
  <2>1. CASE p = o
    BY <2>1 DEF Keeps
  <2>2. CASE \E u \in Thread : Keeps(u, p)
    BY <2>2 DEF Keeps, ArgFits
  <2>3. CASE \E i \in Slot : Queues(i, p)
    BY <2>3 DEF Queues
  <2>4. QED
    BY <2>1, <2>2, <2>3 DEF SomePlace
<1>5. NoneForUnmade'
  BY DEF NoneForUnmade, Keeps, Queues, PushFits, ArgFits, EmptyFront
<1>6. ArgFits'
  BY DEF ArgFits, AtMostOnePlace, NoneForUnmade, Keeps, Queues, EmptyFront, PushFits
<1>7. PushFits'
  BY DEF PushFits
<1>8. EmptyFront'
  BY DEF EmptyFront, Queues, PushFits, ArgFits
<1>9. SizesStand'
  BY DEF SizesStand, PushFits, EmptyFront
<1>10. QED
  BY <1>1, <1>2, <1>3, <1>4, <1>5, <1>6, <1>7, <1>8, <1>9

LEMMA AddElementKeeps ==
    ASSUME LonePushes = TRUE, IInv, NEW t \in Thread,
           AddElement(t)
    PROVE  IInv'
<1> USE ObjectPoolAssumption
    DEF AddElement, PushElement, Returning, At, Goto, Size, Slot, Pushing,
        IInv, TypeOK, Ownership, Critical
<1>1. TypeOK'
  BY DEF EmptyFront, PushFits, SizesStand
<1>2. Ownership'
  BY DEF Critical
<1>3. AtMostOnePlace'
  BY DEF AtMostOnePlace, NoneForUnmade, Keeps, Queues, PushFits, ArgFits, EmptyFront
<1>4. SomePlace'
  <2> SUFFICES ASSUME NEW p \in made
               PROVE  (\E u \in Thread : Keeps(u, p)') \/ (\E i \in Slot : Queues(i, p)')
    BY DEF SomePlace
  <2>1. CASE \E u \in Thread : Keeps(u, p)
    BY <2>1 DEF Keeps
  <2>2. CASE \E i \in Slot : Queues(i, p)
    BY <2>2 DEF Queues
  <2>3. QED
    BY <2>1, <2>2 DEF SomePlace
<1>5. NoneForUnmade'
  BY DEF NoneForUnmade, Keeps, Queues, PushFits, ArgFits, EmptyFront
<1>6. ArgFits'
  BY DEF ArgFits, AtMostOnePlace, NoneForUnmade, Keeps, Queues, EmptyFront, PushFits
<1>7. PushFits'
  BY DEF PushFits
<1>8. EmptyFront'
  BY DEF EmptyFront, Queues, PushFits, ArgFits
<1>9. SizesStand'
  BY DEF SizesStand, PushFits, EmptyFront
<1>10. QED
  BY <1>1, <1>2, <1>3, <1>4, <1>5, <1>6, <1>7, <1>8, <1>9

LEMMA AddPushKeeps ==
    ASSUME LonePushes = TRUE, IInv, NEW t \in Thread,
           AddPush(t)
    PROVE  IInv'
<1> USE ObjectPoolAssumption
    DEF AddPush, MoveFinish, At, Goto, Size, Slot, Pushing,
        IInv, TypeOK, Ownership, Critical
<1>1. TypeOK'
  BY DEF EmptyFront, PushFits, SizesStand
<1>2. Ownership'
  BY DEF Critical
<1>3. AtMostOnePlace'
  BY DEF AtMostOnePlace, NoneForUnmade, Keeps, Queues, PushFits, ArgFits, EmptyFront
<1>4. SomePlace'
  <2> SUFFICES ASSUME NEW p \in made
               PROVE  (\E u \in Thread : Keeps(u, p)') \/ (\E i \in Slot : Queues(i, p)')
    BY DEF SomePlace
  <2>0. finish \in Slot /\ start <= finish /\ finish' = finish + 1 /\ slot[finish] = arg[t]
    BY DEF PushFits
  <2>1. CASE p = arg[t]
    BY <2>0, <2>1 DEF Queues
  <2>2. CASE p # arg[t] /\ \E u \in Thread : Keeps(u, p)
    BY <2>2 DEF Keeps
  <2>3. CASE \E i \in Slot : Queues(i, p)
    BY <2>0, <2>3 DEF Queues
  <2>4. QED
    BY <2>1, <2>2, <2>3 DEF SomePlace
<1>5. NoneForUnmade'
  BY DEF NoneForUnmade, Keeps, Queues, PushFits, ArgFits, EmptyFront
<1>6. ArgFits'
  BY DEF ArgFits, AtMostOnePlace, NoneForUnmade, Keeps, Queues, EmptyFront, PushFits
<1>7. PushFits'
  BY DEF PushFits
<1>8. EmptyFront'
  <2>1. \A i \in Slot : Queues(i, None)' => Queues(i, None)
    BY DEF Queues, PushFits, ArgFits
  <2>2. \A u \in Thread : At(u, "take")' <=> At(u, "take")
    OBVIOUS
  <2>3. QED
    BY <2>1, <2>2 DEF EmptyFront, PushFits
<1>9. SizesStand'
  BY DEF SizesStand, PushFits, EmptyFront
<1>10. QED
  BY <1>1, <1>2, <1>3, <1>4, <1>5, <1>6, <1>7, <1>8, <1>9

LEMMA ReturnCallKeeps ==
    ASSUME LonePushes = TRUE, IInv, NEW t \in Thread, NEW o \in Object,
           ReturnCall(t, o)
    PROVE  IInv'
<1> USE ObjectPoolAssumption
    DEF ReturnCall, PushElement, At, Goto, Size, Slot, Pushing,
        IInv, TypeOK, Ownership, Critical
<1>1. TypeOK'
  BY DEF EmptyFront, PushFits, SizesStand
<1>2. Ownership'
  BY DEF Critical
<1>3. AtMostOnePlace'
  BY DEF AtMostOnePlace, NoneForUnmade, Keeps, Queues, PushFits, ArgFits, EmptyFront
<1>4. SomePlace'
  BY DEF SomePlace, Keeps, Queues, PushFits, ArgFits, EmptyFront
<1>5. NoneForUnmade'
  BY DEF NoneForUnmade, Keeps, Queues, PushFits, ArgFits, EmptyFront
<1>6. ArgFits'
  BY DEF ArgFits, AtMostOnePlace, NoneForUnmade, Keeps, Queues, EmptyFront, PushFits
<1>7. PushFits'
  BY DEF PushFits
<1>8. EmptyFront'
  BY DEF EmptyFront, Queues, PushFits, ArgFits
<1>9. SizesStand'
  BY DEF SizesStand, PushFits, EmptyFront
<1>10. QED
  BY <1>1, <1>2, <1>3, <1>4, <1>5, <1>6, <1>7, <1>8, <1>9

LEMMA ReturnPushKeeps ==
    ASSUME LonePushes = TRUE, IInv, NEW t \in Thread,
           ReturnPush(t)
    PROVE  IInv'
<1> USE ObjectPoolAssumption
    DEF ReturnPush, CountReturn, MoveFinish, At, Goto, Size, Slot, Pushing,
        IInv, TypeOK, Ownership, Critical
<1>1. TypeOK'
  BY DEF EmptyFront, PushFits, SizesStand
<1>2. Ownership'
  BY DEF Critical
<1>3. AtMostOnePlace'
  BY DEF AtMostOnePlace, NoneForUnmade, Keeps, Queues, PushFits, ArgFits, EmptyFront
<1>4. SomePlace'
  <2> SUFFICES ASSUME NEW p \in made
               PROVE  (\E u \in Thread : Keeps(u, p)') \/ (\E i \in Slot : Queues(i, p)')
    BY DEF SomePlace
  <2>0. finish \in Slot /\ start <= finish /\ finish' = finish + 1 /\ slot[finish] = arg[t]
    BY DEF PushFits
  <2>1. CASE p = arg[t]
    BY <2>0, <2>1 DEF Queues
  <2>2. CASE p # arg[t] /\ \E u \in Thread : Keeps(u, p)
    BY <2>2 DEF Keeps
  <2>3. CASE \E i \in Slot : Queues(i, p)
    BY <2>0, <2>3 DEF Queues
  <2>4. QED
    BY <2>1, <2>2, <2>3 DEF SomePlace
<1>5. NoneForUnmade'
  BY DEF NoneForUnmade, Keeps, Queues, PushFits, ArgFits, EmptyFront
<1>6. ArgFits'
  BY DEF ArgFits, AtMostOnePlace, NoneForUnmade, Keeps, Queues, EmptyFront, PushFits
<1>7. PushFits'
  BY DEF PushFits
<1>8. EmptyFront'
  <2>1. \A i \in Slot : Queues(i, None)' => Queues(i, None)
    BY DEF Queues, PushFits, ArgFits
  <2>2. \A u \in Thread : At(u, "take")' <=> At(u, "take")
    OBVIOUS
  <2>3. QED
    BY <2>1, <2>2 DEF EmptyFront, PushFits
<1>9. SizesStand'
  BY DEF SizesStand, PushFits, EmptyFront
<1>10. QED
  BY <1>1, <1>2, <1>3, <1>4, <1>5, <1>6, <1>7, <1>8, <1>9

------------------------------------------------------------------------------
LEMMA InitEstablishes == Init => IInv
<1> SUFFICES ASSUME Init
             PROVE  IInv
  OBVIOUS
<1> USE ObjectPoolAssumption DEF Init
<1>1. TypeOK
  <2>1. 0 \in Slot /\ 0 \in 0 .. Slots
    BY DEF Slot
  <2>2. Size = 0
    BY DEF Size
  <2>3. QED
    BY <2>1, <2>2 DEF TypeOK
<1>2. Ownership /\ ArgFits
  BY DEF Ownership, Critical, ArgFits
<1>3. \A o \in Object : ~(\E t \in Thread : Keeps(t, o)) /\ ~(\E i \in Slot : Queues(i, o))
  BY DEF Keeps, Queues, Slot
<1>4. AtMostOnePlace /\ SomePlace /\ NoneForUnmade
  BY <1>3 DEF AtMostOnePlace, SomePlace, NoneForUnmade
<1>5. PushFits /\ EmptyFront /\ SizesStand
  BY DEF PushFits, EmptyFront, SizesStand, Pushing, Queues, Slot, At
<1>6. QED
  BY <1>1, <1>2, <1>4, <1>5 DEF IInv

LEMMA NextKeeps ==
    ASSUME LonePushes = TRUE, IInv, [Next]_vars
    PROVE  IInv'
<1>1. CASE UNCHANGED vars
  BY <1>1 DEF vars, IInv, TypeOK, Ownership, AtMostOnePlace, SomePlace, NoneForUnmade,
              ArgFits, PushFits, EmptyFront, SizesStand, Keeps, Queues, Size, Pushing, At
<1>2. CASE Next
  BY <1>2, InitCallKeeps, InitConstructKeeps, InitPushKeeps, InitThrowKeeps, InitDoneKeeps,
     TakeFrontKeeps, TakePopKeeps, AddCallKeeps, AddElementKeeps, AddPushKeeps,
     ReturnCallKeeps, ReturnPushKeeps DEF Next
<1>3. QED
  BY <1>1, <1>2

\* The inductive invariant holds throughout, if no push overlaps with the push
\* of a deleter.
THEOREM Invariance ==
    ASSUME LonePushes = TRUE
    PROVE  Spec => []IInv
BY InitEstablishes, NextKeeps, PTL DEF Spec

\* Variables have their types; in particular pool_.size() never wraps below 0.
THEOREM TypeCorrect ==
    ASSUME LonePushes = TRUE
    PROVE  Spec => []TypeOK
<1>1. IInv => TypeOK
  BY DEF IInv
<1>2. QED
  BY Invariance, <1>1, PTL

------------------------------------------------------------------------------
(* Where objects are.                                                       *)

LEMMA OnePlace ==
    ASSUME IInv, NEW o \in made
    PROVE  \E p : Places(o) = {p}
<1>1. o \in Object
  BY DEF IInv, TypeOK
<1>2. Places(o) = {i \in Slot : Queues(i, o)} \cup {t \in Thread : Keeps(t, o)}
  BY DEF Places, Queues, Keeps
<1>3. CASE \E t \in Thread : Keeps(t, o)
  BY <1>1, <1>2, <1>3 DEF IInv, AtMostOnePlace
<1>4. CASE \E i \in Slot : Queues(i, o)
  BY <1>1, <1>2, <1>4 DEF IInv, AtMostOnePlace
<1>5. QED
  BY <1>3, <1>4 DEF IInv, SomePlace

\* Every object made for the pool is in exactly one place: a slot of the queue,
\* a handle or an operation under way.
THEOREM ObjectsAreKept ==
    ASSUME LonePushes = TRUE
    PROVE  Spec => []NoObjectLost
<1>1. IInv => NoObjectLost
  BY OnePlace, FS_Singleton DEF NoObjectLost
<1>2. QED
  BY Invariance, <1>1, PTL

\* take_one never hands out an empty handle for a pool that is not empty.
THEOREM HandlesAreFull ==
    ASSUME LonePushes = TRUE
    PROVE  Spec => []NoEmptyHandle
<1>1. IInv => NoEmptyHandle
  BY DEF IInv, ArgFits, NoEmptyHandle, At
<1>2. QED
  BY Invariance, <1>1, PTL

------------------------------------------------------------------------------
(* The maximum.                                                             *)

LEMMA AddExceedsByReturns ==
    ASSUME IInv, NEW t \in Thread, AddPush(t)
    PROVE  Size' <= MaxPoolSize + returned
<1>1. finish' = finish + 1 /\ start' = start
  BY DEF AddPush, MoveFinish, IInv, PushFits, Pushing, At
<1>2. Size + 1 <= MaxPoolSize + returned
  BY ObjectPoolAssumption DEF AddPush, At, IInv, SizesStand, TypeOK, Size
<1>3. QED
  BY <1>1, <1>2, ObjectPoolAssumption DEF Size, IInv, TypeOK

LEMMA OthersDoNotGrow ==
    ASSUME IInv, NEW t \in Thread,
           \/ \E n \in InitSize : InitCall(t, n)
           \/ \E o \in Object : InitConstruct(t, o) \/ AddCall(t, o) \/ ReturnCall(t, o)
           \/ InitThrow(t) \/ InitDone(t) \/ TakeFront(t) \/ TakePop(t) \/ AddElement(t)
    PROVE  Size' <= Size
BY ObjectPoolAssumption
   DEF InitCall, InitConstruct, AddCall, ReturnCall, InitThrow, InitDone, TakeFront, TakePop,
       AddElement, PushElement, Size, IInv, TypeOK

\* Only deleters and init take the pool above max_pool_size_, and an add_one that
\* objects come back under: those that come back between its test of the size and
\* its push, and no others, are what it may exceed the maximum by.
THEOREM ExcessIsOfReturns ==
    ASSUME LonePushes = TRUE
    PROVE  Spec => OnlyReturnsExceed
<1> DEFINE Exceeds(t) == \/ ReturnPush(t)
                         \/ InitPush(t)
                         \/ AddPush(t) /\ Size' <= MaxPoolSize + returned
<1> DEFINE A == Size' > MaxPoolSize /\ Size' > Size =>
                  \E t \in Thread : Exceeds(t)
<1>1. ASSUME IInv, [Next]_vars
      PROVE  [A]_vars
  <2>1. SUFFICES ASSUME Next, Size' > MaxPoolSize, Size' > Size
                 PROVE  \E t \in Thread : Exceeds(t)
    BY <1>1
  <2>2. Size \in Int /\ MaxPoolSize \in Int /\ Size' \in Int
    BY <1>1, <2>1, ObjectPoolAssumption, NextKeeps DEF IInv, TypeOK, Size
  <2>3. PICK t \in Thread :
           \/ \E n \in InitSize : InitCall(t, n)
           \/ \E o \in Object : InitConstruct(t, o) \/ AddCall(t, o) \/ ReturnCall(t, o)
           \/ InitPush(t) \/ InitThrow(t) \/ InitDone(t)
           \/ TakeFront(t) \/ TakePop(t)
           \/ AddElement(t) \/ AddPush(t) \/ ReturnPush(t)
    BY <2>1 DEF Next
  <2>4. AddPush(t) => Exceeds(t)
    BY <1>1, AddExceedsByReturns
  <2>5. QED
    BY <1>1, <2>1, <2>2, <2>3, <2>4, OthersDoNotGrow
<1>2. QED
  BY Invariance, <1>1, PTL DEF Spec, OnlyReturnsExceed

------------------------------------------------------------------------------
(* The abstract queue.                                                      *)

\* The slots from first on, below last, as a sequence.
Window(s, first, last) == [i \in 1 .. last - first |-> s[first + i - 1]]

LEMMA WindowIsSequence ==
    ASSUME NEW first \in Nat, NEW last \in Nat, first <= last, NEW s, NEW S,
           \A i \in Nat : first <= i /\ i < last => s[i] \in S
    PROVE  Window(s, first, last) \in Seq(S) /\ Len(Window(s, first, last)) = last - first
<1>1. \A i \in 1 .. last - first : s[first + i - 1] \in S
  OBVIOUS
<1>2. QED
  BY <1>1 DEF Window

LEMMA WindowGrows ==
    ASSUME NEW first \in Nat, NEW last \in Nat, first <= last, NEW s, NEW S,
           \A i \in Nat : first <= i /\ i < last => s[i] \in S
    PROVE  Window(s, first, last + 1) = Append(Window(s, first, last), s[last])
BY WindowIsSequence DEF Window

LEMMA WindowShrinks ==
    ASSUME NEW first \in Nat, NEW last \in Nat, first < last, NEW s, NEW S,
           \A i \in Nat : first <= i /\ i < last => s[i] \in S
    PROVE  /\ Window(s, first, last) # <<>>
           /\ Head(Window(s, first, last)) = s[first]
           /\ Tail(Window(s, first, last)) = Window(s, first + 1, last)
<1> DEFINE w == Window(s, first, last)
<1>1. w \in Seq(S) /\ Len(w) = last - first
  BY WindowIsSequence
<1>2. w # <<>> /\ w[1] = s[first]
  BY <1>1 DEF Window
<1>3. \A i \in 1 .. last - first - 1 : w[i + 1] = s[first + 1 + i - 1]
  BY DEF Window
<1>4. /\ Window(s, first + 1, last) \in Seq(S)
      /\ Len(Window(s, first + 1, last)) = last - first - 1
      /\ \A i \in 1 .. last - first - 1 : Window(s, first + 1, last)[i] = s[first + 1 + i - 1]
  BY WindowIsSequence DEF Window
<1> HIDE DEF w
<1>5. /\ Tail(w) \in Seq(S) /\ Len(Tail(w)) = last - first - 1
      /\ \A i \in 1 .. last - first - 1 : Tail(w)[i] = w[i + 1]
  BY <1>1, <1>2, HeadTailProperties
<1>6. Tail(w) = Window(s, first + 1, last)
  BY <1>3, <1>4, <1>5, SeqEqual
<1>7. Head(w) = s[first]
  BY <1>1, <1>2
<1>8. QED
  BY <1>2, <1>6, <1>7 DEF w

\* The first slot of the abstract queue: an object is lent once it is released
\* from the front element.
First == IF \E t \in Thread : At(t, "take") THEN start + 1 ELSE start

LEMMA QueuedIsWindow ==
    Queued = Window(slot, First, finish) /\ Queued' = Window(slot', First', finish')
BY DEF Queued, Window, First

LEMMA FullFromFirst ==
    ASSUME IInv
    PROVE  /\ First \in Nat /\ finish \in Nat /\ First <= finish
           /\ start <= First /\ finish <= Slots
           /\ \A i \in Nat : First <= i /\ i < finish => i \in Slot /\ slot[i] \in Object
<1>1. First \in Nat /\ finish \in Nat /\ First <= finish /\ start <= First /\ finish <= Slots
  BY ObjectPoolAssumption DEF First, IInv, TypeOK, EmptyFront, Size
<1>2. ASSUME NEW i \in Nat, First <= i, i < finish
      PROVE  i \in Slot /\ slot[i] \in Object
  <2>1. start <= i /\ i \in Slot
    BY <1>1, <1>2, ObjectPoolAssumption DEF IInv, TypeOK, Slot
  <2>2. slot[i] # None
    BY <1>2, <2>1 DEF First, IInv, EmptyFront, Queues, TypeOK
  <2>3. QED
    BY <2>1, <2>2 DEF IInv, TypeOK
<1>3. QED
  BY <1>1, <1>2

LEMMA QueuedAreQueues ==
    ASSUME IInv, NEW o \in Idle!ToSet(Queued)
    PROVE  \E i \in Slot : Queues(i, o)
<1>1. PICK k \in 1 .. finish - First : o = slot[First + k - 1]
  BY DEF Idle!ToSet, Queued, First
<1>2. First + k - 1 \in Slot /\ start <= First + k - 1 /\ First + k - 1 < finish
  BY FullFromFirst DEF IInv, TypeOK
<1>3. QED
  BY <1>1, <1>2 DEF Queues

LEMMA InUseMembers ==
    /\ \A o : o \in InUse <=>
          \E t \in Thread : o \in held[t] \/ (pc[t] = "take" /\ o = arg[t])
    /\ \A o : o \in InUse' <=>
          \E t \in Thread : o \in held'[t] \/ (pc'[t] = "take" /\ o = arg'[t])
BY DEF InUse, At

\* A step that leaves the abstract queue and the objects in use as they are.
LEMMA QueuedStays ==
    ASSUME IInv, finish' = finish, First' = First,
           \A i \in Slot : i < finish => slot'[i] = slot[i]
    PROVE  Queued' = Queued
<1>1. \A i \in 1 .. finish - First : slot'[First + i - 1] = slot[First + i - 1]
  BY FullFromFirst
<1>2. QED
  BY <1>1, QueuedIsWindow DEF Window

LEMMA StutterOfIdle ==
    ASSUME LonePushes = TRUE, IInv, NEW t \in Thread,
           \/ \E n \in InitSize : InitCall(t, n)
           \/ \E o \in Object : InitConstruct(t, o) \/ AddCall(t, o) \/ ReturnCall(t, o)
           \/ InitThrow(t) \/ InitDone(t) \/ TakePop(t) \/ AddElement(t)
    PROVE  UNCHANGED <<Queued, InUse>>
<1> USE DEF IInv, TypeOK, At, Goto
<1>1. CASE TakePop(t)
  <2>1. pc[t] = "take" /\ \A u \in Thread : pc'[u] # "take"
    BY <1>1 DEF TakePop, Ownership, Critical
  <2>2. First' = First /\ finish' = finish /\ slot' = slot
    BY <1>1, <2>1 DEF TakePop, First
  <2>3. arg[t] # None
    BY <2>1 DEF ArgFits
  <2>4. \A o : o \in InUse' <=> o \in InUse
    BY <1>1, <2>1, <2>3, InUseMembers DEF TakePop, Ownership, Critical
  <2>5. QED
    BY <2>2, <2>4, QueuedStays
<1>2. CASE ~TakePop(t)
  <2>1. finish' = finish /\ start' = start /\ held' = held
    BY <1>2 DEF InitCall, InitConstruct, AddCall, ReturnCall, InitThrow, InitDone,
                 AddElement
  <2>2. \A i \in Slot : i < finish => slot'[i] = slot[i]
    BY <1>2 DEF InitCall, InitConstruct, AddCall, ReturnCall, InitThrow, InitDone,
                 AddElement, PushElement
  <2>3. \A u \in Thread : /\ pc'[u] = "take" <=> pc[u] = "take"
                          /\ pc[u] = "take" => arg'[u] = arg[u]
    BY <1>2 DEF InitCall, InitConstruct, AddCall, ReturnCall, InitThrow, InitDone,
                 AddElement, PushElement
  <2>4. First' = First
    BY <2>1, <2>3 DEF First
  <2>5. \A o : o \in InUse' <=> o \in InUse
    BY <2>1, <2>3, InUseMembers
  <2>6. QED
    BY <2>1, <2>2, <2>4, <2>5, QueuedStays
<1>3. QED
  BY <1>1, <1>2

\* The object is lent when it is released from the front element.
LEMMA TakeOfIdle ==
    ASSUME LonePushes = TRUE, IInv, NEW t \in Thread, TakeFront(t)
    PROVE  Idle!Take
<1> USE DEF TakeFront, IInv, TypeOK, At, Goto
<1>1. \A u \in Thread : pc[u] # "take"
  BY ObjectPoolAssumption DEF Ownership, Critical
<1>2. First = start /\ start < finish /\ start \in Nat /\ finish \in Nat
  BY <1>1, ObjectPoolAssumption DEF First, HasIdle, Size
<1>3. First' = start + 1 /\ finish' = finish
  BY DEF First
<1>4. \A i \in Nat : start <= i /\ i < finish => slot[i] \in Object
  BY <1>2, FullFromFirst
<1>5. Queued # <<>> /\ Head(Queued) = slot[start] /\ Tail(Queued) = Window(slot, start + 1, finish)
  BY <1>2, <1>4, WindowShrinks, QueuedIsWindow
<1>6. \A i \in 1 .. finish - (start + 1) : slot'[start + 1 + i - 1] = slot[start + 1 + i - 1]
  BY <1>2, FullFromFirst
<1>7. Queued' = Tail(Queued)
  <2>1. Window(slot', start + 1, finish) = Window(slot, start + 1, finish)
    BY <1>6 DEF Window
  <2>2. QED
    BY <1>3, <1>5, <2>1, QueuedIsWindow
<1>8. \A o : o \in InUse' <=> o \in InUse \/ o = slot[start]
  <2>1. pc'[t] = "take" /\ arg'[t] = slot[start] /\ held' = held
    BY <1>1
  <2>2. \A u \in Thread : u # t => pc'[u] = pc[u] /\ arg'[u] = arg[u]
    BY <1>1
  <2>3. QED
    BY <1>1, <2>1, <2>2, InUseMembers
<1>9. QED
  BY <1>5, <1>7, <1>8 DEF Idle!Take

\* The end of a push puts the object of the push behind the queue.
LEMMA PushAppends ==
    ASSUME IInv, NEW t \in Pushing, MoveFinish(t), UNCHANGED <<slot, start>>,
           \A u \in Thread : pc'[u] = "take" <=> pc[u] = "take"
    PROVE  Queued' = Append(Queued, arg[t])
<1>1. finish' = finish + 1 /\ slot[finish] = arg[t]
  BY DEF MoveFinish, IInv, PushFits
<1>2. First' = First
  BY DEF First, At
<1>3. Window(slot, First, finish + 1) = Append(Window(slot, First, finish), slot[finish])
  <2>1. First \in Nat /\ finish \in Nat /\ First <= finish
    BY FullFromFirst
  <2>2. \A i \in Nat : First <= i /\ i < finish => slot[i] \in Object
    BY FullFromFirst
  <2>3. QED
    BY <2>1, <2>2, WindowGrows
<1>4. QED
  BY <1>1, <1>2, <1>3, QueuedIsWindow

LEMMA AddOfIdle ==
    ASSUME LonePushes = TRUE, IInv, NEW t \in Thread, InitPush(t) \/ AddPush(t)
    PROVE  Idle!Add(arg[t]) /\ arg[t] \in Object
<1> USE DEF InitPush, AddPush, IInv, TypeOK, At, Goto
<1>1. t \in Pushing /\ arg[t] \in Object /\ MoveFinish(t) /\ UNCHANGED <<slot, start, held>>
  BY DEF Pushing, ArgFits
<1>2. \A u \in Thread : /\ pc'[u] = "take" <=> pc[u] = "take"
                        /\ pc[u] = "take" => arg'[u] = arg[u] /\ u # t
  BY DEF MoveFinish
<1>3. Queued' = Append(Queued, arg[t])
  BY <1>1, <1>2, PushAppends
<1>4. \A o : o \in InUse' <=> o \in InUse
  BY <1>1, <1>2, InUseMembers
<1>5. Keeps(t, arg[t]) /\ arg[t] \notin held[t]
  BY DEF Keeps, ArgFits
<1>6. arg[t] \notin Idle!ToSet(Queued)
  BY <1>1, <1>5, QueuedAreQueues DEF AtMostOnePlace
<1>7. arg[t] \notin InUse
  BY <1>1, <1>2, <1>5, InUseMembers DEF AtMostOnePlace, Keeps
<1>8. QED
  BY <1>1, <1>3, <1>4, <1>6, <1>7 DEF Idle!Add

LEMMA ReturnOfIdle ==
    ASSUME LonePushes = TRUE, IInv, NEW t \in Thread, ReturnPush(t)
    PROVE  Idle!Return(arg[t]) /\ arg[t] \in Object
<1> USE DEF ReturnPush, IInv, TypeOK, At, Goto
<1>1. t \in Pushing /\ arg[t] \in Object /\ arg[t] \in held[t] /\ MoveFinish(t)
  BY DEF Pushing, ArgFits
<1>2. \A u \in Thread : /\ pc'[u] = "take" <=> pc[u] = "take"
                        /\ pc[u] = "take" => arg'[u] = arg[u] /\ u # t
                        /\ u # t => held'[u] = held[u]
  BY DEF MoveFinish
<1>3. Queued' = Append(Queued, arg[t])
  BY <1>1, <1>2, PushAppends
<1>4. \A u \in Thread : u # t => ~Keeps(u, arg[t])
  BY <1>1 DEF AtMostOnePlace, Keeps
<1>5. \A o : o \in InUse' <=> o \in InUse /\ o # arg[t]
  BY <1>1, <1>2, <1>4, InUseMembers DEF Keeps
<1>6. arg[t] \in InUse
  BY <1>1, InUseMembers
<1>7. QED
  BY <1>1, <1>3, <1>5, <1>6 DEF Idle!Return

\* The pool implements a queue of idle objects, each lent to one user at a time,
\* lent in the order in which they were added or came back.
THEOREM Refinement ==
    ASSUME LonePushes = TRUE
    PROVE  Spec => ImplementsIdlePool
<1>1. Init => Idle!Init
  <2> SUFFICES ASSUME Init
               PROVE  Idle!Init
    OBVIOUS
  <2>1. Queued = <<>>
    BY DEF Init, Queued, At
  <2>2. \A o : o \notin InUse
    BY InUseMembers DEF Init
  <2>3. QED
    BY <2>1, <2>2 DEF Idle!Init
<1>2. IInv /\ [Next]_vars => [Idle!Next]_(Idle!vars)
  <2> SUFFICES ASSUME IInv, [Next]_vars
               PROVE  [Idle!Next]_(Idle!vars)
    OBVIOUS
  <2>1. CASE UNCHANGED vars
    BY <2>1 DEF vars, Queued, InUse, At, Idle!vars
  <2>2. CASE Next
    <3>1. PICK t \in Thread :
             \/ \E n \in InitSize : InitCall(t, n)
             \/ \E o \in Object : InitConstruct(t, o) \/ AddCall(t, o) \/ ReturnCall(t, o)
             \/ InitPush(t) \/ InitThrow(t) \/ InitDone(t)
             \/ TakeFront(t) \/ TakePop(t)
             \/ AddElement(t) \/ AddPush(t) \/ ReturnPush(t)
      BY <2>2 DEF Next
    <3>2. CASE TakeFront(t)
      BY <3>2, TakeOfIdle DEF Idle!Next
    <3>3. CASE InitPush(t) \/ AddPush(t)
      BY <3>3, AddOfIdle DEF Idle!Next
    <3>4. CASE ReturnPush(t)
      BY <3>4, ReturnOfIdle DEF Idle!Next
    <3>5. QED
      BY <3>1, <3>2, <3>3, <3>4, StutterOfIdle DEF Idle!vars
  <2>3. QED
    BY <2>1, <2>2
<1>3. QED
  BY Invariance, <1>1, <1>2, PTL DEF Spec, ImplementsIdlePool, Idle!Spec
==============================================================================
