---------------------------- MODULE SingletonProofs ---------------------------
(***************************************************************************)
(* Singleton<T> gives a type one object: theorems about Singleton for any  *)
(* threads, types and constructors, and for both versions, when stores     *)
(* reach memory in program order.  (Without that order, a call may return  *)
(* a pointer to an object that is still being made.)                       *)
(***************************************************************************)
EXTENDS Singleton, SequenceTheorems, TLAPS

\* A constructor asks for types.
NeedsTypes == Needs \in [Type -> SUBSET Type]

------------------------------------------------------------------------------
(* The inductive invariant.                                                 *)

Places == {"look", "gate", "check", "new", "construct", "store", "leave"}
Frame == [type : Type, at : Places]
Depth(t) == Len(calls[t])

\* A call that has passed its gate and not left it.
Inside(call) == call.at \notin {"look", "gate"}

Made == {T \in Type : objects[T] > 0}

Values ==
    /\ calls \in [Thread -> Seq(Frame)]
    /\ objects \in [Type -> {0, 1}]
    /\ cleaners \in Seq(Type)
    /\ exiting \in BOOLEAN

\* A call that is not the innermost of its thread is in a constructor.
Nested == \A t \in Thread : \A k \in 1 .. Depth(t) - 1 : calls[t][k].at = "new"

\* Calls inside keep their gates closed, and are there alone.
Guarded ==
    \A t \in Thread : \A k \in 1 .. Depth(t) :
        Inside(calls[t][k]) => Gate(calls[t][k].type) \in held
Alone ==
    \A t, s \in Thread : \A k \in 1 .. Depth(t), j \in 1 .. Depth(s) :
        /\ Inside(calls[t][k]) /\ Inside(calls[s][j])
        /\ Gate(calls[t][k].type) = Gate(calls[s][j].type)
        => t = s /\ k = j

\* What a call at a place knows of its type.
Knows(call) ==
    /\ call.type \in ToSet(cleaners)
    /\ call.at \in {"new", "construct"} => call.type \notin Made
    /\ call.at = "store" => call.type \in Made \ instance_
    /\ call.at = "leave" => call.type \in instance_
Placed == \A t \in Thread : \A k \in 1 .. Depth(t) : Knows(calls[t][k])

\* An object is reached by its pointer, or was deleted, or is about to be stored.
BeingStored(T) ==
    \E t \in Thread : \E k \in 1 .. Depth(t) : calls[t][k].type = T /\ calls[t][k].at = "store"
Kept ==
    /\ instance_ \subseteq (Made \ gone) \cap ToSet(cleaners)
    /\ given \subseteq Made /\ gone \subseteq Made
    /\ \A T \in Made : T \in instance_ \cup gone \/ BeingStored(T)

\* Nothing is deleted before main has returned, and no call is made after.
AtExit ==
    /\ exiting => \A t \in Thread : calls[t] = <<>>
    /\ ~exiting => gone = {}

IInv == Values /\ Nested /\ Guarded /\ Alone /\ Placed /\ Kept /\ AtExit

------------------------------------------------------------------------------
(* Stacks of calls.                                                         *)

LEMMA Moved ==
    ASSUME NEW s \in Seq(Frame), s # <<>>, NEW place \in Places
    PROVE  /\ MovedTo(s, place) \in Seq(Frame) /\ Len(MovedTo(s, place)) = Len(s)
           /\ \A k \in 1 .. Len(s) - 1 : MovedTo(s, place)[k] = s[k]
           /\ MovedTo(s, place)[Len(s)].type = s[Len(s)].type
           /\ MovedTo(s, place)[Len(s)].at = place
<1>1. Len(s) \in Nat \ {0} /\ s[Len(s)] \in Frame
    BY EmptySeq
<1> DEFINE top == [s[Len(s)] EXCEPT !.at = place]
<1>2. top \in Frame /\ top.type = s[Len(s)].type /\ top.at = place
    BY <1>1 DEF Frame
<1> HIDE DEF top
<1>3. MovedTo(s, place) = [s EXCEPT ![Len(s)] = top]
    BY DEF MovedTo, ReplaceAt, Last, top
<1> QED
    BY <1>1, <1>2, <1>3

LEMMA Pushed ==
    ASSUME NEW s \in Seq(Frame), NEW T \in Type
    PROVE  LET r == Append(s, [type |-> T, at |-> "look"])
           IN  /\ r \in Seq(Frame) /\ Len(r) = Len(s) + 1
               /\ \A k \in 1 .. Len(s) : r[k] = s[k]
               /\ r[Len(s) + 1].type = T /\ r[Len(s) + 1].at = "look"
<1> DEFINE call == [type |-> T, at |-> "look"]
<1>1. call \in Frame /\ call.type = T /\ call.at = "look"
    BY DEF Frame, Places
<1> HIDE DEF call
<1>2. Append(s, call) \in Seq(Frame) /\ Len(Append(s, call)) = Len(s) + 1
      /\ (\A k \in 1 .. Len(s) : Append(s, call)[k] = s[k])
      /\ Append(s, call)[Len(s) + 1] = call
    BY <1>1
<1> QED
    BY <1>1, <1>2 DEF call

\* What is left of a stack after its innermost call has returned.
LEMMA Returned ==
    ASSUME NEW s \in Seq(Frame), s # <<>>
    PROVE  LET r == IF Len(s) = 1 THEN <<>> ELSE MovedTo(Front(s), "construct")
           IN  /\ r \in Seq(Frame) /\ Len(r) = Len(s) - 1
               /\ \A k \in 1 .. Len(s) - 2 : r[k] = s[k]
               /\ Len(s) # 1 => /\ r[Len(s) - 1].type = s[Len(s) - 1].type
                                /\ r[Len(s) - 1].at = "construct"
<1>1. Len(s) \in Nat \ {0}
    BY EmptySeq
<1>2. CASE Len(s) = 1
    BY <1>2
<1>3. CASE Len(s) # 1
  <2>0. 1 \in Int /\ Len(s) - 1 \in 1 .. Len(s) - 1 /\ (Len(s) - 1) - 1 + 1 = Len(s) - 1
    <3> DEFINE n == Len(s)
    <3> HIDE DEF n
    <3>1. n \in Nat \ {0} /\ n # 1
        BY <1>1, <1>3 DEF n
    <3>2. 1 \in Int /\ n - 1 \in 1 .. n - 1 /\ (n - 1) - 1 + 1 = n - 1
        BY <3>1
    <3> QED
        BY <3>2 DEF n
  <2>1. Front(s) \in Seq(Frame) /\ Len(Front(s)) = Len(s) - 1
        /\ \A k \in 1 .. Len(s) - 1 : Front(s)[k] = s[k]
    <3>1. \A i \in 1 .. Len(s) - 1 : s[i] \in Frame /\ 1 + i - 1 = i
        BY <1>1, ElementOfSeq
    <3> QED
        BY <2>0, <3>1, SubSeqProperties DEF Front
  <2>2. Front(s) # <<>> /\ "construct" \in Places
    BY <1>1, <1>3, <2>1 DEF Places
  <2> DEFINE r == MovedTo(Front(s), "construct")
  <2>3. /\ r \in Seq(Frame) /\ Len(r) = Len(s) - 1
        /\ \A k \in 1 .. Len(s) - 1 - 1 : r[k] = Front(s)[k]
        /\ r[Len(s) - 1].type = Front(s)[Len(s) - 1].type
        /\ r[Len(s) - 1].at = "construct"
    BY <2>1, <2>2, Moved
  <2> HIDE DEF r
  <2>4. \A k \in 1 .. Len(s) - 2 : r[k] = s[k]
    BY <1>1, <2>1, <2>3
  <2> QED
    BY <1>3, <2>1, <2>0, <2>3, <2>4, Zenon DEF r
<1> QED
    BY <1>2, <1>3

------------------------------------------------------------------------------
(* What the steps do to the calls.                                          *)

LEMMA TopIsFrame ==
    ASSUME Values, NEW t \in Thread, calls[t] # <<>>
    PROVE  /\ calls[t] \in Seq(Frame) /\ Depth(t) \in Nat \ {0} /\ Depth(t) \in 1 .. Depth(t)
           /\ Top(t) = calls[t][Depth(t)] /\ Top(t) \in Frame /\ Asked(t) \in Type
<1>1. calls[t] \in Seq(Frame)
    BY DEF Values
<1>2. Depth(t) \in Nat \ {0} /\ calls[t][Depth(t)] \in Frame
    BY <1>1, EmptySeq DEF Depth
<1> QED
    BY <1>1, <1>2 DEF Top, Asked, Last, Depth, Frame

LEMMA FrameOfCalls ==
    ASSUME Values, NEW t \in Thread
    PROVE  /\ Depth(t) \in Nat
           /\ \A k \in 1 .. Depth(t) : calls[t][k] \in Frame /\ calls[t][k].type \in Type
<1>1. calls[t] \in Seq(Frame)
    BY DEF Values
<1>2. Depth(t) \in Nat /\ \A k \in 1 .. Depth(t) : calls[t][k] \in Frame
    BY <1>1, ElementOfSeq DEF Depth
<1>3. \A call \in Frame : call.type \in Type
    BY DEF Frame
<1> QED
    BY <1>2, <1>3

\* The innermost call of t goes to another place.
LEMMA GoToLeaves ==
    ASSUME Values, NEW t \in Thread, calls[t] # <<>>, NEW place \in Places, GoTo(t, place)
    PROVE  /\ calls' \in [Thread -> Seq(Frame)]
           /\ \A s \in Thread : Depth(s)' = Depth(s)
           /\ \A s \in Thread : \A k \in 1 .. Depth(s) :
                 s # t \/ k # Depth(t) => calls'[s][k] = calls[s][k]
           /\ calls'[t][Depth(t)].type = Asked(t)
           /\ calls'[t][Depth(t)].at = place
<1>1. calls' = [calls EXCEPT ![t] = MovedTo(calls[t], place)] /\ calls \in [Thread -> Seq(Frame)]
    BY DEF GoTo, Values
<1> DEFINE r == MovedTo(calls[t], place)
<1>2. /\ r \in Seq(Frame) /\ Len(r) = Depth(t)
      /\ \A k \in 1 .. Depth(t) - 1 : r[k] = calls[t][k]
      /\ r[Depth(t)].type = calls[t][Depth(t)].type
      /\ r[Depth(t)].at = place
    BY TopIsFrame, Moved DEF Depth
<1> HIDE DEF r
<1>3. calls'[t] = r /\ \A s \in Thread \ {t} : calls'[s] = calls[s]
    BY <1>1 DEF r
<1>4. calls' \in [Thread -> Seq(Frame)]
    BY <1>1, <1>2 DEF r
<1>5. Asked(t) = calls[t][Depth(t)].type /\ Depth(t) \in Nat
    BY TopIsFrame DEF Asked
<1> QED
    BY <1>2, <1>3, <1>4, <1>5 DEF Depth

\* The innermost call of t returns.
LEMMA ReturnLeaves ==
    ASSUME Values, NEW t \in Thread, calls[t] # <<>>, Return(t)
    PROVE  /\ calls' \in [Thread -> Seq(Frame)]
           /\ Depth(t)' = Depth(t) - 1
           /\ \A s \in Thread \ {t} : calls'[s] = calls[s]
           /\ \A k \in 1 .. Depth(t) - 2 : calls'[t][k] = calls[t][k]
           /\ Depth(t) # 1 => /\ calls'[t][Depth(t) - 1].type = calls[t][Depth(t) - 1].type
                              /\ calls'[t][Depth(t) - 1].at = "construct"
<1> DEFINE r == IF Len(calls[t]) = 1 THEN <<>> ELSE MovedTo(Front(calls[t]), "construct")
<1>1. calls' = [calls EXCEPT ![t] = r] /\ calls \in [Thread -> Seq(Frame)]
    BY DEF Return, Values
<1>2. /\ r \in Seq(Frame) /\ Len(r) = Depth(t) - 1
      /\ \A k \in 1 .. Depth(t) - 2 : r[k] = calls[t][k]
      /\ Depth(t) # 1 => /\ r[Depth(t) - 1].type = calls[t][Depth(t) - 1].type
                         /\ r[Depth(t) - 1].at = "construct"
    BY TopIsFrame, Returned DEF Depth
<1> HIDE DEF r
<1>3. calls'[t] = r /\ \A s \in Thread \ {t} : calls'[s] = calls[s]
    BY <1>1
<1>4. calls' \in [Thread -> Seq(Frame)]
    BY <1>1, <1>2
<1> QED
    BY <1>2, <1>3, <1>4 DEF Depth

\* A call that is inside stays so, or one that is not, and the gates are as they were.
LEMMA StaysInside ==
    ASSUME IInv, NEW t \in Thread, calls[t] # <<>>, NEW place \in Places,
           Inside(Top(t)) <=> place \notin {"look", "gate"},
           GoTo(t, place), held' = held
    PROVE  Nested' /\ Guarded' /\ Alone'
<1>1. /\ \A s \in Thread : Depth(s)' = Depth(s) /\ Depth(s) \in Nat
      /\ \A s \in Thread : \A k \in 1 .. Depth(s) :
            s # t \/ k # Depth(t) => calls'[s][k] = calls[s][k]
      /\ calls'[t][Depth(t)].type = Asked(t)
      /\ calls'[t][Depth(t)].at = place
    BY GoToLeaves, FrameOfCalls DEF IInv
<1>2. /\ Asked(t) = calls[t][Depth(t)].type
      /\ Inside(calls[t][Depth(t)]) <=> place \notin {"look", "gate"}
    BY TopIsFrame DEF IInv, Asked
<1>3. \A s \in Thread : \A k \in 1 .. Depth(s) :
         /\ Inside(calls'[s][k]) <=> Inside(calls[s][k])
         /\ calls'[s][k].type = calls[s][k].type
    BY <1>1, <1>2 DEF Inside
<1>4. Nested'
    BY <1>1 DEF IInv, Nested
<1>5. Guarded'
  <2> SUFFICES ASSUME NEW s \in Thread, NEW k \in 1 .. Depth(s), Inside(calls'[s][k])
               PROVE  Gate(calls'[s][k].type) \in held'
    BY <1>1 DEF Guarded
  <2> QED
    BY <1>3 DEF IInv, Guarded
<1>6. Alone'
  <2> SUFFICES ASSUME NEW a \in Thread, NEW b \in Thread,
                      NEW k \in 1 .. Depth(a), NEW j \in 1 .. Depth(b),
                      Inside(calls'[a][k]), Inside(calls'[b][j]),
                      Gate(calls'[a][k].type) = Gate(calls'[b][j].type)
               PROVE  a = b /\ k = j
    BY <1>1 DEF Alone
  <2> QED
    BY <1>3 DEF IInv, Alone
<1> QED
    BY <1>4, <1>5, <1>6

\* A call returns, from inside or from before its gate; the one that made it goes on.
LEMMA ReturnKeeps ==
    ASSUME IInv, NEW t \in Thread, calls[t] # <<>>, Return(t),
           Asked(t) \in instance_, Top(t).at # "store",
           \/ held' = held
           \/ held' = held \ {Gate(Asked(t))} /\ Inside(Top(t))
    PROVE  IInv'
<1>1. /\ calls' \in [Thread -> Seq(Frame)]
      /\ Depth(t)' = Depth(t) - 1
      /\ \A s \in Thread \ {t} : calls'[s] = calls[s]
      /\ \A k \in 1 .. Depth(t) - 2 : calls'[t][k] = calls[t][k]
      /\ Depth(t) # 1 => /\ calls'[t][Depth(t) - 1].type = calls[t][Depth(t) - 1].type
                         /\ calls'[t][Depth(t) - 1].at = "construct"
    BY ReturnLeaves DEF IInv
<1>2. /\ Depth(t) \in Nat \ {0} /\ Top(t) = calls[t][Depth(t)] /\ Depth(t) \in 1 .. Depth(t)
      /\ Asked(t) = calls[t][Depth(t)].type
    BY TopIsFrame DEF IInv, Asked
<1>3. /\ instance_' = instance_ /\ objects' = objects /\ cleaners' = cleaners
      /\ exiting' = exiting /\ gone' = gone /\ given' = given \cup {Asked(t)}
    BY DEF Return
<1>4. Values'
    BY <1>1, <1>3 DEF IInv, Values
<1>5. \A s \in Thread : Depth(s) \in Nat /\ Depth(s)' \in Nat /\ Depth(s)' <= Depth(s)
  <2>1. \A s \in Thread \ {t} : Depth(s)' = Depth(s)
    BY <1>1 DEF Depth
  <2>2. \A s \in Thread : Depth(s) \in Nat
    BY FrameOfCalls DEF IInv
  <2> QED
    BY <1>1, <1>2, <2>1, <2>2
\* The calls that are left are of the types they were, and all but one where they were.
<1>6. \A s \in Thread : \A k \in 1 .. Depth(s)' :
         \/ calls'[s][k] = calls[s][k] /\ <<s, k>> # <<t, Depth(t)>>
         \/ /\ s = t /\ k = Depth(t) - 1
            /\ calls'[s][k].type = calls[s][k].type
            /\ calls'[s][k].at = "construct" /\ calls[s][k].at = "new"
  <2> SUFFICES ASSUME NEW s \in Thread, NEW k \in 1 .. Depth(s)'
               PROVE  \/ calls'[s][k] = calls[s][k] /\ <<s, k>> # <<t, Depth(t)>>
                      \/ /\ s = t /\ k = Depth(t) - 1
                         /\ calls'[s][k].type = calls[s][k].type
                         /\ calls'[s][k].at = "construct" /\ calls[s][k].at = "new"
    OBVIOUS
  <2>1. CASE s # t
    BY <1>1, <2>1
  <2>2. CASE s = t /\ k = Depth(t) - 1
    <3>1. calls[t][k].at = "new"
        BY <1>1, <1>2, <2>2 DEF IInv, Nested
    <3> QED
        BY <1>1, <1>2, <2>2, <3>1
  <2>3. CASE s = t /\ k # Depth(t) - 1
    <3>1. k \in 1 .. Depth(t) - 2 /\ k # Depth(t)
        BY <1>1, <1>2, <2>3
    <3> QED
        BY <1>1, <2>3, <3>1
  <2> QED
    BY <2>1, <2>2, <2>3
<1>7. \A s \in Thread : \A k \in 1 .. Depth(s)' :
         /\ k \in 1 .. Depth(s) /\ (s = t => k # Depth(t))
         /\ calls'[s][k].type = calls[s][k].type
         /\ Inside(calls'[s][k]) => Inside(calls[s][k])
         /\ Knows(calls[s][k]) => Knows(calls[s][k])'
  <2> SUFFICES ASSUME NEW s \in Thread, NEW k \in 1 .. Depth(s)'
               PROVE  /\ k \in 1 .. Depth(s) /\ (s = t => k # Depth(t))
                      /\ calls'[s][k].type = calls[s][k].type
                      /\ Inside(calls'[s][k]) => Inside(calls[s][k])
                      /\ Knows(calls[s][k]) => Knows(calls[s][k])'
    OBVIOUS
  <2>1. k \in 1 .. Depth(s) /\ (s = t => k # Depth(t))
    BY <1>1, <1>2, <1>5
  <2>2. calls'[s][k].type = calls[s][k].type /\ (Inside(calls'[s][k]) => Inside(calls[s][k]))
    BY <1>6 DEF Inside
  <2>3. Knows(calls[s][k]) => Knows(calls[s][k])'
    BY <1>3, <1>6 DEF Knows, Made
  <2> QED
    BY <2>1, <2>2, <2>3
<1>8. Nested'
  <2> SUFFICES ASSUME NEW s \in Thread, NEW k \in 1 .. Depth(s)' - 1
               PROVE  calls'[s][k].at = "new"
    BY DEF Nested
  <2>1. k \in 1 .. Depth(s) - 1 /\ k \in 1 .. Depth(s)' /\ (s = t => k # Depth(t) - 1)
    BY <1>1, <1>2, <1>5
  <2>2. calls[s][k].at = "new"
    BY <2>1 DEF IInv, Nested
  <2> QED
    BY <1>6, <2>1, <2>2
<1>9. Guarded'
  <2> SUFFICES ASSUME NEW s \in Thread, NEW k \in 1 .. Depth(s)', Inside(calls'[s][k])
               PROVE  Gate(calls'[s][k].type) \in held'
    BY DEF Guarded
  <2>1. Gate(calls[s][k].type) \in held
    BY <1>7 DEF IInv, Guarded
  <2>2. Inside(Top(t)) => Gate(calls[s][k].type) # Gate(Asked(t))
    BY <1>2, <1>7 DEF IInv, Alone
  <2> QED
    BY <1>7, <2>1, <2>2
<1>10. Alone'
  <2> SUFFICES ASSUME NEW a \in Thread, NEW b \in Thread,
                      NEW k \in 1 .. Depth(a)', NEW j \in 1 .. Depth(b)',
                      Inside(calls'[a][k]), Inside(calls'[b][j]),
                      Gate(calls'[a][k].type) = Gate(calls'[b][j].type)
               PROVE  a = b /\ k = j
    BY DEF Alone
  <2> QED
    BY <1>7 DEF IInv, Alone
<1>11. Placed'
    BY <1>7 DEF IInv, Placed
<1>12. \A T \in Type : BeingStored(T) => BeingStored(T)'
  <2> SUFFICES ASSUME NEW T \in Type, NEW s \in Thread, NEW k \in 1 .. Depth(s),
                      calls[s][k].type = T, calls[s][k].at = "store"
               PROVE  BeingStored(T)'
    BY DEF BeingStored
  <2>1. s = t => k # Depth(t) /\ k # Depth(t) - 1
    BY <1>2 DEF IInv, Nested
  <2>2. k \in 1 .. Depth(s)' /\ calls'[s][k] = calls[s][k]
    BY <1>1, <1>2, <1>5, <2>1 DEF Depth
  <2> QED
    BY <2>2 DEF BeingStored
<1>13. Kept'
  <2>1. Asked(t) \in Made /\ Made' = Made /\ Made \subseteq Type
    BY <1>3 DEF IInv, Kept, Made
  <2> QED
    BY <1>3, <1>12, <2>1 DEF IInv, Kept
<1>14. AtExit'
    BY <1>3 DEF IInv, AtExit
<1> QED
    BY <1>4, <1>8, <1>9, <1>10, <1>11, <1>13, <1>14 DEF IInv

\* The innermost call moves, and no object, pointer or cleaner changes.
LEMMA MoveKeeps ==
    ASSUME IInv, NEW t \in Thread, calls[t] # <<>>, Top(t).at # "store",
           NEW place \in Places \ {"store"}, GoTo(t, place),
           place \in {"new", "construct"} => Asked(t) \notin Made,
           place = "leave" => Asked(t) \in instance_,
           Nested', Guarded', Alone',
           UNCHANGED <<instance_, objects, cleaners, exiting, gone, given>>
    PROVE  IInv'
<1>1. /\ calls' \in [Thread -> Seq(Frame)]
      /\ \A s \in Thread : Depth(s)' = Depth(s) /\ Depth(s) \in Nat
      /\ \A s \in Thread : \A k \in 1 .. Depth(s) :
            s # t \/ k # Depth(t) => calls'[s][k] = calls[s][k]
      /\ calls'[t][Depth(t)].type = Asked(t)
      /\ calls'[t][Depth(t)].at = place
    BY GoToLeaves, FrameOfCalls DEF IInv
<1>2. /\ Asked(t) = calls[t][Depth(t)].type /\ Depth(t) \in 1 .. Depth(t)
      /\ calls[t][Depth(t)].at # "store"
    BY TopIsFrame DEF IInv, Asked
<1>3. Values'
    BY <1>1 DEF IInv, Values
<1>4. Placed'
  <2> SUFFICES ASSUME NEW s \in Thread, NEW k \in 1 .. Depth(s) PROVE Knows(calls[s][k])'
    BY <1>1 DEF Placed
  <2>1. Knows(calls[s][k])
    BY DEF IInv, Placed
  <2>2. CASE s # t \/ k # Depth(t)
    BY <1>1, <2>1, <2>2 DEF Knows, Made
  <2>3. CASE s = t /\ k = Depth(t)
    BY <1>1, <1>2, <2>1, <2>3 DEF Knows, Made
  <2> QED
    BY <2>2, <2>3
<1>5. \A T \in Type : BeingStored(T) => BeingStored(T)'
  <2> SUFFICES ASSUME NEW T \in Type, NEW s \in Thread, NEW k \in 1 .. Depth(s),
                      calls[s][k].type = T, calls[s][k].at = "store"
               PROVE  BeingStored(T)'
    BY DEF BeingStored
  <2>1. k \in 1 .. Depth(s)' /\ calls'[s][k] = calls[s][k]
    BY <1>1, <1>2
  <2> QED
    BY <2>1 DEF BeingStored
<1>6. Kept'
    BY <1>5 DEF IInv, Kept, Made
<1>7. AtExit'
    BY DEF IInv, AtExit
<1> QED
    BY <1>3, <1>4, <1>6, <1>7 DEF IInv

------------------------------------------------------------------------------
(* The steps keep the invariant.                                            *)

LEMMA AtPlace ==
    ASSUME IInv, NEW t \in Thread, NEW place, At(t, place)
    PROVE  calls[t] # <<>> /\ Top(t).at = place /\ Knows(Top(t)) /\ ~exiting /\ gone = {}
<1>1. calls[t] # <<>> /\ Top(t).at = place
    BY DEF At
<1>2. Knows(Top(t))
    BY <1>1, TopIsFrame DEF IInv, Placed
<1> QED
    BY <1>1, <1>2 DEF IInv, AtExit

LEMMA LookInv ==
    ASSUME IInv, NEW t \in Thread, Look(t)
    PROVE  IInv'
<1>1. calls[t] # <<>> /\ Top(t).at = "look"
    BY AtPlace DEF Look
<1>2. CASE Done(Asked(t))
  <2>1. Return(t) /\ held' = held /\ Asked(t) \in instance_
    BY <1>2 DEF Look, Done
  <2> QED
    BY <1>1, <2>1, ReturnKeeps
<1>3. CASE ~Done(Asked(t))
  <2>1. /\ GoTo(t, "gate") /\ held' = held
        /\ UNCHANGED <<instance_, objects, cleaners, exiting, gone, given>>
    BY <1>3 DEF Look
  <2>2. Nested' /\ Guarded' /\ Alone'
    BY <1>1, <2>1, StaysInside DEF Inside, Places
  <2> QED
    BY <1>1, <2>1, <2>2, MoveKeeps DEF Places
<1> QED
    BY <1>2, <1>3

\* The gate that is passed was open, so that nobody was inside.
LEMMA PassInv ==
    ASSUME IInv, NEW t \in Thread, Pass(t)
    PROVE  IInv'
<1>1. calls[t] # <<>> /\ Top(t).at = "gate"
    BY AtPlace DEF Pass
<1>2. /\ Gate(Asked(t)) \notin held /\ held' = held \cup {Gate(Asked(t))}
      /\ GoTo(t, "check")
      /\ UNCHANGED <<instance_, objects, cleaners, exiting, gone, given>>
    BY DEF Pass
<1>3. /\ \A s \in Thread : Depth(s)' = Depth(s) /\ Depth(s) \in Nat
      /\ \A s \in Thread : \A k \in 1 .. Depth(s) :
            s # t \/ k # Depth(t) => calls'[s][k] = calls[s][k]
      /\ calls'[t][Depth(t)].type = Asked(t)
      /\ calls'[t][Depth(t)].at = "check"
    BY <1>1, <1>2, GoToLeaves, FrameOfCalls DEF IInv, Places
<1>4. Nested'
    BY <1>3 DEF IInv, Nested
<1>5. Guarded'
  <2> SUFFICES ASSUME NEW s \in Thread, NEW k \in 1 .. Depth(s), Inside(calls'[s][k])
               PROVE  Gate(calls'[s][k].type) \in held'
    BY <1>3 DEF Guarded
  <2> QED
    BY <1>2, <1>3 DEF IInv, Guarded
<1>6. Alone'
  <2> SUFFICES ASSUME NEW a \in Thread, NEW b \in Thread,
                      NEW k \in 1 .. Depth(a), NEW j \in 1 .. Depth(b),
                      Inside(calls'[a][k]), Inside(calls'[b][j]),
                      Gate(calls'[a][k].type) = Gate(calls'[b][j].type)
               PROVE  a = b /\ k = j
    BY <1>3 DEF Alone
  <2>1. \A s \in Thread : \A i \in 1 .. Depth(s) :
           Inside(calls[s][i]) => Gate(calls[s][i].type) # Gate(Asked(t))
    BY <1>2 DEF IInv, Guarded
  <2> QED
    BY <1>3, <2>1 DEF IInv, Alone
<1> QED
    BY <1>1, <1>2, <1>4, <1>5, <1>6, MoveKeeps DEF Places

\* Behind the gate, no pointer means no object: nobody else is about to store one.
LEMMA CheckInv ==
    ASSUME IInv, NEW t \in Thread, Check(t)
    PROVE  IInv'
<1>1. calls[t] # <<>> /\ Top(t).at = "check" /\ gone = {}
    BY AtPlace DEF Check
<1> DEFINE place == IF Missing(Asked(t)) THEN "new" ELSE "leave"
<1>2. /\ GoTo(t, place) /\ held' = held
      /\ UNCHANGED <<instance_, objects, cleaners, exiting, gone, given>>
    BY DEF Check
<1>3. ~BeingStored(Asked(t))
  <2> SUFFICES ASSUME NEW s \in Thread, NEW k \in 1 .. Depth(s),
                      calls[s][k].type = Asked(t), calls[s][k].at = "store"
               PROVE  FALSE
    BY DEF BeingStored
  <2>1. Top(t) = calls[t][Depth(t)] /\ Asked(t) = calls[t][Depth(t)].type
        /\ Depth(t) \in 1 .. Depth(t)
    BY <1>1, TopIsFrame DEF IInv, Asked
  <2>2. Inside(calls[s][k]) /\ Inside(calls[t][Depth(t)])
    BY <1>1, <2>1 DEF Inside
  <2>3. s = t /\ k = Depth(t)
    BY <2>1, <2>2 DEF IInv, Alone
  <2> QED
    BY <1>1, <2>1, <2>3
<1>4. place = "new" => Asked(t) \notin Made
    BY <1>1, <1>3 DEF IInv, Kept, Missing
<1>5. place = "leave" => Asked(t) \in instance_
    BY DEF Missing
<1>6. place \in {"new", "leave"}
    OBVIOUS
<1> HIDE DEF place
<1>7. Nested' /\ Guarded' /\ Alone'
    BY <1>1, <1>2, <1>6, StaysInside DEF Inside, Places
<1> QED
    BY <1>1, <1>2, <1>4, <1>5, <1>6, <1>7, MoveKeeps DEF Places

\* The cleaner of a type that is asked for.
LEMMA EnterLeaves ==
    ASSUME Values, NEW T \in Type, Enter(T)
    PROVE  cleaners' \in Seq(Type) /\ ToSet(cleaners') = ToSet(cleaners) \cup {T}
<1>1. cleaners \in Seq(Type)
    BY DEF Values
<1>2. CASE T \in ToSet(cleaners)
    BY <1>1, <1>2 DEF Enter
<1>3. CASE T \notin ToSet(cleaners)
  <2> DEFINE longer == Append(cleaners, T)
  <2>1. /\ longer \in Seq(Type) /\ Len(longer) = Len(cleaners) + 1 /\ Len(cleaners) \in Nat
        /\ \A i \in 1 .. Len(cleaners) : longer[i] = cleaners[i]
        /\ longer[Len(cleaners) + 1] = T
    BY <1>1, AppendProperties, LenProperties
  <2>2. cleaners' = longer
    BY <1>3 DEF Enter
  <2> HIDE DEF longer
  <2>3. DOMAIN longer = 1 .. Len(cleaners) + 1 /\ DOMAIN cleaners = 1 .. Len(cleaners)
    BY <1>1, <2>1
  <2>4. ToSet(longer) = ToSet(cleaners) \cup {T}
    BY <2>1, <2>3 DEF ToSet
  <2> QED
    BY <2>1, <2>2, <2>4
<1> QED
    BY <1>2, <1>3

\* A call is added to the stack of t, before its gate.
Push(t, T) == calls' = [calls EXCEPT ![t] = Append(@, [type |-> T, at |-> "look"])]

LEMMA PushKeeps ==
    ASSUME IInv, NEW t \in Thread, NEW T \in Type, ~exiting,
           calls[t] # <<>> => Top(t).at = "new",
           Push(t, T), Enter(T),
           UNCHANGED <<instance_, objects, held, exiting, gone, given>>
    PROVE  IInv'
<1>1. calls[t] \in Seq(Frame) /\ calls \in [Thread -> Seq(Frame)]
    BY DEF IInv, Values
<1> DEFINE r == Append(calls[t], [type |-> T, at |-> "look"])
<1>2. /\ r \in Seq(Frame) /\ Len(r) = Len(calls[t]) + 1
      /\ \A k \in 1 .. Len(calls[t]) : r[k] = calls[t][k]
      /\ r[Len(calls[t]) + 1].type = T /\ r[Len(calls[t]) + 1].at = "look"
    BY <1>1, Pushed
<1>3. calls' = [calls EXCEPT ![t] = r]
    BY DEF Push
<1> HIDE DEF r
<1>4. calls'[t] = r /\ (\A s \in Thread \ {t} : calls'[s] = calls[s])
      /\ calls' \in [Thread -> Seq(Frame)]
    BY <1>1, <1>2, <1>3
<1>5. \A s \in Thread : Depth(s) \in Nat
    BY FrameOfCalls DEF IInv
<1>6. /\ Depth(t)' = Depth(t) + 1
      /\ \A s \in Thread \ {t} : Depth(s)' = Depth(s)
      /\ \A s \in Thread : \A k \in 1 .. Depth(s) :
            k \in 1 .. Depth(s)' /\ calls'[s][k] = calls[s][k]
      /\ calls'[t][Depth(t)'].type = T /\ calls'[t][Depth(t)'].at = "look"
  <2>1. Depth(t)' = Depth(t) + 1 /\ \A s \in Thread \ {t} : Depth(s)' = Depth(s)
    BY <1>2, <1>4 DEF Depth
  <2>2. calls'[t][Depth(t)'].type = T /\ calls'[t][Depth(t)'].at = "look"
    BY <1>2, <1>4, <2>1 DEF Depth
  <2>3. \A k \in 1 .. Depth(t) : k \in 1 .. Depth(t)' /\ calls'[t][k] = calls[t][k]
    BY <1>2, <1>4, <1>5, <2>1 DEF Depth
  <2>4. \A s \in Thread \ {t} : \A k \in 1 .. Depth(s) :
           k \in 1 .. Depth(s)' /\ calls'[s][k] = calls[s][k]
    BY <1>4, <2>1
  <2> QED
    BY <2>1, <2>2, <2>3, <2>4
<1>7. \A s \in Thread : \A k \in 1 .. Depth(s)' : (s = t /\ k = Depth(t)') \/ k \in 1 .. Depth(s)
    BY <1>5, <1>6
<1>8. cleaners' \in Seq(Type) /\ ToSet(cleaners') = ToSet(cleaners) \cup {T}
    BY EnterLeaves DEF IInv
<1>9. Values'
    BY <1>4, <1>8 DEF IInv, Values
<1>10. Nested'
  <2> SUFFICES ASSUME NEW s \in Thread, NEW k \in 1 .. Depth(s)' - 1
               PROVE  calls'[s][k].at = "new"
    BY DEF Nested
  <2>1. CASE s # t
    <3>1. k \in 1 .. Depth(s) - 1 /\ k \in 1 .. Depth(s)
        BY <1>5, <1>6, <2>1
    <3> QED
        BY <1>6, <3>1 DEF IInv, Nested
  <2>2. CASE s = t
    <3>1. k \in 1 .. Depth(t) /\ calls'[t][k] = calls[t][k]
        BY <1>5, <1>6, <2>2
    <3>2. CASE k \in 1 .. Depth(t) - 1
        BY <2>2, <3>1, <3>2 DEF IInv, Nested
    <3>3. CASE k = Depth(t)
      <4>1. calls[t] # <<>>
        BY <3>1, <3>3 DEF Depth
      <4> QED
        BY <2>2, <3>1, <3>3, <4>1, TopIsFrame DEF IInv
    <3> QED
        BY <1>5, <3>1, <3>2, <3>3
  <2> QED
    BY <2>1, <2>2
<1>11. \A s \in Thread : \A k \in 1 .. Depth(s)' :
          Inside(calls'[s][k]) => k \in 1 .. Depth(s) /\ calls'[s][k] = calls[s][k]
    BY <1>6, <1>7 DEF Inside
<1>12. Guarded'
  <2> SUFFICES ASSUME NEW s \in Thread, NEW k \in 1 .. Depth(s)', Inside(calls'[s][k])
               PROVE  Gate(calls'[s][k].type) \in held'
    BY DEF Guarded
  <2> QED
    BY <1>11 DEF IInv, Guarded
<1>13. Alone'
  <2> SUFFICES ASSUME NEW a \in Thread, NEW b \in Thread,
                      NEW k \in 1 .. Depth(a)', NEW j \in 1 .. Depth(b)',
                      Inside(calls'[a][k]), Inside(calls'[b][j]),
                      Gate(calls'[a][k].type) = Gate(calls'[b][j].type)
               PROVE  a = b /\ k = j
    BY DEF Alone
  <2> QED
    BY <1>11 DEF IInv, Alone
<1>14. Placed'
  <2> SUFFICES ASSUME NEW s \in Thread, NEW k \in 1 .. Depth(s)' PROVE Knows(calls[s][k])'
    BY DEF Placed
  <2>1. CASE k \in 1 .. Depth(s)
    <3>1. Knows(calls[s][k]) /\ calls'[s][k] = calls[s][k]
        BY <1>6, <2>1 DEF IInv, Placed
    <3> QED
        BY <1>8, <3>1 DEF Knows, Made
  <2>2. CASE s = t /\ k = Depth(t)'
    BY <1>6, <1>8, <2>2 DEF Knows
  <2> QED
    BY <1>7, <2>1, <2>2
<1>15. \A U \in Type : BeingStored(U) => BeingStored(U)'
    BY <1>6 DEF BeingStored
<1>16. Kept'
    BY <1>8, <1>15 DEF IInv, Kept, Made
<1>17. AtExit'
    BY DEF IInv, AtExit
<1> QED
    BY <1>9, <1>10, <1>12, <1>13, <1>14, <1>16, <1>17 DEF IInv

LEMMA CallInv ==
    ASSUME IInv, NEW t \in Thread, NEW T \in Type, Call(t, T)
    PROVE  IInv'
<1>1. /\ ~exiting /\ calls[t] = <<>> /\ Enter(T)
      /\ calls' = [calls EXCEPT ![t] = <<[type |-> T, at |-> "look"]>>]
      /\ UNCHANGED <<instance_, objects, held, exiting, gone, given>>
    BY DEF Call
<1>2. Push(t, T)
    BY <1>1 DEF Push
<1> QED
    BY <1>1, <1>2, PushKeeps

LEMMA NewInv ==
    ASSUME IInv, NeedsTypes, NEW t \in Thread, New(t)
    PROVE  IInv'
<1>1. calls[t] # <<>> /\ Top(t).at = "new" /\ Knows(Top(t)) /\ ~exiting
    BY AtPlace DEF New
<1>2. UNCHANGED <<instance_, objects, held, exiting, gone, given>>
    BY DEF New
<1>3. CASE Needs[Asked(t)] = {}
  <2>1. GoTo(t, "construct") /\ cleaners' = cleaners
    BY <1>3 DEF New
  <2>2. Nested' /\ Guarded' /\ Alone'
    BY <1>1, <1>2, <2>1, StaysInside DEF Inside, Places
  <2>3. Asked(t) \notin Made
    BY <1>1 DEF Knows, Asked
  <2> QED
    BY <1>1, <1>2, <2>1, <2>2, <2>3, MoveKeeps DEF Places
<1>4. CASE Needs[Asked(t)] # {}
  <2>1. PICK U \in Needs[Asked(t)] : Push(t, U) /\ Enter(U)
    BY <1>4 DEF New, Push
  <2>2. U \in Type
    BY <1>1, TopIsFrame DEF IInv, NeedsTypes
  <2> QED
    BY <1>1, <1>2, <2>1, <2>2, PushKeeps
<1> QED
    BY <1>3, <1>4

\* Of the type of a call that is inside, no other call is.
LEMMA OnlyInside ==
    ASSUME IInv, NEW t \in Thread, calls[t] # <<>>, Inside(Top(t)),
           NEW s \in Thread, NEW k \in 1 .. Depth(s),
           Inside(calls[s][k]), calls[s][k].type = Asked(t)
    PROVE  s = t /\ k = Depth(t)
<1>1. /\ Top(t) = calls[t][Depth(t)] /\ Asked(t) = calls[t][Depth(t)].type
      /\ Depth(t) \in 1 .. Depth(t)
    BY TopIsFrame DEF IInv, Asked
<1> QED
    BY <1>1 DEF IInv, Alone

LEMMA ConstructInv ==
    ASSUME IInv, NEW t \in Thread, Construct(t)
    PROVE  IInv'
<1>1. calls[t] # <<>> /\ Top(t).at = "construct" /\ Knows(Top(t)) /\ ~exiting /\ gone = {}
    BY AtPlace DEF Construct
<1>2. /\ objects' = [objects EXCEPT ![Asked(t)] = @ + 1] /\ GoTo(t, "store")
      /\ UNCHANGED <<instance_, held, cleaners, exiting, gone, given>>
    BY DEF Construct
<1>3. /\ calls' \in [Thread -> Seq(Frame)]
      /\ \A s \in Thread : Depth(s)' = Depth(s) /\ Depth(s) \in Nat
      /\ \A s \in Thread : \A k \in 1 .. Depth(s) :
            s # t \/ k # Depth(t) => calls'[s][k] = calls[s][k]
      /\ calls'[t][Depth(t)].type = Asked(t)
      /\ calls'[t][Depth(t)].at = "store"
    BY <1>1, <1>2, GoToLeaves, FrameOfCalls DEF IInv, Places
<1>4. /\ Asked(t) = calls[t][Depth(t)].type /\ Depth(t) \in 1 .. Depth(t)
      /\ Top(t) = calls[t][Depth(t)] /\ Asked(t) \in Type /\ Inside(Top(t))
    BY <1>1, TopIsFrame DEF IInv, Asked, Inside
<1>5. Asked(t) \notin Made
    BY <1>1 DEF Knows, Asked
<1>6. objects[Asked(t)] = 0 /\ objects \in [Type -> {0, 1}]
    BY <1>4, <1>5 DEF Made, IInv, Values
<1>7. objects' = [objects EXCEPT ![Asked(t)] = 1]
    BY <1>2, <1>6
<1>8. objects' \in [Type -> {0, 1}] /\ Made' = Made \cup {Asked(t)}
    BY <1>4, <1>6, <1>7 DEF Made
<1>9. Values'
    BY <1>2, <1>3, <1>8 DEF IInv, Values
<1>10. Nested' /\ Guarded' /\ Alone'
    BY <1>1, <1>2, <1>4, StaysInside DEF Places
<1>11. Placed'
  <2> SUFFICES ASSUME NEW s \in Thread, NEW k \in 1 .. Depth(s) PROVE Knows(calls[s][k])'
    BY <1>3 DEF Placed
  <2>1. Knows(calls[s][k])
    BY DEF IInv, Placed
  <2>2. CASE s # t \/ k # Depth(t)
    <3>1. calls'[s][k] = calls[s][k]
        BY <1>3, <2>2
    <3>2. calls[s][k].at \in {"new", "construct"} => calls[s][k].type # Asked(t)
        BY <1>1, <1>4, <2>2, OnlyInside DEF Inside
    <3> QED
        BY <1>2, <1>8, <2>1, <3>1, <3>2 DEF Knows
  <2>3. CASE s = t /\ k = Depth(t)
    <3>1. Asked(t) \notin instance_
        BY <1>5 DEF IInv, Kept
    <3> QED
        BY <1>2, <1>3, <1>4, <1>8, <2>1, <2>3, <3>1 DEF Knows
  <2> QED
    BY <2>2, <2>3
<1>12. \A T \in Type : BeingStored(T) => BeingStored(T)'
  <2> SUFFICES ASSUME NEW T \in Type, NEW s \in Thread, NEW k \in 1 .. Depth(s),
                      calls[s][k].type = T, calls[s][k].at = "store"
               PROVE  BeingStored(T)'
    BY DEF BeingStored
  <2>1. k \in 1 .. Depth(s)' /\ calls'[s][k] = calls[s][k]
    BY <1>1, <1>3, <1>4
  <2> QED
    BY <2>1 DEF BeingStored
<1>13. \A T \in Type : T = Asked(t) => BeingStored(T)'
    BY <1>3, <1>4 DEF BeingStored
<1>14. Kept'
  <2>1. Made \subseteq Type
    BY DEF Made
  <2> QED
    BY <1>2, <1>8, <1>12, <1>13, <2>1 DEF IInv, Kept
<1>15. AtExit'
    BY <1>1, <1>2 DEF AtExit
<1> QED
    BY <1>9, <1>10, <1>11, <1>14, <1>15 DEF IInv

\* The calls of a thread that throws are inside, all of them, and no other call is at
\* their gates.
LEMMA ThrowInv ==
    ASSUME IInv, NEW t \in Thread, Throw(t)
    PROVE  IInv'
<1>1. calls[t] # <<>> /\ Top(t).at = "construct" /\ ~exiting /\ gone = {}
    BY AtPlace DEF Throw
<1>2. /\ calls' = [calls EXCEPT ![t] = <<>>]
      /\ held' = IF Build = "spin" THEN held ELSE held \ {call.type : call \in ToSet(calls[t])}
      /\ UNCHANGED <<instance_, objects, cleaners, exiting, gone, given>>
    BY DEF Throw
<1>3. /\ calls' \in [Thread -> Seq(Frame)]
      /\ calls'[t] = <<>> /\ \A s \in Thread \ {t} : calls'[s] = calls[s]
    BY <1>2 DEF IInv, Values
<1>4. Depth(t)' = 0 /\ \A s \in Thread \ {t} : Depth(s)' = Depth(s)
    BY <1>3 DEF Depth
<1>5. \A s \in Thread : \A k \in 1 .. Depth(s)' :
         s # t /\ k \in 1 .. Depth(s) /\ calls'[s][k] = calls[s][k]
    BY <1>3, <1>4
<1>6. /\ \A k \in 1 .. Depth(t) : Inside(calls[t][k]) /\ calls[t][k].at # "store"
      /\ calls[t] \in Seq(Frame)
  <2>1. /\ calls[t] \in Seq(Frame) /\ Depth(t) \in Nat \ {0} /\ Top(t) = calls[t][Depth(t)]
    BY <1>1, TopIsFrame DEF IInv
  <2>2. \A k \in 1 .. Depth(t) : k = Depth(t) \/ k \in 1 .. Depth(t) - 1
    BY <2>1
  <2>3. \A k \in 1 .. Depth(t) - 1 : calls[t][k].at = "new"
    BY DEF IInv, Nested
  <2> QED
    BY <1>1, <2>1, <2>2, <2>3 DEF Inside
<1>7. Values'
    BY <1>2, <1>3 DEF IInv, Values
<1>8. Nested'
  <2> SUFFICES ASSUME NEW s \in Thread, NEW k \in 1 .. Depth(s)' - 1
               PROVE  calls'[s][k].at = "new"
    BY DEF Nested
  <2>1. s # t
    BY <1>4
  <2> QED
    BY <1>3, <1>4, <2>1 DEF IInv, Nested
<1>9. Guarded'
  <2> SUFFICES ASSUME NEW s \in Thread, NEW k \in 1 .. Depth(s)', Inside(calls'[s][k])
               PROVE  Gate(calls'[s][k].type) \in held'
    BY DEF Guarded
  <2>1. s # t /\ k \in 1 .. Depth(s) /\ calls'[s][k] = calls[s][k] /\ Inside(calls[s][k])
    BY <1>5
  <2>2. Gate(calls[s][k].type) \in held
    BY <2>1 DEF IInv, Guarded
  <2>3. CASE Build = "spin"
    BY <1>2, <2>1, <2>2, <2>3
  <2>4. CASE Build # "spin"
    <3>1. \A T : Gate(T) = T
        BY <2>4 DEF Gate
    <3>2. ASSUME NEW j \in 1 .. Depth(t)
          PROVE  Gate(calls[t][j].type) # Gate(calls[s][k].type)
        BY <1>6, <2>1 DEF IInv, Alone
    <3>3. \A call \in ToSet(calls[t]) : \E j \in 1 .. Depth(t) : call = calls[t][j]
        BY <1>6 DEF ToSet, Depth
    <3>4. calls[s][k].type \notin {call.type : call \in ToSet(calls[t])}
        BY <3>1, <3>2, <3>3
    <3> QED
        BY <1>2, <2>1, <2>2, <2>4, <3>1, <3>4
  <2> QED
    BY <2>3, <2>4
<1>10. Alone'
  <2> SUFFICES ASSUME NEW a \in Thread, NEW b \in Thread,
                      NEW k \in 1 .. Depth(a)', NEW j \in 1 .. Depth(b)',
                      Inside(calls'[a][k]), Inside(calls'[b][j]),
                      Gate(calls'[a][k].type) = Gate(calls'[b][j].type)
               PROVE  a = b /\ k = j
    BY DEF Alone
  <2> QED
    BY <1>5 DEF IInv, Alone
<1>11. Placed'
  <2> SUFFICES ASSUME NEW s \in Thread, NEW k \in 1 .. Depth(s)' PROVE Knows(calls[s][k])'
    BY DEF Placed
  <2>1. Knows(calls[s][k]) /\ calls'[s][k] = calls[s][k]
    BY <1>5 DEF IInv, Placed
  <2> QED
    BY <1>2, <2>1 DEF Knows, Made
<1>12. \A T \in Type : BeingStored(T) => BeingStored(T)'
  <2> SUFFICES ASSUME NEW T \in Type, NEW s \in Thread, NEW k \in 1 .. Depth(s),
                      calls[s][k].type = T, calls[s][k].at = "store"
               PROVE  BeingStored(T)'
    BY DEF BeingStored
  <2>1. s # t
    BY <1>6
  <2>2. k \in 1 .. Depth(s)' /\ calls'[s][k] = calls[s][k]
    BY <1>3, <1>4, <2>1
  <2> QED
    BY <2>2 DEF BeingStored
<1>13. Kept'
    BY <1>2, <1>12 DEF IInv, Kept, Made
<1>14. AtExit'
    BY <1>1, <1>2 DEF AtExit
<1> QED
    BY <1>7, <1>8, <1>9, <1>10, <1>11, <1>13, <1>14 DEF IInv

\* In program order, a pointer is stored behind the constructor.
LEMMA StoreInv ==
    ASSUME IInv, InOrder = TRUE, NEW t \in Thread, Store(t)
    PROVE  IInv'
<1>1. At(t, "store")
    BY DEF Store
<1>2. calls[t] # <<>> /\ Top(t).at = "store" /\ Knows(Top(t)) /\ ~exiting /\ gone = {}
    BY <1>1, AtPlace
<1>3. /\ instance_' = instance_ \cup {Asked(t)} /\ GoTo(t, "leave")
      /\ UNCHANGED <<objects, held, cleaners, exiting, gone, given>>
    BY <1>1 DEF Store
<1>4. /\ calls' \in [Thread -> Seq(Frame)]
      /\ \A s \in Thread : Depth(s)' = Depth(s) /\ Depth(s) \in Nat
      /\ \A s \in Thread : \A k \in 1 .. Depth(s) :
            s # t \/ k # Depth(t) => calls'[s][k] = calls[s][k]
      /\ calls'[t][Depth(t)].type = Asked(t)
      /\ calls'[t][Depth(t)].at = "leave"
    BY <1>2, <1>3, GoToLeaves, FrameOfCalls DEF IInv, Places
<1>5. /\ Asked(t) = calls[t][Depth(t)].type /\ Depth(t) \in 1 .. Depth(t)
      /\ Top(t) = calls[t][Depth(t)] /\ Asked(t) \in Type /\ Inside(Top(t))
    BY <1>2, TopIsFrame DEF IInv, Asked, Inside
<1>6. Asked(t) \in Made /\ Asked(t) \in ToSet(cleaners)
    BY <1>2, <1>5 DEF Knows
<1>7. Values'
    BY <1>3, <1>4 DEF IInv, Values
<1>8. Nested' /\ Guarded' /\ Alone'
    BY <1>2, <1>3, <1>5, StaysInside DEF Places
<1>9. Placed'
  <2> SUFFICES ASSUME NEW s \in Thread, NEW k \in 1 .. Depth(s) PROVE Knows(calls[s][k])'
    BY <1>4 DEF Placed
  <2>1. Knows(calls[s][k])
    BY DEF IInv, Placed
  <2>2. CASE s # t \/ k # Depth(t)
    <3>1. calls'[s][k] = calls[s][k]
        BY <1>4, <2>2
    <3>2. calls[s][k].at = "store" => calls[s][k].type # Asked(t)
        BY <1>2, <1>5, <2>2, OnlyInside DEF Inside
    <3> QED
        BY <1>3, <2>1, <3>1, <3>2 DEF Knows, Made
  <2>3. CASE s = t /\ k = Depth(t)
    BY <1>3, <1>4, <1>6, <2>3 DEF Knows
  <2> QED
    BY <2>2, <2>3
<1>10. \A T \in Type : BeingStored(T) => BeingStored(T)' \/ T = Asked(t)
  <2> SUFFICES ASSUME NEW T \in Type, NEW s \in Thread, NEW k \in 1 .. Depth(s),
                      calls[s][k].type = T, calls[s][k].at = "store", T # Asked(t)
               PROVE  BeingStored(T)'
    BY DEF BeingStored
  <2>1. k \in 1 .. Depth(s)' /\ calls'[s][k] = calls[s][k]
    BY <1>4, <1>5
  <2> QED
    BY <2>1 DEF BeingStored
<1>11. Kept'
  <2>1. Made' = Made /\ Made \subseteq Type
    BY <1>3 DEF Made
  <2>2. instance_' \subseteq (Made' \ gone') \cap ToSet(cleaners')
    BY <1>2, <1>3, <1>6, <2>1 DEF IInv, Kept
  <2>3. ASSUME NEW T \in Made' PROVE T \in instance_' \cup gone' \/ BeingStored(T)'
    <3>1. T \in instance_ \cup gone \/ BeingStored(T)
        BY <2>1 DEF IInv, Kept
    <3> QED
        BY <1>3, <1>10, <2>1, <3>1
  <2> QED
    BY <1>3, <2>1, <2>2, <2>3 DEF IInv, Kept
<1>12. AtExit'
    BY <1>2, <1>3 DEF AtExit
<1> QED
    BY <1>7, <1>8, <1>9, <1>11, <1>12 DEF IInv

LEMMA LeaveInv ==
    ASSUME IInv, NEW t \in Thread, Leave(t)
    PROVE  IInv' /\ Asked(t) \in instance_
<1>1. calls[t] # <<>> /\ Top(t).at = "leave" /\ Knows(Top(t))
    BY AtPlace DEF Leave
<1>2. held' = held \ {Gate(Asked(t))} /\ Return(t)
    BY DEF Leave, Reopen
<1>3. Asked(t) \in instance_ /\ Inside(Top(t))
    BY <1>1 DEF Knows, Asked, Inside
<1> QED
    BY <1>1, <1>2, <1>3, ReturnKeeps

\* When main has returned, there are no calls.
LEMMA ExitInv ==
    ASSUME IInv, Exit
    PROVE  IInv'
BY DEF Exit, IInv, Values, Nested, Guarded, Alone, Placed, Knows, Kept, BeingStored, Made,
       AtExit, Depth

LEMMA FrontLeaves ==
    ASSUME Values, cleaners # <<>>
    PROVE  /\ Front(cleaners) \in Seq(Type) /\ Last(cleaners) \in Type
           /\ ToSet(cleaners) \subseteq ToSet(Front(cleaners)) \cup {Last(cleaners)}
<1> DEFINE n == Len(cleaners)
           rest == Front(cleaners)
<1>1. cleaners \in Seq(Type) /\ n \in Nat \ {0}
    BY EmptySeq DEF Values
<1>2. (\A i \in 1 .. n : cleaners[i] \in Type) /\ DOMAIN cleaners = 1 .. n
    BY <1>1, ElementOfSeq
<1>3. 1 \in Int /\ n - 1 \in Int /\ \A i \in 1 .. n - 1 : cleaners[i] \in Type
    BY <1>1, <1>2
<1>4. /\ rest \in Seq(Type)
      /\ Len(rest) = IF 1 <= n - 1 THEN (n - 1) - 1 + 1 ELSE 0
      /\ \A i \in 1 .. (n - 1) - 1 + 1 : rest[i] = cleaners[1 + i - 1]
    BY <1>3, SubSeqProperties DEF Front
<1> HIDE DEF rest
<1>5. DOMAIN rest = 1 .. n - 1 /\ \A i \in 1 .. n - 1 : rest[i] = cleaners[i]
  <2>1. Len(rest) = n - 1
    <3> HIDE DEF n
    <3>1. (IF 1 <= n - 1 THEN (n - 1) - 1 + 1 ELSE 0) = n - 1
        BY <1>1
    <3> QED
        BY <1>4, <3>1
  <2>2. \A i \in 1 .. n - 1 : rest[i] = cleaners[i]
    BY <1>1, <1>4
  <2> QED
    BY <1>4, <2>1, <2>2
<1>6. Last(cleaners) = cleaners[n] /\ n \in 1 .. n
    BY <1>1 DEF Last
<1> HIDE DEF n
<1>7. \A i \in 1 .. n : i = n \/ i \in 1 .. n - 1
    BY <1>1 DEF n
<1>8. ToSet(cleaners) \subseteq ToSet(rest) \cup {Last(cleaners)}
    BY <1>2, <1>5, <1>6, <1>7 DEF ToSet
<1> QED
    BY <1>2, <1>4, <1>6, <1>8 DEF rest

LEMMA CleanInv ==
    ASSUME IInv, Clean
    PROVE  IInv'
<1> DEFINE T == Last(cleaners)
<1>1. /\ exiting /\ cleaners # <<>>
      /\ gone' = (IF T \in instance_ THEN gone \cup {T} ELSE gone)
      /\ instance_' = instance_ \ {T} /\ cleaners' = Front(cleaners)
      /\ UNCHANGED <<calls, left, objects, held, exiting, given, threw>>
    BY DEF Clean
<1>2. /\ cleaners' \in Seq(Type) /\ T \in Type
      /\ ToSet(cleaners) \subseteq ToSet(cleaners') \cup {T}
    BY <1>1, FrontLeaves DEF IInv
<1> HIDE DEF T
<1>3. \A t \in Thread : calls[t] = <<>> /\ Depth(t) = 0
    BY <1>1 DEF IInv, AtExit, Depth
<1>4. \A t \in Thread : calls'[t] = <<>> /\ Depth(t)' = 0
    BY <1>1, <1>3 DEF Depth
<1>5. Values'
    BY <1>1, <1>2 DEF IInv, Values
<1>6. Nested' /\ Guarded' /\ Alone' /\ Placed'
    BY <1>4 DEF Nested, Guarded, Alone, Placed
<1>7. Kept'
  <2>1. \A U \in Type : ~BeingStored(U)
    BY <1>3 DEF BeingStored
  <2>2. Made' = Made /\ Made \subseteq Type
    BY <1>1 DEF Made
  <2>3. /\ instance_ \subseteq (Made \ gone) \cap ToSet(cleaners)
        /\ given \subseteq Made /\ gone \subseteq Made /\ Made \subseteq instance_ \cup gone
    BY <2>1, <2>2 DEF IInv, Kept
  <2>4. /\ instance_' \subseteq (Made' \ gone') \cap ToSet(cleaners')
        /\ gone' \subseteq Made' /\ Made' \subseteq instance_' \cup gone'
    BY <1>1, <1>2, <2>2, <2>3
  <2> QED
    BY <1>1, <2>2, <2>3, <2>4 DEF Kept
<1>8. AtExit'
    BY <1>1, <1>4 DEF AtExit
<1> QED
    BY <1>5, <1>6, <1>7, <1>8 DEF IInv

LEMMA InitInv == Init => IInv
<1> SUFFICES ASSUME Init PROVE IInv
    OBVIOUS
<1>1. /\ calls = [t \in Thread |-> <<>>] /\ objects = [T \in Type |-> 0]
      /\ instance_ = {} /\ gone = {} /\ given = {} /\ cleaners = <<>> /\ exiting = FALSE
    BY DEF Init
<1>2. \A t \in Thread : calls[t] = <<>> /\ Depth(t) = 0
    BY <1>1 DEF Depth
<1>3. Values
  <2>1. <<>> \in Seq(Frame) /\ <<>> \in Seq(Type)
    BY EmptySeq
  <2>2. calls \in [Thread -> Seq(Frame)]
    BY <1>1, <2>1
  <2>3. objects \in [Type -> {0, 1}]
    BY <1>1
  <2> QED
    BY <1>1, <2>1, <2>2, <2>3 DEF Values
<1>4. Nested /\ Guarded /\ Alone /\ Placed
    BY <1>2 DEF Nested, Guarded, Alone, Placed
<1>5. Made = {}
    BY <1>1 DEF Made
<1>6. Kept /\ AtExit
    BY <1>1, <1>5 DEF Kept, AtExit
<1> QED
    BY <1>3, <1>4, <1>6 DEF IInv

LEMMA StepInv ==
    ASSUME IInv, NeedsTypes, InOrder = TRUE, [Next]_vars
    PROVE  IInv'
<1>1. CASE UNCHANGED vars
  <2>1. /\ UNCHANGED <<calls, instance_, objects, held, cleaners, exiting, gone, given>>
        /\ Made' = Made /\ \A t \in Thread : Depth(t)' = Depth(t)
    BY <1>1 DEF vars, Made, Depth
  <2>2. Values' /\ Nested' /\ AtExit'
    BY <2>1 DEF IInv, Values, Nested, AtExit
  <2>3. Guarded' /\ Alone'
    BY <2>1 DEF IInv, Guarded, Alone
  <2>4. Placed'
    BY <2>1 DEF IInv, Placed, Knows
  <2>5. Kept'
    BY <2>1 DEF IInv, Kept, BeingStored
  <2> QED
    BY <2>2, <2>3, <2>4, <2>5 DEF IInv
<1>2. ASSUME NEW t \in Thread, Step(t) PROVE IInv'
    BY <1>2, LookInv, PassInv, CheckInv, NewInv, ConstructInv, ThrowInv, StoreInv, LeaveInv
       DEF Step
<1>3. ASSUME NEW t \in Thread, NEW T \in Type, Call(t, T) PROVE IInv'
    BY <1>3, CallInv
<1>4. CASE Exit \/ Clean
    BY <1>4, ExitInv, CleanInv
<1> QED
    BY <1>1, <1>2, <1>3, <1>4 DEF Next

------------------------------------------------------------------------------
(* The steps are those of OnePerType.                                       *)

\* The program has ended.
Over == exiting /\ cleaners = <<>>

LEMMA AbstractMade == OnlyOne!Made = Made
BY DEF OnlyOne!Made, Made

LEMMA Stutters ==
    ASSUME UNCHANGED <<objects, given, gone>>, Over' <=> Over
    PROVE  [OnlyOne!Next]_OnlyOne!vars
<1>1. UNCHANGED OnlyOne!vars
    BY DEF Over, OnlyOne!vars
<1> QED
    BY <1>1

LEMMA Gives ==
    ASSUME IInv, NEW t \in Thread, calls[t] # <<>>, Return(t), Asked(t) \in instance_
    PROVE  OnlyOne!Next
<1>1. /\ objects' = objects /\ gone' = gone /\ given' = given \cup {Asked(t)}
      /\ Over' <=> Over
    BY DEF Return, Over
<1>2. Asked(t) \in Made \ gone /\ Asked(t) \in Type
    BY TopIsFrame DEF IInv, Kept
<1>3. OnlyOne!Give(Asked(t))
    BY <1>1, <1>2, AbstractMade DEF OnlyOne!Give, Over
<1> QED
    BY <1>2, <1>3, Zenon DEF OnlyOne!Next

LEMMA Makes ==
    ASSUME IInv, NEW t \in Thread, Construct(t)
    PROVE  OnlyOne!Next
<1>1. calls[t] # <<>> /\ Top(t).at = "construct" /\ Knows(Top(t))
    BY AtPlace DEF Construct
<1>2. Asked(t) \in Type \ Made
    BY <1>1, TopIsFrame DEF IInv, Knows, Asked
<1>3. objects[Asked(t)] = 0
    BY <1>2 DEF Made, IInv, Values
<1>4. /\ objects' = [objects EXCEPT ![Asked(t)] = 1]
      /\ UNCHANGED <<given, gone>> /\ (Over' <=> Over)
    BY <1>3 DEF Construct, Over
<1>5. OnlyOne!Make(Asked(t))
    BY <1>2, <1>4, AbstractMade DEF OnlyOne!Make, Over
<1> QED
    BY <1>2, <1>5, Zenon DEF OnlyOne!Next

\* The end comes with the last object that is destroyed, or else when none is left.
LEMMA Ends ==
    ASSUME IInv, IInv', UNCHANGED <<objects, given, gone>>, Over', \A t \in Thread : calls[t] = <<>>
    PROVE  OnlyOne!Next
<1>1. instance_' = {}
    BY DEF IInv, Kept, Over, ToSet
<1>2. \A T \in Type : ~BeingStored(T)'
  <2>1. \A t \in Thread : Depth(t)' = 0
    BY DEF IInv, AtExit, Over, Depth
  <2> QED
    BY <2>1 DEF BeingStored
<1>3. Made' = Made /\ Made \subseteq Type
    BY DEF Made
<1>4. gone = Made
    BY <1>1, <1>2, <1>3 DEF IInv, Kept
<1>5. OnlyOne!End
    BY <1>4, AbstractMade DEF OnlyOne!End, Over
<1> QED
    BY <1>5 DEF OnlyOne!Next

LEMMA Destroys ==
    ASSUME IInv, IInv', Clean, Last(cleaners) \in instance_
    PROVE  OnlyOne!Next
<1> DEFINE T == Last(cleaners)
<1>1. /\ gone' = gone \cup {T} /\ cleaners # <<>> /\ exiting /\ exiting'
      /\ UNCHANGED <<objects, given>>
    BY DEF Clean
<1>2. T \in Made \ gone /\ T \in Type
    BY DEF IInv, Kept, Made
<1> HIDE DEF T
<1>3. Over' => gone' = Made
  <2> SUFFICES ASSUME Over' PROVE gone' = Made
    OBVIOUS
  <2>1. instance_' = {}
    BY DEF IInv, Kept, Over, ToSet
  <2>2. \A t \in Thread : Depth(t)' = 0
    BY <1>1 DEF IInv, AtExit, Depth
  <2>3. \A U \in Type : ~BeingStored(U)'
    BY <2>2 DEF BeingStored
  <2>4. Made' = Made /\ Made \subseteq Type
    BY <1>1 DEF Made
  <2> QED
    BY <2>1, <2>3, <2>4 DEF IInv, Kept
<1>4. Over' \in BOOLEAN
    BY DEF Over, IInv, Values
<1>5. OnlyOne!Destroy(T)
    BY <1>1, <1>2, <1>3, <1>4, AbstractMade DEF OnlyOne!Destroy, Over
<1> QED
    BY <1>2, <1>5, Zenon DEF OnlyOne!Next

LEMMA StepIsOnePerType ==
    ASSUME IInv, IInv', InOrder = TRUE, [Next]_vars
    PROVE  [OnlyOne!Next]_OnlyOne!vars
<1>1. CASE UNCHANGED vars
    BY <1>1, Stutters DEF vars, Over
<1>2. ASSUME NEW t \in Thread, Look(t) PROVE [OnlyOne!Next]_OnlyOne!vars
  <2>1. calls[t] # <<>>
    BY <1>2, AtPlace DEF Look
  <2>2. CASE Done(Asked(t))
    BY <1>2, <2>1, <2>2, Gives DEF Look, Done
  <2>3. CASE ~Done(Asked(t))
    BY <1>2, <2>3, Stutters DEF Look, Over
  <2> QED
    BY <2>2, <2>3
<1>3. ASSUME NEW t \in Thread, Pass(t) \/ Check(t) \/ Throw(t) \/ Store(t)
      PROVE  [OnlyOne!Next]_OnlyOne!vars
    BY <1>3, Stutters DEF Pass, Check, Throw, Store, Over
<1>4. ASSUME NEW t \in Thread, New(t) PROVE [OnlyOne!Next]_OnlyOne!vars
  <2>1. ~exiting
    BY <1>4, AtPlace DEF New
  <2>2. ~Over /\ ~Over'
    BY <1>4, <2>1 DEF New, Over
  <2> QED
    BY <1>4, <2>2, Stutters DEF New
<1>5. ASSUME NEW t \in Thread, NEW T \in Type, Call(t, T) PROVE [OnlyOne!Next]_OnlyOne!vars
  <2>1. ~Over /\ ~Over'
    BY <1>5 DEF Call, Over
  <2> QED
    BY <1>5, <2>1, Stutters DEF Call
<1>6. ASSUME NEW t \in Thread, Construct(t) PROVE [OnlyOne!Next]_OnlyOne!vars
    BY <1>6, Makes
<1>7. ASSUME NEW t \in Thread, Leave(t) PROVE [OnlyOne!Next]_OnlyOne!vars
  <2>1. calls[t] # <<>> /\ Return(t) /\ Asked(t) \in instance_
    BY <1>7, AtPlace, LeaveInv DEF Leave
  <2> QED
    BY <2>1, Gives
<1>8. CASE Exit
  <2>1. UNCHANGED <<objects, given, gone>> /\ ~Over /\ \A t \in Thread : calls[t] = <<>>
    BY <1>8 DEF Exit, Over
  <2> QED
    BY <2>1, Ends, Stutters
<1>9. CASE Clean
  <2>1. ~Over /\ (UNCHANGED <<objects, given>>) /\ \A t \in Thread : calls[t] = <<>>
    BY <1>9 DEF Clean, Over, IInv, AtExit
  <2>2. CASE Last(cleaners) \in instance_
    BY <1>9, <2>2, Destroys
  <2>3. CASE Last(cleaners) \notin instance_
    <3>1. gone' = gone
        BY <1>9, <2>3 DEF Clean
    <3> QED
        BY <2>1, <3>1, Ends, Stutters
  <2> QED
    BY <2>2, <2>3
<1> QED
    BY <1>1, <1>2, <1>3, <1>4, <1>5, <1>6, <1>7, <1>8, <1>9 DEF Next, Step

------------------------------------------------------------------------------
(* The theorems.                                                            *)

\* The invariant holds in every state.
THEOREM Invariance == NeedsTypes /\ InOrder = TRUE => (Spec => []IInv)
<1> SUFFICES ASSUME NeedsTypes, InOrder = TRUE PROVE Spec => []IInv
    OBVIOUS
<1>1. Init => IInv
    BY InitInv
<1>2. IInv /\ [Next]_vars => IInv'
    BY StepInv
<1> QED
    BY <1>1, <1>2, PTL DEF Spec

\* Both versions of Instance() give a type one object, which is there before anyone is
\* given it, and which the cleaners delete once.
THEOREM Refinement == NeedsTypes /\ InOrder = TRUE => (Spec => ImplementsOnePerType)
<1> SUFFICES ASSUME NeedsTypes, InOrder = TRUE PROVE Spec => ImplementsOnePerType
    OBVIOUS
<1>1. Spec => []IInv
    BY Invariance
<1>2. Init => OnlyOne!Init
    BY DEF Init, OnlyOne!Init
<1>3. IInv /\ IInv' /\ [Next]_vars => [OnlyOne!Next]_OnlyOne!vars
    BY StepIsOnePerType
<1> QED
    BY <1>1, <1>2, <1>3, PTL DEF Spec, ImplementsOnePerType, OnlyOne!Spec
==============================================================================
