------------------------- MODULE LockFreeQueueProofs -------------------------
(***************************************************************************)
(* Proofs about LockFreeQueue for any memory and any number of items, when *)
(* stores reach memory in program order; without that order the consumer   *)
(* does read an incomplete node.                                           *)
(***************************************************************************)
EXTENDS LockFreeQueue, FiniteSetTheorems, FunctionTheorems, SequenceTheorems, TLAPS

(* The inductive invariant.                                                 *)

NP == Len(published)
NC == Len(consumed)
Left == Len(storeBuffer)

\* An Enqueue is under way whose node is not published.
Enqueuing == ppc = "count" /\ storeBuffer # <<>>
Enqueued == IF Enqueuing THEN NP + 1 ELSE NP

\* The items are numbered in the order of their publication, and come out so.
InSequence ==
    /\ NC <= NP /\ Enqueued <= MaxItems
    /\ \A k \in 1 .. NP : published[k] = k
    /\ \A k \in 1 .. NC : consumed[k] = k

Reached ==
    /\ cpc \in {"read", "unlink"} => NC < NP
    /\ cpc = "unlink" => out = NC + 1
    /\ cpc = "count" => NC > 0
    /\ ppc = "gone" => free = Node /\ doomed = Null
    /\ doomed # Null \/ ppc = "gone" =>
           cpc = "idle" /\ storeBuffer = <<>> /\ ppc \in {"idle", "gone"}

Counted ==
    size = NP - NC - (IF ppc = "count" /\ storeBuffer = <<>> THEN 1 ELSE 0)
                   + (IF cpc = "count" THEN 1 ELSE 0)

Stored == [field : {"value", "next", "tail", "publisher"}, node : Node \cup {Null},
           val : Node \cup {Null} \cup Nat]

\* The list, by the number of the item in each node: cell[k] is the node of item
\* k, from the f-th on.  The node after the last is the spare one.
Cell == [1 .. MaxItems + 1 -> Node]
Linked(cell, f) ==
    /\ f \in 1 .. NP + 1
    /\ doomed = Null => f = NC + 1 /\ headNext = cell[f]
    /\ doomed # Null => doomed = cell[f]
    /\ publisher = cell[NP + 1]
    /\ myTail = cell[Enqueued + 1]
    /\ \A j, k \in f .. Enqueued + 1 : cell[j] = cell[k] => j = k
    /\ \A n \in Node : n \in free <=> \A k \in f .. Enqueued + 1 : cell[k] # n
    /\ \A k \in f .. NP : next[cell[k]] = cell[k + 1] /\ value[cell[k]] = k
    /\ ~Enqueuing => next[cell[NP + 1]] = Null

\* Which stores of an Enqueue, and of a failed one before it, are left when there
\* are so many, and what of the new node is in memory by then.
Buffered(cell) ==
    /\ Enqueuing =>
          /\ Left <= 7
          /\ storeBuffer[Left] = Store("publisher", Null, cell[NP + 2])
          /\ Left >= 2 => storeBuffer[Left - 1] = Store("tail", Null, cell[NP + 2])
          /\ Left >= 3 => storeBuffer[Left - 2] = Store("next", cell[NP + 1], cell[NP + 2])
          /\ Left >= 4 => storeBuffer[Left - 3] = Store("next", cell[NP + 2], Null)
          /\ Left >= 5 => storeBuffer[Left - 4] = Store("value", cell[NP + 2], Zero)
          /\ Left >= 6 => storeBuffer[Left - 5] = Store("value", cell[NP + 1], NP + 1)
          /\ Left = 7 => storeBuffer[1] = Store("value", cell[NP + 1], NP + 1)
          /\ Left < 6 => value[cell[NP + 1]] = NP + 1
          /\ Left < 4 => next[cell[NP + 2]] = Null
          /\ Left < 3 => next[cell[NP + 1]] = cell[NP + 2]
    /\ ppc = "idle" =>
          \/ storeBuffer = <<>>
          \/ NP < MaxItems /\ storeBuffer = <<Store("value", myTail, NP + 1)>>

IInv ==
    /\ TypeOK
    /\ storeBuffer \in Seq(Stored)
    /\ InSequence
    /\ Reached
    /\ Counted
    /\ ppc # "gone" => \E cell \in Cell : \E f \in 1 .. MaxItems + 1 :
                          Linked(cell, f) /\ Buffered(cell)
------------------------------------------------------------------------------
LEMMA Lengths ==
    ASSUME IInv
    PROVE  /\ NP \in Nat /\ NC \in Nat /\ Left \in Nat /\ NP \in 0 .. MaxItems
           /\ NC <= NP /\ Enqueued \in Nat /\ Enqueued \in NP .. NP + 1
           /\ Enqueued <= MaxItems /\ MaxItems \in Nat
BY QueueAssumption DEF IInv, TypeOK, InSequence, Enqueued, NP, NC, Left

LEMMA InitEstablishes == Init => IInv
<1> SUFFICES ASSUME Init
             PROVE  IInv
  OBVIOUS
<1> USE QueueAssumption DEF Init, Item, Zero
<1>1. TypeOK /\ storeBuffer \in Seq(Stored)
  BY DEF TypeOK
<1>2. NP = 0 /\ NC = 0 /\ ~Enqueuing /\ Enqueued = 0
  BY DEF NP, NC, Enqueuing, Enqueued
<1>3. InSequence /\ Reached /\ Counted
  BY <1>2 DEF InSequence, Reached, Counted
<1> DEFINE cell == [k \in 1 .. MaxItems + 1 |-> headNext]
<1>4. cell \in Cell /\ 1 \in 1 .. MaxItems + 1
  BY <1>1 DEF Cell, TypeOK
<1>5. Linked(cell, 1) /\ Buffered(cell)
  BY <1>2 DEF Linked, Buffered
<1>6. QED
  BY <1>1, <1>3, <1>4, <1>5 DEF IInv

------------------------------------------------------------------------------
(* The steps that leave the list alone.                                     *)

LEMMA ListUntouched ==
    ASSUME NEW cell \in Cell, NEW f \in 1 .. MaxItems + 1, Linked(cell, f), Buffered(cell),
           UNCHANGED <<memory, headNext, free, storeBuffer, myTail, published, consumed, doomed>>,
           ppc' = ppc \/ (storeBuffer = <<>> /\ ppc' = "idle")
    PROVE  Linked(cell, f)' /\ Buffered(cell)'
<1>1. NP' = NP /\ NC' = NC /\ Left' = Left /\ (Enqueuing' <=> Enqueuing) /\ Enqueued' = Enqueued
  BY DEF NP, NC, Left, Enqueuing, Enqueued
<1>2. Linked(cell, f)'
  BY <1>1 DEF Linked, memory
<1>3. Buffered(cell)'
  BY <1>1 DEF Buffered, memory, Enqueuing
<1>4. QED
  BY <1>2, <1>3

LEMMA CountUpKeeps == ASSUME IInv, CountUp PROVE IInv'
<1> USE QueueAssumption DEF CountUp, memory, NP, NC, Enqueuing
<1>1. TypeOK' /\ storeBuffer' \in Seq(Stored)
  BY Lengths DEF IInv, TypeOK, Counted, Reached
<1>2. InSequence'
  BY DEF IInv, InSequence, Enqueued
<1>3. Reached' /\ Counted'
  BY Lengths DEF IInv, TypeOK, Reached, Counted
<1>4. QED
  BY <1>1, <1>2, <1>3, ListUntouched DEF IInv

LEMMA DequeueKeeps == ASSUME IInv, Dequeue PROVE IInv'
<1> USE QueueAssumption DEF Dequeue, memory, NP, NC, Enqueuing
<1>1. TypeOK' /\ storeBuffer' \in Seq(Stored)
  BY DEF IInv, TypeOK
<1>2. InSequence'
  BY DEF IInv, InSequence, Enqueued
<1>3. NC < NP
  BY Lengths DEF IInv, Linked, HasItem
<1>4. Reached' /\ Counted'
  BY <1>3 DEF IInv, Reached, Counted
<1>5. QED
  BY <1>1, <1>2, <1>4, ListUntouched DEF IInv

LEMMA ReadValueKeeps == ASSUME IInv, ReadValue PROVE IInv'
<1> USE QueueAssumption DEF ReadValue, memory, NP, NC, Enqueuing
<1>1. TypeOK' /\ storeBuffer' \in Seq(Stored)
  BY DEF IInv, TypeOK
<1>2. InSequence'
  BY DEF IInv, InSequence, Enqueued
<1>3. value[headNext] = NC + 1
  BY Lengths DEF IInv, Linked, Reached
<1>4. Reached' /\ Counted'
  BY <1>3 DEF IInv, Reached, Counted
<1>5. QED
  BY <1>1, <1>2, <1>4, ListUntouched DEF IInv

LEMMA CountDownKeeps == ASSUME IInv, CountDown PROVE IInv'
<1> USE QueueAssumption DEF CountDown, memory, NP, NC, Enqueuing
<1>1. size' = NP - NC - (IF ppc = "count" /\ storeBuffer = <<>> THEN 1 ELSE 0)
  BY Lengths DEF IInv, Counted
<1>2. size' \in -1 .. MaxItems
  BY <1>1, Lengths
<1>3. TypeOK' /\ storeBuffer' \in Seq(Stored)
  BY <1>2 DEF IInv, TypeOK
<1>4. InSequence'
  BY DEF IInv, InSequence, Enqueued
<1>5. Reached' /\ Counted'
  BY <1>1, Lengths DEF IInv, Reached, Counted
<1>6. QED
  BY <1>3, <1>4, <1>5, ListUntouched DEF IInv

LEMMA EnqueueFailsKeeps == ASSUME IInv, EnqueueFails PROVE IInv'
<1> USE QueueAssumption DEF EnqueueFails, memory, NP, NC, Enqueuing, Current
<1>1. storeBuffer' \in Seq(Stored) /\ storeBuffer' # <<>>
  BY Lengths DEF Stored, Store, IInv, TypeOK
<1>2. TypeOK'
  BY DEF IInv, TypeOK, Store
<1>3. InSequence'
  BY DEF IInv, InSequence, Enqueued
<1>4. Reached' /\ Counted'
  BY DEF IInv, Reached, Counted
<1>5. PICK cell \in Cell, f \in 1 .. MaxItems + 1 : Linked(cell, f) /\ Buffered(cell)
  BY DEF IInv
<1>6. Linked(cell, f)'
  BY <1>5 DEF Linked, Enqueued
<1>7. Buffered(cell)'
  BY Lengths DEF Buffered, Item
<1>8. QED
  BY <1>1, <1>2, <1>3, <1>4, <1>6, <1>7 DEF IInv

------------------------------------------------------------------------------
(* The steps that take nodes from the front of the list.                    *)

LEMMA UnlinkKeeps == ASSUME IInv, Unlink PROVE IInv'
<1> USE QueueAssumption DEF Unlink, memory
<1>1. PICK cell \in Cell, f \in 1 .. MaxItems + 1 : Linked(cell, f) /\ Buffered(cell)
  BY DEF IInv, Reached
<1>2. NC < NP /\ out = NC + 1 /\ doomed = Null /\ ppc # "gone"
  BY DEF IInv, Reached
<1>3. f = NC + 1 /\ headNext = cell[f]
  BY <1>1, <1>2 DEF Linked
<1>4. f + 1 \in 1 .. NP + 1 /\ f + 1 \in 1 .. MaxItems + 1 /\ f \in f .. NP
  BY <1>2, <1>3, Lengths
<1>5. headNext' = cell[f + 1] /\ cell[f + 1] \in Node
  BY <1>1, <1>3, <1>4 DEF Linked, Cell
<1>6. consumed' = Append(consumed, NC + 1) /\ NC' = NC + 1 /\ consumed' \in Seq(Item)
  BY <1>2, Lengths DEF NC, IInv, TypeOK, Item
<1>7. NP' = NP /\ Left' = Left /\ (Enqueuing' <=> Enqueuing) /\ Enqueued' = Enqueued
  BY DEF NP, Left, Enqueued, Enqueuing
<1>8. TypeOK' /\ storeBuffer' \in Seq(Stored)
  BY <1>5, <1>6 DEF IInv, TypeOK
<1>9. InSequence'
  BY <1>2, <1>6, <1>7, Lengths DEF IInv, InSequence, TypeOK, NC
<1>10. Reached' /\ Counted'
  <2>1. size = NP - NC - (IF ppc = "count" /\ storeBuffer = <<>> THEN 1 ELSE 0)
    BY Lengths DEF IInv, Counted
  <2>2. Counted'
    BY <1>6, <1>7, <2>1, Lengths DEF Counted
  <2>3. Reached'
    BY <1>2, <1>6, Lengths DEF IInv, Reached
  <2>4. QED
    BY <2>2, <2>3
<1>11. Linked(cell, f + 1)'
  <2>1. \A n \in Node : n \in free' <=> \A k \in f + 1 .. Enqueued + 1 : cell[k] # n
    <3>1. \A n \in Node : n \in free <=> \A k \in f .. Enqueued + 1 : cell[k] # n
      BY <1>1 DEF Linked
    <3>2. \A k \in f + 1 .. Enqueued + 1 : k \in f .. Enqueued + 1 /\ cell[k] # cell[f]
      <4>1. f \in f .. Enqueued + 1
        BY <1>2, <1>3, Lengths
      <4>2. \A k \in f + 1 .. Enqueued + 1 : k \in f .. Enqueued + 1 /\ k # f
        BY <1>3, Lengths
      <4>3. QED
        BY <1>1, <4>1, <4>2 DEF Linked
    <3>3. \A k \in f .. Enqueued + 1 : k = f \/ k \in f + 1 .. Enqueued + 1
      BY <1>3, Lengths
    <3>4. free' = free \cup {cell[f]}
      BY <1>3
    <3>5. f \in f .. Enqueued + 1
      BY <1>3, Lengths
    <3>6. QED
      BY <3>1, <3>2, <3>3, <3>4, <3>5
  <2>2. \A k \in f + 1 .. Enqueued + 1 : k \in f .. Enqueued + 1
    BY <1>3, Lengths
  <2>3. \A k \in f + 1 .. NP : k \in f .. NP
    BY <1>3, Lengths
  <2>4. QED
    BY <1>1, <1>2, <1>3, <1>4, <1>5, <1>6, <1>7, <2>1, <2>2, <2>3 DEF Linked
<1>12. Buffered(cell)'
  BY <1>1, <1>7 DEF Buffered
<1>13. QED
  BY <1>4, <1>8, <1>9, <1>10, <1>11, <1>12 DEF IInv

LEMMA DestructKeeps == ASSUME IInv, Destruct PROVE IInv'
<1> USE QueueAssumption DEF Destruct, memory
<1>1. PICK cell \in Cell, f \in 1 .. MaxItems + 1 : Linked(cell, f) /\ Buffered(cell)
  BY DEF IInv, Reached
<1>2. NP' = NP /\ NC' = NC /\ Left' = Left /\ (Enqueuing' <=> Enqueuing) /\ Enqueued' = Enqueued
  BY DEF NP, NC, Left, Enqueuing, Enqueued
<1>3. TypeOK' /\ storeBuffer' \in Seq(Stored)
  BY DEF IInv, TypeOK
<1>4. InSequence' /\ Reached' /\ Counted'
  BY <1>2 DEF IInv, TypeOK, InSequence, Reached, Counted
<1>5. Linked(cell, f)'
  BY <1>1, <1>2 DEF Linked, IInv, TypeOK
<1>6. Buffered(cell)'
  BY <1>1, <1>2 DEF Buffered, Enqueuing
<1>7. QED
  BY <1>3, <1>4, <1>5, <1>6 DEF IInv

LEMMA FreeNodeKeeps == ASSUME IInv, FreeNode PROVE IInv'
<1> USE QueueAssumption DEF FreeNode, memory
<1>1. PICK cell \in Cell, f \in 1 .. MaxItems + 1 : Linked(cell, f) /\ Buffered(cell)
  BY DEF IInv, Reached
<1>2. cpc = "idle" /\ storeBuffer = <<>> /\ ppc = "idle" /\ doomed = cell[f] /\ f \in 1 .. NP + 1
  BY <1>1 DEF IInv, Reached, Linked
<1>3. /\ NP' = NP /\ NC' = NC /\ Left' = Left /\ ~Enqueuing' /\ ~Enqueuing
      /\ Enqueued' = NP /\ Enqueued = NP
  BY <1>2 DEF NP, NC, Left, Enqueuing, Enqueued
<1>4. TypeOK' /\ storeBuffer' \in Seq(Stored)
  BY DEF IInv, TypeOK
<1>5. InSequence' /\ Counted'
  BY <1>2, <1>3 DEF IInv, InSequence, Counted
<1>6. CASE f = NP + 1
  <2>1. next[doomed] = Null
    BY <1>1, <1>2, <1>3, <1>6 DEF Linked
  <2>2. free' = Node
    <3>1. \A k \in f .. NP + 1 : cell[k] = doomed
      BY <1>2, <1>6, Lengths
    <3>2. \A n \in Node : n \in free \/ n = doomed
      BY <1>1, <1>3, <3>1 DEF Linked
    <3>3. QED
      BY <3>2, <1>4 DEF TypeOK, IInv
  <2>3. Reached'
    BY <1>2, <2>1, <2>2 DEF Reached
  <2>4. QED
    BY <1>4, <1>5, <2>1, <2>3 DEF IInv
<1>7. CASE f # NP + 1
  <2>1. f \in 1 .. NP /\ next[doomed] = cell[f + 1] /\ f + 1 \in 1 .. MaxItems + 1
    BY <1>1, <1>2, <1>7, Lengths DEF Linked
  <2>2. next[doomed] # Null
    BY <2>1 DEF Cell
  <2>3. Reached'
    BY <1>2, <2>2 DEF IInv, Reached
  <2>4. \A n \in Node : n \in free' <=> \A k \in f + 1 .. NP + 1 : cell[k] # n
    <3>1. \A n \in Node : n \in free <=> \A k \in f .. NP + 1 : cell[k] # n
      BY <1>1, <1>3 DEF Linked
    <3>2. \A k \in f + 1 .. NP + 1 : k \in f .. NP + 1 /\ cell[k] # cell[f]
      <4>1. f \in f .. NP + 1 /\ \A k \in f + 1 .. NP + 1 : k \in f .. NP + 1 /\ k # f
        BY <1>1, Lengths DEF Linked
      <4>2. QED
        BY <1>1, <1>3, <4>1 DEF Linked
    <3>3. \A k \in f .. NP + 1 : k = f \/ k \in f + 1 .. NP + 1
      BY <1>2, Lengths
    <3>4. free' = free \cup {cell[f]}
      BY <1>2
    <3>5. QED
      BY <3>1, <3>2, <3>3, <3>4
  <2>5. Linked(cell, f + 1)'
    <3>1. f + 1 \in 1 .. NP + 1 /\ \A k \in f + 1 .. NP + 1 : k \in f .. NP + 1
      BY <1>1, <2>1, Lengths DEF Linked
    <3>2. \A k \in f + 1 .. NP : k \in f .. NP
      BY <2>1, Lengths
    <3>3. QED
      BY <1>1, <1>2, <1>3, <2>1, <2>2, <2>4, <3>1, <3>2 DEF Linked
  <2>6. Buffered(cell)'
    BY <1>2, <1>3 DEF Buffered
  <2>7. QED
    BY <1>4, <1>5, <2>1, <2>3, <2>5, <2>6 DEF IInv
<1>8. QED
  BY <1>6, <1>7

------------------------------------------------------------------------------
(* The steps that add a node to the list.                                   *)

LEMMA Concatenation ==
    ASSUME NEW S, NEW s \in Seq(S), NEW t \in Seq(S)
    PROVE  /\ s \o t \in Seq(S) /\ Len(s \o t) = Len(s) + Len(t)
           /\ \A i \in 1 .. Len(s) : (s \o t)[i] = s[i]
           /\ \A i \in 1 .. Len(t) : (s \o t)[Len(s) + i] = t[i]
BY ConcatProperties

LEMMA EnqueueKeeps == ASSUME IInv, Enqueue PROVE IInv'
<1>1. PICK n \in free : storeBuffer' = storeBuffer \o EnqueueStores(NP + 1, n) /\ free' = free \ {n} /\ myTail' = n
  BY DEF Enqueue, Current, NP
<1>0. /\ ppc = "idle" /\ ppc' = "count" /\ doomed = Null /\ NP + 1 \in 1 .. MaxItems
      /\ UNCHANGED <<value, next, tail, publisher, headNext, size, cpc, out, published,
                     consumed, doomed>>
  BY DEF Enqueue, memory, Current, Item, NP
<1>2. PICK cell \in Cell, f \in 1 .. MaxItems + 1 : Linked(cell, f) /\ Buffered(cell)
  BY <1>0 DEF IInv
<1>3. ~Enqueuing /\ Enqueued = NP /\ doomed = Null /\ n \in Node
  BY <1>0, <1>1 DEF Enqueuing, Enqueued, IInv, TypeOK
<1>4. NP + 1 \in 1 .. MaxItems /\ NP + 2 \in 1 .. MaxItems + 1 /\ f \in 1 .. NP + 1 /\ f = NC + 1
  BY <1>0, <1>2, <1>3, Lengths DEF Linked
<1>5. NP' = NP /\ NC' = NC
  BY <1>0 DEF NP, NC
<1>6. PICK cell2 \in Cell : /\ cell2[NP + 2] = n
                            /\ \A k \in 1 .. NP + 1 : cell2[k] = cell[k]
  <2> DEFINE c == [cell EXCEPT ![NP + 2] = n]
  <2>1. c \in Cell /\ c[NP + 2] = n
    BY <1>3, <1>4 DEF Cell
  <2>2. \A k \in 1 .. NP + 1 : c[k] = cell[k]
    BY <1>4, Lengths DEF Cell
  <2> HIDE DEF c
  <2>3. QED
    BY <2>1, <2>2
<1>7. /\ myTail = cell[NP + 1]
      /\ \A k \in f .. NP + 1 : cell[k] # n
  BY <1>1, <1>2, <1>3 DEF Linked
<1>8. /\ EnqueueStores(NP + 1, n) \in Seq(Stored) /\ Len(EnqueueStores(NP + 1, n)) = 6
      /\ EnqueueStores(NP + 1, n) =
            <<Store("value", myTail, NP + 1), Store("value", n, Zero), Store("next", n, Null),
              Store("next", myTail, n), Store("tail", Null, n), Store("publisher", Null, n)>>
  <2>1. /\ Store("value", myTail, NP + 1) \in Stored /\ Store("value", n, Zero) \in Stored
        /\ Store("next", n, Null) \in Stored /\ Store("next", myTail, n) \in Stored
        /\ Store("tail", Null, n) \in Stored /\ Store("publisher", Null, n) \in Stored
    BY <1>3, <1>4, Lengths DEF Stored, Store, IInv, TypeOK, Zero
  <2>2. QED
    BY <2>1 DEF EnqueueStores
<1>9. storeBuffer' \in Seq(Stored) /\ Left' = Left + 6 /\ Enqueuing' /\ Enqueued' = NP + 1
  <2>1. storeBuffer \in Seq(Stored)
    BY DEF IInv
  <2>2. EnqueueStores(NP + 1, n) \in Seq(Stored) /\ Len(EnqueueStores(NP + 1, n)) = 6
    BY <1>8
  <2>3. /\ storeBuffer \o EnqueueStores(NP + 1, n) \in Seq(Stored)
        /\ Len(storeBuffer \o EnqueueStores(NP + 1, n))
              = Len(storeBuffer) + Len(EnqueueStores(NP + 1, n))
    BY <2>1, <2>2, Concatenation
  <2>4. storeBuffer' \in Seq(Stored) /\ Left' = Left + 6
    BY <1>1, <2>2, <2>3 DEF Left
  <2>5. storeBuffer' # <<>>
    BY <2>4, Lengths DEF Left
  <2>6. QED
    BY <1>0, <1>5, <2>4, <2>5 DEF Enqueued, Enqueuing
<1>10. TypeOK'
  <2>1. \A i \in 1 .. Left' : storeBuffer'[i] \in Stored
    BY <1>9 DEF Left
  <2>2. QED
    BY <1>0, <1>1, <1>3, <2>1 DEF IInv, TypeOK, Stored, Left
<1>11. InSequence' /\ Reached' /\ Counted'
  <2>1. InSequence'
    BY <1>0, <1>4, <1>5, <1>9, Lengths DEF IInv, InSequence
  <2>2. Reached'
    BY <1>0, <1>5 DEF IInv, Reached
  <2>3. Counted'
    BY <1>0, <1>5, <1>9, Lengths DEF IInv, Counted, Enqueuing
  <2>4. QED
    BY <2>1, <2>2, <2>3
<1>12. Linked(cell2, f)'
  <2>1. \A j, k \in f .. NP + 2 : cell2[j] = cell2[k] => j = k
    <3>1. \A j, k \in f .. NP + 1 : cell[j] = cell[k] => j = k
      BY <1>2, <1>3 DEF Linked
    <3>2. \A j \in f .. NP + 2 : j = NP + 2 \/ (j \in f .. NP + 1 /\ j \in 1 .. NP + 1)
      BY <1>4, Lengths
    <3>3. QED
      BY <1>6, <1>7, <3>1, <3>2
  <2>2. \A m \in Node : m \in free' <=> \A k \in f .. NP + 2 : cell2[k] # m
    <3>1. \A m \in Node : m \in free <=> \A k \in f .. NP + 1 : cell[k] # m
      BY <1>2, <1>3 DEF Linked
    <3>2. \A j \in f .. NP + 2 : j = NP + 2 \/ (j \in f .. NP + 1 /\ j \in 1 .. NP + 1)
      BY <1>4, Lengths
    <3>3. NP + 2 \in f .. NP + 2 /\ \A j \in f .. NP + 1 : j \in f .. NP + 2 /\ j \in 1 .. NP + 1
      BY <1>4, Lengths
    <3>4. QED
      BY <1>1, <1>6, <1>7, <3>1, <3>2, <3>3
  <2>3. \A k \in f .. NP : k \in 1 .. NP + 1 /\ k + 1 \in 1 .. NP + 1
    BY <1>4, Lengths
  <2>4. NP + 1 \in 1 .. NP + 1 /\ NP + 1 + 1 = NP + 2
    BY Lengths
  <2>5. \A k \in f .. NP : next[cell2[k]] = cell2[k + 1] /\ value[cell2[k]] = k
    BY <1>0, <1>2, <1>6, <2>3 DEF Linked
  <2>6. /\ doomed' = Null /\ headNext' = cell2[f] /\ publisher' = cell2[NP + 1]
        /\ myTail' = cell2[NP + 1 + 1]
    <3>1. cell2[f] = cell[f] /\ cell2[NP + 1] = cell[NP + 1] /\ cell2[NP + 1 + 1] = n
      BY <1>4, <1>6, Lengths
    <3>2. doomed' = Null /\ headNext' = headNext /\ publisher' = publisher /\ myTail' = n
      BY <1>0, <1>1
    <3>3. headNext = cell[f] /\ publisher = cell[NP + 1]
      BY <1>0, <1>2 DEF Linked
    <3>4. QED
      BY <3>1, <3>2, <3>3
  <2>7. Enqueued' + 1 = NP + 2 /\ NP' = NP /\ NC' = NC /\ f \in 1 .. NP + 1 /\ f = NC + 1
    <3>1. NP + 1 + 1 = NP + 2
      BY Lengths
    <3>2. QED
      BY <1>4, <1>5, <1>9, <3>1
  <2>8. Linked(cell2, f)' <=>
           /\ f \in 1 .. NP' + 1
           /\ doomed' = Null => f = NC' + 1 /\ headNext' = cell2[f]
           /\ doomed' # Null => doomed' = cell2[f]
           /\ publisher' = cell2[NP' + 1]
           /\ myTail' = cell2[Enqueued' + 1]
           /\ \A j, k \in f .. Enqueued' + 1 : cell2[j] = cell2[k] => j = k
           /\ \A m \in Node : m \in free' <=> \A k \in f .. Enqueued' + 1 : cell2[k] # m
           /\ \A k \in f .. NP' : next'[cell2[k]] = cell2[k + 1] /\ value'[cell2[k]] = k
           /\ ~Enqueuing' => next'[cell2[NP' + 1]] = Null
    BY DEF Linked
  <2>9. QED
    BY <1>0, <1>9, <2>1, <2>2, <2>4, <2>5, <2>6, <2>7, <2>8
<1>13. Buffered(cell2)'
  <2>1. Left \in 0 .. 1 /\ (Left = 1 => storeBuffer[1] = Store("value", myTail, NP + 1))
    BY <1>0, <1>2 DEF Buffered, Left
  <2>2. storeBuffer \in Seq(Stored)
    BY DEF IInv
  <2>3. /\ \A i \in 1 .. Left : storeBuffer'[i] = storeBuffer[i]
        /\ \A i \in 1 .. 6 : storeBuffer'[Left + i] = EnqueueStores(NP + 1, n)[i]
    BY <1>1, <1>8, <2>2, Concatenation DEF Left
  <2>4. cell2[NP + 2] = n /\ cell2[NP + 1] = myTail
    BY <1>6, <1>7, Lengths
  <2>5. /\ Left = 1 => storeBuffer'[1] = Store("value", myTail, NP + 1)
        /\ storeBuffer'[Left + 1] = Store("value", myTail, NP + 1)
        /\ storeBuffer'[Left + 2] = Store("value", n, Zero)
        /\ storeBuffer'[Left + 3] = Store("next", n, Null)
        /\ storeBuffer'[Left + 4] = Store("next", myTail, n)
        /\ storeBuffer'[Left + 5] = Store("tail", Null, n)
        /\ storeBuffer'[Left + 6] = Store("publisher", Null, n)
    <3>1. /\ EnqueueStores(NP + 1, n)[1] = Store("value", myTail, NP + 1)
          /\ EnqueueStores(NP + 1, n)[2] = Store("value", n, Zero)
          /\ EnqueueStores(NP + 1, n)[3] = Store("next", n, Null)
          /\ EnqueueStores(NP + 1, n)[4] = Store("next", myTail, n)
          /\ EnqueueStores(NP + 1, n)[5] = Store("tail", Null, n)
          /\ EnqueueStores(NP + 1, n)[6] = Store("publisher", Null, n)
      BY <1>8
    <3>2. Left = 1 => 1 \in 1 .. Left
      OBVIOUS
    <3>3. QED
      BY <2>1, <2>3, <3>1, <3>2
  <2>6. Left' \in {6, 7} /\ NP' = NP
    BY <1>5, <1>9, <2>1
  <2>7. /\ storeBuffer'[Left'] = Store("publisher", Null, cell2[NP + 2])
        /\ storeBuffer'[Left' - 1] = Store("tail", Null, cell2[NP + 2])
        /\ storeBuffer'[Left' - 2] = Store("next", cell2[NP + 1], cell2[NP + 2])
        /\ storeBuffer'[Left' - 3] = Store("next", cell2[NP + 2], Null)
        /\ storeBuffer'[Left' - 4] = Store("value", cell2[NP + 2], Zero)
        /\ storeBuffer'[Left' - 5] = Store("value", cell2[NP + 1], NP + 1)
        /\ Left' = 7 => storeBuffer'[1] = Store("value", cell2[NP + 1], NP + 1)
    <3>1. /\ Left' = Left + 6 /\ Left' - 1 = Left + 5 /\ Left' - 2 = Left + 4
          /\ Left' - 3 = Left + 3 /\ Left' - 4 = Left + 2 /\ Left' - 5 = Left + 1
          /\ Left' = 7 => Left = 1
      BY <1>9, <2>1
    <3>2. QED
      BY <2>4, <2>5, <3>1
  <2>8. Left' <= 7 /\ ~(Left' < 6) /\ ~(Left' < 4) /\ ~(Left' < 3) /\ ppc' # "idle"
    BY <1>0, <2>6
  <2>9. NP' + 1 = NP + 1 /\ NP' + 2 = NP + 2
    BY <2>6
  <2> HIDE DEF Zero
  <2>10. QED
    BY <2>7, <2>8, <2>9 DEF Buffered
<1>14. QED
  BY <1>4, <1>6, <1>9, <1>10, <1>11, <1>12, <1>13, Lengths DEF IInv

------------------------------------------------------------------------------
(* The step in which a store reaches memory.                                *)

LEMMA FirstRemoved ==
    ASSUME NEW S, NEW s \in Seq(S), s # <<>>
    PROVE  /\ RemoveAt(s, 1) \in Seq(S) /\ Len(RemoveAt(s, 1)) = Len(s) - 1
           /\ \A k \in 1 .. Len(s) - 1 : RemoveAt(s, 1)[k] = s[k + 1]
<1> DEFINE r == SubSeq(s, 2, Len(s))
<1>1. Len(s) \in Int /\ Len(s) >= 1 /\ \A i \in 2 .. Len(s) : s[i] \in S
  OBVIOUS
<1>2. /\ r \in Seq(S) /\ Len(r) = (IF 2 <= Len(s) THEN Len(s) - 2 + 1 ELSE 0)
      /\ \A k \in 1 .. Len(s) - 2 + 1 : r[k] = s[2 + k - 1]
  BY <1>1, SubSeqProperties
<1>3. RemoveAt(s, 1) = SubSeq(s, 1, 1 - 1) \o SubSeq(s, 1 + 1, Len(s))
  BY DEF RemoveAt
<1>4. SubSeq(s, 1, 1 - 1) = <<>> /\ 1 + 1 = 2
  OBVIOUS
<1> HIDE DEF r
<1>5. RemoveAt(s, 1) = r
  BY <1>2, <1>3, <1>4 DEF r
<1>6. QED
  BY <1>1, <1>2, <1>5

\* What a store at the head of the buffer does to memory.
LEMMA FlushFirst ==
    ASSUME IInv, InOrder = TRUE, NEW i \in 1 .. Left, Flush(i)
    PROVE  LET s == storeBuffer[1]
           IN  /\ Left >= 1 /\ storeBuffer # <<>> /\ s \in Stored
               /\ storeBuffer' \in Seq(Stored) /\ Left' = Left - 1
               /\ \A k \in 1 .. Left - 1 : storeBuffer'[k] = storeBuffer[k + 1]
               /\ value' = IF s.field = "value" THEN [value EXCEPT ![s.node] = s.val]
                                                ELSE value
               /\ next' = IF s.field = "next" THEN [next EXCEPT ![s.node] = s.val] ELSE next
               /\ tail' = IF s.field = "tail" THEN s.val ELSE tail
               /\ publisher' = IF s.field = "publisher" THEN s.val ELSE publisher
               /\ published' = IF s.field = "publisher" THEN Append(published, NP + 1)
                                                        ELSE published
               /\ UNCHANGED <<headNext, size, free, myTail, ppc, cpc, out, consumed, doomed>>
<1>1. i = 1 /\ Left >= 1
  BY Lengths DEF Flush
<1>2. storeBuffer \in Seq(Stored) /\ storeBuffer # <<>> /\ storeBuffer[1] \in Stored
  BY <1>1 DEF IInv, Left
<1>3. /\ storeBuffer' \in Seq(Stored) /\ Left' = Left - 1
      /\ \A k \in 1 .. Left - 1 : storeBuffer'[k] = storeBuffer[k + 1]
  <2>1. storeBuffer' = RemoveAt(storeBuffer, 1)
    BY <1>1 DEF Flush
  <2>2. /\ RemoveAt(storeBuffer, 1) \in Seq(Stored)
        /\ Len(RemoveAt(storeBuffer, 1)) = Len(storeBuffer) - 1
        /\ \A k \in 1 .. Len(storeBuffer) - 1 : RemoveAt(storeBuffer, 1)[k] = storeBuffer[k + 1]
    BY <1>2, FirstRemoved
  <2>3. QED
    BY <2>1, <2>2 DEF Left
<1>4. QED
  BY <1>1, <1>2, <1>3 DEF Flush, Current, NP

\* The store of a failed Enqueue writes the spare node, which nobody reads.
LEMMA FlushOfFailed ==
    ASSUME IInv, InOrder = TRUE, NEW i \in 1 .. Left, Flush(i), ~Enqueuing
    PROVE  IInv'
<1> DEFINE s == storeBuffer[1]
<1>1. Left >= 1 /\ storeBuffer # <<>> /\ doomed = Null /\ ppc = "idle"
  BY FlushFirst DEF IInv, Reached, TypeOK, Enqueuing
<1>2. PICK cell \in Cell, f \in 1 .. MaxItems + 1 : Linked(cell, f) /\ Buffered(cell)
  BY <1>1 DEF IInv
<1>3. /\ NP < MaxItems /\ Left = 1 /\ Enqueued = NP /\ myTail = cell[NP + 1]
      /\ s.field = "value" /\ s.node = myTail /\ s.val = NP + 1
  BY <1>1, <1>2, Lengths DEF Buffered, Linked, Enqueued, Store, Left
<1>4. /\ value' = [value EXCEPT ![myTail] = NP + 1] /\ storeBuffer' \in Seq(Stored) /\ Left' = 0
      /\ UNCHANGED <<next, tail, publisher, published, headNext, size, free, myTail, ppc, cpc,
                     out, consumed, doomed>>
  BY <1>3, FlushFirst
<1>5. storeBuffer' = <<>>
  BY <1>4 DEF Left
<1>6. NP' = NP /\ NC' = NC /\ ~Enqueuing' /\ Enqueued' = NP
  BY <1>4, <1>5 DEF NP, NC, Enqueuing, Enqueued
<1>7. TypeOK'
  <2>1. myTail \in Node /\ NP + 1 \in Item
    <3>1. myTail \in Node
      BY DEF IInv, TypeOK
    <3>2. QED
      BY <1>3, <3>1, Lengths DEF Item
  <2>2. value' \in [Node -> Item \cup {Zero}]
    BY <1>4, <2>1 DEF IInv, TypeOK
  <2>3. Len(storeBuffer') = 0
    BY <1>5
  <2>4. QED
    BY <1>4, <2>2, <2>3 DEF IInv, TypeOK
<1>8. InSequence' /\ Reached' /\ Counted'
  BY <1>1, <1>3, <1>4, <1>6 DEF IInv, InSequence, Reached, Counted
<1>9. Linked(cell, f)'
  <2>1. \A k \in f .. NP : cell[k] # myTail
    BY <1>2, <1>3, Lengths DEF Linked
  <2>2. \A k \in f .. NP : value'[cell[k]] = k
    <3>1. \A k \in f .. NP : k \in 1 .. MaxItems + 1
      BY Lengths
    <3>2. \A k \in f .. NP : value[cell[k]] = k /\ cell[k] \in Node
      BY <1>2, <3>1 DEF Linked, Cell
    <3>3. QED
      BY <1>4, <2>1, <3>2 DEF IInv, TypeOK
  <2>3. QED
    BY <1>2, <1>3, <1>4, <1>6, <2>2 DEF Linked
<1>10. Buffered(cell)'
  BY <1>5, <1>6 DEF Buffered
<1>11. QED
  BY <1>4, <1>7, <1>8, <1>9, <1>10 DEF IInv

\* The last store of an Enqueue publishes the item.
LEMMA FlushOfPublisher ==
    ASSUME IInv, InOrder = TRUE, NEW i \in 1 .. Left, Flush(i), Enqueuing, Left = 1
    PROVE  IInv'
<1> DEFINE s == storeBuffer[1]
<1>1. ppc = "count" /\ doomed = Null
  BY DEF IInv, Reached, Enqueuing
<1>2. PICK cell \in Cell, f \in 1 .. MaxItems + 1 : Linked(cell, f) /\ Buffered(cell)
  BY <1>1 DEF IInv
<1>3. /\ s = Store("publisher", Null, cell[NP + 2])
      /\ value[cell[NP + 1]] = NP + 1 /\ next[cell[NP + 2]] = Null
      /\ next[cell[NP + 1]] = cell[NP + 2]
  BY <1>2 DEF Buffered
<1>4. /\ publisher' = cell[NP + 2] /\ published' = Append(published, NP + 1)
      /\ storeBuffer' \in Seq(Stored) /\ Left' = 0
      /\ UNCHANGED <<value, next, tail, headNext, size, free, myTail, ppc, cpc, out, consumed,
                     doomed>>
  BY <1>3, FlushFirst DEF Store
<1>5. storeBuffer' = <<>>
  BY <1>4 DEF Left
<1>6. Enqueued = NP + 1 /\ NP + 1 \in Item /\ NP + 2 \in 1 .. MaxItems + 1
  BY Lengths DEF Enqueued, Item
<1>7. /\ NP' = NP + 1 /\ NC' = NC /\ ~Enqueuing' /\ Enqueued' = NP + 1
      /\ published' \in Seq(Item) /\ \A k \in 1 .. NP : published'[k] = published[k]
      /\ published'[NP + 1] = NP + 1
  <2>1. published \in Seq(Item)
    BY DEF IInv, TypeOK
  <2>2. /\ NP' = NP + 1 /\ published' \in Seq(Item) /\ published'[NP + 1] = NP + 1
        /\ \A k \in 1 .. NP : published'[k] = published[k]
    BY <1>4, <1>6, <2>1, AppendProperties DEF NP
  <2>3. QED
    BY <1>4, <1>5, <2>2 DEF NC, Enqueuing, Enqueued
<1>8. TypeOK'
  BY <1>4, <1>5, <1>6, <1>7 DEF IInv, TypeOK, Cell
<1>9. InSequence'
  <2>1. \A k \in 1 .. NP + 1 : k \in 1 .. NP \/ k = NP + 1
    BY Lengths
  <2>2. \A k \in 1 .. NP + 1 : published'[k] = k
    BY <1>7, <2>1 DEF IInv, InSequence
  <2>3. NC <= NP + 1 /\ NP + 1 <= MaxItems
    BY <1>6, Lengths DEF Item
  <2>4. QED
    BY <1>4, <1>7, <2>2, <2>3 DEF IInv, InSequence
<1>10. Reached' /\ Counted'
  <2>1. Reached'
    BY <1>1, <1>4, <1>5, <1>7, Lengths DEF IInv, Reached
  <2>2. size = NP - NC + (IF cpc = "count" THEN 1 ELSE 0)
    BY Lengths DEF IInv, Counted, Enqueuing
  <2>3. Counted'
    BY <1>1, <1>4, <1>5, <1>7, <2>2, Lengths DEF Counted
  <2>4. QED
    BY <2>1, <2>3
<1>11. Linked(cell, f)'
  <2>1. f \in 1 .. NP + 1 + 1 /\ \A k \in f .. NP + 1 : k \in f .. NP \/ k = NP + 1
    BY <1>2, Lengths DEF Linked
  <2>2. \A k \in f .. NP + 1 : next'[cell[k]] = cell[k + 1] /\ value'[cell[k]] = k
    <3>1. \A k \in f .. NP : next[cell[k]] = cell[k + 1] /\ value[cell[k]] = k
      BY <1>2 DEF Linked
    <3>2. next[cell[NP + 1]] = cell[NP + 1 + 1] /\ value[cell[NP + 1]] = NP + 1
      BY <1>3, Lengths
    <3>3. QED
      BY <1>4, <2>1, <3>1, <3>2
  <2>3. next'[cell[NP + 1 + 1]] = Null /\ publisher' = cell[NP + 1 + 1]
    BY <1>3, <1>4, Lengths
  <2>4. QED
    BY <1>2, <1>4, <1>6, <1>7, <2>1, <2>2, <2>3 DEF Linked
<1>12. Buffered(cell)'
  BY <1>5, <1>7 DEF Buffered
<1>13. QED
  BY <1>4, <1>8, <1>9, <1>10, <1>11, <1>12 DEF IInv

\* The stores before it complete the node and link it behind the spare one.
LEMMA FlushOfNode ==
    ASSUME IInv, InOrder = TRUE, NEW i \in 1 .. Left, Flush(i), Enqueuing, Left > 1
    PROVE  IInv'
<1> DEFINE s == storeBuffer[1]
<1>1. ppc = "count" /\ doomed = Null
  BY DEF IInv, Reached, Enqueuing
<1>2. PICK cell \in Cell, f \in 1 .. MaxItems + 1 : Linked(cell, f) /\ Buffered(cell)
  BY <1>1 DEF IInv
<1>3. /\ NP + 1 \in Item /\ NP + 1 \in 1 .. MaxItems + 1 /\ NP + 2 \in 1 .. MaxItems + 1
      /\ Left \in 2 .. 7
  <2>1. Enqueued = NP + 1
    BY DEF Enqueued
  <2>2. Left <= 7
    BY <1>2 DEF Buffered
  <2>3. QED
    BY <2>1, <2>2, Lengths DEF Item
<1>4. cell[NP + 1] \in Node /\ cell[NP + 2] \in Node /\ cell[NP + 1] # cell[NP + 2]
  BY <1>2, <1>3, Lengths DEF Cell, Linked, Enqueued
<1>5. /\ Left \in {6, 7} => s = Store("value", cell[NP + 1], NP + 1)
      /\ Left = 5 => s = Store("value", cell[NP + 2], Zero)
      /\ Left = 4 => s = Store("next", cell[NP + 2], Null)
      /\ Left = 3 => s = Store("next", cell[NP + 1], cell[NP + 2])
      /\ Left = 2 => s = Store("tail", Null, cell[NP + 2])
  BY <1>2 DEF Buffered
<1>6. /\ storeBuffer' \in Seq(Stored) /\ Left' = Left - 1
      /\ \A k \in 1 .. Left - 1 : storeBuffer'[k] = storeBuffer[k + 1]
      /\ UNCHANGED <<publisher, published, headNext, size, free, myTail, ppc, cpc, out, consumed,
                     doomed>>
      /\ tail' = IF Left = 2 THEN cell[NP + 2] ELSE tail
      /\ value' = IF Left \in {6, 7} THEN [value EXCEPT ![cell[NP + 1]] = NP + 1]
                  ELSE IF Left = 5 THEN [value EXCEPT ![cell[NP + 2]] = Zero] ELSE value
      /\ next' = IF Left = 4 THEN [next EXCEPT ![cell[NP + 2]] = Null]
                 ELSE IF Left = 3 THEN [next EXCEPT ![cell[NP + 1]] = cell[NP + 2]] ELSE next
  <2>1. /\ storeBuffer' \in Seq(Stored) /\ Left' = Left - 1
        /\ \A k \in 1 .. Left - 1 : storeBuffer'[k] = storeBuffer[k + 1]
        /\ value' = IF s.field = "value" THEN [value EXCEPT ![s.node] = s.val] ELSE value
        /\ next' = IF s.field = "next" THEN [next EXCEPT ![s.node] = s.val] ELSE next
        /\ tail' = IF s.field = "tail" THEN s.val ELSE tail
        /\ publisher' = IF s.field = "publisher" THEN s.val ELSE publisher
        /\ published' = IF s.field = "publisher" THEN Append(published, NP + 1) ELSE published
        /\ UNCHANGED <<headNext, size, free, myTail, ppc, cpc, out, consumed, doomed>>
    BY FlushFirst
  <2> DEFINE Rest == UNCHANGED <<publisher, published>>
  <2>2. Left \in {6, 7} => /\ Rest /\ UNCHANGED <<next, tail>>
                           /\ value' = [value EXCEPT ![cell[NP + 1]] = NP + 1]
    <3>1. Left \in {6, 7} => s.field = "value" /\ s.node = cell[NP + 1] /\ s.val = NP + 1
      BY <1>5 DEF Store
    <3>2. QED
      BY <2>1, <3>1
  <2>3. Left = 5 => /\ Rest /\ UNCHANGED <<next, tail>>
                    /\ value' = [value EXCEPT ![cell[NP + 2]] = Zero]
    <3>1. Left = 5 => s.field = "value" /\ s.node = cell[NP + 2] /\ s.val = Zero
      BY <1>5 DEF Store
    <3>2. QED
      BY <2>1, <3>1
  <2>4. Left = 4 => /\ Rest /\ UNCHANGED <<value, tail>>
                    /\ next' = [next EXCEPT ![cell[NP + 2]] = Null]
    <3>1. Left = 4 => s.field = "next" /\ s.node = cell[NP + 2] /\ s.val = Null
      BY <1>5 DEF Store
    <3>2. QED
      BY <2>1, <3>1
  <2>5. Left = 3 => /\ Rest /\ UNCHANGED <<value, tail>>
                    /\ next' = [next EXCEPT ![cell[NP + 1]] = cell[NP + 2]]
    <3>1. Left = 3 => s.field = "next" /\ s.node = cell[NP + 1] /\ s.val = cell[NP + 2]
      BY <1>5 DEF Store
    <3>2. QED
      BY <2>1, <3>1
  <2>6. Left = 2 => /\ Rest /\ UNCHANGED <<value, next>> /\ tail' = cell[NP + 2]
    <3>1. Left = 2 => s.field = "tail" /\ s.val = cell[NP + 2]
      BY <1>5 DEF Store
    <3>2. QED
      BY <2>1, <3>1
  <2>7. value' = IF Left \in {6, 7} THEN [value EXCEPT ![cell[NP + 1]] = NP + 1]
                 ELSE IF Left = 5 THEN [value EXCEPT ![cell[NP + 2]] = Zero] ELSE value
    BY <1>3, <2>2, <2>3, <2>4, <2>5, <2>6
  <2>8. next' = IF Left = 4 THEN [next EXCEPT ![cell[NP + 2]] = Null]
                ELSE IF Left = 3 THEN [next EXCEPT ![cell[NP + 1]] = cell[NP + 2]] ELSE next
    BY <1>3, <2>2, <2>3, <2>4, <2>5, <2>6
  <2>9. Rest /\ tail' = IF Left = 2 THEN cell[NP + 2] ELSE tail
    BY <1>3, <2>2, <2>3, <2>4, <2>5, <2>6
  <2>10. QED
    BY <2>1, <2>7, <2>8, <2>9
<1>7. NP' = NP /\ NC' = NC /\ Enqueuing' /\ Enqueuing /\ Enqueued' = Enqueued /\ Enqueued = NP + 1
  <2>1. storeBuffer' # <<>>
    BY <1>6, Lengths DEF Left
  <2>2. QED
    BY <1>1, <1>6, <2>1 DEF NP, NC, Enqueuing, Enqueued
<1>8. TypeOK'
  <2>1. \A k \in 1 .. Left' : storeBuffer'[k] \in Stored
    BY <1>6 DEF Left
  <2>2. value' \in [Node -> Item \cup {Zero}] /\ next' \in [Node -> Node \cup {Null}]
    <3>1. value \in [Node -> Item \cup {Zero}] /\ next \in [Node -> Node \cup {Null}]
      BY DEF IInv, TypeOK
    <3> HIDE DEF s
    <3>2. QED
      BY <1>3, <1>4, <1>6, <3>1
  <2>3. {headNext, tail, publisher, myTail}' \subseteq Node
    BY <1>4, <1>6 DEF IInv, TypeOK
  <2>4. \A k \in 1 .. Len(storeBuffer') :
            storeBuffer'[k].field \in {"value", "next", "tail", "publisher"}
    BY <2>1 DEF Stored, Left
  <2>5. QED
    BY <1>6, <2>2, <2>3, <2>4 DEF IInv, TypeOK
<1>9. InSequence' /\ Reached' /\ Counted'
  BY <1>1, <1>6, <1>7 DEF IInv, InSequence, Reached, Counted, Enqueuing
<1>10. Linked(cell, f)'
  <2>1. \A k \in f .. NP : /\ cell[k] \in Node /\ cell[k] # cell[NP + 1] /\ cell[k] # cell[NP + 2]
                           /\ next[cell[k]] = cell[k + 1] /\ value[cell[k]] = k
    <3>1. /\ NP + 1 \in f .. Enqueued + 1 /\ NP + 2 \in f .. Enqueued + 1
          /\ \A k \in f .. NP : k \in f .. Enqueued + 1 /\ k # NP + 1 /\ k # NP + 2
          /\ \A k \in f .. NP : k \in 1 .. MaxItems + 1
      BY <1>2, <1>7, Lengths DEF Linked
    <3>2. \A k \in f .. NP : cell[k] \in Node
      BY <3>1 DEF Cell
    <3>3. QED
      BY <1>2, <3>1, <3>2 DEF Linked
  <2>2. \A k \in f .. NP : next'[cell[k]] = cell[k + 1] /\ value'[cell[k]] = k
    BY <1>6, <2>1 DEF IInv, TypeOK
  <2>3. QED
    BY <1>2, <1>6, <1>7, <2>2 DEF Linked
<1>11. Buffered(cell)'
  <2>1. \A k \in 2 .. Left : storeBuffer'[k - 1] = storeBuffer[k]
    <3>1. \A k \in 2 .. Left : k - 1 \in 1 .. Left - 1 /\ (k - 1) + 1 = k
      BY Lengths
    <3>2. QED
      BY <1>6, <3>1
  <2>2. /\ Left <= 6 => value'[cell[NP + 1]] = NP + 1
        /\ Left <= 4 => next'[cell[NP + 2]] = Null
        /\ Left <= 3 => next'[cell[NP + 1]] = cell[NP + 2]
    <3>1. value \in [Node -> Item \cup {Zero}] /\ next \in [Node -> Node \cup {Null}]
      BY DEF IInv, TypeOK
    <3>2. /\ Left < 6 => value[cell[NP + 1]] = NP + 1
          /\ Left < 4 => next[cell[NP + 2]] = Null
          /\ Left < 3 => next[cell[NP + 1]] = cell[NP + 2]
      BY <1>2 DEF Buffered
    <3>3. QED
      BY <1>3, <1>4, <1>6, <3>1, <3>2
  <2>3. QED
    BY <1>1, <1>2, <1>3, <1>6, <1>7, <2>1, <2>2 DEF Buffered
<1>12. QED
  BY <1>6, <1>8, <1>9, <1>10, <1>11 DEF IInv

LEMMA FlushKeeps ==
    ASSUME IInv, InOrder = TRUE, NEW i \in 1 .. Left, Flush(i)
    PROVE  IInv'
BY FlushOfFailed, FlushOfPublisher, FlushOfNode, Lengths

LEMMA NextKeeps ==
    ASSUME InOrder = TRUE, IInv, [Next]_vars
    PROVE  IInv'
<1>1. CASE UNCHANGED vars
  <2>1. NP' = NP /\ NC' = NC /\ Left' = Left /\ (Enqueuing' <=> Enqueuing) /\ Enqueued' = Enqueued
    BY <1>1 DEF vars, memory, NP, NC, Left, Enqueuing, Enqueued
  <2>2. TypeOK' /\ InSequence' /\ Reached' /\ Counted'
    BY <1>1, <2>1 DEF vars, memory, IInv, TypeOK, InSequence, Reached, Counted
  <2>3. QED
    BY <1>1, <2>2, ListUntouched DEF vars, memory, IInv
<1>2. CASE Next
  BY <1>1, <1>2, EnqueueKeeps, EnqueueFailsKeeps, CountUpKeeps, DequeueKeeps, ReadValueKeeps,
     UnlinkKeeps, CountDownKeeps, FlushKeeps, DestructKeeps, FreeNodeKeeps
     DEF Next, Producer, Consumer, FlushAny, Terminated, Left
<1>3. QED
  BY <1>1, <1>2

\* The inductive invariant holds throughout, if stores reach memory in order.
THEOREM Invariance ==
    ASSUME InOrder = TRUE
    PROVE  Spec => []IInv
BY InitEstablishes, NextKeeps, PTL DEF Spec

\* Variables have their types; size never falls below -1.
THEOREM TypeCorrect ==
    ASSUME InOrder = TRUE
    PROVE  Spec => []TypeOK
<1>1. IInv => TypeOK
  BY DEF IInv
<1>2. QED
  BY Invariance, <1>1, PTL

------------------------------------------------------------------------------
(* What the invariant says.                                                 *)

LEMMA PublisherPending ==
    ASSUME IInv
    PROVE  Pending("publisher", Null) <=> Enqueuing
<1>1. CASE ppc = "gone"
  BY <1>1 DEF IInv, Reached, Enqueuing, Pending
<1>2. CASE ppc # "gone"
  <2>1. PICK cell \in Cell, f \in 1 .. MaxItems + 1 : Linked(cell, f) /\ Buffered(cell)
    BY <1>2 DEF IInv
  <2>2. CASE Enqueuing
    <3>1. Left \in 1 .. Left
      BY <2>2, Lengths DEF Enqueuing, Left, IInv
    <3>2. storeBuffer[Left].field = "publisher" /\ storeBuffer[Left].node = Null
      BY <2>1, <2>2 DEF Buffered, Store
    <3>3. QED
      BY <2>2, <3>1, <3>2 DEF Pending, Left
  <2>3. CASE ~Enqueuing
    <3>1. storeBuffer = <<>> \/ storeBuffer = <<Store("value", myTail, NP + 1)>>
      BY <1>2, <2>1, <2>3 DEF IInv, TypeOK, Buffered, Enqueuing
    <3>2. \A i \in 1 .. Len(storeBuffer) : storeBuffer[i].field = "value"
      BY <3>1 DEF Store
    <3>3. QED
      BY <2>3, <3>2 DEF Pending
  <2>4. QED
    BY <2>2, <2>3
<1>3. QED
  BY <1>1, <1>2

\* The consumer reads only nodes before the publisher, whose fields are all in
\* memory, and finds there the item it is at.
THEOREM ReadsAreSafe ==
    ASSUME InOrder = TRUE
    PROVE  Spec => []ReadsOnlyPublished
<1>1. ASSUME IInv
      PROVE  ReadsOnlyPublished
  <2> SUFFICES ASSUME cpc \in {"read", "unlink"}
               PROVE  /\ Len(consumed) < Len(published)
                      /\ ~Pending("value", headNext)
                      /\ ~Pending("next", headNext)
                      /\ value[headNext] = published[Len(consumed) + 1]
    BY DEF ReadsOnlyPublished
  <2>1. NC < NP /\ doomed = Null /\ ppc # "gone"
    BY <1>1 DEF IInv, Reached
  <2>2. PICK cell \in Cell, f \in 1 .. MaxItems + 1 : Linked(cell, f) /\ Buffered(cell)
    BY <1>1, <2>1 DEF IInv
  <2>3. headNext = cell[NC + 1] /\ f = NC + 1 /\ NC + 1 \in f .. NP /\ NC + 1 \in 1 .. NP
    BY <1>1, <2>1, <2>2, Lengths DEF Linked
  <2>4. value[headNext] = NC + 1 /\ published[NC + 1] = NC + 1
    BY <1>1, <2>2, <2>3 DEF Linked, IInv, InSequence
  <2>5. headNext # cell[NP + 1] /\ headNext \in Node /\ headNext # Null
    <3>1. headNext \in Node /\ headNext # Null
      BY <1>1, QueueAssumption DEF IInv, TypeOK
    <3>2. NC + 1 \in f .. Enqueued + 1 /\ NP + 1 \in f .. Enqueued + 1 /\ NC + 1 # NP + 1
      BY <1>1, <2>1, <2>3, Lengths
    <3>3. QED
      BY <2>2, <2>3, <3>1, <3>2 DEF Linked
  <2>6. Enqueuing => headNext # cell[NP + 2]
    BY <1>1, <2>1, <2>2, <2>3, Lengths DEF Linked, Enqueued
  <2>7. \A i \in 1 .. Left : storeBuffer[i].node # headNext
    <3>1. CASE Enqueuing
      <4>1. Left \in 1 .. 7
        <5>1. Left # 0
          BY <1>1, <3>1 DEF Enqueuing, Left, IInv
        <5>2. Left <= 7
          BY <2>2, <3>1 DEF Buffered
        <5>3. QED
          BY <1>1, <5>1, <5>2, Lengths
      <4>2. \A i \in 1 .. Left : storeBuffer[i].node \in {Null, cell[NP + 1], cell[NP + 2]}
        <5> DEFINE ofNew(s) == s.node \in {Null, cell[NP + 1], cell[NP + 2]}
        <5>1. \A k \in {NP + 1, NP + 2} : \A v : /\ ofNew(Store("value", cell[k], v))
                                                /\ ofNew(Store("next", cell[k], v))
          BY DEF Store
        <5>2. \A v : ofNew(Store("tail", Null, v)) /\ ofNew(Store("publisher", Null, v))
          BY DEF Store
        <5> HIDE DEF ofNew
        <5>3. /\ ofNew(storeBuffer[Left])
              /\ Left >= 2 => ofNew(storeBuffer[Left - 1])
              /\ Left >= 3 => ofNew(storeBuffer[Left - 2])
              /\ Left >= 4 => ofNew(storeBuffer[Left - 3])
              /\ Left >= 5 => ofNew(storeBuffer[Left - 4])
              /\ Left >= 6 => ofNew(storeBuffer[Left - 5])
              /\ Left = 7 => ofNew(storeBuffer[1])
          BY <2>2, <3>1, <5>1, <5>2 DEF Buffered
        <5>4. \A i \in 1 .. Left :
                  ~(Left = 7 /\ i = 1) =>
                      i \in {Left, Left - 1, Left - 2, Left - 3, Left - 4, Left - 5}
          BY <4>1
        <5>5. \A i \in 1 .. Left : ofNew(storeBuffer[i])
          BY <4>1, <5>3, <5>4
        <5>6. QED
          BY <5>5 DEF ofNew
      <4>3. QED
        BY <2>5, <2>6, <3>1, <4>2
    <3>2. CASE ~Enqueuing
      <4>1. storeBuffer = <<>> \/ storeBuffer = <<Store("value", myTail, NP + 1)>>
        BY <1>1, <2>1, <2>2, <3>2 DEF IInv, TypeOK, Buffered, Enqueuing
      <4>2. myTail = cell[NP + 1]
        BY <2>2, <3>2 DEF Linked, Enqueued
      <4>3. QED
        BY <2>5, <4>1, <4>2 DEF Store, Left
    <3>3. QED
      BY <3>1, <3>2
  <2>8. QED
    BY <2>1, <2>4, <2>7 DEF Pending, NC, NP, Left
<1>2. QED
  BY Invariance, <1>1, PTL

\* Dequeue's test tells an empty queue from one with a published item.
THEOREM EmptyIsEmpty ==
    ASSUME InOrder = TRUE
    PROVE  Spec => []EmptyAnswerIsRight
<1>1. ASSUME IInv
      PROVE  EmptyAnswerIsRight
  BY <1>1, Lengths DEF EmptyAnswerIsRight, Destructed, HasItem, IInv, Linked, NC, NP
<1>2. QED
  BY Invariance, <1>1, PTL

\* size is the number of items in the queue but for the updates still to come.
THEOREM SizeIsKept ==
    ASSUME InOrder = TRUE
    PROVE  Spec => []SizeAccounts
<1>1. IInv => SizeAccounts
  BY PublisherPending DEF SizeAccounts, IInv, Counted, Enqueuing, NC, NP
<1>2. QED
  BY Invariance, <1>1, PTL

\* No node that an end of the list points to is with the allocator, and the
\* destructor frees no node twice.
THEOREM NodesAreOwned ==
    ASSUME InOrder = TRUE
    PROVE  Spec => []NoUseAfterFree
<1>1. ASSUME IInv
      PROVE  NoUseAfterFree
  <2>1. ASSUME NEW cell \in Cell, NEW f \in 1 .. MaxItems + 1, Linked(cell, f)
        PROVE  /\ doomed = Null => {headNext, publisher, myTail} \cap free = {}
               /\ doomed \notin free
    <3>1. \A k \in f .. Enqueued + 1 : cell[k] \notin free
      BY <1>1, <2>1 DEF Linked, IInv, TypeOK
    <3>2. f \in f .. Enqueued + 1 /\ NP + 1 \in f .. Enqueued + 1 /\ Enqueued + 1 \in f .. Enqueued + 1
      BY <1>1, <2>1, Lengths DEF Linked
    <3>3. Null \notin free
      BY <1>1, QueueAssumption DEF IInv, TypeOK
    <3>4. QED
      BY <2>1, <3>1, <3>2, <3>3 DEF Linked
  <2>2. ppc = "gone" => doomed \notin free
    BY <1>1, QueueAssumption DEF IInv, Reached, TypeOK
  <2>3. QED
    BY <1>1, <2>1, <2>2 DEF NoUseAfterFree, Destructed, IInv
<1>2. QED
  BY Invariance, <1>1, PTL

\* Every node the allocator has given out is the spare node, the next one, or the
\* node of an item that is not taken; when the destructor ends, none is left.
THEOREM NodesAreCounted ==
    ASSUME InOrder = TRUE
    PROVE  Spec => []NoLeak
<1>1. ASSUME IInv, ~Destructed
      PROVE  Cardinality(Node \ free) = 1 + NP - NC + (IF Enqueuing THEN 1 ELSE 0)
  <2>1. doomed = Null /\ ppc # "gone"
    BY <1>1 DEF Destructed
  <2>2. PICK cell \in Cell, f \in 1 .. MaxItems + 1 : Linked(cell, f)
    BY <1>1, <2>1 DEF IInv
  <2> DEFINE last == Enqueued + 1
  <2> DEFINE I == f .. last
  <2> DEFINE C == [k \in I |-> cell[k]]
  <2>3. f = NC + 1 /\ f \in Int /\ last \in Int /\ f <= last /\ I \subseteq 1 .. MaxItems + 1
    BY <1>1, <2>1, <2>2, Lengths DEF Linked
  <2>4. C \in [I -> Node \ free]
    BY <2>2, <2>3 DEF Linked, Cell
  <2>5. \A j, k \in I : C[j] = C[k] => j = k
    BY <2>2, <2>3 DEF Linked
  <2>6. \A n \in Node \ free : \E k \in I : C[k] = n
    BY <2>2, <2>3 DEF Linked
  <2>7. ExistsBijection(I, Node \ free)
    BY <2>4, <2>5, <2>6, Fun_IsBij, Fun_ExistsBij
  <2>8. IsFiniteSet(I) /\ Cardinality(I) = Enqueued + 1 - NC
    <3> HIDE DEF last
    <3>1. IsFiniteSet(I) /\ Cardinality(I) = IF f > last THEN 0 ELSE last - f + 1
      <4>1. f \in Int /\ last \in Int
        BY <2>3
      <4>2. QED
        BY <4>1, FS_Interval
    <3>2. Cardinality(I) = last - f + 1
      BY <2>3, <3>1
    <3>3. last = Enqueued + 1 /\ NC \in Nat /\ Enqueued \in Nat
      BY <1>1, Lengths DEF last
    <3>4. QED
      BY <2>3, <3>1, <3>2, <3>3
  <2>9. Cardinality(Node \ free) = Enqueued + 1 - NC
    BY <2>7, <2>8, FS_Bijection
  <2>10. QED
    BY <1>1, <2>9, Lengths DEF Enqueued
<1>2. IInv => NoLeak
  BY <1>1, PublisherPending DEF NoLeak, NP, NC, IInv, Reached
<1>3. QED
  BY Invariance, <1>2, PTL

------------------------------------------------------------------------------
(* Refinement of FifoChannel.                                               *)

\* Appending to a sequence appends to each of its ends.
LEMMA EndOfAppend ==
    ASSUME NEW S, NEW s \in Seq(S), NEW e \in S, NEW m \in 1 .. Len(s) + 1
    PROVE  SubSeq(Append(s, e), m, Len(s) + 1) = Append(SubSeq(s, m, Len(s)), e)
<1> DEFINE t == Append(s, e)
<1>1. t \in Seq(S) /\ Len(t) = Len(s) + 1 /\ t[Len(s) + 1] = e /\ t = s \o <<e>>
  BY AppendProperties, AppendIsConcat
<1>2. Len(s) \in Nat /\ <<e>> \in Seq(S)
  OBVIOUS
<1>3. SubSeq(t, m, Len(t)) = SubSeq(t, m, Len(t) - 1) \o <<t[Len(t)]>>
  <2>1. m \in 1 .. Len(t) /\ Len(t) \in m .. Len(t)
    BY <1>1, <1>2
  <2>2. QED
    BY <1>1, <2>1, SubSeqRecursiveSecond
<1>4. SubSeq(t, m, Len(s)) = SubSeq(s, m, Len(s))
  <2>1. CASE m \in 1 .. Len(s)
    <3>1. Len(s) \in 1 .. Len(s)
      BY <1>2, <2>1
    <3>2. QED
      BY <1>1, <1>2, <2>1, <3>1, SubSeqOfConcat1
  <2>2. CASE m = Len(s) + 1
    BY <1>2, <2>2, SubSeqEmpty
  <2>3. QED
    BY <1>2, <2>1, <2>2
<1>5. SubSeq(s, m, Len(s)) \in Seq(S)
  <2>1. \A i \in m .. Len(s) : s[i] \in S
    BY <1>2
  <2>2. QED
    BY <1>2, <2>1, SubSeqProperties
<1>6. QED
  <2>1. Len(t) - 1 = Len(s)
    BY <1>1, <1>2
  <2>2. SubSeq(t, m, Len(s) + 1) = SubSeq(s, m, Len(s)) \o <<e>>
    BY <1>1, <1>3, <1>4, <2>1
  <2>3. QED
    BY <1>5, <2>2, AppendIsConcat

Items == SubSeq(published, NC + 1, NP)

LEMMA FlushPuts ==
    ASSUME IInv, NEW i \in 1 .. Left, Flush(i)
    PROVE  \/ UNCHANGED <<published, consumed>>
           \/ NP + 1 \in Item /\ published' = Append(published, NP + 1) /\ UNCHANGED consumed
<1>1. CASE ~Enqueuing
  <2>1. ppc = "idle" /\ storeBuffer # <<>>
    BY <1>1 DEF IInv, TypeOK, Reached, Enqueuing, Left
  <2>2. storeBuffer = <<Store("value", myTail, NP + 1)>>
    BY <2>1 DEF IInv, Buffered
  <2>3. i = 1 /\ storeBuffer[i].field = "value"
    BY <2>2 DEF Store, Left
  <2>4. QED
    BY <2>3 DEF Flush
<1>2. CASE Enqueuing
  <2>1. NP + 1 \in Item
    BY <1>2, Lengths DEF Enqueued, Item
  <2>2. QED
    BY <2>1 DEF Flush, Current, NP
<1>3. QED
  BY <1>1, <1>2

LEMMA ItemsAreItems ==
    ASSUME IInv
    PROVE  /\ Items \in Seq(Item) /\ Len(Items) = NP - NC
           /\ published \in Seq(Item) /\ consumed \in Seq(Item)
<1>1. published \in Seq(Item) /\ consumed \in Seq(Item) /\ NC + 1 \in Nat /\ NP \in Nat /\ NC <= NP
  BY Lengths DEF IInv, TypeOK
<1>2. \A i \in NC + 1 .. NP : published[i] \in Item
  BY <1>1, Lengths DEF NP, NC
<1>3. /\ Items \in Seq(Item)
      /\ Len(Items) = IF NC + 1 <= NP THEN NP - (NC + 1) + 1 ELSE 0
  BY <1>1, <1>2, SubSeqProperties DEF Items
<1>4. QED
  BY <1>1, <1>3, Lengths

LEMMA InitIsEmpty == ASSUME Init PROVE Fifo!Init
BY SubSeqEmpty DEF Init, Fifo!Init

\* Publishing is putting; unlinking is taking; no other step shows.
LEMMA StepIsFifo ==
    ASSUME InOrder = TRUE, IInv, [Next]_vars
    PROVE  [Fifo!Next]_<<Items, consumed>>
<1>1. CASE UNCHANGED <<published, consumed>>
  BY <1>1 DEF Items, NP, NC
<1>2. CASE Unlink
  <2>1. /\ NC < NP /\ out = NC + 1 /\ published[NC + 1] = NC + 1
    <3>1. NC < NP /\ out = NC + 1
      BY <1>2 DEF Unlink, IInv, Reached
    <3>2. NC + 1 \in 1 .. NP
      BY <3>1, Lengths
    <3>3. QED
      BY <3>1, <3>2 DEF IInv, InSequence
  <2>2. NC' = NC + 1 /\ NP' = NP /\ published' = published /\ consumed' = Append(consumed, out)
    BY <1>2, ItemsAreItems DEF Unlink, NC, NP
  <2>3. Head(Items) = out /\ Tail(Items) = SubSeq(published, NC + 1 + 1, NP)
    <3>1. NC + 1 \in 1 .. NP /\ NP \in NC + 1 .. NP
      BY <2>1, Lengths
    <3>2. QED
      BY <2>1, <3>1, ItemsAreItems, HeadTailOfSubSeq DEF Items, NP
  <2>4. Items' = Tail(Items)
    BY <2>2, <2>3 DEF Items
  <2>5. Items # <<>>
    <3>1. Len(Items) # 0
      BY <2>1, ItemsAreItems, Lengths
    <3>2. QED
      BY <3>1
  <2>6. Fifo!Take
    BY <2>2, <2>3, <2>4, <2>5 DEF Fifo!Take, Items, NP, NC
  <2>7. QED
    BY <2>6 DEF Fifo!Next
<1>3. CASE NP + 1 \in Item /\ published' = Append(published, NP + 1) /\ UNCHANGED consumed
  <2>1. NP' = NP + 1 /\ NC' = NC
    BY <1>3, ItemsAreItems DEF NP, NC
  <2>2. SubSeq(published', NC + 1, NP + 1) = Append(Items, NP + 1)
    <3>1. NC + 1 \in 1 .. NP + 1
      BY Lengths
    <3>2. QED
      BY <1>3, <3>1, ItemsAreItems, EndOfAppend DEF Items, NP
  <2>3. Items' = Append(Items, NP + 1)
    BY <2>1, <2>2 DEF Items
  <2>4. Fifo!Put(NP + 1)
    BY <1>3, <2>3 DEF Fifo!Put, Items, NP, NC
  <2>5. QED
    BY <1>3, <2>4 DEF Fifo!Next
<1>4. QED
  <2>1. ASSUME NEW i \in 1 .. Len(storeBuffer), Flush(i)
        PROVE  \/ UNCHANGED <<published, consumed>>
               \/ NP + 1 \in Item /\ published' = Append(published, NP + 1) /\ UNCHANGED consumed
    BY <2>1, FlushPuts DEF Left
  <2>2. ASSUME Next, ~Unlink, ~FlushAny
        PROVE  UNCHANGED <<published, consumed>>
    BY <2>2 DEF Next, Producer, Consumer, Terminated, Enqueue, EnqueueFails, CountUp, Dequeue,
       ReadValue, CountDown, Destruct, FreeNode, vars
  <2>3. UNCHANGED vars => UNCHANGED <<published, consumed>>
    BY DEF vars
  <2>4. QED
    BY <1>1, <1>2, <1>3, <2>1, <2>2, <2>3 DEF FlushAny

\* Whatever the memory holds back, the queue is a FIFO channel: items come out
\* in the order they went in, each once, none invented.
THEOREM Refinement ==
    ASSUME InOrder = TRUE
    PROVE  Spec => ImplementsFifo
<1>1. Init => Fifo!Init
  BY InitIsEmpty
<1>2. IInv /\ [Next]_vars => [Fifo!Next]_<<SubSeq(published, Len(consumed) + 1, Len(published)), consumed>>
  BY StepIsFifo DEF Items, NP, NC
<1>3. QED
  BY Invariance, <1>1, <1>2, PTL DEF Spec, ImplementsFifo, Fifo!Spec
==============================================================================
