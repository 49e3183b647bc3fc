---------------------------- MODULE LockFreeQueue ----------------------------
(***************************************************************************)
(* class LockFreeQueue of cpp_utils/lockfree_queue.cpp: a linked list with *)
(* a dummy first node, shared by one producer and one consumer.            *)
(*                                                                         *)
(* The list pointers are plain variables.  The producer's stores therefore *)
(* reach memory some time after they are made: they wait in storeBuffer.   *)
(* With InOrder they leave it in program order, as x86 stores do; without, *)
(* in any order that keeps the stores to one place in order, as the C++    *)
(* rules allow.  size is a std::atomic<int>: its update comes after every  *)
(* store before it.  The consumer's loads are taken in program order.      *)
(*                                                                         *)
(* The first node never changes and only its next matters: headNext.       *)
(* delete gives a node back to the allocator, which hands it out again     *)
(* with its old contents; Node is all the memory there is.                 *)
(***************************************************************************)
EXTENDS Integers, Sequences, SequencesExt, FiniteSets

CONSTANTS
    Node,       \* the nodes the allocator can hand out
    Null,
    MaxItems,   \* bound: the producer enqueues 1 .. MaxItems, then stops
    InOrder     \* whether stores reach memory in program order

ASSUME QueueAssumption ==
    /\ IsFiniteSet(Node)
    /\ Null \notin Node
    /\ MaxItems \in Nat
    /\ InOrder \in BOOLEAN

Item == 1 .. MaxItems
Zero == 0       \* what QueueNode() leaves in value

VARIABLES
    value, next,        \* memory: the fields of each node
    headNext,           \* memory: head->next, written by the consumer only
    tail, publisher,    \* memory
    size,
    free,               \* the nodes the allocator has
    storeBuffer,        \* the producer's stores that are not in memory yet
    myTail,             \* tail as the producer sees it
    ppc,                \* where the producer is
    cpc,                \* where the consumer is
    out,                \* the consumer's copy of the value it is taking
    published,          \* history: the items whose publication is in memory
    consumed,           \* history: what Dequeue() has given out
    doomed              \* the node the destructor is at

memory == <<value, next, tail, publisher>>
vars == <<memory, headNext, size, free, storeBuffer, myTail, ppc, cpc, out,
          published, consumed, doomed>>

------------------------------------------------------------------------------
\* The constructor: one spare node, which is tail and publisher.
Init ==
    \E n \in Node :
        /\ value = [m \in Node |-> Zero]
        /\ next = [m \in Node |-> Null]
        /\ headNext = n
        /\ tail = n
        /\ publisher = n
        /\ size = 0
        /\ free = Node \ {n}
        /\ storeBuffer = <<>>
        /\ myTail = n
        /\ ppc = "idle"
        /\ cpc = "idle"
        /\ out = Zero
        /\ published = <<>>
        /\ consumed = <<>>
        /\ doomed = Null

------------------------------------------------------------------------------
(* The producer.                                                            *)

Store(f, n, v) == [field |-> f, node |-> n, val |-> v]

\* Faulty variant of EnqueueStores: published before the node is complete.
EnqueueStoresPublishFirst(v, n) ==
    <<Store("value", n, Zero), Store("next", n, Null),
      Store("publisher", Null, n), Store("value", myTail, v),
      Store("next", myTail, n), Store("tail", Null, n)>>
\* The stores of Enqueue(v) when the allocator gives it node n.
EnqueueStores(v, n) ==
    <<Store("value", myTail, v), Store("value", n, Zero), Store("next", n, Null),
      Store("next", myTail, n), Store("tail", Null, n), Store("publisher", Null, n)>>

\* The item the producer is at.
Current == Len(published) + 1

\* Enqueue up to ++size.  Its stores are visible to nobody before they leave the
\* buffer, so making them is one step.
Enqueue ==
    /\ ppc = "idle"
    /\ doomed = Null
    /\ Current \in Item
    /\ \E n \in free :
          /\ storeBuffer' = storeBuffer \o EnqueueStores(Current, n)
          /\ free' = free \ {n}
          /\ myTail' = n
    /\ ppc' = "count"
    /\ UNCHANGED <<memory, headNext, size, cpc, out, published, consumed, doomed>>

\* The value is in the spare node when the allocation fails and bad_alloc leaves
\* Enqueue; the caller may try again.
EnqueueFails ==
    /\ ppc = "idle"
    /\ doomed = Null
    /\ Current \in Item
    /\ free = {}
    /\ storeBuffer = <<>>       \* bound: one failed attempt in the buffer
    /\ storeBuffer' = <<Store("value", myTail, Current)>>
    /\ UNCHANGED <<memory, headNext, size, free, myTail, ppc, cpc, out, published,
                   consumed, doomed>>

\* The store at position i reaches memory.
Flush(i) ==
    LET s == storeBuffer[i]
    IN  /\ InOrder => i = 1
        /\ \A j \in 1 .. i - 1 : <<storeBuffer[j].field, storeBuffer[j].node>>
                                      # <<s.field, s.node>>
        /\ storeBuffer' = RemoveAt(storeBuffer, i)
        /\ value' = IF s.field = "value" THEN [value EXCEPT ![s.node] = s.val] ELSE value
        /\ next' = IF s.field = "next" THEN [next EXCEPT ![s.node] = s.val] ELSE next
        /\ tail' = IF s.field = "tail" THEN s.val ELSE tail
        /\ publisher' = IF s.field = "publisher" THEN s.val ELSE publisher
        /\ published' = IF s.field = "publisher" THEN Append(published, Current)
                                                 ELSE published
        /\ UNCHANGED <<headNext, size, free, myTail, ppc, cpc, out, consumed, doomed>>

\* Faulty variant of CountUp: the item is not counted.
CountUpForgotten ==
    /\ ppc = "count"
    /\ storeBuffer = <<>>
    /\ size' = size
    /\ ppc' = "idle"
    /\ UNCHANGED <<memory, headNext, free, storeBuffer, myTail, cpc, out, published,
                   consumed, doomed>>

\* ++size, with every store before it in memory; Enqueue returns.
CountUp ==
    /\ ppc = "count"
    /\ storeBuffer = <<>>
    /\ size' = size + 1
    /\ ppc' = "idle"
    /\ UNCHANGED <<memory, headNext, free, storeBuffer, myTail, cpc, out, published,
                   consumed, doomed>>

------------------------------------------------------------------------------
(* The consumer.                                                            *)

\* Faulty variant of HasItem: the producer's own end of the list is read.
HasItemUpToTail == headNext # tail
HasItem == headNext # publisher

\* Dequeue finds a published node.  If it finds none it returns false, and
\* nothing changes.
Dequeue ==
    /\ cpc = "idle"
    /\ doomed = Null /\ ppc # "gone"
    /\ HasItem
    /\ cpc' = "read"
    /\ UNCHANGED <<memory, headNext, size, free, storeBuffer, myTail, ppc, out,
                   published, consumed, doomed>>

ReadValue ==
    /\ cpc = "read"
    /\ out' = value[headNext]
    /\ cpc' = "unlink"
    /\ UNCHANGED <<memory, headNext, size, free, storeBuffer, myTail, ppc, published,
                   consumed, doomed>>

\* Faulty variants of Unlink: no delete; the wrong node is deleted.
UnlinkWithoutDelete ==
    /\ cpc = "unlink"
    /\ headNext' = next[headNext]
    /\ UNCHANGED free
    /\ consumed' = Append(consumed, out)
    /\ out' = Zero
    /\ cpc' = "count"
    /\ UNCHANGED <<memory, size, storeBuffer, myTail, ppc, published, doomed>>
UnlinkAndDeleteNext ==
    /\ cpc = "unlink"
    /\ headNext' = next[headNext]
    /\ free' = free \cup {next[headNext]}
    /\ consumed' = Append(consumed, out)
    /\ out' = Zero
    /\ cpc' = "count"
    /\ UNCHANGED <<memory, size, storeBuffer, myTail, ppc, published, doomed>>

\* head->next is moved on and the node is deleted; only the consumer sees the
\* two stores apart.
Unlink ==
    /\ cpc = "unlink"
    /\ headNext' = next[headNext]
    /\ free' = free \cup {headNext}
    /\ consumed' = Append(consumed, out)
    /\ out' = Zero
    /\ cpc' = "count"
    /\ UNCHANGED <<memory, size, storeBuffer, myTail, ppc, published, doomed>>

\* Faulty variant of CountDown: size is kept from falling below zero.
CountDownToZero ==
    /\ cpc = "count"
    /\ size' = IF size > 0 THEN size - 1 ELSE 0
    /\ cpc' = "idle"
    /\ UNCHANGED <<memory, headNext, free, storeBuffer, myTail, ppc, out, published,
                   consumed, doomed>>

\* --size; Dequeue returns true.  It may come before the producer's ++size.
CountDown ==
    /\ cpc = "count"
    /\ size' = size - 1
    /\ cpc' = "idle"
    /\ UNCHANGED <<memory, headNext, free, storeBuffer, myTail, ppc, out, published,
                   consumed, doomed>>

------------------------------------------------------------------------------
(* The destructor, once both threads are joined: the nodes from head on.    *)

Destruct ==
    /\ ppc = "idle" /\ cpc = "idle" /\ storeBuffer = <<>>
    /\ doomed = Null
    /\ doomed' = headNext
    /\ UNCHANGED <<memory, headNext, size, free, storeBuffer, myTail, ppc, cpc, out,
                   published, consumed>>

FreeNode ==
    /\ doomed # Null
    /\ free' = free \cup {doomed}
    /\ doomed' = next[doomed]
    /\ ppc' = IF next[doomed] = Null THEN "gone" ELSE "idle"
    /\ UNCHANGED <<memory, headNext, size, storeBuffer, myTail, cpc, out, published,
                   consumed>>

------------------------------------------------------------------------------
Producer == Enqueue \/ EnqueueFails \/ CountUp
Consumer == Dequeue \/ ReadValue \/ Unlink \/ CountDown
FlushAny == \E i \in 1 .. Len(storeBuffer) : Flush(i)

\* The queue is gone, or nothing is left to enqueue or to take.
Terminated ==
    /\ \/ ppc = "gone"
       \/ ppc = "idle" /\ cpc = "idle" /\ Len(consumed) = MaxItems /\ doomed = Null
    /\ UNCHANGED vars

Next == Producer \/ Consumer \/ FlushAny \/ Destruct \/ FreeNode \/ Terminated

Spec == Init /\ [][Next]_vars

\* Produce() and Consum() go on calling until every item is through, a store
\* does not wait for ever, and a destructor that runs comes to its end.
FairSpec ==
    /\ Spec
    /\ WF_vars(Enqueue) /\ WF_vars(CountUp)
    /\ WF_vars(Consumer)
    /\ WF_vars(FlushAny)
    /\ WF_vars(FreeNode)

------------------------------------------------------------------------------
(* Properties.                                                              *)

Destructed == doomed # Null \/ ppc = "gone"
Pending(f, n) == \E i \in 1 .. Len(storeBuffer) :
                    storeBuffer[i].field = f /\ storeBuffer[i].node = n

\* size is an int that may fall to -1, and no lower: queue_size() then says
\* 2^32 - 1 of an empty queue.
TypeOK ==
    /\ value \in [Node -> Item \cup {Zero}]
    /\ next \in [Node -> Node \cup {Null}]
    /\ {headNext, tail, publisher, myTail} \subseteq Node
    /\ size \in -1 .. MaxItems
    /\ free \subseteq Node
    /\ \A i \in 1 .. Len(storeBuffer) :
           storeBuffer[i].field \in {"value", "next", "tail", "publisher"}
    /\ ppc \in {"idle", "count", "gone"}
    /\ cpc \in {"idle", "read", "unlink", "count"}
    /\ out \in Item \cup {Zero}
    /\ published \in Seq(Item)
    /\ consumed \in Seq(Item)
    /\ doomed \in Node \cup {Null}

\* The consumer touches only the part of the list before publisher, and all of
\* that part has reached memory (the ownership comment, lines 6-11 and 22).
ReadsOnlyPublished ==
    cpc \in {"read", "unlink"} =>
        /\ Len(consumed) < Len(published)
        /\ ~Pending("value", headNext)
        /\ ~Pending("next", headNext)
        /\ value[headNext] = published[Len(consumed) + 1]

\* No end of the list is in the allocator's hands, and none is freed twice.
NoUseAfterFree ==
    /\ ~Destructed => {headNext, publisher, myTail} \cap free = {}
    /\ doomed \notin free

\* Every node the allocator has given out is the spare node or holds an item
\* that is not taken yet, and the destructor gives all of them back.
NoLeak ==
    /\ ~Destructed =>
           Cardinality(Node \ free) =
               1 + Len(published) - Len(consumed)
                 + (IF Pending("publisher", Null) THEN 1 ELSE 0)
    /\ ppc = "gone" => free = Node

\* When Dequeue says the queue is empty, every published item has been taken,
\* and when it goes on, one has not.
EmptyAnswerIsRight ==
    cpc = "idle" /\ ~Destructed => (HasItem <=> Len(consumed) < Len(published))

\* size differs from the number of items in the queue by the updates that are
\* still to come, at most one on each side; at rest it is exact.
SizeAccounts ==
    size = Len(published) - Len(consumed)
           - (IF ppc = "count" /\ ~Pending("publisher", Null) THEN 1 ELSE 0)
           + (IF cpc = "count" THEN 1 ELSE 0)

\* Through every order of stores the queue is a FIFO channel.
Fifo == INSTANCE FifoChannel WITH
    Value <- Item,
    items <- SubSeq(published, Len(consumed) + 1, Len(published)),
    taken <- consumed
ImplementsFifo == Fifo!Spec

\* Every item gets through, with no more memory than Node, unless the queue is
\* destroyed before: no item is overlooked and no node is lost for ever.
EveryItemGetsThrough == <>(Len(consumed) = MaxItems \/ Destructed)
==============================================================================
