------------------------------- MODULE Subject -------------------------------
(***************************************************************************)
(* BaseSubject of cpp_utils/observer.cpp: a list of pointers to observers, *)
(* one thread, and callbacks: what an observer does in its Update() may be *)
(* any operation of the subject, another notification included.  So the    *)
(* notifications under way form a stack, each with its place in the list.  *)
(*                                                                         *)
(* An iterator of a std::list stays valid until its own node is erased.    *)
(* Nodes are numbered in the order in which they are allocated.            *)
(***************************************************************************)
EXTENDS Naturals, Sequences, FiniteSets, SequencesExt

CONSTANTS
    Observer,
    MaxObservers,   \* max_observer_size_
    Cases,          \* the cases the program meets of those the class cannot
                    \* stand: a subset of {"remove_told", "add_twice"}
    MaxNodes,       \* bound: nodes ever allocated
    MaxDepth        \* bound: notifications within notifications

VARIABLES
    observers_,     \* the nodes in the list, in order
    pointee,        \* pointee[n]: the observer that node n points to
    stack,          \* the notifications under way, the innermost last
    deletions,      \* deletions[o]: how often the destructor has deleted o
    alive           \* the subject exists

vars == <<observers_, pointee, stack, deletions, alive>>

Registered == {pointee[n] : n \in ToSet(observers_)}

Init ==
    /\ observers_ = <<>> /\ pointee = <<>> /\ stack = <<>>
    /\ deletions = [o \in Observer |-> 0]
    /\ alive = TRUE

------------------------------------------------------------------------------
(* Operations that change the list.                                         *)

\* Faulty variant of Added: the new node comes first.
AddedFirst(n) == <<n>> \o observers_

\* push_back.
Added(n) == Append(observers_, n)

\* AddObserver when it does not refuse; it does not ask whether o is there.
AddObserver(o) ==
    /\ alive
    /\ Len(observers_) < MaxObservers /\ Len(pointee) < MaxNodes
    /\ o \in Registered => "add_twice" \in Cases
    /\ pointee' = Append(pointee, o)
    /\ observers_' = Added(Len(pointee'))
    /\ UNCHANGED <<stack, deletions, alive>>

\* A NotifyAll under way stands at a node of this observer.
BeingTold(o) == \E i \in DOMAIN stack : stack[i].all /\ pointee[stack[i].at] = o

\* What is left of the list when the nodes of an observer are erased: the node at q
\* is the kept one up to which there are q kept ones.
Without(o) ==
    LET kept == {p \in DOMAIN observers_ : pointee[observers_[p]] # o}
        upTo(p) == {r \in kept : r <= p}
    IN  [q \in 1 .. Cardinality(kept) |->
            observers_[CHOOSE p \in kept : Cardinality(upTo(p)) = q]]

\* RemoveObserver, and RemoveObserverIfExists when it answers true: every node
\* of the observer goes, one at which a NotifyAll stands included.
RemoveObserver(o) ==
    /\ alive /\ o \in Registered
    /\ BeingTold(o) => "remove_told" \in Cases
    /\ observers_' = Without(o)
    /\ UNCHANGED <<pointee, stack, deletions, alive>>

\* The destructor deletes what the nodes point to.  Nobody destroys a subject in
\* a callback of its own.
Destroy ==
    /\ alive /\ stack = <<>>
    /\ alive' = FALSE
    /\ deletions' = [o \in Observer |-> deletions[o] +
                        Cardinality({p \in DOMAIN observers_ : pointee[observers_[p]] = o})]
    /\ observers_' = <<>>
    /\ UNCHANGED <<pointee, stack>>

------------------------------------------------------------------------------
(* Notifications.  A notification is in the Update() of the node it is at;  *)
(* told is the history of the nodes it has called.                          *)

Begin(all, n) ==
    /\ alive /\ Len(stack) < MaxDepth
    /\ stack' = Append(stack, [all |-> all, at |-> n, told |-> <<n>>])
    /\ UNCHANGED <<observers_, pointee, deletions, alive>>

NotifyAll ==
    /\ observers_ # <<>>
    /\ Begin(TRUE, Head(observers_))

\* NotifyOne when it finds the observer.
NotifyOne(o) ==
    \E p \in DOMAIN observers_ :
        /\ pointee[observers_[p]] = o /\ \A q \in 1 .. p - 1 : pointee[observers_[q]] # o
        /\ Begin(FALSE, observers_[p])

\* Where the node of the innermost notification stands in the list.
Place == CHOOSE p \in DOMAIN observers_ : observers_[p] = Last(stack).at

\* Update() returns: NotifyOne ends, and NotifyAll goes on to the next node of
\* the list as it is now, or ends behind the last.  (What it would do at a node
\* that was erased is undefined, and not a step.)
UpdateReturns ==
    /\ stack # <<>>
    /\ Last(stack).all => Last(stack).at \in ToSet(observers_)
    /\ IF Last(stack).all /\ Place < Len(observers_)
       THEN LET next == observers_[Place + 1]
            IN  stack' = Append(Front(stack), [all |-> TRUE, at |-> next,
                                               told |-> Append(Last(stack).told, next)])
       ELSE stack' = Front(stack)
    /\ UNCHANGED <<observers_, pointee, deletions, alive>>

------------------------------------------------------------------------------
Next ==
    \/ \E o \in Observer : AddObserver(o) \/ RemoveObserver(o) \/ NotifyOne(o)
    \/ NotifyAll \/ UpdateReturns \/ Destroy

Spec == Init /\ [][Next]_vars

------------------------------------------------------------------------------
(* Properties.                                                              *)

\* Whatever callbacks do to the list: a NotifyAll stands at a node that is in it,
\* has told the nodes up to there, each once and in their order, those removed
\* since among them, and none of those behind.  So when it ends it has told
\* everybody in the list, newcomers included.
ToldUpTo(f) ==
    /\ \E here \in DOMAIN observers_ :
          /\ observers_[here] = f.at
          /\ \A p \in DOMAIN observers_ : observers_[p] \in ToSet(f.told) <=> p <= here
    /\ \A a, b \in DOMAIN f.told : a < b =>
          /\ f.told[a] # f.told[b]
          /\ \A p, q \in DOMAIN observers_ :
                observers_[p] = f.told[a] /\ observers_[q] = f.told[b] => p < q
EachToldOnce == \A i \in DOMAIN stack : stack[i].all => ToldUpTo(stack[i])

\* And no observer is deleted twice.
DeletedOnce == \A o \in Observer : deletions[o] <= 1
SubjectSound == EachToldOnce /\ DeletedOnce
==============================================================================
