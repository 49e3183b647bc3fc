---------------------------- MODULE SubjectProofs ----------------------------
(***************************************************************************)
(* Theorems about Subject for all sets of observers, bounds and depths of  *)
(* callbacks: when no observer is added twice or removed while it is told, *)
(* every NotifyAll tells each of the list once and in order, and nobody is *)
(* deleted twice.                                                          *)
(***************************************************************************)
EXTENDS Subject, FiniteSetTheorems, TLAPS

------------------------------------------------------------------------------
(* The inductive invariant.                                                 *)

Notification == [all : BOOLEAN, at : Nat, told : Seq(Nat)]
Types ==
    /\ observers_ \in Seq(Nat) /\ pointee \in Seq(Observer)
    /\ stack \in Seq(Notification)
    /\ deletions \in [Observer -> Nat]
    /\ alive \in BOOLEAN

\* The list holds nodes that were allocated, in the order in which they were.
Ascending(s) == \A p, q \in DOMAIN s : p < q => s[p] < s[q]
NodesInOrder ==
    /\ \A p \in DOMAIN observers_ : observers_[p] \in DOMAIN pointee
    /\ Ascending(observers_)
OnceRegistered ==
    \A p, q \in DOMAIN observers_ : pointee[observers_[p]] = pointee[observers_[q]] => p = q

\* A NotifyAll stands at a node of the list, and has told those up to it.
ToldInOrder(f) ==
    /\ f.at \in ToSet(observers_)
    /\ Ascending(f.told) /\ \A a \in DOMAIN f.told : f.told[a] <= f.at
    /\ \A n \in ToSet(observers_) : n \in ToSet(f.told) <=> n <= f.at
StackInOrder == \A x \in DOMAIN stack : stack[x].all => ToldInOrder(stack[x])

\* Only the destructor deletes, once.
DeletesAtEnd ==
    /\ alive => \A o \in Observer : deletions[o] = 0
    /\ ~alive => stack = <<>>
    /\ DeletedOnce

IInv == Types /\ NodesInOrder /\ OnceRegistered /\ StackInOrder /\ DeletesAtEnd

------------------------------------------------------------------------------
(* What is left of the list.                                                *)

\* The members of a set of indices, counted from the first to the last.
Rank(K, p) == Cardinality({r \in K : r <= p})
LEMMA Ranks ==
    ASSUME NEW N \in Nat, NEW K \in SUBSET (1 .. N)
    PROVE  /\ Cardinality(K) \in Nat
           /\ \A p \in K : Rank(K, p) \in 1 .. Cardinality(K)
           /\ \A p, q \in K : p < q => Rank(K, p) < Rank(K, q)
           /\ \A n \in 1 .. Cardinality(K) : \E p \in K : Rank(K, p) = n
<1> DEFINE c == Cardinality(K)
           f == [p \in K |-> Rank(K, p)]
           upTo(p) == {r \in K : r <= p}
<1>1. IsFiniteSet(K) /\ c \in Nat
  <2>1. IsFiniteSet(1 .. N)
    BY FS_Interval
  <2> QED
    BY <2>1, FS_Subset, FS_CardinalityType
<1>2. ASSUME NEW p \in K
      PROVE  IsFiniteSet(upTo(p)) /\ Cardinality(upTo(p)) \in 1 .. c
  <2>1. upTo(p) \in SUBSET K /\ p \in upTo(p)
    BY <1>1
  <2> HIDE DEF upTo
  <2>2. IsFiniteSet(upTo(p)) /\ Cardinality(upTo(p)) <= c /\ Cardinality(upTo(p)) \in Nat
    BY <1>1, <2>1, FS_Subset, FS_CardinalityType
  <2>3. Cardinality(upTo(p)) # 0
    BY <2>1, <2>2, FS_EmptySet
  <2> QED
    BY <1>1, <2>2, <2>3
<1>3. ASSUME NEW p \in K, NEW q \in K, p < q
      PROVE  Cardinality(upTo(p)) < Cardinality(upTo(q))
  <2>1. p \in Int /\ q \in Int /\ \A r \in K : r \in Int
    BY <1>1
  <2>2a. ASSUME NEW r \in upTo(p) PROVE r \in upTo(q)
    BY <1>3, <2>1
  <2>2b. q \in upTo(q) /\ q \notin upTo(p)
    BY <1>3, <2>1
  <2>2. upTo(p) \in SUBSET upTo(q) /\ q \in upTo(q) /\ q \notin upTo(p)
    BY <2>2a, <2>2b
  <2>3. upTo(p) # upTo(q)
    BY <2>2
  <2> HIDE DEF upTo
  <2>4. /\ Cardinality(upTo(p)) <= Cardinality(upTo(q))
        /\ Cardinality(upTo(p)) # Cardinality(upTo(q))
    BY <1>2, <2>2, <2>3, FS_Subset
  <2>5. Cardinality(upTo(p)) \in Int /\ Cardinality(upTo(q)) \in Int
    BY <1>2
  <2> QED
    BY <2>4, <2>5
<1>4. \A p \in K : f[p] = Rank(K, p) /\ Rank(K, p) = Cardinality(upTo(p))
  BY DEF Rank
<1> HIDE DEF upTo, f
<1>5. (\A p \in K : f[p] \in 1 .. c) /\ (\A p, q \in K : p < q => f[p] < f[q])
  BY <1>2, <1>3, <1>4
<1>6. f \in Injection(K, 1 .. c)
  <2>1. f \in [K -> 1 .. c]
    BY <1>5 DEF f
  <2>2. ASSUME NEW p \in K, NEW q \in K, f[p] = f[q] PROVE p = q
    <3>1. p \in Int /\ q \in Int /\ f[p] \in Int
      BY <1>5
    <3> QED
      BY <1>5, <2>2, <3>1
  <2> QED
    BY <2>1, <2>2 DEF Injection, IsInjective
<1>7. f \in Surjection(K, 1 .. c)
  <2>1. IsFiniteSet(1 .. c) /\ Cardinality(1 .. c) = c
    BY <1>1, FS_Interval
  <2> QED
    BY <1>6, <2>1, FS_Injection
<1>8. \A n \in 1 .. c : \E p \in K : f[p] = n
  BY <1>7 DEF Surjection
<1> QED
  BY <1>1, <1>4, <1>5, <1>8

\* Erasing leaves the nodes of the others, in their order.
LEMMA WithoutIs ==
    ASSUME IInv, NEW o
    PROVE  /\ Without(o) \in Seq(Nat) /\ Ascending(Without(o))
           /\ ToSet(Without(o)) = {n \in ToSet(observers_) : pointee[n] # o}
<1> DEFINE s == observers_
           K == {p \in DOMAIN s : pointee[s[p]] # o}
           c == Cardinality(K)
           pick(q) == CHOOSE p \in K : Rank(K, p) = q
           w == Without(o)
<1>1. s \in Seq(Nat) /\ Len(s) \in Nat /\ DOMAIN s = 1 .. Len(s) /\ Ascending(s)
  BY DEF IInv, Types, NodesInOrder
<1>2. K \in SUBSET (1 .. Len(s))
  BY <1>1
<1>3. w = [q \in 1 .. c |-> s[pick(q)]]
  BY DEF Without, Rank
<1>4. /\ \A p \in K : p \in DOMAIN s /\ p \in Int /\ s[p] \in Nat
      /\ \A p \in DOMAIN s : p \in K <=> pointee[s[p]] # o
  BY <1>1
<1> HIDE DEF K
<1>5. /\ c \in Nat
      /\ \A p \in K : Rank(K, p) \in 1 .. c
      /\ \A p, q \in K : p < q => Rank(K, p) < Rank(K, q)
      /\ \A n \in 1 .. c : \E p \in K : Rank(K, p) = n
  BY <1>1, <1>2, Ranks
<1> HIDE DEF c
<1>6. ASSUME NEW q \in 1 .. c PROVE pick(q) \in K /\ Rank(K, pick(q)) = q
  <2>1. \E p \in K : Rank(K, p) = q
    BY <1>5
  <2> QED
    BY <2>1
<1> HIDE DEF pick
<1>7. w \in Seq(Nat) /\ DOMAIN w = 1 .. c /\ \A q \in 1 .. c : w[q] = s[pick(q)]
  BY <1>3, <1>4, <1>5, <1>6
<1>8. Ascending(w)
  <2> SUFFICES ASSUME NEW q \in 1 .. c, NEW r \in 1 .. c, q < r PROVE w[q] < w[r]
    BY <1>7 DEF Ascending
  <2>1. pick(q) \in K /\ pick(r) \in K /\ Rank(K, pick(q)) = q /\ Rank(K, pick(r)) = r
    BY <1>6
  <2>2. pick(q) < pick(r)
    <3>1. pick(q) \in Int /\ pick(r) \in Int /\ q \in Int /\ r \in Int
      BY <1>5, <1>4, <2>1
    <3>2. ~(pick(r) < pick(q)) /\ pick(r) # pick(q)
      BY <1>5, <2>1, <3>1
    <3> QED
      BY <3>1, <3>2
  <2> QED
    BY <1>1, <1>4, <1>7, <2>1, <2>2 DEF Ascending
<1>9. ASSUME NEW n
      PROVE  n \in ToSet(w) <=> n \in ToSet(s) /\ pointee[n] # o
  <2>1. ASSUME n \in ToSet(w) PROVE n \in ToSet(s) /\ pointee[n] # o
    BY <1>4, <1>6, <1>7, <2>1 DEF ToSet
  <2>2. ASSUME n \in ToSet(s), pointee[n] # o PROVE n \in ToSet(w)
    <3>1. PICK p \in DOMAIN s : n = s[p]
      BY <2>2 DEF ToSet
    <3>2. p \in K /\ Rank(K, p) \in 1 .. c
      BY <1>5, <1>4, <2>2, <3>1
    <3>3. pick(Rank(K, p)) = p
      <4>1. pick(Rank(K, p)) \in K /\ Rank(K, pick(Rank(K, p))) = Rank(K, p)
        BY <1>6, <3>2
      <4>2. p \in Int /\ pick(Rank(K, p)) \in Int /\ Rank(K, p) \in Int
        BY <1>4, <3>2, <4>1
      <4>3. ~(p < pick(Rank(K, p))) /\ ~(pick(Rank(K, p)) < p)
        BY <1>5, <3>2, <4>1, <4>2
      <4> QED
        BY <4>2, <4>3
    <3> QED
      BY <1>7, <3>1, <3>2, <3>3 DEF ToSet
  <2> QED
    BY <2>1, <2>2
<1> QED
  BY <1>7, <1>8, <1>9

------------------------------------------------------------------------------
(* What each operation keeps.                                               *)

LEMMA ElementOf ==
    ASSUME NEW S, NEW s \in Seq(S), NEW x \in DOMAIN s
    PROVE  s[x] \in S
OBVIOUS

LEMMA InitHolds ==
    ASSUME Init
    PROVE  IInv
<1>1. Types
  BY DEF Init, Types
<1>2. NodesInOrder /\ OnceRegistered /\ StackInOrder
  BY DEF Init, NodesInOrder, Ascending, OnceRegistered, StackInOrder
<1>3. DeletesAtEnd
  BY DEF Init, DeletesAtEnd, DeletedOnce
<1> QED
  BY <1>1, <1>2, <1>3 DEF IInv

\* A new node is behind all others, and nobody has told it yet.
LEMMA AddKeeps ==
    ASSUME IInv, Cases = {}, NEW o \in Observer, AddObserver(o)
    PROVE  IInv'
<1> DEFINE new == Len(pointee) + 1
<1>1. /\ alive /\ o \notin Registered
      /\ pointee' = Append(pointee, o) /\ observers_' = Append(observers_, new)
      /\ stack' = stack /\ deletions' = deletions /\ alive' = alive
  <2>1. pointee \in Seq(Observer)
    BY DEF IInv, Types
  <2>2. Len(Append(pointee, o)) = new
    BY <2>1
  <2> QED
    BY <2>2 DEF AddObserver, Added
<1>2. /\ observers_ \in Seq(Nat) /\ pointee \in Seq(Observer)
      /\ Len(pointee) \in Nat /\ new \in Nat /\ Len(observers_) \in Nat
      /\ \A p \in DOMAIN observers_ : observers_[p] \in DOMAIN pointee /\ observers_[p] < new
  <2>1. observers_ \in Seq(Nat) /\ pointee \in Seq(Observer) /\ NodesInOrder
    BY DEF IInv, Types
  <2>2. DOMAIN pointee = 1 .. Len(pointee) /\ Len(pointee) \in Nat
    BY <2>1
  <2> QED
    BY <2>1, <2>2 DEF NodesInOrder
<1> HIDE DEF new
<1>3. Types'
  <2>1. Append(observers_, new) \in Seq(Nat) /\ Append(pointee, o) \in Seq(Observer)
    BY <1>2
  <2> QED
    BY <1>1, <2>1 DEF IInv, Types
<1>4. /\ DOMAIN observers_' = DOMAIN observers_ \cup {Len(observers_) + 1}
      /\ DOMAIN observers_ = 1 .. Len(observers_)
      /\ \A p \in DOMAIN observers_ : observers_'[p] = observers_[p]
      /\ observers_'[Len(observers_) + 1] = new
  BY <1>1, <1>2
<1>5. /\ DOMAIN pointee' = DOMAIN pointee \cup {new}
      /\ \A n \in DOMAIN pointee : pointee'[n] = pointee[n]
      /\ pointee'[new] = o
  BY <1>1, <1>2 DEF new
<1>6. NodesInOrder'
  <2>1. \A p \in DOMAIN observers_' : observers_'[p] \in DOMAIN pointee'
    BY <1>2, <1>4, <1>5
  <2>2. ASSUME NEW p \in DOMAIN observers_', NEW q \in DOMAIN observers_', p < q
        PROVE  observers_'[p] < observers_'[q]
    <3>1. CASE q \in DOMAIN observers_
      <4>1. p \in DOMAIN observers_
        BY <1>2, <1>4, <2>2, <3>1
      <4> QED
        BY <1>4, <2>2, <3>1, <4>1 DEF IInv, NodesInOrder, Ascending
    <3>2. CASE q = Len(observers_) + 1
      <4>1. p \in DOMAIN observers_
        BY <1>2, <1>4, <2>2, <3>2
      <4> QED
        BY <1>2, <1>4, <3>2, <4>1
    <3> QED
      BY <1>4, <3>1, <3>2
  <2> QED
    BY <2>1, <2>2 DEF NodesInOrder, Ascending
<1>7. OnceRegistered'
  <2>1. \A p \in DOMAIN observers_ : pointee'[observers_'[p]] = pointee[observers_[p]]
    BY <1>2, <1>4, <1>5
  <2>2. \A p \in DOMAIN observers_ : pointee[observers_[p]] # o
    BY <1>1 DEF Registered, ToSet
  <2> QED
    BY <1>4, <1>5, <2>1, <2>2 DEF IInv, OnceRegistered
<1>8. ASSUME NEW f, ToldInOrder(f), f.at \in Nat
      PROVE  ToldInOrder(f)'
  <2>1. ToSet(observers_)' = ToSet(observers_) \cup {new}
    BY <1>4 DEF ToSet
  <2>2. /\ f.at \in ToSet(observers_) /\ Ascending(f.told)
        /\ \A a \in DOMAIN f.told : f.told[a] <= f.at
    BY <1>8 DEF ToldInOrder
  <2>3. f.at < new
    BY <1>2, <2>2 DEF ToSet
  <2>4. new \notin ToSet(f.told) /\ ~(new <= f.at)
    BY <1>2, <1>8, <2>2, <2>3 DEF ToSet
  <2> QED
    BY <1>8, <2>1, <2>2, <2>4 DEF ToldInOrder
<1>9. StackInOrder'
  <2>1. ASSUME NEW x \in DOMAIN stack PROVE stack[x].at \in Nat
    <3>1. stack \in Seq(Notification)
      BY DEF IInv, Types
    <3>2. stack[x] \in Notification
      BY <3>1, ElementOf
    <3> QED
      BY <3>2 DEF Notification
  <2> QED
    BY <1>1, <1>8, <2>1 DEF IInv, StackInOrder
<1>10. DeletesAtEnd'
  BY <1>1 DEF IInv, DeletesAtEnd, DeletedOnce
<1> QED
  BY <1>3, <1>6, <1>7, <1>9, <1>10 DEF IInv

LEMMA RemoveKeeps ==
    ASSUME IInv, Cases = {}, NEW o \in Observer, RemoveObserver(o)
    PROVE  IInv'
<1>1. /\ alive /\ ~BeingTold(o) /\ observers_' = Without(o)
      /\ UNCHANGED <<pointee, stack, deletions, alive>>
  BY DEF RemoveObserver
<1>2. /\ Without(o) \in Seq(Nat) /\ Ascending(Without(o))
      /\ ToSet(Without(o)) = {n \in ToSet(observers_) : pointee[n] # o}
  BY WithoutIs
<1>3. Types'
  BY <1>1, <1>2 DEF IInv, Types
<1>4. \A n \in ToSet(Without(o)) : n \in ToSet(observers_) /\ pointee[n] # o
  BY <1>2
<1>5. NodesInOrder'
  <2>1. \A p \in DOMAIN Without(o) : Without(o)[p] \in DOMAIN pointee
    BY <1>4 DEF IInv, NodesInOrder, ToSet
  <2> QED
    BY <1>1, <1>2, <2>1 DEF NodesInOrder, Ascending
<1>6. OnceRegistered'
  <2> DEFINE w == Without(o)
  <2> SUFFICES ASSUME NEW p \in DOMAIN w, NEW q \in DOMAIN w, pointee[w[p]] = pointee[w[q]]
               PROVE  p = q
    BY <1>1 DEF OnceRegistered
  <2>1. PICK x \in DOMAIN observers_, y \in DOMAIN observers_ :
            w[p] = observers_[x] /\ w[q] = observers_[y]
    BY <1>4 DEF ToSet
  <2>2. w[p] = w[q]
    BY <2>1 DEF IInv, OnceRegistered
  <2>3. p \in Int /\ q \in Int /\ w[p] \in Int
    <3>1. w \in Seq(Nat)
      BY <1>2
    <3> HIDE DEF w
    <3> QED
      BY <3>1
  <2>4. ~(p < q) /\ ~(q < p)
    BY <1>2, <2>2, <2>3 DEF Ascending
  <2> QED
    BY <2>3, <2>4
<1>7. StackInOrder'
  <2> SUFFICES ASSUME NEW x \in DOMAIN stack, stack[x].all PROVE ToldInOrder(stack[x])'
    BY <1>1 DEF StackInOrder
  <2> DEFINE f == stack[x]
  <2>1. ToldInOrder(f) /\ pointee[f.at] # o
    BY <1>1 DEF IInv, StackInOrder, BeingTold
  <2> HIDE DEF f
  <2>2. f.at \in ToSet(observers_')
    BY <1>1, <1>2, <2>1 DEF ToldInOrder
  <2>3. \A n \in ToSet(observers_') : n \in ToSet(f.told) <=> n <= f.at
    BY <1>1, <1>4, <2>1 DEF ToldInOrder
  <2>4. Ascending(f.told) /\ \A a \in DOMAIN f.told : f.told[a] <= f.at
    BY <2>1 DEF ToldInOrder
  <2>5. f' = f
    BY <1>1 DEF f
  <2>6. ToldInOrder(f)'
    BY <2>2, <2>3, <2>4, <2>5 DEF ToldInOrder
  <2> QED
    BY <2>6 DEF f
<1>8. DeletesAtEnd'
  BY <1>1 DEF IInv, DeletesAtEnd, DeletedOnce
<1> QED
  BY <1>3, <1>5, <1>6, <1>7, <1>8 DEF IInv

\* As every observer is registered once, the destructor deletes it once at most.
LEMMA DestroyKeeps ==
    ASSUME IInv, Destroy
    PROVE  IInv'
<1> DEFINE Nodes(o) == {p \in DOMAIN observers_ : pointee[observers_[p]] = o}
<1>1. /\ alive /\ stack = <<>> /\ ~alive' /\ alive' = FALSE /\ observers_' = <<>>
      /\ deletions' = [o \in Observer |-> deletions[o] + Cardinality(Nodes(o))]
      /\ UNCHANGED <<pointee, stack>>
  BY DEF Destroy
<1>2. ASSUME NEW o \in Observer
      PROVE  Cardinality(Nodes(o)) \in 0 .. 1
  <2>1. \A p, q \in Nodes(o) : p = q
    BY DEF IInv, OnceRegistered
  <2> HIDE DEF Nodes
  <2>2. CASE Nodes(o) = {}
    BY <2>2, FS_EmptySet
  <2>3. CASE Nodes(o) # {}
    <3>1. PICK p \in Nodes(o) : TRUE
      BY <2>3
    <3>2. Nodes(o) = {p}
      BY <2>1, <3>1
    <3> QED
      BY <3>2, FS_Singleton
  <2> QED
    BY <2>2, <2>3
<1> HIDE DEF Nodes
<1>3. \A o \in Observer : deletions[o] = 0
  BY <1>1 DEF IInv, DeletesAtEnd
<1>4. ASSUME NEW o \in Observer
      PROVE  deletions'[o] \in Nat /\ deletions'[o] <= 1
  <2> DEFINE n == Cardinality(Nodes(o))
  <2>1. deletions'[o] = 0 + n
    BY <1>1, <1>3
  <2>2. n \in 0 .. 1
    BY <1>2
  <2> HIDE DEF n
  <2>3. 0 + n \in Nat /\ 0 + n <= 1
    BY <2>2
  <2> QED
    BY <2>1, <2>3
<1>5. Types'
  <2> DEFINE d == [o \in Observer |-> deletions[o] + Cardinality(Nodes(o))]
  <2>1. d \in [Observer -> Nat]
    <3>1. \A o \in Observer : d[o] \in Nat
      BY <1>1, <1>4
    <3> QED
      BY <3>1
  <2>2. deletions' \in [Observer -> Nat] /\ <<>> \in Seq(Nat)
    BY <1>1, <2>1
  <2> QED
    BY <1>1, <2>2 DEF IInv, Types
<1>6. (NodesInOrder /\ OnceRegistered /\ StackInOrder)'
  BY <1>1 DEF NodesInOrder, Ascending, OnceRegistered, StackInOrder
<1>7. DeletesAtEnd'
  BY <1>1, <1>4 DEF DeletesAtEnd, DeletedOnce
<1> QED
  BY <1>5, <1>6, <1>7 DEF IInv

\* The stack changes, and nothing else.
LEMMA StackKeeps ==
    ASSUME IInv, alive, UNCHANGED <<observers_, pointee, deletions, alive>>,
           stack' \in Seq(Notification),
           \A x \in DOMAIN stack' : stack'[x].all => ToldInOrder(stack'[x])
    PROVE  IInv'
<1>1. Types'
  BY DEF IInv, Types
<1>2. (NodesInOrder /\ OnceRegistered /\ DeletesAtEnd)'
  BY DEF IInv, NodesInOrder, Ascending, OnceRegistered, DeletesAtEnd, DeletedOnce
<1>3. ASSUME NEW x \in DOMAIN stack', stack'[x].all
      PROVE  ToldInOrder(stack[x])'
  <2>1. ToldInOrder(stack'[x])
    BY <1>3
  <2> QED
    BY <2>1 DEF ToldInOrder, Ascending, ToSet
<1>4. StackInOrder'
  BY <1>3 DEF StackInOrder
<1> QED
  BY <1>1, <1>2, <1>4 DEF IInv

\* A notification begins.
LEMMA BeginKeeps ==
    ASSUME IInv, NEW all \in BOOLEAN, NEW n \in Nat, Begin(all, n),
           all => n \in ToSet(observers_) /\ \A m \in ToSet(observers_) : n <= m
    PROVE  IInv'
<1> DEFINE f == [all |-> all, at |-> n, told |-> <<n>>]
<1>1. alive /\ stack' = Append(stack, f) /\ UNCHANGED <<observers_, pointee, deletions, alive>>
  BY DEF Begin
<1>2. f \in Notification
  <2>1. <<n>> \in Seq(Nat)
    OBVIOUS
  <2> QED
    BY <2>1 DEF Notification
<1>3. ASSUME all PROVE ToldInOrder(f)
  <2>1. f.at = n /\ f.told = <<n>> /\ DOMAIN <<n>> = {1} /\ ToSet(<<n>>) = {n}
    BY DEF ToSet
  <2>2. Ascending(f.told) /\ \A a \in DOMAIN f.told : f.told[a] <= f.at
    BY <2>1 DEF Ascending
  <2>3. \A m \in ToSet(observers_) : m \in Int
    BY DEF IInv, Types, ToSet
  <2>4. \A m \in ToSet(observers_) : m = n <=> m <= n
    BY <1>3, <2>3
  <2> HIDE DEF f
  <2> QED
    BY <1>3, <2>1, <2>2, <2>4 DEF ToldInOrder
<1>4. f.all = all
  OBVIOUS
<1> HIDE DEF f
<1>5. stack \in Seq(Notification)
  BY DEF IInv, Types
<1>6. /\ stack' \in Seq(Notification)
      /\ \A x \in DOMAIN stack' : stack'[x].all => ToldInOrder(stack'[x])
  <2>1. Append(stack, f) \in Seq(Notification)
    BY <1>2, <1>5
  <2>2. ASSUME NEW x \in DOMAIN Append(stack, f)
        PROVE  \/ x \in DOMAIN stack /\ Append(stack, f)[x] = stack[x]
               \/ Append(stack, f)[x] = f
    BY <1>5
  <2> QED
    BY <1>1, <1>3, <1>4, <2>1, <2>2 DEF IInv, StackInOrder
<1> QED
  BY <1>1, <1>6, StackKeeps

LEMMA NotifyAllKeeps ==
    ASSUME IInv, NotifyAll
    PROVE  IInv'
<1>1. observers_ \in Seq(Nat) /\ observers_ # <<>> /\ Begin(TRUE, Head(observers_))
  BY DEF NotifyAll, IInv, Types
<1>2. /\ Head(observers_) = observers_[1] /\ 1 \in DOMAIN observers_
      /\ \A p \in DOMAIN observers_ : observers_[p] \in Nat /\ p \in Int /\ 1 <= p
  BY <1>1
<1>3. \A p \in DOMAIN observers_ : observers_[1] <= observers_[p]
  <2> SUFFICES ASSUME NEW p \in DOMAIN observers_, p # 1 PROVE observers_[1] <= observers_[p]
    BY <1>2
  <2>1. 1 < p
    BY <1>2
  <2> QED
    BY <1>2, <2>1 DEF IInv, NodesInOrder, Ascending
<1> QED
  BY <1>1, <1>2, <1>3, BeginKeeps DEF ToSet

LEMMA NotifyOneKeeps ==
    ASSUME IInv, NEW o \in Observer, NotifyOne(o)
    PROVE  IInv'
<1>1. PICK p \in DOMAIN observers_ : Begin(FALSE, observers_[p])
  BY DEF NotifyOne
<1>2. observers_[p] \in Nat
  BY DEF IInv, Types
<1> QED
  BY <1>1, <1>2, BeginKeeps

\* A sequence of nodes that ends with a later one.
LEMMA LongerAscends ==
    ASSUME NEW t \in Seq(Nat), NEW n \in Nat, Ascending(t), \A a \in DOMAIN t : t[a] < n
    PROVE  LET u == Append(t, n)
           IN  /\ Ascending(u) /\ \A a \in DOMAIN u : u[a] <= n
               /\ ToSet(u) = ToSet(t) \cup {n}
<1> DEFINE u == Append(t, n)
           l == Len(t)
<1>1. l \in Nat /\ DOMAIN t = 1 .. l /\ \A a \in 1 .. l : t[a] \in Nat
  OBVIOUS
<1>2. DOMAIN u = 1 .. l + 1 /\ u[l + 1] = n /\ \A a \in 1 .. l : u[a] = t[a]
  OBVIOUS
<1> HIDE DEF u, l
<1>3. Ascending(u)
  <2> SUFFICES ASSUME NEW a \in 1 .. l + 1, NEW b \in 1 .. l + 1, a < b PROVE u[a] < u[b]
    BY <1>2 DEF Ascending
  <2>1. a \in 1 .. l
    BY <1>1
  <2>2. CASE b \in 1 .. l
    BY <1>1, <1>2, <2>1, <2>2 DEF Ascending
  <2>3. CASE b = l + 1
    BY <1>1, <1>2, <2>1, <2>3
  <2>4. b \in 1 .. l \/ b = l + 1
    BY <1>1
  <2> QED
    BY <2>2, <2>3, <2>4
<1>4. ASSUME NEW a \in 1 .. l + 1
      PROVE  u[a] <= n
  <2>1. CASE a \in 1 .. l
    <3> DEFINE x == t[a]
    <3>1. x \in Nat /\ x < n /\ u[a] = x
      BY <1>1, <1>2, <2>1
    <3> HIDE DEF x
    <3> QED
      BY <3>1
  <2>2. CASE a = l + 1
    BY <1>2, <2>2
  <2>3. a \in 1 .. l \/ a = l + 1
    BY <1>1
  <2> QED
    BY <2>1, <2>2, <2>3
<1>5. 1 .. l + 1 = 1 .. l \cup {l + 1}
  BY <1>1
<1>6. ToSet(u) = ToSet(t) \cup {n}
  BY <1>1, <1>2, <1>5 DEF ToSet
<1> QED
  BY <1>2, <1>3, <1>4, <1>6 DEF u

\* NotifyAll goes on to the next node: there is none between.
LEMMA GoesOn ==
    ASSUME IInv, NEW f, f.told \in Seq(Nat), ToldInOrder(f),
           NEW here \in DOMAIN observers_, observers_[here] = f.at, here < Len(observers_),
           NEW g, g.at = observers_[here + 1], g.told = Append(f.told, g.at)
    PROVE  ToldInOrder(g)
<1> DEFINE next == observers_[here + 1]
<1>1. /\ observers_ \in Seq(Nat) /\ Len(observers_) \in Nat
      /\ here \in Nat /\ here + 1 \in DOMAIN observers_
      /\ next \in Nat /\ f.at \in Nat /\ f.at < next /\ next \in ToSet(observers_)
  <2>1. observers_ \in Seq(Nat) /\ Ascending(observers_)
    BY DEF IInv, Types, NodesInOrder
  <2>2. here \in Nat /\ here + 1 \in DOMAIN observers_ /\ here < here + 1
    BY <2>1
  <2> QED
    BY <2>1, <2>2 DEF Ascending, ToSet
<1>2. /\ Ascending(f.told) /\ \A a \in DOMAIN f.told : f.told[a] <= f.at
      /\ \A n \in ToSet(observers_) : n \in ToSet(f.told) <=> n <= f.at
  BY DEF ToldInOrder
<1> DEFINE told == Append(f.told, next)
<1>3. f.told \in Seq(Nat) /\ \A a \in DOMAIN f.told : f.told[a] \in Nat
  OBVIOUS
<1>4. \A a \in DOMAIN f.told : f.told[a] < next
  <2> SUFFICES ASSUME NEW a \in DOMAIN f.told PROVE f.told[a] < next
    OBVIOUS
  <2> DEFINE t == f.told[a]
  <2>1. t \in Nat /\ t <= f.at
    BY <1>2, <1>3
  <2> HIDE DEF t, next
  <2>2. t < next
    BY <1>1, <2>1
  <2> QED
    BY <2>2 DEF t
<1>5. g.told = told /\ g.at = next
  OBVIOUS
<1> HIDE DEF told, next
<1>6. /\ Ascending(told) /\ \A a \in DOMAIN told : told[a] <= next
      /\ ToSet(told) = ToSet(f.told) \cup {next}
  BY <1>1, <1>2, <1>3, <1>4, LongerAscends DEF told
<1>7. ASSUME NEW n \in ToSet(observers_)
      PROVE  n \in ToSet(told) <=> n <= next
  <2>1. PICK p \in DOMAIN observers_ : n = observers_[p]
    BY DEF ToSet
  <2>2. p \in Int /\ n \in Nat
    <3>1. observers_ \in Seq(Nat)
      BY <1>1
    <3> QED
      BY <2>1, <3>1
  <2>3. here < p => here + 1 <= p
    BY <1>1, <2>2
  <2>4. p < here => n < f.at
    BY <2>1 DEF IInv, NodesInOrder, Ascending
  <2>5. here + 1 < p => next < n
    BY <1>1, <2>1 DEF IInv, NodesInOrder, Ascending, next
  <2>6. n <= f.at \/ n = next \/ next < n
    BY <1>1, <2>1, <2>2, <2>3, <2>4, <2>5 DEF next
  <2> QED
    BY <1>1, <1>2, <1>6, <2>2, <2>6
<1> QED
  BY <1>1, <1>5, <1>6, <1>7 DEF ToldInOrder

LEMMA UpdateReturnsKeeps ==
    ASSUME IInv, UpdateReturns
    PROVE  IInv'
<1> DEFINE l == Len(stack)
           f == stack[l]
           front == SubSeq(stack, 1, l - 1)
<1>1. /\ stack # <<>> /\ UNCHANGED <<observers_, pointee, deletions, alive>>
      /\ Last(stack) = f /\ Front(stack) = front
  BY DEF UpdateReturns, Last, Front
<1>2. stack \in Seq(Notification) /\ l \in Nat /\ l >= 1 /\ l \in DOMAIN stack
  BY <1>1 DEF IInv, Types
<1>3. alive
  BY <1>1 DEF IInv, DeletesAtEnd, Types
<1>4. /\ front \in Seq(Notification) /\ DOMAIN front = 1 .. l - 1
      /\ \A x \in 1 .. l - 1 : front[x] = stack[x] /\ x \in DOMAIN stack
  BY <1>2
<1>5. f \in Notification
  BY <1>2, ElementOf
<1>6. CASE f.all /\ Place < Len(observers_)
  <2> DEFINE next == observers_[Place + 1]
             g == [all |-> TRUE, at |-> next, told |-> Append(f.told, next)]
  <2>1. ToldInOrder(f)
    BY <1>2, <1>6 DEF IInv, StackInOrder
  <2>2. Place \in DOMAIN observers_ /\ observers_[Place] = f.at
    <3>1. \E p \in DOMAIN observers_ : observers_[p] = f.at
      BY <2>1 DEF ToldInOrder, ToSet
    <3> HIDE DEF f
    <3> QED
      BY <1>1, <3>1 DEF Place
  <2>3. stack' = Append(front, g)
    BY <1>1, <1>6 DEF UpdateReturns
  <2>4. f.told \in Seq(Nat) /\ next \in Nat
    <3>1. f.told \in Seq(Nat)
      BY <1>5 DEF Notification
    <3>2. Place + 1 \in DOMAIN observers_ /\ observers_ \in Seq(Nat)
      BY <1>6, <2>2 DEF IInv, Types
    <3> QED
      BY <3>1, <3>2
  <2>5. g.at = next /\ g.told = Append(f.told, g.at) /\ g.all
    OBVIOUS
  <2>6. g \in Notification
    <3>1. Append(f.told, next) \in Seq(Nat)
      BY <2>4
    <3> QED
      BY <2>4, <3>1 DEF Notification
  <2> HIDE DEF f, g
  <2>7. ToldInOrder(g)
    BY <1>6, <2>1, <2>2, <2>4, <2>5, GoesOn
  <2> HIDE DEF next, front
  <2>8. Append(front, g) \in Seq(Notification)
    BY <1>4, <2>6
  <2>9. ASSUME NEW x \in DOMAIN Append(front, g)
        PROVE  \/ x \in 1 .. l - 1 /\ Append(front, g)[x] = front[x]
               \/ Append(front, g)[x] = g
    BY <1>4
  <2> QED
    BY <1>1, <1>3, <1>4, <2>3, <2>7, <2>8, <2>9, StackKeeps DEF IInv, StackInOrder
<1>7. CASE ~(f.all /\ Place < Len(observers_))
  <2>1. stack' = front
    BY <1>1, <1>7 DEF UpdateReturns
  <2> HIDE DEF front
  <2>2. \A x \in DOMAIN stack' : stack'[x].all => ToldInOrder(stack'[x])
    BY <1>4, <2>1 DEF IInv, StackInOrder
  <2> QED
    BY <1>1, <1>3, <1>4, <2>1, <2>2, StackKeeps
<1> QED
  BY <1>6, <1>7

------------------------------------------------------------------------------
(* The theorems.                                                            *)

LEMMA StutterKeeps ==
    ASSUME IInv, UNCHANGED vars
    PROVE  IInv'
<1>1. \A f : ToldInOrder(f) => ToldInOrder(f)'
  BY DEF vars, ToldInOrder, Ascending, ToSet
<1>2. (Types /\ NodesInOrder /\ OnceRegistered /\ DeletesAtEnd)'
  BY DEF IInv, vars, Types, NodesInOrder, Ascending, OnceRegistered, DeletesAtEnd, DeletedOnce
<1>3. StackInOrder'
  BY <1>1 DEF IInv, vars, StackInOrder
<1> QED
  BY <1>2, <1>3 DEF IInv

\* The invariant holds as long as no observer is added twice or removed while it is
\* told.
THEOREM Invariance == Cases = {} /\ Spec => []IInv
<1> SUFFICES ASSUME Cases = {} PROVE Spec => []IInv
  OBVIOUS
<1>1. Init => IInv
  BY InitHolds
<1>2. ASSUME IInv, [Next]_vars PROVE IInv'
  <2>1. CASE \E o \in Observer : AddObserver(o)
    BY <1>2, <2>1, AddKeeps
  <2>2. CASE \E o \in Observer : RemoveObserver(o)
    BY <1>2, <2>2, RemoveKeeps
  <2>3. CASE \E o \in Observer : NotifyOne(o)
    BY <1>2, <2>3, NotifyOneKeeps
  <2>4. CASE NotifyAll
    BY <1>2, <2>4, NotifyAllKeeps
  <2>5. CASE UpdateReturns
    BY <1>2, <2>5, UpdateReturnsKeeps
  <2>6. CASE Destroy
    BY <1>2, <2>6, DestroyKeeps
  <2>7. CASE UNCHANGED vars
    BY <1>2, <2>7, StutterKeeps
  <2> QED
    BY <1>2, <2>1, <2>2, <2>3, <2>4, <2>5, <2>6, <2>7 DEF Next
<1> QED
  BY <1>1, <1>2, PTL DEF Spec

\* Whatever callbacks do to the list, NotifyAll tells each of it once and in order.
LEMMA ToldRight ==
    ASSUME IInv, NEW x \in DOMAIN stack, stack[x].all
    PROVE  ToldUpTo(stack[x])
<1> DEFINE f == stack[x]
<1>1. /\ ToldInOrder(f) /\ f.told \in Seq(Nat)
  <2>1. stack \in Seq(Notification)
    BY DEF IInv, Types
  <2>2. f \in Notification
    BY <2>1, ElementOf
  <2> QED
    BY <2>2 DEF IInv, StackInOrder, Notification
<1> HIDE DEF f
<1>2. observers_ \in Seq(Nat) /\ Ascending(observers_)
  BY DEF IInv, Types, NodesInOrder
<1>3. ASSUME NEW p \in DOMAIN observers_, NEW q \in DOMAIN observers_
      PROVE  /\ p \in Int /\ q \in Int /\ observers_[p] \in Int /\ observers_[q] \in Int
             /\ p < q <=> observers_[p] < observers_[q]
             /\ p <= q <=> observers_[p] <= observers_[q]
  <2>1. /\ p \in Int /\ q \in Int /\ observers_[p] \in Int /\ observers_[q] \in Int
    BY <1>2
  <2>2. (p < q => observers_[p] < observers_[q]) /\ (q < p => observers_[q] < observers_[p])
    BY <1>2 DEF Ascending
  <2>3. p = q => observers_[p] = observers_[q]
    OBVIOUS
  <2> QED
    BY <2>1, <2>2, <2>3
<1>4. \E here \in DOMAIN observers_ :
          /\ observers_[here] = f.at
          /\ \A p \in DOMAIN observers_ : observers_[p] \in ToSet(f.told) <=> p <= here
  <2>1. PICK here \in DOMAIN observers_ : observers_[here] = f.at
    BY <1>1 DEF ToldInOrder, ToSet
  <2>2. ASSUME NEW p \in DOMAIN observers_
        PROVE  observers_[p] \in ToSet(f.told) <=> p <= here
    <3>1. observers_[p] \in ToSet(observers_)
      BY DEF ToSet
    <3>2. observers_[p] \in ToSet(f.told) <=> observers_[p] <= f.at
      BY <1>1, <3>1 DEF ToldInOrder
    <3> QED
      BY <1>3, <2>1, <3>2
  <2> QED
    BY <2>1, <2>2
<1>5. ASSUME NEW a \in DOMAIN f.told, NEW b \in DOMAIN f.told, a < b
      PROVE  /\ f.told[a] # f.told[b]
             /\ \A p, q \in DOMAIN observers_ :
                   observers_[p] = f.told[a] /\ observers_[q] = f.told[b] => p < q
  <2>1. f.told[a] < f.told[b] /\ f.told[a] \in Nat /\ f.told[b] \in Nat
    BY <1>1, <1>5 DEF ToldInOrder, Ascending
  <2> QED
    BY <1>3, <2>1
<1> QED
  BY <1>4, <1>5 DEF ToldUpTo, f

\* Whatever callbacks add, remove or start, a notification has told exactly the
\* observers up to its place, each once and in the order of the list, and the
\* destructor deletes nobody twice.
THEOREM SubjectIsSound == Cases = {} /\ Spec => []SubjectSound
<1>1. IInv => SubjectSound
  BY ToldRight DEF SubjectSound, EachToldOnce, IInv, DeletesAtEnd
<1> QED
  BY <1>1, Invariance, PTL
==============================================================================
