------------------------- MODULE CStringSearchProofs -------------------------
(***************************************************************************)
(* Theorems about CStringSearch for all texts and patterns over all sets   *)
(* of characters: the three searches return the first occurrence and their *)
(* loops end, the table of Knuth-Morris-Pratt holds the borders of the     *)
(* pattern, counting is right but where occurrences touch, and the scans   *)
(* and the comparison are what they should be.                             *)
(***************************************************************************)
EXTENDS CStringSearch, FiniteSetTheorems, WellFoundedInduction, TLAPS

------------------------------------------------------------------------------
(* Least and greatest numbers.                                              *)

\* A set of numbers from a on has a least one.
LEMMA LeastExists ==
    ASSUME NEW a \in Int, NEW S \in SUBSET Int, S # {}, \A x \in S : a <= x
    PROVE  Min(S) \in S /\ \A x \in S : Min(S) <= x
<1> DEFINE Steps == {x - a : x \in S}
           IsLeast(x) == \A y \in S : x <= y
<1>1. Steps \in SUBSET Nat /\ Steps # {}
  <2>1. \A x \in S : x - a \in Nat
    OBVIOUS
  <2>2. PICK x \in S : TRUE
    OBVIOUS
  <2>3. x - a \in Steps
    BY <2>2
  <2> QED
    BY <2>1, <2>3
<1>2. PICK d \in Steps : \A e \in Steps : ~(<<e, d>> \in OpToRel(<, Nat))
    BY <1>1, NatLessThanWellFounded, WFMin
<1>3. \A e \in Steps : ~(e < d)
    BY <1>1, <1>2 DEF OpToRel
<1>4. PICK m \in S : d = m - a
    BY <1>2
<1>5. \A y \in S : ~(y - a < m - a)
    BY <1>3, <1>4
<1>6. IsLeast(m)
    BY <1>5
<1>7. Min(S) = CHOOSE x \in S : IsLeast(x)
    BY DEF Min
<1> HIDE DEF IsLeast
<1>8. Min(S) \in S /\ IsLeast(Min(S))
    BY <1>6, <1>7
<1> QED
    BY <1>8 DEF IsLeast

\* A set of numbers up to b has a greatest one.
LEMMA GreatestExists ==
    ASSUME NEW b \in Int, NEW S \in SUBSET Int, S # {}, \A x \in S : x <= b
    PROVE  Max(S) \in S /\ \A x \in S : x <= Max(S)
<1> DEFINE Mirror == {0 - x : x \in S}
           IsGreatest(x) == \A y \in S : x >= y
<1>1. Mirror \in SUBSET Int /\ Mirror # {} /\ \A y \in Mirror : 0 - b <= y
  <2>1. \A x \in S : 0 - x \in Int /\ 0 - b <= 0 - x
    OBVIOUS
  <2>2. PICK x \in S : TRUE
    OBVIOUS
  <2>3. 0 - x \in Mirror
    BY <2>2
  <2> QED
    BY <2>1, <2>3
<1>0. 0 - b \in Int
    OBVIOUS
<1> HIDE DEF Mirror
<1>2. Min(Mirror) \in Mirror /\ \A y \in Mirror : Min(Mirror) <= y
    BY <1>0, <1>1, LeastExists
<1>3. PICK m \in S : Min(Mirror) = 0 - m
    BY <1>2 DEF Mirror
<1>4. \A y \in S : 0 - m <= 0 - y
    BY <1>2, <1>3 DEF Mirror
<1>5. IsGreatest(m)
    BY <1>4
<1>6. Max(S) = CHOOSE x \in S : IsGreatest(x)
    BY DEF Max
<1> HIDE DEF IsGreatest
<1>7. Max(S) \in S /\ IsGreatest(Max(S))
    BY <1>5, <1>6
<1> QED
    BY <1>7 DEF IsGreatest

\* Which number is the greatest, or the least, of a set.
LEMMA GreatestIs ==
    ASSUME NEW S \in SUBSET Int, NEW m \in S, \A x \in S : x <= m
    PROVE  Max(S) = m
<1>1. m \in Int /\ S # {}
    OBVIOUS
<1>2. Max(S) \in S /\ \A x \in S : x <= Max(S)
    BY <1>1, GreatestExists
<1>3. Max(S) \in Int /\ m <= Max(S) /\ Max(S) <= m
    BY <1>2
<1> QED
    BY <1>1, <1>3

LEMMA LeastIs ==
    ASSUME NEW S \in SUBSET Int, NEW m \in S, \A x \in S : m <= x
    PROVE  Min(S) = m
<1>1. m \in Int /\ S # {}
    OBVIOUS
<1>2. Min(S) \in S /\ \A x \in S : Min(S) <= x
    BY <1>1, LeastExists
<1>3. Min(S) \in Int /\ Min(S) <= m /\ m <= Min(S)
    BY <1>2
<1> QED
    BY <1>1, <1>3

------------------------------------------------------------------------------
(* The inductive invariant.                                                 *)

Types ==
    /\ text \in Seq(Char) /\ pattern \in Seq(Char)
    /\ begin \in Int /\ next_table \in Seq(Nat)
    /\ {k, i, j, count} \subseteq Nat
    /\ hits \subseteq Nat /\ IsFiniteSet(hits)
    /\ result \in Int
    /\ call \in {"none", "kmp", "boyer_moore", "sunday", "count"}
    /\ place \in {"typing", "table", "search", "count", "returned"}

Usable == Len(pattern) \in 1 .. SearchMax - 1
Running == place \in {"table", "search", "count"}

\* Which search can be where, and what it knows of its arguments.
Placed ==
    /\ place = "typing" <=> call = "none"
    /\ place = "typing" => k = 0 /\ j = 0
    /\ place = "table" => call = "kmp"
    /\ place = "count" => call = "count"
    /\ place \in {"table", "search"} => Usable
    /\ Running => 0 <= begin /\ begin <= i
    /\ call # "kmp" => next_table = <<>>
    /\ call # "count" => hits = {} /\ count = 0

\* While the table is filled, k is a border of what is behind, and the next entry
\* can be one more at most.
TableGrows ==
    place = "table" =>
        LET l == Len(next_table)
        IN  /\ i = begin /\ j = 0 /\ Searchable(begin) /\ l \in 1 .. Len(pattern)
            /\ k \in Borders(l)
            /\ l < Len(pattern) => \A n \in Borders(l + 1) : n <= k + 1

\* Between begin and the place where the pattern lies there is no occurrence, and
\* it lies so that its first j characters match.
NoneIn(from, to) == \A n \in from .. to - 1 : ~Occurs(text, pattern, n)
Matches(n, l) == \A x \in 0 .. l - 1 : Nth(text, n + x) = Nth(pattern, x)
KmpLooks ==
    place = "search" /\ call = "kmp" =>
        /\ Len(next_table) = Len(pattern)
        /\ j \in 0 .. Len(pattern) - 1 /\ begin <= i - j /\ i <= Len(text)
        /\ Matches(i - j, j)
        /\ NoneIn(begin, i - j)
ShiftLooks == place = "search" /\ call \in {"boyer_moore", "sunday"} => NoneIn(begin, i)

\* The hits are occurrences with a character between any two, and every occurrence
\* up to the place of the search is hit, or is run into or touched by a hit.
HitsApart ==
    /\ count = Cardinality(hits)
    /\ \A n \in hits : begin <= n /\ Occurs(text, pattern, n) /\ Usable
    /\ \A m, n \in hits : m < n => m + Len(pattern) < n
Met(n) == \E h \in hits : h <= n /\ n <= h + Len(pattern)
CountLooks ==
    call = "count" =>
        /\ HitsApart
        /\ Running =>
              /\ \A n \in hits : n + Len(pattern) < i
              /\ \A n \in begin .. i - 1 : Occurs(text, pattern, n) /\ Usable => Met(n)
        /\ place = "returned" =>
              /\ result = count
              /\ \A n \in begin .. Len(text) : Occurs(text, pattern, n) /\ Usable => Met(n)

IInv ==
    /\ Types /\ Placed
    /\ TableHoldsBorders /\ TableGrows
    /\ KmpLooks /\ ShiftLooks /\ CountLooks
    /\ KmpIsFirst /\ BoyerMooreIsFirst /\ SundayIsFirst

------------------------------------------------------------------------------
(* Borders.                                                                 *)

LEMMA BordersAre ==
    ASSUME NEW l \in Nat, NEW n \in Int
    PROVE  n \in Borders(l) <=>
              /\ 0 <= n /\ n < l
              /\ \A x \in 0 .. n - 1 : Nth(pattern, x) = Nth(pattern, l - n + x)
BY DEF Borders

LEMMA LongestBorder ==
    ASSUME NEW l \in Nat \ {0}
    PROVE  Max(Borders(l)) \in Borders(l) /\ \A n \in Borders(l) : n <= Max(Borders(l))
<1>1. Borders(l) \in SUBSET Int /\ \A n \in Borders(l) : n <= l
    BY DEF Borders
<1>2. 0 \in Borders(l)
    BY BordersAre
<1>3. l \in Int /\ Borders(l) # {}
    BY <1>2
<1> QED
    BY <1>1, <1>3, GreatestExists

LEMMA LongestBorderIs ==
    ASSUME NEW l \in Nat, NEW m \in Borders(l), \A n \in Borders(l) : n <= m
    PROVE  Max(Borders(l)) = m
<1>1. Borders(l) \in SUBSET Int
    BY DEF Borders
<1> QED
    BY <1>1, GreatestIs

\* A border of a border is one, and a shorter border of the whole is one of the longer.
LEMMA BorderOfBorder ==
    ASSUME NEW l \in Nat, NEW m \in Borders(l), NEW n \in Int
    PROVE  n \in Borders(m) <=> n \in Borders(l) /\ n < m
<1>1. m \in Nat /\ m < l /\ \A x \in 0 .. m - 1 : Nth(pattern, x) = Nth(pattern, l - m + x)
    BY BordersAre DEF Borders
<1>2. ASSUME n \in Borders(m) PROVE n \in Borders(l) /\ n < m
  <2>1. /\ 0 <= n /\ n < m
        /\ \A x \in 0 .. n - 1 : Nth(pattern, x) = Nth(pattern, m - n + x)
    BY <1>1, <1>2, BordersAre
  <2>2. ASSUME NEW x \in 0 .. n - 1 PROVE Nth(pattern, x) = Nth(pattern, l - n + x)
    <3>1. m - n + x \in 0 .. m - 1 /\ l - m + (m - n + x) = l - n + x
        BY <1>1, <2>1
    <3> QED
        BY <1>1, <2>1, <3>1
  <2> QED
    BY <1>1, <2>1, <2>2, BordersAre
<1>3. ASSUME n \in Borders(l), n < m PROVE n \in Borders(m)
  <2>1. 0 <= n /\ \A x \in 0 .. n - 1 : Nth(pattern, x) = Nth(pattern, l - n + x)
    BY <1>3, BordersAre
  <2>2. ASSUME NEW x \in 0 .. n - 1 PROVE Nth(pattern, x) = Nth(pattern, m - n + x)
    <3>1. m - n + x \in 0 .. m - 1 /\ l - m + (m - n + x) = l - n + x
        BY <1>1, <1>3, <2>1
    <3> QED
        BY <1>1, <2>1, <3>1
  <2> QED
    BY <1>1, <1>3, <2>1, <2>2, BordersAre
<1> QED
    BY <1>2, <1>3

\* A border of one character more is a border, and the character behind it is the
\* one that was added.
LEMMA BorderGrows ==
    ASSUME NEW l \in Nat, NEW n \in Nat
    PROVE  n + 1 \in Borders(l + 1) <=> n \in Borders(l) /\ Nth(pattern, n) = Nth(pattern, l)
<1>1. ASSUME n + 1 \in Borders(l + 1)
      PROVE  n \in Borders(l) /\ Nth(pattern, n) = Nth(pattern, l)
  <2>1. /\ n + 1 < l + 1
        /\ \A x \in 0 .. n : Nth(pattern, x) = Nth(pattern, (l + 1) - (n + 1) + x)
    BY <1>1, BordersAre
  <2>2. \A x \in 0 .. n : (l + 1) - (n + 1) + x = l - n + x
    OBVIOUS
  <2>3. \A x \in 0 .. n : Nth(pattern, x) = Nth(pattern, l - n + x)
    BY <2>1, <2>2
  <2>4. n \in 0 .. n /\ l - n + n = l
    OBVIOUS
  <2>5. \A x \in 0 .. n - 1 : x \in 0 .. n
    OBVIOUS
  <2> QED
    BY <2>1, <2>3, <2>4, <2>5, BordersAre
<1>2. ASSUME n \in Borders(l), Nth(pattern, n) = Nth(pattern, l)
      PROVE  n + 1 \in Borders(l + 1)
  <2>1. n < l /\ \A x \in 0 .. n - 1 : Nth(pattern, x) = Nth(pattern, l - n + x)
    BY <1>2, BordersAre
  <2>2. ASSUME NEW x \in 0 .. (n + 1) - 1
        PROVE  Nth(pattern, x) = Nth(pattern, (l + 1) - (n + 1) + x)
    <3>1. (l + 1) - (n + 1) + x = l - n + x /\ l - n + n = l
        OBVIOUS
    <3>2. x = n \/ x \in 0 .. n - 1
        OBVIOUS
    <3> QED
        BY <1>2, <2>1, <3>1, <3>2
  <2> QED
    BY <2>1, <2>2, BordersAre
<1> QED
    BY <1>1, <1>2

------------------------------------------------------------------------------
(* Occurrences.                                                             *)

\* A sequence has a length, and a character at each index.
LEMMA Characters ==
    ASSUME NEW S, NEW s \in Seq(S)
    PROVE  /\ Len(s) \in Nat
           /\ \A n \in Indices(s) : n \in Int /\ 0 <= n /\ n < Len(s) /\ Nth(s, n) \in S
<1>1. Len(s) \in Nat
    OBVIOUS
<1>2. ASSUME NEW n \in Indices(s)
      PROVE  n \in Int /\ 0 <= n /\ n < Len(s) /\ Nth(s, n) \in S
  <2>1. n \in Int /\ 0 <= n /\ n < Len(s) /\ n + 1 \in 1 .. Len(s)
    BY <1>1 DEF Indices
  <2> QED
    BY <2>1 DEF Nth
<1> QED
    BY <1>1, <1>2

\* Where the pattern occurs, it lies within the text.
LEMMA OccursWithin ==
    ASSUME Types, Usable, NEW n \in Nat, Occurs(text, pattern, n)
    PROVE  n \in Indices(text) /\ n + Len(pattern) <= Len(text)
<1>1. Len(pattern) \in Nat /\ Len(text) \in Nat /\ Len(pattern) >= 1
    BY SearchAssumption DEF Types, Usable
<1>2. n + Len(pattern) <= Len(text)
    BY DEF Occurs
<1> QED
    BY <1>1, <1>2 DEF Indices

LEMMA FirstIs ==
    ASSUME Types, Usable, NEW n \in Nat, 0 <= begin, begin <= n,
           Occurs(text, pattern, n), NoneIn(begin, n)
    PROVE  n = FirstOccurrence(text, pattern, begin)
<1> DEFINE all == Occurrences(text, pattern, begin)
<1>1. n \in all
    BY OccursWithin DEF Occurrences
<1>2. all \in SUBSET Int /\ begin \in Int
    BY DEF Occurrences, Indices, Types
<1>3. \A m \in all : n <= m
  <2> SUFFICES ASSUME NEW m \in all, m < n PROVE FALSE
    BY <1>2
  <2>1. m \in Int /\ begin <= m /\ Occurs(text, pattern, m)
    BY <1>2 DEF Occurrences
  <2>2. m \in begin .. n - 1
    BY <1>2, <2>1
  <2> QED
    BY <2>1, <2>2 DEF NoneIn
<1>4. Min(all) = n
  <2> HIDE DEF all
  <2> QED
    BY <1>1, <1>2, <1>3, LeastIs
<1> QED
    BY <1>1, <1>2, <1>4 DEF FirstOccurrence, Usable

LEMMA NoneIs ==
    ASSUME Types, NEW to \in Int, begin <= to, NoneIn(begin, to),
           Len(text) - Len(pattern) < to
    PROVE  NotFound = FirstOccurrence(text, pattern, begin)
<1>1. begin \in Int /\ Len(pattern) \in Nat /\ Len(text) \in Nat
    BY DEF Types
<1>2. ASSUME NEW m \in Occurrences(text, pattern, begin) PROVE FALSE
  <2>1. m \in Int /\ begin <= m /\ Occurs(text, pattern, m)
    BY DEF Occurrences, Indices
  <2>2. m + Len(pattern) <= Len(text)
    BY <2>1 DEF Occurs
  <2>3. m \in begin .. to - 1
    BY <1>1, <2>1, <2>2
  <2> QED
    BY <2>1, <2>3 DEF NoneIn
<1> QED
    BY <1>2 DEF FirstOccurrence

\* What is refused has no occurrence.
LEMMA RefusedIsNone ==
    ASSUME Types, NEW from \in Int, ~Searchable(from)
    PROVE  NotFound = FirstOccurrence(text, pattern, from)
<1>1. Len(pattern) \in Nat /\ Len(text) \in Nat
    BY DEF Types
<1>2. ASSUME from + Len(pattern) > Len(text), NEW m \in Occurrences(text, pattern, from)
      PROVE  FALSE
  <2>1. m \in Int /\ from <= m /\ m + Len(pattern) <= Len(text)
    BY DEF Occurrences, Occurs, Indices
  <2> QED
    BY <1>1, <1>2, <2>1
<1>3. from < 0 \/ Len(pattern) \notin 1 .. SearchMax - 1 \/ from + Len(pattern) > Len(text)
    BY <1>1 DEF Searchable
<1> QED
    BY <1>2, <1>3 DEF FirstOccurrence

\* What is searched grows by a part that has no occurrence.
LEMMA NoneInGrows ==
    ASSUME Types, NEW to \in Int, NEW next \in Int, NoneIn(begin, to),
           \A n \in to .. next - 1 : ~Occurs(text, pattern, n)
    PROVE  NoneIn(begin, next)
<1> SUFFICES ASSUME NEW n \in begin .. next - 1 PROVE ~Occurs(text, pattern, n)
    BY DEF NoneIn
<1>1. begin \in Int
    BY DEF Types
<1>2. n \in begin .. to - 1 \/ n \in to .. next - 1
    BY <1>1
<1> QED
    BY <1>2 DEF NoneIn

------------------------------------------------------------------------------
(* What typing, calling and returning keep.                                 *)

LEMMA InitHolds ==
    ASSUME Init
    PROVE  IInv
<1>1. Types
  <2>1. IsFiniteSet({})
    BY FS_EmptySet
  <2>2. <<>> \in Seq(Char) /\ <<>> \in Seq(Nat)
    OBVIOUS
  <2> QED
    BY <2>1, <2>2 DEF Init, Types
<1>2. Placed /\ TableGrows /\ KmpLooks /\ ShiftLooks /\ CountLooks
    BY DEF Init, Placed, TableGrows, KmpLooks, ShiftLooks, CountLooks, Running
<1>3. TableHoldsBorders
    BY DEF Init, TableHoldsBorders, Indices
<1>4. KmpIsFirst /\ BoyerMooreIsFirst /\ SundayIsFirst
    BY DEF Init, KmpIsFirst, BoyerMooreIsFirst, SundayIsFirst, IsFirst, Answered
<1> QED
    BY <1>1, <1>2, <1>3, <1>4 DEF IInv

LEMMA TypeKeeps ==
    ASSUME IInv, NEW c \in Char, Type(Append(text, c), pattern) \/ Type(text, Append(pattern, c))
    PROVE  IInv'
<1> USE DEF IInv
<1>1. /\ place = "typing" /\ call = "none" /\ next_table = <<>>
      /\ UNCHANGED <<call, begin, place, next_table, k, i, j, count, hits, result>>
    BY DEF Type, Placed
<1>2. Types'
  <2>1. Append(text, c) \in Seq(Char) /\ Append(pattern, c) \in Seq(Char)
    BY DEF Types
  <2>2. text' \in Seq(Char) /\ pattern' \in Seq(Char)
    BY <2>1 DEF Type, Types
  <2> QED
    BY <1>1, <2>2 DEF Types
<1>3. (Placed /\ TableGrows /\ KmpLooks /\ ShiftLooks /\ CountLooks)'
    BY <1>1 DEF Placed, TableGrows, KmpLooks, ShiftLooks, CountLooks, Running
<1>4. TableHoldsBorders'
    BY <1>1 DEF TableHoldsBorders, Indices
<1>5. (KmpIsFirst /\ BoyerMooreIsFirst /\ SundayIsFirst)'
    BY <1>1 DEF KmpIsFirst, BoyerMooreIsFirst, SundayIsFirst, IsFirst, Answered
<1> QED
    BY <1>2, <1>3, <1>4, <1>5

\* The entries that are filled stay right while the pattern is not typed on.
LEMMA TableKept ==
    ASSUME TableHoldsBorders, UNCHANGED <<pattern, next_table>>
    PROVE  TableHoldsBorders'
<1>1. \A l : Borders(l)' = Borders(l)
    BY DEF Borders
<1> QED
    BY <1>1 DEF TableHoldsBorders

\* An answer is returned by one of the searches for the first occurrence.
LEMMA ReturnKeeps ==
    ASSUME IInv, NEW answer \in Int, Return(answer), place = "search", call # "count",
           answer = FirstOccurrence(text, pattern, begin)
    PROVE  IInv'
<1> USE DEF IInv
<1>1. /\ place' = "returned" /\ result' = answer
      /\ UNCHANGED <<text, pattern, call, begin, next_table, k, i, j, count, hits>>
    BY DEF Return, args
<1>2. Types'
    BY <1>1 DEF Types
<1>3. (Placed /\ TableGrows /\ KmpLooks /\ ShiftLooks /\ CountLooks)'
    BY <1>1 DEF Placed, TableGrows, KmpLooks, ShiftLooks, CountLooks, Running
<1>4. TableHoldsBorders'
    BY <1>1, TableKept
<1>5. (KmpIsFirst /\ BoyerMooreIsFirst /\ SundayIsFirst)'
    BY <1>1 DEF KmpIsFirst, BoyerMooreIsFirst, SundayIsFirst, IsFirst, Answered
<1> QED
    BY <1>2, <1>3, <1>4, <1>5

LEMMA CallKeeps ==
    ASSUME IInv, NEW search \in {"kmp", "boyer_moore", "sunday"}, NEW from \in Int,
           NEW start \in {"table", "search"}, start = "table" <=> search = "kmp",
           Call(search, from, start)
    PROVE  IInv'
<1> USE DEF IInv
<1>1. /\ place = "typing" /\ call = "none" /\ next_table = <<>> /\ hits = {} /\ count = 0
      /\ call' = search /\ begin' = from
      /\ UNCHANGED <<text, pattern, k, j, count, hits>>
    BY DEF Call, Placed
<1>2. j = 0 /\ k = 0
    BY <1>1 DEF Placed
<1>3. CASE Searchable(from)
  <2>1. /\ place' = start /\ i' = from /\ result' = result
        /\ next_table' = IF start = "table" THEN <<0>> ELSE <<>>
    BY <1>3 DEF Call
  <2>2. Usable /\ from >= 0 /\ from + Len(pattern) <= Len(text)
    BY <1>3 DEF Searchable, Usable
  <2>3. Types'
    <3>1. <<0>> \in Seq(Nat) /\ <<>> \in Seq(Nat)
        OBVIOUS
    <3>2. from \in Nat
        BY <2>2
    <3> QED
        BY <1>1, <2>1, <3>1, <3>2 DEF Types
  <2>4. Placed'
    BY <1>1, <2>1, <2>2 DEF Placed, Running, Usable
  <2>5. TableHoldsBorders' /\ TableGrows'
    <3>1. Len(pattern) \in Nat /\ Len(pattern) >= 1
        BY <2>2 DEF Usable, Types
    <3>2. CASE start = "table"
      <4>1. next_table' = <<0>> /\ Len(next_table') = 1 /\ Indices(next_table') = {0}
        BY <2>1, <3>2 DEF Indices
      <4>2. \A l : Borders(l)' = Borders(l)
        BY <1>1 DEF Borders
      <4>3. 0 \in Borders(1) /\ \A n \in Borders(1) : n = 0
        BY DEF Borders
      <4>4. Max(Borders(1)) = 0
        BY <4>3, LongestBorderIs
      <4>5. TableHoldsBorders'
        BY <4>1, <4>2, <4>4 DEF TableHoldsBorders, Nth
      <4>6. \A n \in Borders(2) : n <= 1
        BY DEF Borders
      <4>7. TableGrows'
        BY <1>1, <1>2, <1>3, <2>1, <3>1, <4>1, <4>2, <4>3, <4>6 DEF TableGrows, Searchable
      <4> QED
        BY <4>5, <4>7
    <3>3. CASE start # "table"
        BY <2>1, <3>3 DEF TableHoldsBorders, TableGrows, Indices
    <3> QED
        BY <3>2, <3>3
  <2>5a. \A n \in from .. from - 1 : FALSE
    OBVIOUS
  <2>6. (KmpLooks /\ ShiftLooks)'
    BY <1>1, <2>1, <2>5a DEF KmpLooks, ShiftLooks, NoneIn
  <2>7. (CountLooks /\ KmpIsFirst /\ BoyerMooreIsFirst /\ SundayIsFirst)'
    BY <1>1, <2>1 DEF CountLooks, KmpIsFirst, BoyerMooreIsFirst, SundayIsFirst, IsFirst, Answered
  <2> QED
    BY <2>3, <2>4, <2>5, <2>6, <2>7
<1>4. CASE ~Searchable(from)
  <2>1. place' = "returned" /\ result' = NotFound /\ UNCHANGED <<i, next_table>>
    BY <1>4 DEF Call
  <2>2. Types'
    BY <1>1, <2>1 DEF Types, NotFound
  <2>3. (Placed /\ TableGrows /\ KmpLooks /\ ShiftLooks /\ CountLooks)'
    BY <1>1, <2>1 DEF Placed, TableGrows, KmpLooks, ShiftLooks, CountLooks, Running
  <2>4. TableHoldsBorders'
    BY <1>1, <2>1, TableKept
  <2>5. NotFound = FirstOccurrence(text, pattern, from)
    BY <1>4, RefusedIsNone
  <2>6. (KmpIsFirst /\ BoyerMooreIsFirst /\ SundayIsFirst)'
    BY <1>1, <2>1, <2>5 DEF KmpIsFirst, BoyerMooreIsFirst, SundayIsFirst, IsFirst, Answered
  <2> QED
    BY <2>2, <2>3, <2>4, <2>6
<1> QED
    BY <1>3, <1>4

------------------------------------------------------------------------------
(* Knuth-Morris-Pratt.                                                      *)

\* An entry that is filled, by the length of the prefix it belongs to.
LEMMA EntryIs ==
    ASSUME Types, TableHoldsBorders, NEW l \in Nat \ {0}, l <= Len(next_table)
    PROVE  /\ Nth(next_table, l - 1) = Max(Borders(l))
           /\ Nth(next_table, l - 1) \in Borders(l)
           /\ \A n \in Borders(l) : n <= Nth(next_table, l - 1)
<1>1. Len(next_table) \in Nat
    BY DEF Types
<1>2. l - 1 \in Indices(next_table) /\ (l - 1) + 1 = l
    BY <1>1 DEF Indices
<1>3. Nth(next_table, l - 1) = Max(Borders(l))
    BY <1>2 DEF TableHoldsBorders
<1> QED
    BY <1>3, LongestBorder

\* The next entry: it is right, and the one behind it is one more at most.
LEMMA EntryAppended ==
    ASSUME Types, TableHoldsBorders, NEW b \in Borders(Len(next_table) + 1),
           \A n \in Borders(Len(next_table) + 1) : n <= b,
           next_table' = Append(next_table, b), pattern' = pattern
    PROVE  /\ TableHoldsBorders'
           /\ \A n \in Borders(Len(next_table) + 2) : n <= b + 1
<1> DEFINE l == Len(next_table)
<1>1. l \in Nat /\ next_table \in Seq(Nat)
    BY DEF Types
<1>2. b \in Nat
    BY DEF Borders
<1>3. \A x : Borders(x)' = Borders(x)
    BY DEF Borders
<1>4. Max(Borders(l + 1)) = b
    BY <1>1, LongestBorderIs
<1>5. ASSUME NEW n \in Indices(next_table')
      PROVE  Nth(next_table', n) = Max(Borders(n + 1))
  <2>1. Len(next_table') = l + 1 /\ n \in 0 .. l
    BY <1>1, <1>2 DEF Indices
  <2>2. CASE n = l
    <3>1. Nth(next_table', n) = b
        BY <1>1, <1>2, <2>2 DEF Nth
    <3> QED
        BY <1>4, <2>2, <3>1
  <2>3. CASE n # l
    <3>1. n \in Indices(next_table)
        BY <1>1, <2>1, <2>3 DEF Indices
    <3>2. n + 1 \in 1 .. l
        BY <1>1, <2>1, <2>3
    <3>3. Nth(next_table', n) = Nth(next_table, n)
        BY <1>1, <1>2, <3>2 DEF Nth
    <3> QED
        BY <3>1, <3>3 DEF TableHoldsBorders
  <2> QED
    BY <2>2, <2>3
<1>6. TableHoldsBorders'
    BY <1>3, <1>5 DEF TableHoldsBorders
<1>7. ASSUME NEW n \in Borders(l + 2) PROVE n <= b + 1
  <2>1. n \in Int /\ 0 <= n
    BY DEF Borders
  <2>2. CASE n = 0
    BY <1>2, <2>2
  <2>3. CASE n # 0
    <3>1. n - 1 \in Nat /\ (n - 1) + 1 = n /\ (l + 1) + 1 = l + 2
        BY <1>1, <2>1, <2>3
    <3>2. n - 1 \in Borders(l + 1)
        BY <1>1, <3>1, BorderGrows
    <3> QED
        BY <1>2, <2>1, <3>2
  <2> QED
    BY <2>2, <2>3
<1> QED
    BY <1>6, <1>7

LEMMA FillTableKeeps ==
    ASSUME IInv, FillTable
    PROVE  IInv'
<1> USE DEF IInv
<1> DEFINE l == Len(next_table)
           same == Nth(pattern, l) = Nth(pattern, k)
<1>1. /\ place = "table" /\ l < Len(pattern)
      /\ UNCHANGED <<text, pattern, call, begin, place, i, j, count, hits, result>>
      /\ \/ same /\ next_table' = Append(next_table, k + 1) /\ k' = k + 1
         \/ ~same /\ k = 0 /\ next_table' = Append(next_table, 0) /\ k' = k
         \/ ~same /\ k # 0 /\ k' = Shorter(k) /\ next_table' = next_table
    BY DEF FillTable, args
<1>2. /\ l \in Nat /\ Len(pattern) \in Nat /\ k \in Nat /\ next_table \in Seq(Nat)
      /\ call = "kmp"
    BY <1>1 DEF Types, Placed
<1>3. /\ i = begin /\ j = 0 /\ Searchable(begin) /\ 1 <= l
      /\ k \in Borders(l) /\ \A n \in Borders(l + 1) : n <= k + 1
    BY <1>1, <1>2 DEF TableGrows
<1>4. k < l
    BY <1>3 DEF Borders
<1>5. \A x : Borders(x)' = Borders(x)
    BY <1>1 DEF Borders
\* What is left to show of the table.
<1>6. ASSUME next_table' \in Seq(Nat), k' \in Nat, TableHoldsBorders',
             Len(next_table') \in l .. Len(pattern), k' \in Borders(Len(next_table')),
             \A n \in Borders(Len(next_table') + 1) : n <= k' + 1
      PROVE  IInv'
  <2>1. Types'
    BY <1>1, <1>6 DEF Types
  <2>2. Placed'
    BY <1>1, <1>2 DEF Placed, Running, Usable
  <2>3. Len(next_table') \in 1 .. Len(pattern)
    BY <1>2, <1>3, <1>6
  <2>4. TableGrows'
    BY <1>1, <1>3, <1>5, <1>6, <2>3 DEF TableGrows, Searchable
  <2>5. (KmpLooks /\ ShiftLooks /\ CountLooks)'
    BY <1>1, <1>2 DEF KmpLooks, ShiftLooks, CountLooks
  <2>6. (KmpIsFirst /\ BoyerMooreIsFirst /\ SundayIsFirst)'
    BY <1>1 DEF KmpIsFirst, BoyerMooreIsFirst, SundayIsFirst, IsFirst, Answered
  <2> QED
    BY <1>6, <2>1, <2>2, <2>4, <2>5, <2>6
\* The border of l characters that is one more than k, if it is one.
<1>7. same <=> k + 1 \in Borders(l + 1)
    BY <1>2, <1>3, BorderGrows
<1>8. CASE same /\ next_table' = Append(next_table, k + 1) /\ k' = k + 1
  <2>1. k + 1 \in Borders(l + 1)
    BY <1>7, <1>8
  <2>2. TableHoldsBorders' /\ \A n \in Borders(l + 2) : n <= k' + 1
    BY <1>1, <1>3, <1>8, <2>1, EntryAppended
  <2>3. Len(next_table') = l + 1 /\ next_table' \in Seq(Nat) /\ l + 1 + 1 = l + 2
    BY <1>2, <1>8
  <2>4. k' \in Borders(l + 1) /\ l + 1 \in l .. Len(pattern) /\ k' \in Nat
    BY <1>1, <1>2, <1>8, <2>1
  <2> QED
    BY <1>6, <2>2, <2>3, <2>4
<1>9. CASE ~same /\ k = 0 /\ next_table' = Append(next_table, 0) /\ k' = k
  <2>1. 0 \in Borders(l + 1)
    BY <1>2, BordersAre
  <2>2. \A n \in Borders(l + 1) : n <= 0
    <3> SUFFICES ASSUME NEW n \in Borders(l + 1), n > 0 PROVE FALSE
        BY DEF Borders
    <3>1. n \in Int /\ n <= 1
        BY <1>3, <1>9 DEF Borders
    <3>2. n = k + 1
        BY <1>9, <3>1
    <3> QED
        BY <1>7, <1>9, <3>2
  <2>3. TableHoldsBorders' /\ \A n \in Borders(l + 2) : n <= k' + 1
    BY <1>1, <1>9, <2>1, <2>2, EntryAppended
  <2>4. Len(next_table') = l + 1 /\ next_table' \in Seq(Nat) /\ l + 1 + 1 = l + 2
    BY <1>2, <1>9
  <2>5. k' \in Borders(l + 1) /\ l + 1 \in l .. Len(pattern) /\ k' \in Nat
    BY <1>1, <1>2, <1>9, <2>1
  <2> QED
    BY <1>6, <2>3, <2>4, <2>5
<1>10. CASE ~same /\ k # 0 /\ k' = Shorter(k) /\ next_table' = next_table
  <2> DEFINE b == Shorter(k)
  <2>1. b \in Borders(k) /\ \A n \in Borders(k) : n <= b
    BY <1>2, <1>4, <1>10, EntryIs DEF Shorter
  <2> HIDE DEF b
  <2>2. b \in Borders(l) /\ b < k /\ b \in Nat
    <3>1. b \in Int /\ 0 <= b
        BY <2>1 DEF Borders
    <3> QED
        BY <1>2, <1>3, <2>1, <3>1, BorderOfBorder
  <2>3. ASSUME NEW n \in Borders(l + 1) PROVE n <= b + 1
    <3>0. n \in Int /\ 0 <= n /\ b \in Int /\ 0 <= b
        BY <2>2 DEF Borders
    <3>1. n <= k + 1 /\ n # k + 1
        BY <1>3, <1>7, <1>10
    <3>2. CASE n = 0
        BY <3>0, <3>2
    <3>3. CASE n # 0
      <4>1. n - 1 \in Nat /\ (n - 1) + 1 = n /\ n - 1 < k
        BY <1>2, <3>0, <3>1, <3>3
      <4>2. n - 1 \in Borders(l)
        BY <1>2, <4>1, BorderGrows
      <4>3. n - 1 \in Borders(k)
        BY <1>2, <1>3, <4>1, <4>2, BorderOfBorder
      <4>4. n - 1 <= b
        BY <2>1, <4>3
      <4> QED
        BY <3>0, <4>4
    <3> QED
        BY <3>2, <3>3
  <2>4. TableHoldsBorders'
    BY <1>1, <1>10, TableKept
  <2>5. l \in l .. Len(pattern)
    BY <1>1, <1>2
  <2>6. k' = b
    BY <1>10 DEF b
  <2>7. k' \in Nat /\ k' \in Borders(l) /\ \A n \in Borders(l + 1) : n <= k' + 1
    BY <2>2, <2>3, <2>6
  <2> QED
    BY <1>2, <1>6, <1>10, <2>4, <2>5, <2>7
<1> QED
    BY <1>1, <1>8, <1>9, <1>10

LEMMA TableIsFullKeeps ==
    ASSUME IInv, TableIsFull
    PROVE  IInv'
<1> USE DEF IInv
<1>1. /\ place = "table" /\ place' = "search" /\ call = "kmp"
      /\ Len(next_table) = Len(pattern)
      /\ UNCHANGED <<text, pattern, call, begin, next_table, k, i, j, count, hits, result>>
    BY DEF TableIsFull, args, Placed
<1>2. /\ i = begin /\ j = 0 /\ Len(pattern) \in Nat /\ Usable /\ 1 <= Len(pattern)
      /\ begin \in Nat /\ begin <= Len(text)
    BY <1>1 DEF TableGrows, Types, Placed, Usable, Searchable
<1>3. Types' /\ Placed'
    BY <1>1, <1>2 DEF Types, Placed, Running, Usable
<1>4. TableHoldsBorders'
    BY <1>1, TableKept
<1>5. KmpLooks'
  <2>1. j \in 0 .. Len(pattern) - 1 /\ i - j = begin
    BY <1>2
  <2>2. Matches(i - j, j) /\ NoneIn(begin, i - j)
    BY <1>2, <2>1 DEF Matches, NoneIn
  <2> QED
    BY <1>1, <1>2, <2>1, <2>2 DEF KmpLooks, Matches, NoneIn
<1>6. (TableGrows /\ ShiftLooks /\ CountLooks)'
    BY <1>1 DEF TableGrows, ShiftLooks, CountLooks
<1>7. (KmpIsFirst /\ BoyerMooreIsFirst /\ SundayIsFirst)'
    BY <1>1 DEF KmpIsFirst, BoyerMooreIsFirst, SundayIsFirst, IsFirst, Answered
<1> QED
    BY <1>3, <1>4, <1>5, <1>6, <1>7

\* The pattern is put elsewhere, to go on with the comparison at other places.
LEMMA KmpGoes ==
    ASSUME IInv, place = "search", call = "kmp", NEW newI \in Nat, NEW newJ \in Nat,
           Go(newI, newJ), newJ < Len(pattern), begin <= newI - newJ, newI <= Len(text),
           Matches(newI - newJ, newJ), NoneIn(begin, newI - newJ)
    PROVE  IInv'
<1>1. /\ i' = newI /\ j' = newJ
      /\ UNCHANGED <<text, pattern, call, begin, place, next_table, k, count, hits, result>>
    BY DEF Go, args
<1>2. Types /\ Placed /\ Len(pattern) \in Nat /\ begin \in Int
    BY DEF IInv, Types
<1>3. Types'
    BY <1>1, <1>2 DEF Types
<1>4. begin <= newI
    BY <1>2
<1>5. Placed'
    BY <1>1, <1>2, <1>4 DEF Placed, Running, Usable
<1>6. TableHoldsBorders' /\ (TableGrows /\ ShiftLooks /\ CountLooks)'
    BY <1>1, TableKept DEF IInv, TableGrows, ShiftLooks, CountLooks
<1>7. KmpLooks'
  <2>1. Len(next_table) = Len(pattern) /\ newJ \in 0 .. Len(pattern) - 1
    BY <1>2 DEF IInv, KmpLooks
  <2> QED
    BY <1>1, <2>1 DEF KmpLooks, Matches, NoneIn
<1>8. (KmpIsFirst /\ BoyerMooreIsFirst /\ SundayIsFirst)'
    BY <1>1 DEF KmpIsFirst, BoyerMooreIsFirst, SundayIsFirst, IsFirst, Answered
<1> QED
    BY <1>3, <1>5, <1>6, <1>7, <1>8 DEF IInv

\* The pattern is laid so that the longest border of what matched matches again:
\* every occurrence that this leaps over would be a longer border.
LEMMA FallBackIsSafe ==
    ASSUME Types, NEW at \in Int, NEW l \in Nat, l < Len(pattern), Matches(at, l),
           Nth(text, at + l) # Nth(pattern, l),
           NEW b \in Borders(l), \A n \in Borders(l) : n <= b
    PROVE  /\ Matches(at + l - b, b)
           /\ \A n \in at .. at + l - b - 1 : ~Occurs(text, pattern, n)
<1>1. /\ b \in Nat /\ b < l /\ Len(pattern) \in Nat
      /\ \A x \in 0 .. b - 1 : Nth(pattern, x) = Nth(pattern, l - b + x)
    BY BordersAre DEF Borders, Types
<1>2. ASSUME NEW x \in 0 .. b - 1
      PROVE  Nth(text, at + l - b + x) = Nth(pattern, x)
  <2>1. l - b + x \in 0 .. l - 1 /\ at + (l - b + x) = at + l - b + x
    BY <1>1
  <2>2. Nth(text, at + (l - b + x)) = Nth(pattern, l - b + x)
    BY <2>1 DEF Matches
  <2> QED
    BY <1>1, <2>1, <2>2
<1>3. ASSUME NEW n \in at .. at + l - b - 1, Occurs(text, pattern, n)
      PROVE  FALSE
  <2> DEFINE d == at + l - n
  <2>1. d \in Int /\ b < d /\ d <= l /\ n \in Int
    BY <1>1
  <2>2. \A x \in Indices(pattern) : Nth(text, n + x) = Nth(pattern, x)
    BY <1>3 DEF Occurs
  <2>3. CASE d = l
    <3>1. n = at /\ l \in Indices(pattern)
        BY <1>1, <2>1, <2>3 DEF Indices
    <3> QED
        BY <2>2, <3>1
  <2>4. CASE d < l
    <3>1. ASSUME NEW x \in 0 .. d - 1
          PROVE  Nth(pattern, x) = Nth(pattern, l - d + x)
      <4>1. x \in Indices(pattern) /\ l - d + x \in 0 .. l - 1
        BY <1>1, <2>1, <2>4 DEF Indices
      <4>2. at + (l - d + x) = n + x
        BY <2>1
      <4> QED
        BY <2>2, <4>1, <4>2 DEF Matches
    <3>2. d \in Borders(l)
        BY <1>1, <2>1, <2>4, <3>1, BordersAre
    <3> QED
        BY <1>1, <2>1, <3>2
  <2> QED
    BY <2>1, <2>3, <2>4
<1> QED
    BY <1>2, <1>3 DEF Matches

LEMMA KmpStepKeeps ==
    ASSUME IInv, KmpStep
    PROVE  IInv'
<1>1. place = "search" /\ call = "kmp"
    BY DEF KmpStep
<1>2. /\ Types /\ TableHoldsBorders /\ Usable /\ 0 <= begin
      /\ Len(next_table) = Len(pattern)
      /\ j \in 0 .. Len(pattern) - 1 /\ begin <= i - j /\ i <= Len(text)
      /\ Matches(i - j, j) /\ NoneIn(begin, i - j)
    BY <1>1 DEF IInv, Placed, KmpLooks, Running
<1>3. /\ i \in Nat /\ j \in Nat /\ j < Len(pattern) /\ begin \in Int
      /\ Len(text) \in Nat /\ Len(pattern) \in Nat /\ (i - j) + j = i
    BY <1>2 DEF Types
<1>4. CASE i >= Len(text)
  <2>1. Return(NotFound)
    BY <1>4 DEF KmpStep
  <2>2. i - j \in Int /\ Len(text) - Len(pattern) < i - j
    BY <1>3, <1>4
  <2>3. NotFound = FirstOccurrence(text, pattern, begin)
    BY <1>2, <2>2, NoneIs
  <2> QED
    BY <1>1, <2>1, <2>3, ReturnKeeps DEF NotFound
<1>5. CASE i < Len(text) /\ Nth(text, i) # Nth(pattern, j)
  <2>1. FallBack
    BY <1>3, <1>5 DEF KmpStep
  <2>2. CASE j = 0
    <3>1. Go(i + 1, 0)
        BY <2>1, <2>2 DEF FallBack
    <3>2. ASSUME NEW n \in i .. (i + 1) - 1 PROVE ~Occurs(text, pattern, n)
      <4>1. n = i /\ 0 \in Indices(pattern) /\ i + 0 = i
        BY <1>3 DEF Indices
      <4> QED
        BY <1>5, <2>2, <4>1 DEF Occurs
    <3>3. i - j = i /\ (i + 1) - 0 = i + 1
        BY <1>3, <2>2
    <3>4. NoneIn(begin, (i + 1) - 0)
        BY <1>2, <1>3, <3>2, <3>3, NoneInGrows
    <3>5. Matches((i + 1) - 0, 0)
        BY DEF Matches
    <3>6. i + 1 \in Nat /\ begin <= (i + 1) - 0 /\ i + 1 <= Len(text) /\ 0 < Len(pattern)
        BY <1>2, <1>3, <1>5, <2>2
    <3> QED
        BY <1>1, <3>1, <3>4, <3>5, <3>6, KmpGoes
  <2>3. CASE j # 0
    <3> DEFINE b == Nth(next_table, j - 1)
    <3>1. Go(i, b)
        BY <2>1, <2>3 DEF FallBack
    <3>2. b \in Borders(j) /\ \A n \in Borders(j) : n <= b
        BY <1>2, <1>3, <2>3, EntryIs
    <3> HIDE DEF b
    <3>3. b \in Nat /\ b < j
        BY <1>3, <3>2 DEF Borders
    <3>4. i - j \in Int /\ (i - j) + j - b = i - b
        BY <1>3, <3>3
    <3>4a. /\ Matches((i - j) + j - b, b)
           /\ \A n \in (i - j) .. (i - j) + j - b - 1 : ~Occurs(text, pattern, n)
      <4> DEFINE at == i - j
      <4>1. at \in Int /\ Matches(at, j) /\ Nth(text, at + j) # Nth(pattern, j)
        BY <1>2, <1>3, <1>5, <3>4
      <4> HIDE DEF at
      <4>2. /\ Matches(at + j - b, b)
            /\ \A n \in at .. at + j - b - 1 : ~Occurs(text, pattern, n)
        BY <1>2, <1>3, <3>2, <4>1, FallBackIsSafe
      <4> QED
        BY <4>2 DEF at
    <3>5. Matches(i - b, b)
        BY <3>4, <3>4a
    <3>6. NoneIn(begin, i - b)
      <4>1. i - b \in Int /\ (i - j) + j - b - 1 = (i - b) - 1
        BY <1>3, <3>3
      <4>2. \A n \in i - j .. (i - b) - 1 : ~Occurs(text, pattern, n)
        BY <3>4a, <4>1
      <4> QED
        BY <1>2, <3>4, <4>1, <4>2, NoneInGrows
    <3>7. b < Len(pattern) /\ begin <= i - b
        BY <1>2, <1>3, <3>3
    <3> QED
        BY <1>1, <1>2, <1>3, <3>1, <3>3, <3>5, <3>6, <3>7, KmpGoes
  <2> QED
    BY <2>2, <2>3
<1>6. CASE i < Len(text) /\ Nth(text, i) = Nth(pattern, j) /\ j = Len(pattern) - 1
  <2>1. Return(i - j)
    BY <1>3, <1>6 DEF KmpStep
  <2>2. Occurs(text, pattern, i - j)
    <3>1. (i - j) + Len(pattern) <= Len(text)
        BY <1>3, <1>6
    <3>2. ASSUME NEW x \in Indices(pattern) PROVE Nth(text, (i - j) + x) = Nth(pattern, x)
      <4>1. x \in 0 .. j - 1 \/ x = j
        BY <1>3, <1>6 DEF Indices
      <4> QED
        BY <1>2, <1>3, <1>6, <4>1 DEF Matches
    <3> QED
        BY <3>1, <3>2 DEF Occurs
  <2>3. i - j \in Nat
    BY <1>2, <1>3
  <2>4. i - j = FirstOccurrence(text, pattern, begin)
    BY <1>2, <2>2, <2>3, FirstIs
  <2> QED
    BY <1>1, <2>1, <2>3, <2>4, ReturnKeeps
<1>7. CASE i < Len(text) /\ Nth(text, i) = Nth(pattern, j) /\ j # Len(pattern) - 1
  <2>1. Go(i + 1, j + 1)
    BY <1>3, <1>7 DEF KmpStep
  <2>2. /\ (i + 1) - (j + 1) = i - j /\ i + 1 \in Nat /\ j + 1 \in Nat
        /\ j + 1 < Len(pattern) /\ i + 1 <= Len(text)
    BY <1>3, <1>7
  <2>3. ASSUME NEW x \in 0 .. (j + 1) - 1 PROVE Nth(text, (i - j) + x) = Nth(pattern, x)
    <3>1. x \in 0 .. j - 1 \/ x = j
        BY <1>3
    <3> QED
        BY <1>2, <1>3, <1>7, <3>1 DEF Matches
  <2>4. Matches(i - j, j + 1)
    BY <2>3 DEF Matches
  <2> QED
    BY <1>1, <1>2, <2>1, <2>2, <2>4, KmpGoes
<1> QED
    BY <1>3, <1>4, <1>5, <1>6, <1>7

------------------------------------------------------------------------------
(* The searches that lay a window over the text.                            *)

\* Where the window has no mismatch the pattern occurs.
LEMMA WindowOccurs ==
    ASSUME Types, i <= Len(text) - Len(pattern)
    PROVE  Mismatches = {} <=> Occurs(text, pattern, i)
<1>1. i \in Nat /\ Len(text) \in Nat /\ Len(pattern) \in Nat
    BY DEF Types
<1>2. i + Len(pattern) <= Len(text)
    BY <1>1
<1> QED
    BY <1>2 DEF Mismatches, Occurs

\* The window is laid further right, over no occurrence.
LEMMA WindowGoes ==
    ASSUME IInv, place = "search", call # "kmp", NEW shift \in Nat, Go(i + shift, j),
           \A d \in 0 .. shift - 1 : ~Occurs(text, pattern, i + d)
    PROVE  IInv'
<1> DEFINE next == i + shift
<1>1. /\ i' = next /\ j' = j
      /\ UNCHANGED <<text, pattern, call, begin, place, next_table, k, count, hits, result>>
    BY DEF Go, args
<1>2. /\ Types /\ Placed /\ i \in Nat /\ next \in Nat /\ i <= next
      /\ begin \in Int /\ Len(pattern) \in Nat
    BY DEF IInv, Types
<1>3. ASSUME NEW n \in i .. next - 1 PROVE ~Occurs(text, pattern, n)
  <2>1. n - i \in 0 .. shift - 1 /\ i + (n - i) = n
    BY <1>2
  <2> QED
    BY <2>1
<1> HIDE DEF next
<1>4. Types'
    BY <1>1, <1>2 DEF Types
<1>5. Placed'
  <2>1. begin <= i => begin <= next
    BY <1>2
  <2> QED
    BY <1>1, <1>2, <2>1 DEF Placed, Running, Usable
<1>6. TableHoldsBorders' /\ (TableGrows /\ KmpLooks)'
    BY <1>1, TableKept DEF IInv, TableGrows, KmpLooks
<1>7. ShiftLooks'
  <2>1. NoneIn(begin, i) => NoneIn(begin, next)
    BY <1>2, <1>3, NoneInGrows
  <2> QED
    BY <1>1, <2>1 DEF IInv, ShiftLooks, NoneIn
<1>8. CountLooks'
  <2> SUFFICES ASSUME call = "count" PROVE CountLooks'
    BY <1>1 DEF CountLooks
  <2>1. /\ HitsApart /\ Running /\ \A n \in hits : n \in Nat /\ n + Len(pattern) < i
        /\ \A n \in begin .. i - 1 : Occurs(text, pattern, n) /\ Usable => Met(n)
    BY <1>2 DEF IInv, CountLooks, Running, Types
  <2>2. HitsApart' /\ place' # "returned"
    BY <1>1, <2>1 DEF HitsApart, Usable
  <2>3. \A n \in hits : n + Len(pattern) < next
    BY <1>2, <2>1
  <2>4. ASSUME NEW n \in begin .. next - 1, Occurs(text, pattern, n), Usable PROVE Met(n)
    <3>1. n \in begin .. i - 1 \/ n \in i .. next - 1
        BY <1>2
    <3> QED
        BY <1>3, <2>1, <2>4, <3>1
  <2> QED
    BY <1>1, <2>2, <2>3, <2>4 DEF CountLooks, Met, Usable
<1>9. (KmpIsFirst /\ BoyerMooreIsFirst /\ SundayIsFirst)'
    BY <1>1 DEF KmpIsFirst, BoyerMooreIsFirst, SundayIsFirst, IsFirst, Answered
<1> QED
    BY <1>4, <1>5, <1>6, <1>7, <1>8, <1>9 DEF IInv

\* The searches for the first occurrence return what they come to.
LEMMA WindowReturns ==
    ASSUME IInv, place = "search", call \in {"boyer_moore", "sunday"}, NEW answer \in Int,
           Return(answer),
           \/ answer = NotFound /\ i > Len(text) - Len(pattern)
           \/ answer = i /\ Occurs(text, pattern, i)
    PROVE  IInv'
<1>1. /\ Types /\ Usable /\ 0 <= begin /\ begin <= i /\ NoneIn(begin, i) /\ i \in Nat
      /\ Len(text) \in Nat /\ Len(pattern) \in Nat
    BY DEF IInv, Placed, Running, ShiftLooks, Types
<1>2. CASE answer = NotFound /\ i > Len(text) - Len(pattern)
  <2>1. i \in Int /\ Len(text) - Len(pattern) < i
    BY <1>1, <1>2
  <2>2. answer = FirstOccurrence(text, pattern, begin)
    BY <1>1, <1>2, <2>1, NoneIs
  <2> QED
    BY <2>2, ReturnKeeps
<1>3. CASE answer = i /\ Occurs(text, pattern, i)
  <2>1. answer = FirstOccurrence(text, pattern, begin)
    BY <1>1, <1>3, FirstIs
  <2> QED
    BY <2>1, ReturnKeeps
<1> QED
    BY <1>2, <1>3

------------------------------------------------------------------------------
(* Boyer-Moore.                                                             *)

LEMMA GreaterOf ==
    ASSUME NEW a \in Int, NEW b \in Int
    PROVE  Max({a, b}) \in {a, b} /\ a <= Max({a, b}) /\ b <= Max({a, b})
<1>1. CASE a <= b
  <2>1. Max({a, b}) = b
    BY <1>1, GreatestIs
  <2> QED
    BY <1>1, <2>1
<1>2. CASE b <= a
  <2>1. Max({a, b}) = a
    BY <1>2, GreatestIs
  <2> QED
    BY <1>2, <2>1
<1> QED
    BY <1>1, <1>2

\* bm_suffix is the longest common suffix.
LEMMA SuffixIs ==
    ASSUME NEW n \in Nat
    PROVE  /\ bm_suffix(n) \in 0 .. n + 1
           /\ \A x \in 0 .. bm_suffix(n) - 1 : Nth(pattern, n - x) = Nth(pattern, LastIndex - x)
           /\ \A l \in 0 .. n + 1 :
                 (\A x \in 0 .. l - 1 : Nth(pattern, n - x) = Nth(pattern, LastIndex - x))
                    => l <= bm_suffix(n)
<1> DEFINE Common(l) == \A x \in 0 .. l - 1 : Nth(pattern, n - x) = Nth(pattern, LastIndex - x)
           lengths == {l \in 0 .. n + 1 : Common(l)}
<1>1. bm_suffix(n) = Max(lengths)
    BY DEF bm_suffix
<1>2. n + 1 \in Int /\ 0 \in 0 .. n + 1 /\ Common(0)
    OBVIOUS
<1> HIDE DEF Common
<1>3. lengths \in SUBSET Int /\ lengths # {} /\ \A l \in lengths : l <= n + 1
    BY <1>2
<1> HIDE DEF lengths
<1>4. Max(lengths) \in lengths /\ \A l \in lengths : l <= Max(lengths)
    BY <1>2, <1>3, GreatestExists
<1> QED
    BY <1>1, <1>4 DEF lengths, Common

\* The last place of a character, if it has one.
LEMMA BadCharIs ==
    ASSUME Types, NEW c
    PROVE  /\ bm_bad_char(c) \in Int /\ -1 <= bm_bad_char(c)
           /\ \A n \in Indices(pattern) : Nth(pattern, n) = c => n <= bm_bad_char(c)
<1> DEFINE places == {n \in Indices(pattern) : Nth(pattern, n) = c} \cup {-1}
<1>1. bm_bad_char(c) = Max(places)
    BY DEF bm_bad_char
<1>2. Len(pattern) \in Int /\ 0 <= Len(pattern)
    BY DEF Types
<1>3. places \in SUBSET Int /\ -1 \in places /\ \A n \in places : n <= Len(pattern)
    BY <1>2 DEF Indices
<1> HIDE DEF places
<1>4. places # {}
    BY <1>3
<1>5. Max(places) \in places /\ \A n \in places : n <= Max(places)
    BY <1>2, <1>3, <1>4, GreatestExists
<1>6. Max(places) \in Int /\ -1 <= Max(places)
    BY <1>3, <1>5
<1> QED
    BY <1>1, <1>5, <1>6 DEF places

\* The good suffix behind a mismatch at n never shifts over an occurrence.
LEMMA GoodSuffixIsSafe ==
    ASSUME Types, Usable, NEW n \in Indices(pattern)
    PROVE  /\ bm_good_suffix(n) \in 1 .. Len(pattern)
           /\ \A d \in Nat \ {0} :
                 /\ Nth(text, i + n) # Nth(pattern, n)
                 /\ \A x \in Indices(pattern) : x > n => Nth(text, i + x) = Nth(pattern, x)
                 /\ Occurs(text, pattern, i + d)
                 => bm_good_suffix(n) <= d
<1> DEFINE inside == {m \in 0 .. LastIndex - 1 : LastIndex - bm_suffix(m) = n}
           front == {m \in 0 .. LastIndex - 1 : bm_suffix(m) = m + 1 /\ n < LastIndex - m}
           shift == bm_good_suffix(n)
<1>1. /\ Len(pattern) \in Nat /\ LastIndex \in Nat /\ Len(pattern) = LastIndex + 1
      /\ n \in Nat /\ n <= LastIndex /\ i \in Nat
    BY SearchAssumption DEF Types, Usable, LastIndex, Indices
<1>2. /\ inside \in SUBSET Int /\ front \in SUBSET Int
      /\ \A m \in inside \cup front : m \in Nat /\ m <= LastIndex - 1 /\ m <= LastIndex
    BY <1>1
<1>3. /\ inside # {} => shift = LastIndex - Max(inside)
      /\ inside = {} /\ front # {} => shift = LastIndex - Max(front)
      /\ inside = {} /\ front = {} => shift = Len(pattern)
    BY DEF bm_good_suffix, GoodSuffixInside
<1>4. \A m \in Nat : bm_suffix(m) \in 0 .. m + 1
    BY SuffixIs
<1>5. /\ inside # {} => Max(inside) \in inside /\ \A m \in inside : m <= Max(inside)
      /\ front # {} => Max(front) \in front /\ \A m \in front : m <= Max(front)
  <2> HIDE DEF inside, front
  <2>1. LastIndex \in Int /\ (\A m \in inside : m <= LastIndex) /\ \A m \in front : m <= LastIndex
    BY <1>1, <1>2
  <2> QED
    BY <1>2, <2>1, GreatestExists
<1>6. /\ \A m \in inside : LastIndex - m <= n + 1
      /\ \A m \in 0 .. LastIndex - 1 : bm_suffix(m) = LastIndex - n => m \in inside
      /\ \A m \in 0 .. LastIndex - 1 : bm_suffix(m) = m + 1 /\ n < LastIndex - m => m \in front
  <2>1. ASSUME NEW m \in 0 .. LastIndex - 1
        PROVE  m \in Nat /\ bm_suffix(m) \in Int /\ bm_suffix(m) <= m + 1
    <3>1. m \in Nat
        BY <1>1
    <3>2. bm_suffix(m) \in 0 .. m + 1
        BY <1>4, <3>1
    <3> HIDE DEF inside, front
    <3> QED
        BY <3>1, <3>2
  <2>2. ASSUME NEW m \in inside PROVE LastIndex - m <= n + 1
    <3>1. m \in 0 .. LastIndex - 1 /\ LastIndex - bm_suffix(m) = n
        OBVIOUS
    <3> HIDE DEF inside, front
    <3> QED
        BY <1>1, <2>1, <3>1
  <2>3. \A m \in 0 .. LastIndex - 1 : bm_suffix(m) = LastIndex - n => LastIndex - bm_suffix(m) = n
    BY <1>1
  <2> QED
    BY <2>2, <2>3
<1> HIDE DEF inside, front, shift
<1>7. shift \in 1 .. Len(pattern)
  <2>1. CASE inside # {}
    <3>1. Max(inside) \in Nat /\ Max(inside) <= LastIndex - 1
        BY <1>2, <1>5, <2>1
    <3> QED
        BY <1>1, <1>3, <2>1, <3>1
  <2>2. CASE inside = {} /\ front # {}
    <3>1. Max(front) \in Nat /\ Max(front) <= LastIndex - 1
        BY <1>2, <1>5, <2>2
    <3> QED
        BY <1>1, <1>3, <2>2, <3>1
  <2>3. CASE inside = {} /\ front = {}
    BY <1>1, <1>3, <2>3
  <2> QED
    BY <2>1, <2>2, <2>3
<1>8. ASSUME NEW d \in Nat \ {0}, Nth(text, i + n) # Nth(pattern, n),
             \A x \in Indices(pattern) : x > n => Nth(text, i + x) = Nth(pattern, x),
             Occurs(text, pattern, i + d)
      PROVE  shift <= d
  <2> DEFINE m == LastIndex - d
  <2>1. \A x \in Indices(pattern) : Nth(text, i + d + x) = Nth(pattern, x)
    BY <1>8 DEF Occurs
\* The text at the end of the window, read as the pattern and as the occurrence.
  <2>2. ASSUME NEW x \in Nat, x < LastIndex - n, x <= m
        PROVE  Nth(pattern, m - x) = Nth(pattern, LastIndex - x)
    <3>1. /\ LastIndex - x \in Indices(pattern) /\ LastIndex - x > n
          /\ m - x \in Indices(pattern)
          /\ i + d + (m - x) = i + (LastIndex - x)
        BY <1>1, <2>2 DEF Indices
    <3> QED
        BY <1>8, <2>1, <3>1
  <2>3. CASE d <= n
    <3>1. m \in Nat /\ m \in 0 .. LastIndex - 1 /\ LastIndex - n <= m
        BY <1>1, <2>3
    <3>2. \A x \in 0 .. (LastIndex - n) - 1 : Nth(pattern, m - x) = Nth(pattern, LastIndex - x)
        BY <1>1, <2>2, <3>1
    <3>3. LastIndex - n <= bm_suffix(m)
      <4>1. LastIndex - n \in 0 .. m + 1
        BY <1>1, <3>1
      <4> QED
        BY <3>1, <3>2, <4>1, SuffixIs
    <3>4. ~(LastIndex - n < bm_suffix(m))
      <4> SUFFICES ASSUME LastIndex - n < bm_suffix(m) PROVE FALSE
        OBVIOUS
      <4>1a. bm_suffix(m) \in 0 .. m + 1
        BY <1>4, <3>1
      <4>1b. bm_suffix(m) \in Int /\ LastIndex - n \in Int /\ 0 <= LastIndex - n
        BY <1>1, <4>1a
      <4>1. bm_suffix(m) \in Int /\ LastIndex - n \in 0 .. bm_suffix(m) - 1
        BY <4>1b
      <4>2. Nth(pattern, m - (LastIndex - n)) = Nth(pattern, LastIndex - (LastIndex - n))
        BY <3>1, <4>1, SuffixIs
      <4>3. /\ m - (LastIndex - n) = n - d /\ LastIndex - (LastIndex - n) = n
            /\ n - d \in Indices(pattern) /\ i + d + (n - d) = i + n
        BY <1>1, <2>3 DEF Indices
      <4> QED
        BY <1>8, <2>1, <4>2, <4>3
    <3>5. bm_suffix(m) = LastIndex - n
      <4>1. bm_suffix(m) \in Int
        BY <1>4, <3>1
      <4> QED
        BY <1>1, <3>3, <3>4, <4>1
    <3>6. m \in inside
        BY <1>6, <3>1, <3>5
    <3>7. Max(inside) \in Int /\ m <= Max(inside) /\ shift = LastIndex - Max(inside)
        BY <1>2, <1>3, <1>5, <3>6
    <3> QED
        BY <1>1, <3>1, <3>7
  <2>4. CASE n < d /\ d <= LastIndex
    <3>1. m \in Nat /\ m \in 0 .. LastIndex - 1 /\ m < LastIndex - n
        BY <1>1, <2>4
    <3>2. \A x \in 0 .. (m + 1) - 1 : Nth(pattern, m - x) = Nth(pattern, LastIndex - x)
        BY <1>1, <2>2, <3>1
    <3>3. m + 1 <= bm_suffix(m)
      <4>1. m + 1 \in 0 .. m + 1
        BY <3>1
      <4> QED
        BY <3>1, <3>2, <4>1, SuffixIs
    <3>4. bm_suffix(m) = m + 1 /\ n < LastIndex - m
      <4>1. bm_suffix(m) \in Int /\ bm_suffix(m) <= m + 1
        BY <1>4, <3>1
      <4> QED
        BY <1>1, <2>4, <3>1, <3>3, <4>1
    <3>5. m \in front
        BY <1>6, <3>1, <3>4
    <3>6. CASE inside # {}
      <4>1. /\ Max(inside) \in Int /\ shift = LastIndex - Max(inside)
            /\ LastIndex - Max(inside) <= n + 1
        BY <1>2, <1>3, <1>5, <1>6, <3>6
      <4> QED
        BY <1>1, <2>4, <4>1
    <3>7. CASE inside = {}
      <4>1. Max(front) \in Int /\ m <= Max(front) /\ shift = LastIndex - Max(front)
        BY <1>2, <1>3, <1>5, <3>5, <3>7
      <4> QED
        BY <1>1, <3>1, <4>1
    <3> QED
        BY <3>6, <3>7
  <2>5. CASE LastIndex < d
    BY <1>1, <1>7, <2>5
  <2> QED
    BY <1>1, <2>3, <2>4, <2>5
<1> QED
    BY <1>7, <1>8 DEF shift

\* Nor does the character at which the window mismatches.
LEMMA BadCharIsSafe ==
    ASSUME Types, NEW n \in Indices(pattern), NEW d \in Nat \ {0}, Occurs(text, pattern, i + d)
    PROVE  n - bm_bad_char(Nth(text, i + n)) <= d
<1> DEFINE last == bm_bad_char(Nth(text, i + n))
<1>1. /\ last \in Int /\ -1 <= last
      /\ \A x \in Indices(pattern) : Nth(pattern, x) = Nth(text, i + n) => x <= last
    BY BadCharIs
<1> HIDE DEF last
<1>2. Len(pattern) \in Nat /\ i \in Nat /\ n \in Nat /\ n < Len(pattern)
    BY DEF Types, Indices
<1>3. CASE d <= n
  <2>1. n - d \in Indices(pattern) /\ i + d + (n - d) = i + n
    BY <1>2, <1>3 DEF Indices
  <2>2. Nth(text, i + d + (n - d)) = Nth(pattern, n - d)
    BY <2>1 DEF Occurs
  <2>3. n - d <= last
    BY <1>1, <2>1, <2>2
  <2> QED
    BY <1>1, <1>2, <2>3 DEF last
<1>4. CASE n < d
    BY <1>1, <1>2, <1>4 DEF last
<1> QED
    BY <1>2, <1>3, <1>4

LEMMA BoyerMooreStepKeeps ==
    ASSUME IInv, BoyerMooreStep
    PROVE  IInv'
<1>1. place = "search" /\ call = "boyer_moore"
    BY DEF BoyerMooreStep
<1>2. Types /\ Usable
    BY <1>1 DEF IInv, Placed
<1>3. i \in Nat /\ Len(text) \in Nat /\ Len(pattern) \in Nat
    BY <1>2 DEF Types
<1>4. CASE i > Len(text) - Len(pattern)
  <2>1. Return(NotFound)
    BY <1>4 DEF BoyerMooreStep
  <2> QED
    BY <1>1, <1>4, <2>1, WindowReturns DEF NotFound
<1>5. CASE i <= Len(text) - Len(pattern) /\ Mismatches = {}
  <2>1. Return(i)
    BY <1>3, <1>5 DEF BoyerMooreStep
  <2>2. Occurs(text, pattern, i)
    BY <1>2, <1>5, WindowOccurs
  <2> QED
    BY <1>1, <1>3, <2>1, <2>2, WindowReturns
<1>6. CASE i <= Len(text) - Len(pattern) /\ Mismatches # {}
  <2> DEFINE differ == Max(Mismatches)
             a == differ - bm_bad_char(Nth(text, i + differ))
             b == bm_good_suffix(differ)
             shift == Max({a, b})
  <2>1. Go(i + shift, j)
    BY <1>3, <1>6 DEF BoyerMooreStep
  <2>2. differ \in Mismatches /\ \A x \in Mismatches : x <= differ
    <3>1. /\ Mismatches \in SUBSET Int /\ Len(pattern) \in Int
          /\ \A x \in Mismatches : x <= Len(pattern)
        BY <1>3 DEF Mismatches, Indices
    <3> QED
        BY <1>6, <3>1, GreatestExists
  <2>3. /\ differ \in Indices(pattern) /\ differ \in Int
        /\ Nth(text, i + differ) # Nth(pattern, differ)
    BY <2>2 DEF Mismatches, Indices
  <2>4. \A x \in Indices(pattern) : x > differ => Nth(text, i + x) = Nth(pattern, x)
    <3> SUFFICES ASSUME NEW x \in Indices(pattern), x > differ,
                        Nth(text, i + x) # Nth(pattern, x)
                 PROVE  FALSE
        OBVIOUS
    <3>1. x \in Mismatches /\ x \in Int
        BY DEF Mismatches, Indices
    <3> QED
        BY <2>2, <2>3, <3>1
  <2> HIDE DEF differ
  <2>5. a \in Int /\ b \in Nat
    BY <1>2, <1>3, <2>3, BadCharIs, GoodSuffixIsSafe
  <2>6. ASSUME NEW d \in Nat \ {0}, Occurs(text, pattern, i + d)
        PROVE  a <= d /\ b <= d
    BY <1>2, <2>3, <2>4, <2>6, BadCharIsSafe, GoodSuffixIsSafe
  <2> HIDE DEF a, b
  <2>7. shift \in {a, b} /\ a <= shift /\ b <= shift /\ shift \in Nat
    <3>1. shift \in {a, b} /\ a <= shift /\ b <= shift
        BY <2>5, GreaterOf
    <3>2. shift \in Int
        BY <2>5, <3>1
    <3> HIDE DEF shift
    <3> QED
        BY <2>5, <3>1, <3>2
  <2> HIDE DEF shift
  <2>8. ASSUME NEW d \in 0 .. shift - 1 PROVE ~Occurs(text, pattern, i + d)
    <3>1. CASE d = 0
      <4>1. i + d = i
        BY <1>3, <3>1
      <4> QED
        BY <1>2, <1>6, <4>1, WindowOccurs
    <3>2. CASE d # 0
      <4>1. d \in Nat \ {0} /\ d < shift
        BY <2>7, <3>2
      <4> QED
        BY <2>5, <2>6, <2>7, <4>1
    <3> QED
        BY <3>1, <3>2
  <2> QED
    BY <1>1, <2>1, <2>7, <2>8, WindowGoes
<1> QED
    BY <1>3, <1>4, <1>5, <1>6

------------------------------------------------------------------------------
(* Sunday, and counting.                                                    *)

\* Whatever character is taken for the one behind the window: the shift leaps over
\* no occurrence.
LEMMA SundayShiftIsSafe ==
    ASSUME Types, Usable, NEW c \in ByteAt(i + Len(pattern))
    PROVE  /\ SundayShift(c) \in 1 .. Len(pattern) + 1
           /\ \A d \in Nat \ {0} : Occurs(text, pattern, i + d) => SundayShift(c) <= d
<1> DEFINE places == {n \in Indices(pattern) : Nth(pattern, n) = c}
           m == Len(pattern)
<1>1. m \in Nat /\ i \in Nat /\ Len(text) \in Nat
    BY DEF Types
<1>2. places \in SUBSET Int /\ \A n \in places : 0 <= n /\ n < m /\ n <= m
    BY <1>1 DEF Indices
<1>3. SundayShift(c) = IF places = {} THEN m + 1 ELSE m - Max(places)
    BY DEF SundayShift
<1>4. \A n \in Indices(pattern) : Nth(pattern, n) = c => n \in places
    OBVIOUS
<1> HIDE DEF places
<1>5. CASE places = {}
  <2>1. SundayShift(c) = m + 1
    BY <1>3, <1>5
  <2>2. ASSUME NEW d \in Nat \ {0}, Occurs(text, pattern, i + d), d <= m PROVE FALSE
    <3>1. /\ i + d + m <= Len(text)
          /\ \A x \in Indices(pattern) : Nth(text, i + d + x) = Nth(pattern, x)
        BY <2>2 DEF Occurs
    <3>2. i + m < Len(text)
        BY <1>1, <3>1
    <3>3. c = Nth(text, i + m)
        BY <3>2 DEF ByteAt
    <3>4. m - d \in Indices(pattern) /\ i + d + (m - d) = i + m
        BY <1>1, <2>2 DEF Indices
    <3> QED
        BY <1>4, <1>5, <3>1, <3>3, <3>4
  <2> QED
    BY <1>1, <2>1, <2>2
<1>6. CASE places # {}
  <2>1. Max(places) \in places /\ \A n \in places : n <= Max(places)
    <3>1. m \in Int /\ \A n \in places : n <= m
        BY <1>1, <1>2
    <3> HIDE DEF m
    <3> QED
        BY <1>2, <1>6, <3>1, GreatestExists
  <2>2. /\ SundayShift(c) = m - Max(places)
        /\ Max(places) \in Int /\ 0 <= Max(places) /\ Max(places) < m
    BY <1>2, <1>3, <1>6, <2>1
  <2>3. ASSUME NEW d \in Nat \ {0}, Occurs(text, pattern, i + d), d <= m
        PROVE  m - d <= Max(places)
    <3>1. /\ i + d + m <= Len(text)
          /\ \A x \in Indices(pattern) : Nth(text, i + d + x) = Nth(pattern, x)
        BY <2>3 DEF Occurs
    <3>2. i + m < Len(text)
        BY <1>1, <3>1
    <3>3. c = Nth(text, i + m)
        BY <3>2 DEF ByteAt
    <3>4. m - d \in Indices(pattern) /\ i + d + (m - d) = i + m
        BY <1>1, <2>3 DEF Indices
    <3> QED
        BY <1>4, <2>1, <3>1, <3>3, <3>4
  <2> QED
    BY <1>1, <2>2, <2>3
<1> QED
    BY <1>5, <1>6

\* The counting loop counts a hit, and goes on behind the character behind it.
LEMMA HitKeeps ==
    ASSUME IInv, place = "search", call = "count", Occurs(text, pattern, i), SundayReturns(i)
    PROVE  IInv'
<1> DEFINE next == BehindHit(i)
<1>1. /\ Types /\ Placed /\ Usable /\ Running /\ HitsApart
      /\ i \in Nat /\ begin \in Int /\ Len(pattern) \in Nat /\ begin <= i /\ 0 <= begin
      /\ \A n \in hits : n \in Nat /\ n + Len(pattern) < i
      /\ \A n \in begin .. i - 1 : Occurs(text, pattern, n) /\ Usable => Met(n)
    BY DEF IInv, Placed, CountLooks, Running, Types
<1>2. /\ place' = "count" /\ count' = count + 1 /\ hits' = hits \cup {i} /\ i' = next
      /\ UNCHANGED <<text, pattern, call, begin, next_table, k, j, result>>
    BY <1>1 DEF SundayReturns, args, NotFound
<1>3. next = i + Len(pattern) + 1 /\ next \in Nat /\ begin <= next
    BY <1>1 DEF BehindHit
<1> HIDE DEF next
<1>4. Types'
  <2>1. IsFiniteSet(hits \cup {i})
    BY FS_AddElement DEF IInv, Types
  <2> QED
    BY <1>1, <1>2, <1>3, <2>1 DEF Types
<1>5. Placed'
    BY <1>1, <1>2, <1>3 DEF Placed, Running, Usable
<1>6. TableHoldsBorders' /\ (TableGrows /\ KmpLooks /\ ShiftLooks)'
    BY <1>2, TableKept DEF IInv, TableGrows, KmpLooks, ShiftLooks
<1>7. HitsApart'
  <2>1. i \notin hits
    BY <1>1
  <2>2. count + 1 = Cardinality(hits \cup {i})
    BY <1>1, <2>1, FS_AddElement DEF HitsApart, Types
  <2>3. \A n \in hits \cup {i} : begin <= n /\ Occurs(text, pattern, n) /\ Usable
    BY <1>1 DEF HitsApart
  <2>4. ASSUME NEW m \in hits \cup {i}, NEW n \in hits \cup {i}, m < n
        PROVE  m + Len(pattern) < n
    <3>1. CASE m \in hits /\ n \in hits
        BY <1>1, <2>4, <3>1 DEF HitsApart
    <3>2. CASE m \in hits /\ n = i
        BY <1>1, <3>2
    <3>3. CASE m = i /\ n \in hits
        BY <1>1, <2>4, <3>3
    <3>4. CASE m = i /\ n = i
        BY <1>1, <2>4, <3>4
    <3> QED
        BY <3>1, <3>2, <3>3, <3>4
  <2> QED
    BY <1>2, <2>2, <2>3, <2>4 DEF HitsApart, Usable
<1>8. CountLooks'
  <2>1. \A n \in hits \cup {i} : n + Len(pattern) < next
    BY <1>1, <1>3
  <2>2. ASSUME NEW n \in begin .. next - 1, Occurs(text, pattern, n), Usable
        PROVE  \E h \in hits \cup {i} : h <= n /\ n <= h + Len(pattern)
    <3>1. CASE n < i
      <4>1. n \in begin .. i - 1
        BY <1>1, <3>1
      <4> QED
        BY <1>1, <2>2, <4>1 DEF Met
    <3>2. CASE i <= n
      <4>1. n <= i + Len(pattern)
        BY <1>1, <1>3
      <4> QED
        BY <3>2, <4>1
    <3> QED
        BY <1>1, <3>1, <3>2
  <2> QED
    BY <1>2, <1>7, <2>1, <2>2 DEF CountLooks, Met, Usable
<1>9. (KmpIsFirst /\ BoyerMooreIsFirst /\ SundayIsFirst)'
    BY <1>2 DEF KmpIsFirst, BoyerMooreIsFirst, SundayIsFirst, IsFirst, Answered
<1> QED
    BY <1>4, <1>5, <1>6, <1>7, <1>8, <1>9 DEF IInv

\* The counting loop ends where nothing can be found further on.
LEMMA CountReturns ==
    ASSUME IInv, place \in {"search", "count"}, call = "count", Return(count),
           \/ i > Len(text) - Len(pattern)
           \/ i >= Len(text)
           \/ ~Searchable(i)
    PROVE  IInv'
<1>1. /\ Types /\ Placed /\ Running /\ HitsApart
      /\ i \in Nat /\ begin \in Int /\ Len(pattern) \in Nat /\ Len(text) \in Nat
      /\ begin <= i /\ 0 <= begin
      /\ \A n \in begin .. i - 1 : Occurs(text, pattern, n) /\ Usable => Met(n)
    BY DEF IInv, Placed, CountLooks, Running, Types
<1>2. /\ place' = "returned" /\ result' = count
      /\ UNCHANGED <<text, pattern, call, begin, next_table, k, i, j, count, hits>>
    BY DEF Return, args
<1>3. Types' /\ Placed'
    BY <1>1, <1>2 DEF Types, Placed, Running, Usable
<1>4. TableHoldsBorders' /\ (TableGrows /\ KmpLooks /\ ShiftLooks)'
    BY <1>2, TableKept DEF IInv, TableGrows, KmpLooks, ShiftLooks
<1>5. ASSUME NEW n \in begin .. Len(text), Occurs(text, pattern, n), Usable
      PROVE  Met(n)
  <2>1. n \in Nat /\ n + Len(pattern) <= Len(text) /\ n < Len(text)
    BY <1>1, <1>5, OccursWithin DEF Indices
  <2>2. n < i
    <3> SUFFICES ASSUME i <= n PROVE FALSE
        BY <1>1, <2>1
    <3>1. i <= Len(text) - Len(pattern) /\ i < Len(text) /\ i + Len(pattern) <= Len(text)
        BY <1>1, <2>1
    <3>2. Searchable(i)
        BY <1>1, <1>5, <3>1 DEF Searchable, Usable
    <3> QED
        BY <1>1, <3>1, <3>2
  <2>3. n \in begin .. i - 1
    BY <1>1, <2>1, <2>2
  <2> QED
    BY <1>1, <1>5, <2>3
<1>6. CountLooks'
  <2>1. HitsApart'
    BY <1>1, <1>2 DEF HitsApart, Usable
  <2> QED
    BY <1>2, <1>5, <2>1 DEF CountLooks, Met, Usable, Running
<1>7. (KmpIsFirst /\ BoyerMooreIsFirst /\ SundayIsFirst)'
    BY <1>2 DEF KmpIsFirst, BoyerMooreIsFirst, SundayIsFirst, IsFirst, Answered
<1> QED
    BY <1>3, <1>4, <1>6, <1>7 DEF IInv

LEMMA SundayStepKeeps ==
    ASSUME IInv, SundayStep
    PROVE  IInv'
<1>1. place = "search" /\ call \in {"sunday", "count"}
    BY DEF SundayStep
<1>2. Types /\ Usable
    BY <1>1 DEF IInv, Placed
<1>3. i \in Nat /\ Len(text) \in Nat /\ Len(pattern) \in Nat
    BY <1>2 DEF Types
<1>4. CASE i > Len(text) - Len(pattern)
  <2>1. SundayReturns(NotFound)
    BY <1>4 DEF SundayStep
  <2>2. CASE call = "count"
    <3>1. Return(count)
        BY <2>1, <2>2 DEF SundayReturns
    <3> QED
        BY <1>1, <1>4, <2>2, <3>1, CountReturns
  <2>3. CASE call = "sunday"
    <3>1. Return(NotFound)
        BY <2>1, <2>3 DEF SundayReturns
    <3> QED
        BY <1>1, <1>4, <2>3, <3>1, WindowReturns DEF NotFound
  <2> QED
    BY <1>1, <2>2, <2>3
<1>5. CASE i <= Len(text) - Len(pattern) /\ Mismatches = {}
  <2>1. SundayReturns(i) /\ Occurs(text, pattern, i)
    BY <1>2, <1>3, <1>5, WindowOccurs DEF SundayStep
  <2>2. CASE call = "count"
    BY <1>1, <2>1, <2>2, HitKeeps
  <2>3. CASE call = "sunday"
    <3>1. Return(i)
        BY <2>1, <2>3 DEF SundayReturns
    <3> QED
        BY <1>1, <1>3, <2>1, <2>3, <3>1, WindowReturns
  <2> QED
    BY <1>1, <2>2, <2>3
<1>6. CASE i <= Len(text) - Len(pattern) /\ Mismatches # {}
  <2>1. PICK c \in ByteAt(i + Len(pattern)) : Go(i + SundayShift(c), j)
    BY <1>3, <1>6 DEF SundayStep
  <2> DEFINE shift == SundayShift(c)
  <2>2. /\ shift \in 1 .. Len(pattern) + 1
        /\ \A d \in Nat \ {0} : Occurs(text, pattern, i + d) => shift <= d
    BY <1>2, SundayShiftIsSafe
  <2> HIDE DEF shift
  <2>3. ASSUME NEW d \in 0 .. shift - 1 PROVE ~Occurs(text, pattern, i + d)
    <3>1. CASE d = 0
      <4>1. i + d = i
        BY <1>3, <3>1
      <4> QED
        BY <1>2, <1>6, <4>1, WindowOccurs
    <3>2. CASE d # 0
      <4>1. d \in Nat \ {0} /\ ~(shift <= d)
        BY <1>3, <2>2, <3>2
      <4> QED
        BY <2>2, <4>1
    <3> QED
        BY <3>1, <3>2
  <2>4. shift \in Nat /\ Go(i + shift, j) /\ call # "kmp"
    BY <1>1, <1>3, <2>1, <2>2 DEF shift
  <2> QED
    BY <1>1, <2>3, <2>4, WindowGoes
<1> QED
    BY <1>3, <1>4, <1>5, <1>6

LEMMA CountStrKeeps ==
    ASSUME IInv, cstr_count_str
    PROVE  IInv'
<1> USE DEF IInv
<1>1. PICK from \in Begins :
          /\ place = "typing"
          /\ place' = "count" /\ call' = "count" /\ begin' = from /\ i' = from
          /\ UNCHANGED <<text, pattern, next_table, k, j, count, hits, result>>
    BY DEF cstr_count_str
<1>2. from \in Nat
    BY SearchAssumption DEF Begins
<1>3. call = "none" /\ next_table = <<>> /\ hits = {} /\ count = 0
    BY <1>1 DEF Placed
<1>4. Types' /\ Placed'
    BY <1>1, <1>2, <1>3 DEF Types, Placed, Running
<1>5. TableHoldsBorders' /\ (TableGrows /\ KmpLooks /\ ShiftLooks)'
    BY <1>1, TableKept DEF TableGrows, KmpLooks, ShiftLooks
<1>6. CountLooks'
  <2>1. Cardinality({}) = 0
    BY FS_EmptySet
  <2>2. \A n \in from .. from - 1 : FALSE
    BY <1>2
  <2> QED
    BY <1>1, <1>3, <2>1, <2>2 DEF CountLooks, HitsApart, Running
<1>7. (KmpIsFirst /\ BoyerMooreIsFirst /\ SundayIsFirst)'
    BY <1>1 DEF KmpIsFirst, BoyerMooreIsFirst, SundayIsFirst, IsFirst, Answered
<1> QED
    BY <1>4, <1>5, <1>6, <1>7

LEMMA CountStepKeeps ==
    ASSUME IInv, CountStep
    PROVE  IInv'
<1>1. place = "count" /\ call = "count"
    BY DEF CountStep, IInv, Placed
<1>2. CASE i < Len(text) /\ Searchable(i)
  <2>1. /\ place' = "search"
        /\ UNCHANGED <<text, pattern, call, begin, next_table, k, i, j, count, hits, result>>
    BY <1>2 DEF CountStep, args
  <2>2. Types'
    BY <2>1 DEF IInv, Types
  <2>3. Placed'
    BY <1>1, <1>2, <2>1 DEF IInv, Placed, Running, Usable, Searchable
  <2>4. TableHoldsBorders' /\ (TableGrows /\ KmpLooks /\ ShiftLooks)'
    BY <1>1, <2>1, TableKept DEF IInv, TableGrows, KmpLooks, ShiftLooks
  <2>5. CountLooks'
    BY <1>1, <2>1 DEF IInv, CountLooks, HitsApart, Met, Running, Usable
  <2>6. (KmpIsFirst /\ BoyerMooreIsFirst /\ SundayIsFirst)'
    BY <2>1 DEF KmpIsFirst, BoyerMooreIsFirst, SundayIsFirst, IsFirst, Answered
  <2> QED
    BY <2>2, <2>3, <2>4, <2>5, <2>6 DEF IInv
<1>3. CASE ~(i < Len(text) /\ Searchable(i))
  <2>1. Return(count)
    BY <1>3 DEF CountStep
  <2>2. i >= Len(text) \/ ~Searchable(i)
    BY <1>3 DEF IInv, Types
  <2> QED
    BY <1>1, <2>1, <2>2, CountReturns
<1> QED
    BY <1>2, <1>3

------------------------------------------------------------------------------
(* The theorems.                                                            *)

LEMMA StutterKeeps ==
    ASSUME IInv, UNCHANGED vars
    PROVE  IInv'
<1>1. TableHoldsBorders'
    BY TableKept DEF IInv, vars
<1>2. \A l : Borders(l)' = Borders(l)
    BY DEF Borders, vars
<1>3. (Types /\ Placed /\ TableGrows /\ KmpLooks /\ ShiftLooks /\ CountLooks)'
    BY <1>2 DEF IInv, vars, Types, Placed, Running, Usable, TableGrows, Searchable, KmpLooks,
        Matches, NoneIn, ShiftLooks, CountLooks, HitsApart, Met
<1>4. (KmpIsFirst /\ BoyerMooreIsFirst /\ SundayIsFirst)'
    BY DEF IInv, vars, KmpIsFirst, BoyerMooreIsFirst, SundayIsFirst, IsFirst, Answered
<1> QED
    BY <1>1, <1>3, <1>4 DEF IInv

LEMMA NextKeeps ==
    ASSUME IInv, [Next]_vars
    PROVE  IInv'
<1>1. ASSUME NEW c \in Char, Type(Append(text, c), pattern) \/ Type(text, Append(pattern, c))
      PROVE  IInv'
    BY <1>1, TypeKeeps
<1>2. CASE kmp_search_first
    BY <1>2, CallKeeps, SearchAssumption DEF kmp_search_first, Begins
<1>3. CASE boyer_moore_search_first
    BY <1>3, CallKeeps, SearchAssumption DEF boyer_moore_search_first, Begins
<1>4. CASE cstr_find_first
    BY <1>4, CallKeeps, SearchAssumption DEF cstr_find_first, Begins
<1>5. CASE cstr_count_str
    BY <1>5, CountStrKeeps
<1>6. CASE FillTable
    BY <1>6, FillTableKeeps
<1>7. CASE TableIsFull
    BY <1>7, TableIsFullKeeps
<1>8. CASE KmpStep
    BY <1>8, KmpStepKeeps
<1>9. CASE BoyerMooreStep
    BY <1>9, BoyerMooreStepKeeps
<1>10. CASE SundayStep
    BY <1>10, SundayStepKeeps
<1>11. CASE CountStep
    BY <1>11, CountStepKeeps
<1>12. CASE UNCHANGED vars
    BY <1>12, StutterKeeps
<1> QED
    BY <1>1, <1>2, <1>3, <1>4, <1>5, <1>6, <1>7, <1>8, <1>9, <1>10, <1>11, <1>12 DEF Next

\* The invariant holds in every state: it says what each loop of the searches knows
\* when it goes round.
THEOREM Invariance == Spec => []IInv
<1>1. Init => IInv
    BY InitHolds
<1>2. IInv /\ [Next]_vars => IInv'
    BY NextKeeps
<1> QED
    BY <1>1, <1>2, PTL DEF Spec

\* kmp_next_table fills the table with the lengths of the longest borders.
THEOREM TableIsRight == Spec => []TableHoldsBorders
<1>1. IInv => TableHoldsBorders
    BY DEF IInv
<1> QED
    BY <1>1, Invariance, PTL

\* kmp_search_first finds the first occurrence, or none where there is none.
THEOREM KmpIsRight == Spec => []KmpIsFirst
<1>1. IInv => KmpIsFirst
    BY DEF IInv
<1> QED
    BY <1>1, Invariance, PTL

\* boyer_moore_search_first does.
THEOREM BoyerMooreIsRight == Spec => []BoyerMooreIsFirst
<1>1. IInv => BoyerMooreIsFirst
    BY DEF IInv
<1> QED
    BY <1>1, Invariance, PTL

\* sunday_search_first does, with any byte behind the text.
THEOREM SundayIsRight == Spec => []SundayIsFirst
<1>1. IInv => SundayIsFirst
    BY DEF IInv
<1> QED
    BY <1>1, Invariance, PTL

------------------------------------------------------------------------------
(* What is counted.                                                         *)

LEMMA CountIsRight ==
    ASSUME IInv
    PROVE  CountsApart
<1> DEFINE m == Len(pattern)
           all == IF m \in 1 .. SearchMax - 1 THEN Occurrences(text, pattern, begin) ELSE {}
           apart == {places \in SUBSET all : Disjoint(places)}
           touch == \E n \in all : n + m \in all
<1> SUFFICES ASSUME Answered("count")
             PROVE  /\ \E places \in apart : result = Cardinality(places)
                    /\ ~touch => \A places \in apart : Cardinality(places) <= result
    BY DEF CountsApart
<1>1. /\ Types /\ HitsApart /\ result = count
      /\ \A n \in begin .. Len(text) : Occurs(text, pattern, n) /\ Usable => Met(n)
    BY DEF IInv, Answered, CountLooks
<1>2. /\ Len(text) \in Nat /\ m \in Nat /\ begin \in Int
      /\ result = Cardinality(hits) /\ IsFiniteSet(hits) /\ hits \subseteq Nat
    BY <1>1 DEF Types, HitsApart
<1>3. ASSUME NEW n PROVE n \in all <=> /\ Usable /\ n \in Indices(text) /\ begin <= n
                                       /\ Occurs(text, pattern, n)
    BY DEF Occurrences, Usable
<1>4. IsFiniteSet(all) /\ all \in SUBSET Nat
  <2>1. all \in SUBSET (0 .. Len(text) - 1)
    BY <1>3 DEF Indices
  <2>2. IsFiniteSet(0 .. Len(text) - 1)
    BY <1>2, FS_Interval
  <2> QED
    BY <2>1, <2>2, FS_Subset
<1>5. hits \in apart
  <2>1. ASSUME NEW n \in hits PROVE n \in all
    <3>1. n \in Nat /\ begin <= n /\ Occurs(text, pattern, n) /\ Usable
        BY <1>1, <1>2 DEF HitsApart
    <3> QED
        BY <1>1, <1>3, <3>1, OccursWithin
  <2>2. Disjoint(hits)
    BY <1>1, <1>2 DEF Disjoint, HitsApart
  <2> QED
    BY <2>1, <2>2
<1>6. ASSUME ~touch, NEW places \in apart PROVE Cardinality(places) <= Cardinality(hits)
  <2> DEFINE Meets(h, n) == h <= n /\ n <= h + m
             f == [n \in places |-> CHOOSE h \in hits : Meets(h, n)]
  <2>1. places \in SUBSET all /\ Disjoint(places)
    OBVIOUS
  <2> HIDE DEF all
  <2>2. IsFiniteSet(places) /\ Cardinality(places) \in Nat /\ Cardinality(hits) \in Nat
    BY <1>2, <1>4, <2>1, FS_Subset, FS_CardinalityType
  <2>3. ASSUME NEW n \in places PROVE f[n] \in hits /\ Meets(f[n], n)
    <3>1. n \in begin .. Len(text) /\ Occurs(text, pattern, n) /\ Usable
        BY <1>2, <1>3, <2>1 DEF Indices
    <3>2. \E h \in hits : Meets(h, n)
        BY <1>1, <3>1 DEF Met
    <3> QED
        BY <3>2
  <2>4. f \in [places -> hits]
    BY <2>3
  <2>5. ASSUME Cardinality(hits) < Cardinality(places) PROVE FALSE
    <3> HIDE DEF f
    <3>1. PICK x \in places, y \in places : x # y /\ f[x] = f[y]
        BY <1>2, <2>2, <2>4, <2>5, FS_PigeonHole
    <3>2. x \in Nat /\ y \in Nat /\ f[x] \in Nat /\ f[x] \in all
        BY <1>2, <1>4, <1>5, <2>1, <2>3
    <3>3. /\ f[x] <= x /\ x <= f[x] + m /\ f[x] <= y /\ y <= f[x] + m
          /\ x < y => x + m <= y
          /\ y < x => y + m <= x
        BY <2>1, <2>3, <3>1 DEF Disjoint
    <3>4. (x = f[x] /\ y = f[x] + m) \/ (y = f[x] /\ x = f[x] + m)
        BY <1>2, <3>1, <3>2, <3>3
    <3> QED
        BY <1>6, <2>1, <3>2, <3>4
  <2> QED
    BY <2>2, <2>5
<1> QED
    BY <1>2, <1>5, <1>6

------------------------------------------------------------------------------
(* The scans and the comparison.                                            *)

\* A character is a number.
LEMMA CharIsCode == \A c \in Char : c \in Int
<1>1. ASSUME NEW c \in Char PROVE c \in 1 .. 127
    BY SearchAssumption
<1>2. \A c \in 1 .. 127 : c \in Int
    OBVIOUS
<1> QED
    BY <1>1, <1>2

LEMMA RangesAreSplit ==
    ASSUME Types
    PROVE  RangesSplit
<1> SUFFICES ASSUME NEW c \in Char, NEW end \in Begins, NEW cut \in 1 .. end, NEW from \in 0 .. cut
             PROVE  LET first == cstr_find_char(text, c, from, cut)
                    IN  /\ cstr_count_char(text, c, from, end) =
                               cstr_count_char(text, c, from, cut) + cstr_count_char(text, c, cut, end)
                        /\ cstr_find_char(text, c, from, end) =
                               IF first # NotFound THEN first ELSE cstr_find_char(text, c, cut, end)
                        /\ cstr_find_char(text, c, from, 0) = FirstOccurrence(text, <<c>>, from)
    BY DEF RangesSplit
<1> DEFINE whole == CharHits(text, c, from, end)
           left == CharHits(text, c, from, cut)
           right == CharHits(text, c, cut, end)
<1>1. /\ end \in Nat /\ cut \in Nat /\ from \in Nat /\ from <= cut /\ cut <= end
      /\ end # 0 /\ cut # 0 /\ Len(text) \in Nat
    BY SearchAssumption DEF Begins, Types
<1>2. /\ \A n \in left : n \in Int /\ 0 <= n /\ n < cut
      /\ \A n \in right : n \in Int /\ cut <= n
      /\ whole = left \cup right /\ left \cap right = {}
    BY <1>1 DEF CharHits, Indices
<1>3. IsFiniteSet(left) /\ IsFiniteSet(right)
  <2>1. left \in SUBSET (0 .. Len(text) - 1) /\ right \in SUBSET (0 .. Len(text) - 1)
    BY DEF CharHits, Indices
  <2>2. IsFiniteSet(0 .. Len(text) - 1)
    BY <1>1, FS_Interval
  <2> QED
    BY <2>1, <2>2, FS_Subset
<1>4. cstr_count_char(text, c, from, end) =
          cstr_count_char(text, c, from, cut) + cstr_count_char(text, c, cut, end)
  <2>1. Cardinality(left \cap right) = 0
    BY <1>2, FS_EmptySet
  <2>2. Cardinality(left) \in Nat /\ Cardinality(right) \in Nat
    BY <1>3, FS_CardinalityType
  <2>3. Cardinality(left \cup right) = Cardinality(left) + Cardinality(right) - Cardinality(left \cap right)
    BY <1>3, FS_Union
  <2>4. Cardinality(whole) = Cardinality(left) + Cardinality(right)
    BY <1>2, <2>1, <2>2, <2>3
  <2> QED
    BY <2>4 DEF cstr_count_char
<1>5. cstr_find_char(text, c, from, end) =
          IF cstr_find_char(text, c, from, cut) # NotFound
          THEN cstr_find_char(text, c, from, cut) ELSE cstr_find_char(text, c, cut, end)
  <2>0. /\ cstr_find_char(text, c, from, end) = IF whole = {} THEN NotFound ELSE Min(whole)
        /\ cstr_find_char(text, c, from, cut) = IF left = {} THEN NotFound ELSE Min(left)
        /\ cstr_find_char(text, c, cut, end) = IF right = {} THEN NotFound ELSE Min(right)
    BY DEF cstr_find_char
  <2> HIDE DEF whole, left, right
  <2>1. CASE left = {}
    BY <1>2, <2>0, <2>1
  <2>2. CASE left # {}
    <3>1. left \in SUBSET Int /\ 0 \in Int /\ \A n \in left : 0 <= n
        BY <1>2
    <3>2. Min(left) \in left /\ \A n \in left : Min(left) <= n
        BY <2>2, <3>1, LeastExists
    <3>3. Min(left) \in Int /\ 0 <= Min(left) /\ Min(left) < cut
        BY <1>2, <3>2
    <3>4. ASSUME NEW n \in whole PROVE Min(left) <= n
      <4>1. CASE n \in left
        BY <3>2, <4>1
      <4>2. CASE n \in right
        BY <1>1, <1>2, <3>3, <4>2
      <4> QED
        BY <1>2, <4>1, <4>2
    <3>5. whole \in SUBSET Int /\ Min(left) \in whole
        BY <1>2, <3>2
    <3>6. Min(whole) = Min(left)
        BY <3>4, <3>5, LeastIs
    <3> QED
        BY <2>0, <2>2, <3>3, <3>5, <3>6 DEF NotFound
  <2> QED
    BY <2>1, <2>2
<1>6. cstr_find_char(text, c, from, 0) = FirstOccurrence(text, <<c>>, from)
  <2>1. Len(<<c>>) = 1 /\ Indices(<<c>>) = {0} /\ Nth(<<c>>, 0) = c
    BY DEF Indices, Nth
  <2>2. Len(<<c>>) \in 1 .. SearchMax - 1
    BY <2>1, SearchAssumption
  <2>3. ASSUME NEW n \in Indices(text) PROVE Occurs(text, <<c>>, n) <=> Nth(text, n) = c
    <3>1. n + Len(<<c>>) <= Len(text) /\ n + 0 = n
        BY <1>1, <2>1 DEF Indices
    <3> QED
        BY <2>1, <3>1 DEF Occurs
  <2>4. CharHits(text, c, from, 0) = Occurrences(text, <<c>>, from)
    BY <1>1, <2>3 DEF CharHits, Occurrences, Indices
  <2> QED
    BY <1>1, <2>2, <2>4 DEF cstr_find_char, FirstOccurrence
<1> QED
    BY <1>4, <1>5, <1>6

LEMMA PrefixIsFound ==
    ASSUME Types
    PROVE  PrefixIsFoundAtZero
<1> SUFFICES ASSUME Searchable(0)
             PROVE  cstr_is_start_with(text, pattern) <=> FirstOccurrence(text, pattern, 0) = 0
    BY DEF PrefixIsFoundAtZero
<1> DEFINE all == Occurrences(text, pattern, 0)
<1>1. /\ Len(text) \in Nat /\ Len(pattern) \in Nat
      /\ Len(pattern) \in 1 .. SearchMax - 1 /\ Len(pattern) <= Len(text)
    BY DEF Types, Searchable
<1>2. cstr_is_start_with(text, pattern) <=> Occurs(text, pattern, 0)
  <2>1. 0 + Len(pattern) = Len(pattern) /\ \A n \in Indices(pattern) : 0 + n = n
    BY <1>1 DEF Indices
  <2> QED
    BY <2>1 DEF cstr_is_start_with, Occurs
<1>3. Occurs(text, pattern, 0) <=> 0 \in all
    BY <1>1, SearchAssumption DEF Occurrences, Indices
<1>4. all \in SUBSET Int /\ \A n \in all : 0 <= n
    BY DEF Occurrences, Indices
<1>5. FirstOccurrence(text, pattern, 0) = IF all = {} THEN NotFound ELSE Min(all)
    BY <1>1 DEF FirstOccurrence
<1> HIDE DEF all
<1>6. CASE 0 \in all
    BY <1>2, <1>3, <1>4, <1>5, <1>6, LeastIs
<1>7. CASE 0 \notin all /\ all # {}
  <2>1. Min(all) \in all
    <3>1. 0 \in Int
        OBVIOUS
    <3> QED
        BY <1>4, <1>7, <3>1, LeastExists
  <2> QED
    BY <1>2, <1>3, <1>5, <1>7, <2>1
<1>8. CASE all = {}
    BY <1>2, <1>3, <1>5, <1>8 DEF NotFound
<1> QED
    BY <1>6, <1>7, <1>8

\* The first difference of two strings, if they have one, decides; else the lengths.
LEMMA FirstDifference ==
    ASSUME NEW t \in Seq(Char), NEW u \in Seq(Char),
           NEW n \in Shared(t, u), Nth(t, n) # Nth(u, n)
    PROVE  \E m \in Shared(t, u) :
              /\ Nth(t, m) \in Int /\ Nth(u, m) \in Int /\ Nth(t, m) # Nth(u, m)
              /\ \A x \in 0 .. m - 1 : Nth(t, x) = Nth(u, x)
              /\ cstr_compare(t, u) = Nth(t, m) - Nth(u, m)
              /\ cstr_compare(u, t) = Nth(u, m) - Nth(t, m)
<1> DEFINE differ == {x \in Shared(t, u) : Nth(t, x) # Nth(u, x)}
           m == Min(differ)
<1>1. /\ Len(t) \in Nat /\ Len(u) \in Nat
      /\ \A x \in Shared(t, u) : x \in Int /\ 0 <= x /\ x < Len(t) /\ x < Len(u)
      /\ \A x \in Int : 0 <= x /\ x < Len(t) /\ x < Len(u) => x \in Shared(t, u)
    BY DEF Shared, Indices
<1>2. differ = {x \in Shared(u, t) : Nth(u, x) # Nth(t, x)}
    BY DEF Shared
<1>3. differ \in SUBSET Int /\ differ # {} /\ \A x \in differ : 0 <= x
    BY <1>1
<1>4. /\ cstr_compare(t, u) = Nth(t, m) - Nth(u, m)
      /\ cstr_compare(u, t) = Nth(u, m) - Nth(t, m)
    BY <1>2, <1>3 DEF cstr_compare
<1>5. m \in differ /\ \A x \in differ : m <= x
  <2> HIDE DEF differ
  <2> QED
    BY <1>3, LeastExists
<1>6. m \in Shared(t, u) /\ Nth(t, m) # Nth(u, m)
    BY <1>5
<1>7. Nth(t, m) \in Int /\ Nth(u, m) \in Int
  <2>1. Nth(t, m) \in Char /\ Nth(u, m) \in Char
    BY <1>6, Characters DEF Shared
  <2> QED
    BY <2>1, CharIsCode
<1>8. ASSUME NEW x \in 0 .. m - 1, Nth(t, x) # Nth(u, x) PROVE FALSE
  <2> HIDE DEF m
  <2>1. m \in Int /\ x \in Int /\ 0 <= x /\ x < m /\ m < Len(t) /\ m < Len(u)
    BY <1>1, <1>6
  <2>2. x \in Shared(t, u)
    BY <1>1, <2>1
  <2>3. x \in differ
    BY <1>8, <2>2
  <2> QED
    BY <1>5, <2>1, <2>3
<1> QED
    BY <1>4, <1>6, <1>7, <1>8

LEMMA CompareIsRight ==
    ASSUME Types
    PROVE  CompareIsLexical
<1> DEFINE t == text
           u == pattern
           Above(n) == /\ \A x \in 0 .. n - 1 : Nth(t, x) = Nth(u, x)
                       /\ Nth(t, n) > Nth(u, n)
<1>1. /\ t \in Seq(Char) /\ u \in Seq(Char) /\ Len(t) \in Nat /\ Len(u) \in Nat
      /\ \A x \in Shared(t, u) : x \in Int /\ 0 <= x /\ x < Len(t) /\ x < Len(u)
      /\ Shared(t, u) = Shared(u, t)
      /\ \A n \in Shared(t, u) : Nth(t, n) \in Int /\ Nth(u, n) \in Int
  <2>1. \A n \in Shared(t, u) : Nth(t, n) \in Char /\ Nth(u, n) \in Char
    BY Characters DEF Shared, Types
  <2>2. \A n \in Shared(t, u) : Nth(t, n) \in Int /\ Nth(u, n) \in Int
    BY <2>1, CharIsCode
  <2> QED
    BY <2>2 DEF Types, Shared, Indices
<1>2. CASE \E n \in Shared(t, u) : Nth(t, n) # Nth(u, n)
  <2>1. PICK m \in Shared(t, u) :
              /\ Nth(t, m) \in Int /\ Nth(u, m) \in Int /\ Nth(t, m) # Nth(u, m)
              /\ \A x \in 0 .. m - 1 : Nth(t, x) = Nth(u, x)
              /\ cstr_compare(t, u) = Nth(t, m) - Nth(u, m)
              /\ cstr_compare(u, t) = Nth(u, m) - Nth(t, m)
    BY <1>1, <1>2, FirstDifference
  <2>2. t # u /\ ~cstr_is_start_with(t, u)
    BY <2>1 DEF cstr_is_start_with, Shared
  <2>3. ASSUME NEW n \in Shared(t, u), Above(n) PROVE n = m
    <3>1. n \in Int /\ m \in Int /\ 0 <= n /\ 0 <= m
        BY <1>1
    <3>2. ~(m < n)
        BY <2>1, <2>3, <3>1
    <3>3. ~(n < m)
        BY <1>1, <2>1, <2>3, <3>1
    <3> QED
        BY <3>1, <3>2, <3>3
  <2>4. cstr_compare(t, u) > 0 <=> \E n \in Shared(t, u) : Above(n)
    BY <2>1, <2>3
  <2>5. cstr_compare(t, u) # 0 /\ (cstr_compare(t, u) < 0 <=> cstr_compare(u, t) > 0)
    BY <2>1
  <2> QED
    BY <2>2, <2>4, <2>5 DEF CompareIsLexical
<1>3. CASE \A n \in Shared(t, u) : Nth(t, n) = Nth(u, n)
  <2>1. ~ \E n \in Shared(t, u) : Above(n)
    BY <1>1, <1>3
  <2>2. /\ cstr_compare(t, u) = IF Len(t) = Len(u) THEN 0 ELSE IF Len(t) < Len(u) THEN -1 ELSE 1
        /\ cstr_compare(u, t) = IF Len(t) = Len(u) THEN 0 ELSE IF Len(t) < Len(u) THEN 1 ELSE -1
    BY <1>1, <1>3 DEF cstr_compare
  <2>3. Len(t) = Len(u) => t = u
    <3> SUFFICES ASSUME Len(t) = Len(u) PROVE t = u
        OBVIOUS
    <3>1. ASSUME NEW p \in 1 .. Len(t) PROVE t[p] = u[p]
      <4>1. p - 1 \in Shared(t, u) /\ (p - 1) + 1 = p
        BY <1>1 DEF Shared, Indices
      <4> QED
        BY <1>3, <4>1 DEF Nth
    <3> QED
        BY <1>1, <3>1
  <2>4. cstr_is_start_with(t, u) <=> Len(u) <= Len(t)
    <3>1. Len(u) <= Len(t) => Indices(u) \subseteq Shared(t, u)
        BY <1>1 DEF Shared, Indices
    <3> QED
        BY <1>3, <3>1 DEF cstr_is_start_with
  <2>5. t = u => Len(t) = Len(u)
    OBVIOUS
  <2>6. /\ cstr_compare(t, u) > 0 <=> cstr_is_start_with(t, u) /\ t # u
        /\ cstr_compare(t, u) = 0 <=> t = u
        /\ cstr_compare(t, u) < 0 <=> cstr_compare(u, t) > 0
    <3> HIDE DEF t, u
    <3> QED
        BY <1>1, <2>2, <2>3, <2>4, <2>5
  <2> QED
    BY <2>1, <2>6 DEF CompareIsLexical
<1> QED
    BY <1>2, <1>3

\* cstr_count_str counts disjoint occurrences, and as many as there can be where no
\* two occurrences touch.
THEOREM CountingIsRight == Spec => []CountsApart
<1>1. IInv => CountsApart
    BY CountIsRight
<1> QED
    BY <1>1, Invariance, PTL

\* The scans split, agree with the searches, and the comparison is lexical.
THEOREM ScansAreRight == Spec => []ScansAgree
<1>1. IInv => ScansAgree
    BY RangesAreSplit, PrefixIsFound, CompareIsRight DEF IInv, ScansAgree
<1> QED
    BY <1>1, Invariance, PTL

------------------------------------------------------------------------------
(* The loops end.                                                           *)

\* What grows with every round: of the table twice its length less the prefix that
\* is tried, of Knuth-Morris-Pratt twice the place in the text less the one in the
\* pattern.
Twice(a, b) == 2 * a - b

LoopsAdvance ==
    [][ /\ FillTable => Twice(Len(next_table'), k') > Twice(Len(next_table), k)
        /\ KmpStep /\ place' = "search" => Twice(i', j') > Twice(i, j)
        /\ (BoyerMooreStep \/ SundayStep) /\ place' # "returned" => i' > i ]_vars

LEMMA TableAdvances ==
    ASSUME IInv, FillTable
    PROVE  Twice(Len(next_table'), k') > Twice(Len(next_table), k)
<1> DEFINE l == Len(next_table)
<1>1. place = "table" /\ l \in Nat /\ k \in Nat /\ next_table \in Seq(Nat)
    BY DEF FillTable, IInv, Types
<1>2. k < l
    BY <1>1 DEF IInv, TableGrows, Borders
<1>3. CASE next_table' = Append(next_table, k + 1) /\ k' = k + 1
  <2>1. Len(next_table') = l + 1
    BY <1>1, <1>3
  <2>2. Twice(l + 1, k + 1) > Twice(l, k)
    BY <1>1 DEF Twice
  <2> QED
    BY <1>3, <2>1, <2>2
<1>4. CASE next_table' = Append(next_table, 0) /\ k' = k
  <2>1. Len(next_table') = l + 1
    BY <1>1, <1>4
  <2>2. Twice(l + 1, k) > Twice(l, k)
    BY <1>1 DEF Twice
  <2> QED
    BY <1>4, <2>1, <2>2
<1>5. CASE k # 0 /\ k' = Shorter(k) /\ next_table' = next_table
  <2> DEFINE b == Shorter(k)
  <2>1. b \in Borders(k)
    BY <1>1, <1>2, <1>5, EntryIs DEF IInv, Shorter
  <2> HIDE DEF b
  <2>2. b \in Int /\ b < k
    BY <1>1, <2>1 DEF Borders
  <2>3. Twice(l, b) > Twice(l, k)
    BY <1>1, <2>2 DEF Twice
  <2> QED
    BY <1>5, <2>3 DEF b
<1> QED
    BY <1>3, <1>4, <1>5 DEF FillTable

LEMMA KmpAdvances ==
    ASSUME IInv, KmpStep, place' = "search"
    PROVE  Twice(i', j') > Twice(i, j)
<1>1. /\ place = "search" /\ call = "kmp" /\ i \in Nat /\ j \in Nat
      /\ Len(next_table) = Len(pattern) /\ j < Len(pattern) /\ Len(pattern) \in Nat
    BY DEF KmpStep, IInv, Types, KmpLooks
<1>2. CASE i' = i + 1 /\ j' = 0
  <2>1. Twice(i + 1, 0) > Twice(i, j)
    BY <1>1 DEF Twice
  <2> QED
    BY <1>2, <2>1
<1>3. CASE j # 0 /\ i' = i /\ j' = Nth(next_table, j - 1)
  <2> DEFINE b == Nth(next_table, j - 1)
  <2>1. b \in Borders(j)
    BY <1>1, <1>3, EntryIs DEF IInv
  <2> HIDE DEF b
  <2>2. b \in Int /\ b < j
    BY <1>1, <2>1 DEF Borders
  <2>3. Twice(i, b) > Twice(i, j)
    BY <1>1, <2>2 DEF Twice
  <2> QED
    BY <1>3, <2>3 DEF b
<1>4. CASE i' = i + 1 /\ j' = j + 1
  <2>1. Twice(i + 1, j + 1) > Twice(i, j)
    BY <1>1 DEF Twice
  <2> QED
    BY <1>4, <2>1
<1> QED
    BY <1>2, <1>3, <1>4 DEF KmpStep, FallBack, Go, Return

LEMMA WindowAdvances ==
    ASSUME IInv, BoyerMooreStep \/ SundayStep, place' # "returned"
    PROVE  i' > i
<1>1. /\ place = "search" /\ Types /\ Usable
      /\ i \in Nat /\ Len(pattern) \in Nat /\ Len(text) \in Nat
    BY DEF BoyerMooreStep, SundayStep, IInv, Placed, Types
<1>2. CASE BoyerMooreStep
  <2> DEFINE differ == Max(Mismatches)
             a == differ - bm_bad_char(Nth(text, i + differ))
             b == bm_good_suffix(differ)
  <2>1. Mismatches # {} /\ i' = i + Max({a, b})
    BY <1>2 DEF BoyerMooreStep, Return, Go
  <2>2. differ \in Indices(pattern) /\ differ \in Int
    <3>1. /\ Mismatches \in SUBSET Int /\ Len(pattern) \in Int
          /\ \A x \in Mismatches : x <= Len(pattern)
        BY <1>1 DEF Mismatches, Indices
    <3>2. differ \in Mismatches
        BY <2>1, <3>1, GreatestExists
    <3> QED
        BY <3>1, <3>2 DEF Mismatches
  <2> HIDE DEF differ
  <2>3. a \in Int /\ b \in Int /\ 1 <= b
    BY <1>1, <2>2, BadCharIs, GoodSuffixIsSafe
  <2> HIDE DEF a, b
  <2>4. Max({a, b}) \in {a, b} /\ b <= Max({a, b})
    BY <2>3, GreaterOf
  <2>5. i + Max({a, b}) > i
    <3>1. Max({a, b}) \in Int
        BY <2>3, <2>4
    <3> QED
        BY <1>1, <2>3, <2>4, <3>1
  <2> QED
    BY <2>1, <2>5
<1>3. CASE SundayStep
  <2>1. CASE i' = BehindHit(i)
    <3>1. BehindHit(i) > i
        BY <1>1 DEF BehindHit
    <3> QED
        BY <2>1, <3>1
  <2>2. CASE \E c \in ByteAt(i + Len(pattern)) : i' = i + SundayShift(c)
    <3>1. PICK c \in ByteAt(i + Len(pattern)) : i' = i + SundayShift(c)
        BY <2>2
    <3>2. SundayShift(c) \in 1 .. Len(pattern) + 1
        BY <1>1, SundayShiftIsSafe
    <3>3. i + SundayShift(c) > i
        BY <1>1, <3>2
    <3> QED
        BY <3>1, <3>3
  <2> QED
    BY <1>3, <2>1, <2>2 DEF SundayStep, SundayReturns, Return, Go
<1> QED
    BY <1>2, <1>3

\* No loop of the searches stands still: the measure grows with each of its rounds.
\* It is bounded, as a round asks for an index within the pattern or the text, and k
\* and j are below it: so every search returns.
THEOREM SearchesAdvance == Spec => LoopsAdvance
<1>1. IInv /\ [Next]_vars =>
          [ /\ FillTable => Twice(Len(next_table'), k') > Twice(Len(next_table), k)
            /\ KmpStep /\ place' = "search" => Twice(i', j') > Twice(i, j)
            /\ (BoyerMooreStep \/ SundayStep) /\ place' # "returned" => i' > i ]_vars
    BY TableAdvances, KmpAdvances, WindowAdvances
<1> QED
    BY <1>1, Invariance, PTL DEF LoopsAdvance, Spec
==============================================================================
