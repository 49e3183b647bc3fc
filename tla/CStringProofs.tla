---------------------------- MODULE CStringProofs ----------------------------
(***************************************************************************)
(* Theorems about CString, for every choice of the sizes that keeps their  *)
(* order and for all operands.  Cases names what an operand may be that    *)
(* makes the code lose or invent characters: two of the three cases also   *)
(* take a string out of its block, and the invariant needs them excluded.  *)
(*                                                                         *)
(* A value after a step is read off the writes of the step: which of them  *)
(* covers a place last (Written), and so what stands there (Laid, Over).   *)
(***************************************************************************)
EXTENDS CString, SequenceTheorems, WellFoundedInduction, TLAPS

Byte == Char \cup {Nul, Junk}

------------------------------------------------------------------------------
(* Least and greatest numbers.                                              *)

\* A set of natural numbers has a least element.
LEMMA LeastExists ==
    ASSUME NEW S \in SUBSET Nat, S # {}
    PROVE  Min(S) \in S /\ \A x \in S : Min(S) <= x
<1> DEFINE IsLeast(x) == \A y \in S : x <= y
<1>1. PICK m \in S : \A y \in S : ~(<<y, m>> \in OpToRel(<, Nat))
    BY NatLessThanWellFounded, WFMin
<1>2. \A y \in S : ~(y < m)
    BY <1>1 DEF OpToRel
<1>3. IsLeast(m)
    BY <1>2
<1>4. Min(S) = CHOOSE x \in S : IsLeast(x)
    BY DEF Min
<1> HIDE DEF IsLeast
<1>5. Min(S) \in S /\ IsLeast(Min(S))
    BY <1>3, <1>4
<1> QED
    BY <1>5 DEF IsLeast

\* A bounded one has a greatest.
LEMMA GreatestExists ==
    ASSUME NEW n \in Nat, NEW S \in SUBSET (0 .. n), S # {}
    PROVE  Max(S) \in S /\ \A x \in S : x <= Max(S)
<1> DEFINE Mirror == {n - x : x \in S}
           IsGreatest(x) == \A y \in S : x >= y
<1>1. Mirror \in SUBSET Nat /\ Mirror # {}
  <2>1. \A x \in S : x \in 0 .. n /\ n - x \in Nat
    OBVIOUS
  <2>2. PICK x \in S : TRUE
    OBVIOUS
  <2>3. n - x \in Mirror
    BY <2>2
  <2> QED
    BY <2>1, <2>3
<1>2. PICK least \in Mirror : \A y \in Mirror : least <= y
    BY <1>1, LeastExists
<1>3. PICK m \in S : least = n - m
    BY <1>2
<1>4. \A y \in S : n - m <= n - y
    BY <1>2, <1>3
<1>5. IsGreatest(m)
    BY <1>4
<1>6. Max(S) = CHOOSE x \in S : IsGreatest(x)
    BY DEF Max
<1> HIDE DEF IsGreatest
<1>7. Max(S) \in S /\ IsGreatest(Max(S))
    BY <1>5, <1>6
<1> QED
    BY <1>7 DEF IsGreatest

------------------------------------------------------------------------------
(* Capacities.                                                              *)

LEMMA PowersAreNumbers == PowersOfTwo \subseteq Nat /\ 2^30 \in PowersOfTwo
<1>1. \A k \in 0 .. 30 :
         k = 0 \/ k = 1 \/ k = 2 \/ k = 3 \/ k = 4 \/ k = 5 \/ k = 6 \/ k = 7 \/ k = 8 \/
         k = 9 \/ k = 10 \/ k = 11 \/ k = 12 \/ k = 13 \/ k = 14 \/ k = 15 \/ k = 16 \/
         k = 17 \/ k = 18 \/ k = 19 \/ k = 20 \/ k = 21 \/ k = 22 \/ k = 23 \/ k = 24 \/
         k = 25 \/ k = 26 \/ k = 27 \/ k = 28 \/ k = 29 \/ k = 30
    OBVIOUS
<1>2. \A p \in {2^0, 2^1, 2^2, 2^3, 2^4, 2^5, 2^6, 2^7, 2^8, 2^9, 2^10, 2^11, 2^12,
                 2^13, 2^14, 2^15, 2^16, 2^17, 2^18, 2^19, 2^20, 2^21, 2^22, 2^23, 2^24,
                 2^25, 2^26, 2^27, 2^28, 2^29, 2^30} : p \in Nat
    OBVIOUS
<1>3. \A k \in 0 .. 30 : 2^k \in Nat
    BY <1>1, <1>2, ZenonT(90)
<1>4. 30 \in 0 .. 30
    OBVIOUS
<1> QED
    BY <1>3, <1>4, Zenon DEF PowersOfTwo

\* What round_up_power_2 returns is not below its argument.
LEMMA RoundedIsEnough ==
    ASSUME NEW size \in Nat, round_up_power_2(size) # 0
    PROVE  /\ round_up_power_2(size) \in Nat
           /\ size <= round_up_power_2(size)
<1> DEFINE Enough == {p \in PowersOfTwo : p >= size}
<1>0. ~(size > 2^30)
    BY DEF round_up_power_2
<1>1. Enough \in SUBSET Nat /\ 2^30 \in Enough
  <2>1. 2^30 \in Nat
    OBVIOUS
  <2>2. 2^30 >= size
    BY <1>0, <2>1
  <2>3. 2^30 \in Enough
    BY <2>2, PowersAreNumbers, Zenon
  <2> QED
    BY <2>3, PowersAreNumbers
<1>2. Min(Enough) \in Enough
    BY <1>1, LeastExists
<1> QED
    BY <1>0, <1>1, <1>2 DEF round_up_power_2

\* Below MidiumMax, which is a power of two, it does not pass MidiumMax.
LEMMA RoundedIsMidium ==
    ASSUME NEW size \in Nat, size <= MidiumMax
    PROVE  round_up_power_2(size) \in size .. MidiumMax
<1> USE CStringAssumption
<1> DEFINE Enough == {p \in PowersOfTwo : p >= size}
<1>1. Enough \in SUBSET Nat /\ MidiumMax \in Enough
    BY PowersAreNumbers
<1>2. Min(Enough) \in Enough /\ Min(Enough) <= MidiumMax
    BY <1>1, LeastExists
<1>3. ~(size > 2^30)
    OBVIOUS
<1> QED
    BY <1>1, <1>2, <1>3 DEF round_up_power_2

\* A size that cal_fit_cap accepts holds what it was asked for, and is a block size.
LEMMA FitIsEnough ==
    ASSUME NEW total_cap \in Nat, NEW total_used \in Nat,
           cal_fit_cap(total_cap, total_used) >= MinSize
    PROVE  /\ cal_fit_cap(total_cap, total_used) \in MinSize .. MaxSize
           /\ total_used <= cal_fit_cap(total_cap, total_used)
<1> USE CStringAssumption
<1> DEFINE Stepped == Min({total_used + IncrMax, MaxSize})
           Fit == CASE total_used >= MidiumMax -> Stepped
                    [] total_used < MinSize -> MinSize
                    [] OTHER -> round_up_power_2(total_used)
<1>1. 0 < MinSize
    BY DEF Overhead
<1>2. total_used <= MaxSize /\ total_cap <= MaxSize
  <2>1. ASSUME total_used > MaxSize \/ total_cap > MaxSize
        PROVE  cal_fit_cap(total_cap, total_used) = 0
    BY <2>1 DEF cal_fit_cap
  <2> QED
    BY <1>1, <2>1
<1>3. CASE total_used = MaxSize
    BY <1>2, <1>3 DEF cal_fit_cap
<1>4. CASE total_used # MaxSize
  <2>1. total_used \in 0 .. MaxSize - 1
    BY <1>2, <1>4
  <2>2. Stepped \in {total_used + IncrMax, MaxSize} /\ Stepped <= MaxSize
    <3>1. {total_used + IncrMax, MaxSize} \in SUBSET Nat
        OBVIOUS
    <3> QED
        BY <3>1, LeastExists
  <2>3. Fit \in MinSize .. MaxSize /\ total_used <= Fit
    <3>1. CASE total_used >= MidiumMax
        BY <2>1, <2>2, <3>1
    <3>2. CASE ~(total_used >= MidiumMax) /\ total_used < MinSize
        BY <3>2
    <3>3. CASE ~(total_used >= MidiumMax) /\ ~(total_used < MinSize)
      <4>1. round_up_power_2(total_used) \in total_used .. MidiumMax
        BY <3>3, RoundedIsMidium, SMTT(20)
      <4>2. Fit = round_up_power_2(total_used)
        BY <3>3
      <4> QED
        BY <3>3, <4>1, <4>2
    <3> QED
        BY <3>1, <3>2, <3>3
  <2>4. cal_fit_cap(total_cap, total_used) =
            IF Fit < total_cap /\ total_cap <= TinyMax THEN total_cap ELSE Fit
    BY <1>2, <1>4 DEF cal_fit_cap
  <2> HIDE DEF Fit
  <2> QED
    BY <1>2, <2>3, <2>4
<1> QED
    BY <1>3, <1>4
------------------------------------------------------------------------------
(* Bytes.                                                                   *)

LEMMA FillIsSeq ==
    ASSUME NEW c \in Byte, NEW n \in Nat
    PROVE  /\ Fill(c, n) \in Seq(Byte)
           /\ Len(Fill(c, n)) = n
           /\ DOMAIN Fill(c, n) = 1 .. n
           /\ \A i \in 1 .. n : Fill(c, n)[i] = c
BY DEF Fill

\* A block has the size that was asked for, and keeps the bytes it has room for.
LEMMA BlockKeeps ==
    ASSUME NEW bytes \in Seq(Byte), NEW n \in Nat, HdrSize < n
    PROVE  /\ Block(bytes, n) \in Seq(Byte)
           /\ Len(Block(bytes, n)) = n - HdrSize
           /\ \A i \in 1 .. n - HdrSize : i <= Len(bytes) => Block(bytes, n)[i] = bytes[i]
<1>0. HdrSize \in Nat /\ n - HdrSize \in Nat /\ 1 <= n - HdrSize /\ n - HdrSize <= n
    BY CStringAssumption
<1> DEFINE Longer == bytes \o Fill(Junk, n)
<1>1. Fill(Junk, n) \in Seq(Byte) /\ Len(Fill(Junk, n)) = n
    BY FillIsSeq DEF Byte
<1>2. /\ Longer \in Seq(Byte)
      /\ Len(Longer) = Len(bytes) + n
      /\ \A i \in 1 .. Len(bytes) : Longer[i] = bytes[i]
  <2>1. /\ Longer \in Seq(Byte)
        /\ Len(Longer) = Len(bytes) + Len(Fill(Junk, n))
        /\ \A i \in 1 .. Len(bytes) + Len(Fill(Junk, n)) :
              Longer[i] = IF i <= Len(bytes) THEN bytes[i] ELSE Fill(Junk, n)[i - Len(bytes)]
    BY <1>1, ConcatProperties
  <2> HIDE DEF Longer
  <2> QED
    BY <1>1, <2>1
<1> HIDE DEF Longer
<1> DEFINE m == n - HdrSize
           all == Len(Longer)
<1>3. n - HdrSize \in Nat /\ 1 <= n - HdrSize /\ n - HdrSize <= Len(Longer)
  <2>1. Len(bytes) \in Nat
    OBVIOUS
  <2>2. m \in Nat /\ 1 <= m /\ m <= n /\ all = Len(bytes) + n
    BY <1>0, <1>2
  <2> HIDE DEF m, all
  <2>3. m <= all
    BY <2>1, <2>2
  <2> QED
    BY <2>2, <2>3 DEF m, all
<1>4. \A i \in 1 .. n - HdrSize : Longer[i] \in Byte
  <2>1. m \in Nat /\ m <= all /\ all \in Nat /\ Longer \in Seq(Byte)
    BY <1>2, <1>3
  <2>2. \A i \in 1 .. all : Longer[i] \in Byte
    BY <2>1, ElementOfSeq
  <2> HIDE DEF m, all
  <2>3. \A i \in 1 .. m : i \in 1 .. all
    BY <2>1
  <2>4. \A i \in 1 .. m : Longer[i] \in Byte
    BY <2>2, <2>3
  <2> QED
    BY <2>4 DEF m
<1>5. /\ SubSeq(Longer, 1, n - HdrSize) \in Seq(Byte)
      /\ Len(SubSeq(Longer, 1, n - HdrSize)) = n - HdrSize
      /\ \A i \in 1 .. n - HdrSize : SubSeq(Longer, 1, n - HdrSize)[i] = Longer[i]
    BY <1>3, <1>4, SubSeqProperties
<1>6. Block(bytes, n) = SubSeq(Longer, 1, n - HdrSize)
    BY Zenon DEF Block, Longer
<1>7. \A i \in 1 .. n - HdrSize : i <= Len(bytes) => i \in 1 .. Len(bytes)
    OBVIOUS
<1>8. \A i \in 1 .. n - HdrSize : i <= Len(bytes) => Block(bytes, n)[i] = bytes[i]
    BY <1>2, <1>5, <1>6, <1>7, Zenon
<1> QED
    BY <1>5, <1>6, <1>8, Zenon

\* What a write is.
IsWrite(w) == w \in Nat \X Seq(Byte)

\* Writing changes no length and puts bytes where bytes were.
LEMMA WrittenIsSeq ==
    ASSUME NEW bytes \in Seq(Byte), NEW n \in Nat, NEW writes,
           DOMAIN writes = 1 .. n,
           \A k \in 1 .. n : IsWrite(writes[k])
    PROVE  /\ Written(bytes, writes) \in Seq(Byte)
           /\ Len(Written(bytes, writes)) = Len(bytes)
<1> DEFINE LastOf(i) == Max({0} \cup {k \in DOMAIN writes : Covers(writes[k], i)})
           Put(i) == IF LastOf(i) = 0 THEN bytes[i] ELSE writes[LastOf(i)][2][i - writes[LastOf(i)][1]]
<1>1. Written(bytes, writes) = [i \in 1 .. Len(bytes) |-> Put(i)]
    BY DEF Written
<1>2. ASSUME NEW i \in 1 .. Len(bytes)
      PROVE  Put(i) \in Byte
  <2> DEFINE Hits == {0} \cup {k \in DOMAIN writes : Covers(writes[k], i)}
  <2>1. Hits \in SUBSET (0 .. n) /\ Hits # {}
    OBVIOUS
  <2>2. LastOf(i) \in Hits
    BY <2>1, GreatestExists
  <2> HIDE DEF LastOf
  <2>3. CASE LastOf(i) = 0
    BY <2>3
  <2>4. CASE LastOf(i) # 0
    <3>1. LastOf(i) \in 1 .. n /\ Covers(writes[LastOf(i)], i)
        BY <2>2, <2>4
    <3>2. writes[LastOf(i)][2] \in Seq(Byte)
        BY <3>1 DEF IsWrite
    <3>3. i - writes[LastOf(i)][1] \in 1 .. Len(writes[LastOf(i)][2])
        BY <3>1, <3>2 DEF Covers
    <3> QED
        BY <2>4, <3>2, <3>3, ElementOfSeq
  <2> QED
    BY <2>3, <2>4
<1> HIDE DEF Put
<1> QED
    BY <1>1, <1>2

\* What one, two and three writes leave at an index.
LEMMA OneWritten ==
    ASSUME NEW bytes, NEW v, NEW i \in DOMAIN bytes
    PROVE  Written(bytes, <<v>>)[i] = IF Covers(v, i) THEN v[2][i - v[1]] ELSE bytes[i]
<1> DEFINE writes == <<v>>
           Hits == {0} \cup {k \in DOMAIN writes : Covers(writes[k], i)}
<1>1. DOMAIN writes = 1 .. 1 /\ writes[1] = v
    OBVIOUS
<1>2. Hits \in SUBSET (0 .. 1)
    BY <1>1
<1>3. Max(Hits) \in Hits /\ \A k \in Hits : k <= Max(Hits)
    BY <1>2, GreatestExists
<1>4. Written(bytes, writes)[i] =
        IF Max(Hits) = 0 THEN bytes[i] ELSE writes[Max(Hits)][2][i - writes[Max(Hits)][1]]
    BY DEF Written
<1>5. Max(Hits) = IF Covers(v, i) THEN 1 ELSE 0
    BY <1>1, <1>2, <1>3
<1> HIDE DEF Hits
<1> QED
    BY <1>1, <1>4, <1>5

LEMMA TwoWritten ==
    ASSUME NEW bytes, NEW v, NEW w, NEW i \in DOMAIN bytes
    PROVE  Written(bytes, <<v, w>>)[i] = IF Covers(w, i) THEN w[2][i - w[1]]
                                         ELSE IF Covers(v, i) THEN v[2][i - v[1]] ELSE bytes[i]
<1> DEFINE writes == <<v, w>>
           Hits == {0} \cup {k \in DOMAIN writes : Covers(writes[k], i)}
<1>1. DOMAIN writes = 1 .. 2 /\ writes[1] = v /\ writes[2] = w
    OBVIOUS
<1>2. Hits \in SUBSET (0 .. 2)
    BY <1>1
<1>3. Max(Hits) \in Hits /\ \A k \in Hits : k <= Max(Hits)
    BY <1>2, GreatestExists
<1>4. Written(bytes, writes)[i] =
        IF Max(Hits) = 0 THEN bytes[i] ELSE writes[Max(Hits)][2][i - writes[Max(Hits)][1]]
    BY DEF Written
<1>5. Max(Hits) = IF Covers(w, i) THEN 2 ELSE IF Covers(v, i) THEN 1 ELSE 0
    BY <1>1, <1>2, <1>3
<1> HIDE DEF Hits
<1> QED
    BY <1>1, <1>4, <1>5

LEMMA ThreeWritten ==
    ASSUME NEW bytes, NEW u, NEW v, NEW w, NEW i \in DOMAIN bytes
    PROVE  Written(bytes, <<u, v, w>>)[i] =
               IF Covers(w, i) THEN w[2][i - w[1]]
               ELSE IF Covers(v, i) THEN v[2][i - v[1]]
               ELSE IF Covers(u, i) THEN u[2][i - u[1]] ELSE bytes[i]
<1> DEFINE writes == <<u, v, w>>
           Hits == {0} \cup {k \in DOMAIN writes : Covers(writes[k], i)}
<1>1. DOMAIN writes = 1 .. 3 /\ writes[1] = u /\ writes[2] = v /\ writes[3] = w
    OBVIOUS
<1>2. Hits \in SUBSET (0 .. 3)
    BY <1>1
<1>3. Max(Hits) \in Hits /\ \A k \in Hits : k <= Max(Hits)
    BY <1>2, GreatestExists
<1>4. Written(bytes, writes)[i] =
        IF Max(Hits) = 0 THEN bytes[i] ELSE writes[Max(Hits)][2][i - writes[Max(Hits)][1]]
    BY DEF Written
<1>5. Max(Hits) = IF Covers(w, i) THEN 3 ELSE IF Covers(v, i) THEN 2
                  ELSE IF Covers(u, i) THEN 1 ELSE 0
    BY <1>1, <1>2, <1>3
<1> HIDE DEF Hits
<1> QED
    BY <1>1, <1>4, <1>5
------------------------------------------------------------------------------
(* The greater and the lesser of two.                                       *)

LEMMA MaxOfTwo ==
    ASSUME NEW m \in Nat, NEW n \in Nat
    PROVE  Max({m, n}) = IF m >= n THEN m ELSE n
<1>1. {m, n} \in SUBSET (0 .. m + n)
    OBVIOUS
<1>2. Max({m, n}) \in {m, n} /\ \A k \in {m, n} : k <= Max({m, n})
    BY <1>1, GreatestExists
<1> QED
    BY <1>2

LEMMA MinOfTwo ==
    ASSUME NEW m \in Nat, NEW n \in Nat
    PROVE  Min({m, n}) = IF m <= n THEN m ELSE n
<1>1. {m, n} \in SUBSET Nat
    OBVIOUS
<1>2. Min({m, n}) \in {m, n} /\ \A k \in {m, n} : Min({m, n}) <= k
    BY <1>1, LeastExists
<1> QED
    BY <1>2

------------------------------------------------------------------------------
(* The inductive invariant.                                                 *)

IInv == TypeOK /\ SizesAgree /\ NoOverrun

\* The program stays clear of the two cases in which a block is too small for its
\* string, or is read after it was given back.
StaysInBlock == Cases \subseteq {"one_solid"}

\* A block that has room for a capacity and what of it is used.
Room(bytes, newCap, newUsed) ==
    /\ bytes \in Seq(Byte)
    /\ Len(bytes) + HdrSize \in MinSize .. MaxSize
    /\ newCap \in MinSize - Overhead .. MaxSize - Overhead
    /\ newUsed \in 0 .. newCap
    /\ newCap < Len(bytes)

\* A write that stays in the block.
GoodWrite(bytes, w) == IsWrite(w) /\ Fits(bytes, w)

LEMMA RoomInInv ==
    ASSUME IInv
    PROVE  Room(data, cap, used)
BY CStringAssumption DEF IInv, TypeOK, SizesAgree, Room, Byte, Overhead

LEMMA RoomSizes ==
    ASSUME NEW bytes, NEW newCap, NEW newUsed, Room(bytes, newCap, newUsed)
    PROVE  /\ bytes \in Seq(Byte) /\ Len(bytes) \in Nat /\ Len(bytes) + HdrSize \in MinSize .. MaxSize
           /\ newCap \in MinSize - Overhead .. MaxSize - Overhead /\ newCap \in Nat
           /\ newUsed \in 0 .. MaxSize - Overhead
           /\ newUsed \in Nat /\ newUsed <= newCap /\ newCap < Len(bytes)
<1>1. MinSize \in Nat /\ MaxSize \in Nat /\ Overhead \in Nat /\ Overhead < MinSize
    BY CStringAssumption DEF Overhead
<1>2. /\ bytes \in Seq(Byte) /\ Len(bytes) + HdrSize \in MinSize .. MaxSize
      /\ newCap \in MinSize - Overhead .. MaxSize - Overhead
      /\ newUsed \in 0 .. newCap /\ newCap < Len(bytes)
    BY DEF Room
<1>3. /\ newCap \in Nat /\ newUsed \in 0 .. MaxSize - Overhead
      /\ newUsed \in Nat /\ newUsed <= newCap
    BY <1>1, <1>2
<1>4. Len(bytes) \in Nat
    BY <1>2
<1> QED
    BY <1>2, <1>3, <1>4

\* An update with room and good writes keeps the invariant.
LEMMA BecomeKeeps ==
    ASSUME IInv, NEW newCap, NEW newUsed, NEW bytes, NEW n \in Nat, NEW writes,
           Room(bytes, newCap, newUsed),
           DOMAIN writes = 1 .. n, \A k \in 1 .. n : GoodWrite(bytes, writes[k]),
           Become(newCap, newUsed, bytes, writes)
    PROVE  IInv'
<1> USE CStringAssumption
<1>1. /\ Written(bytes, writes) \in Seq(Byte)
      /\ Len(Written(bytes, writes)) = Len(bytes)
    BY WrittenIsSeq DEF GoodWrite, Room
<1>2. cap' = newCap /\ used' = newUsed /\ data' = Written(bytes, writes)
    BY DEF Become
<1>3. overrun' = FALSE
    BY DEF Become, GoodWrite, IInv, NoOverrun, TypeOK
<1>4. /\ cap' \in MinSize - Overhead .. MaxSize - Overhead
      /\ used' \in 0 .. MaxSize - Overhead
    BY <1>2, RoomSizes
<1>5. data' \in Seq(Byte) /\ Len(data') = Len(bytes)
    BY <1>1, <1>2
<1>6. Len(data') + HdrSize \in MinSize .. MaxSize
    BY <1>5, RoomSizes
<1>7. used' <= cap' /\ cap' < Len(data')
    BY <1>2, <1>5, RoomSizes
<1> QED
    BY <1>3, <1>4, <1>5, <1>6, <1>7 DEF IInv, TypeOK, SizesAgree, NoOverrun, Byte

LEMMA OneGoodWrite ==
    ASSUME IInv, NEW newCap, NEW newUsed, NEW bytes, NEW v,
           Room(bytes, newCap, newUsed), GoodWrite(bytes, v),
           Become(newCap, newUsed, bytes, <<v>>)
    PROVE  IInv'
<1> DEFINE writes == <<v>>
<1>1. DOMAIN writes = 1 .. 1 /\ \A k \in 1 .. 1 : GoodWrite(bytes, writes[k])
    OBVIOUS
<1> HIDE DEF writes
<1>2. Become(newCap, newUsed, bytes, writes)
    BY DEF writes
<1> QED
    BY <1>1, <1>2, BecomeKeeps

LEMMA TwoGoodWrites ==
    ASSUME IInv, NEW newCap, NEW newUsed, NEW bytes, NEW v, NEW w,
           Room(bytes, newCap, newUsed), GoodWrite(bytes, v), GoodWrite(bytes, w),
           Become(newCap, newUsed, bytes, <<v, w>>)
    PROVE  IInv'
<1> DEFINE writes == <<v, w>>
<1>1. DOMAIN writes = 1 .. 2 /\ \A k \in 1 .. 2 : GoodWrite(bytes, writes[k])
  <2>1. DOMAIN writes = 1 .. 2 /\ writes[1] = v /\ writes[2] = w
    OBVIOUS
  <2> HIDE DEF writes
  <2>2. \A k \in 1 .. 2 : k = 1 \/ k = 2
    OBVIOUS
  <2> QED
    BY <2>1, <2>2, Zenon
<1> HIDE DEF writes
<1>2. Become(newCap, newUsed, bytes, writes)
    BY DEF writes
<1> QED
    BY <1>1, <1>2, BecomeKeeps

LEMMA ThreeGoodWrites ==
    ASSUME IInv, NEW newCap, NEW newUsed, NEW bytes, NEW u, NEW v, NEW w,
           Room(bytes, newCap, newUsed),
           GoodWrite(bytes, u), GoodWrite(bytes, v), GoodWrite(bytes, w),
           Become(newCap, newUsed, bytes, <<u, v, w>>)
    PROVE  IInv'
<1> DEFINE writes == <<u, v, w>>
<1>1. DOMAIN writes = 1 .. 3 /\ \A k \in 1 .. 3 : GoodWrite(bytes, writes[k])
  <2>1. DOMAIN writes = 1 .. 3 /\ writes[1] = u /\ writes[2] = v /\ writes[3] = w
    OBVIOUS
  <2> HIDE DEF writes
  <2>2. \A k \in 1 .. 3 : k = 1 \/ k = 2 \/ k = 3
    OBVIOUS
  <2> QED
    BY <2>1, <2>2, Zenon
<1> HIDE DEF writes
<1>2. Become(newCap, newUsed, bytes, writes)
    BY DEF writes
<1> QED
    BY <1>1, <1>2, BecomeKeeps

\* The writes of the operations.
LEMMA PieceFits ==
    ASSUME NEW bytes \in Seq(Byte), NEW at \in Nat, NEW w \in Seq(Byte),
           at + Len(w) <= Len(bytes)
    PROVE  GoodWrite(bytes, <<at, w>>)
BY DEF GoodWrite, IsWrite, Fits

LEMMA SetEndFits ==
    ASSUME NEW bytes \in Seq(Byte), NEW n \in Nat, n < Len(bytes)
    PROVE  GoodWrite(bytes, SetEnd(n))
<1> DEFINE terminator == <<Nul>>
<1>1. terminator \in Seq(Byte) /\ Len(terminator) = 1
    BY DEF Byte
<1>2. SetEnd(n) = <<n, terminator>>
    BY DEF SetEnd
<1> HIDE DEF terminator
<1>3. n + Len(terminator) <= Len(bytes)
    BY <1>1
<1> QED
    BY <1>1, <1>2, <1>3, PieceFits

LEMMA CleanFits ==
    ASSUME NEW bytes \in Seq(Byte), NEW from \in Nat, NEW n \in Nat,
           from + n <= Len(bytes)
    PROVE  GoodWrite(bytes, Clean(from, n))
<1>1. Fill(Nul, n) \in Seq(Byte) /\ Len(Fill(Nul, n)) = n
    BY FillIsSeq DEF Byte
<1> HIDE DEF Fill
<1> QED
    BY <1>1, PieceFits DEF Clean

LEMMA PieceIsSeq ==
    ASSUME NEW u \in Piece
    PROVE  u \in Seq(Byte) /\ Len(u) \in Nat
<1>1. u \in Seq(Char) /\ Char \subseteq Byte
    BY CStringAssumption DEF Byte
<1> QED
    BY <1>1, SeqMonotonic
------------------------------------------------------------------------------
(* What the operations find: blocks, and parts of the string.               *)

\* The sizes in any state of the program, as numbers.
LEMMA Sizes ==
    ASSUME IInv
    PROVE  /\ HdrSize \in Nat /\ Overhead = HdrSize + 1 /\ Overhead < MinSize
           /\ MinSize \in Nat /\ MaxSize \in Nat /\ MinSize <= MaxSize
           /\ cap \in Nat /\ used \in Nat /\ used <= cap /\ cap < Len(data)
           /\ TotalSize \in Nat /\ TotalSize = cap + Overhead /\ TotalSize <= MaxSize
           /\ data \in Seq(Byte) /\ Len(data) \in Nat /\ DOMAIN data = 1 .. Len(data)
<1> USE CStringAssumption
<1>1. HdrSize \in Nat /\ Overhead = HdrSize + 1 /\ Overhead < MinSize
    BY DEF Overhead
<1>2. MinSize \in Nat /\ MaxSize \in Nat /\ MinSize <= MaxSize
    OBVIOUS
<1>3. cap \in MinSize - Overhead .. MaxSize - Overhead /\ used \in Nat
    BY DEF IInv, TypeOK
<1>4. used <= cap /\ cap < Len(data)
    BY DEF IInv, SizesAgree
<1>5. data \in Seq(Byte)
    BY DEF IInv, TypeOK, Byte
<1> QED
    BY <1>1, <1>2, <1>3, <1>4, <1>5 DEF TotalSize

\* What an operation knows of the block that it has fitted to n characters.
Fitted(bytes, n) ==
    /\ FitCap(n) \in Nat /\ n <= FitCap(n)
    /\ Room(bytes, FitCap(n), n)
    /\ \A i \in 1 .. FitCap(n) + 1 : i <= Len(data) => bytes[i] = data[i]

LEMMA FitCapIsEnough ==
    ASSUME IInv, NEW n \in Nat, cal_fit_cap(TotalSize, n + Overhead) >= MinSize
    PROVE  /\ FitCap(n) \in MinSize - Overhead .. MaxSize - Overhead
           /\ FitCap(n) \in Nat /\ n <= FitCap(n)
<1>1. n + Overhead \in Nat
    BY Sizes
<1>2. /\ cal_fit_cap(TotalSize, n + Overhead) \in MinSize .. MaxSize
      /\ n + Overhead <= cal_fit_cap(TotalSize, n + Overhead)
    BY <1>1, Sizes, FitIsEnough
<1> DEFINE fit == cal_fit_cap(TotalSize, n + Overhead)
<1>3. FitCap(n) = fit - Overhead
    BY DEF FitCap
<1>4. fit \in MinSize .. MaxSize /\ n + Overhead <= fit
    BY <1>2
<1>5. MinSize \in Nat /\ MaxSize \in Nat /\ Overhead \in Nat /\ Overhead < MinSize
    BY Sizes
<1> HIDE DEF fit
<1>6. /\ fit - Overhead \in MinSize - Overhead .. MaxSize - Overhead
      /\ fit - Overhead \in Nat /\ n <= fit - Overhead
    BY <1>4, <1>5
<1> QED
    BY <1>3, <1>6

\* A block that realloc has given the size of FitCap(n).
LEMMA ResizedIsFitted ==
    ASSUME IInv, NEW n \in Nat, cal_fit_cap(TotalSize, n + Overhead) >= MinSize
    PROVE  Fitted(Block(data, FitCap(n) + Overhead), n)
<1> DEFINE size == FitCap(n) + Overhead
           bytes == Block(data, size)
<1>1. /\ FitCap(n) \in MinSize - Overhead .. MaxSize - Overhead
      /\ FitCap(n) \in Nat /\ n <= FitCap(n)
    BY FitCapIsEnough
<1>2. size \in Nat /\ HdrSize < size /\ size - HdrSize = FitCap(n) + 1
  <2>1. HdrSize \in Nat /\ Overhead = HdrSize + 1
    BY Sizes
  <2> QED
    BY <1>1, <2>1
<1>3. /\ bytes \in Seq(Byte)
      /\ Len(bytes) = size - HdrSize
      /\ \A i \in 1 .. size - HdrSize : i <= Len(data) => bytes[i] = data[i]
    BY <1>2, Sizes, BlockKeeps
<1> HIDE DEF size, bytes
<1>4. Len(bytes) = FitCap(n) + 1 /\ size = Len(bytes) + HdrSize
    BY <1>2, <1>3, Sizes
<1>5. FitCap(n) + Overhead \in MinSize .. MaxSize
    BY <1>1, Sizes, SMTT(20)
<1>6. Len(bytes) + HdrSize \in MinSize .. MaxSize
    BY <1>4, <1>5 DEF size
<1>7. n \in 0 .. FitCap(n) /\ FitCap(n) < Len(bytes)
    BY <1>1, <1>4
<1>8. Room(bytes, FitCap(n), n)
    BY <1>1, <1>3, <1>6, <1>7 DEF Room
<1>9. Fitted(bytes, n)
    BY <1>1, <1>2, <1>3, <1>8 DEF Fitted
<1> QED
    BY <1>9 DEF bytes, size

\* The block itself, when its capacity is not raised.
LEMMA UnmovedIsFitted ==
    ASSUME IInv, NEW n \in Nat, cal_fit_cap(TotalSize, n + Overhead) >= MinSize,
           FitCap(n) <= cap
    PROVE  Fitted(data, n)
<1>1. /\ FitCap(n) \in MinSize - Overhead .. MaxSize - Overhead
      /\ FitCap(n) \in Nat /\ n <= FitCap(n)
    BY FitCapIsEnough
<1>2. Len(data) + HdrSize \in MinSize .. MaxSize
    BY DEF IInv, TypeOK
<1> QED
    BY <1>1, <1>2, Sizes DEF Fitted, Room

LEMMA FitBytesFits ==
    ASSUME IInv, NEW n \in Nat, cal_fit_cap(TotalSize, n + Overhead) >= MinSize
    PROVE  Fitted(FitBytes(n), n)
<1>1. CASE FitCap(n) = cap
    BY <1>1, UnmovedIsFitted, Sizes DEF FitBytes
<1>2. CASE FitCap(n) # cap
    BY <1>2, ResizedIsFitted DEF FitBytes
<1> QED
    BY <1>1, <1>2

LEMMA AppendBytesFits ==
    ASSUME IInv, NEW n \in Nat, cal_fit_cap(TotalSize, n + Overhead) >= MinSize
    PROVE  Fitted(AppendBytes(n), n)
<1>1. FitCap(n) \in Nat
    BY FitCapIsEnough
<1>2. CASE FitCap(n) <= cap
  <2>1. ~(FitCap(n) > cap)
    BY <1>1, <1>2, Sizes
  <2> QED
    BY <1>2, <2>1, UnmovedIsFitted DEF AppendBytes
<1>3. CASE FitCap(n) > cap
    BY <1>3, ResizedIsFitted DEF AppendBytes
<1> QED
    BY <1>1, <1>2, <1>3, Sizes

\* Any part of a sequence of bytes.
LEMMA PartIsSeq ==
    ASSUME NEW w \in Seq(Byte), NEW from \in 1 .. Len(w) + 1, NEW to \in 0 .. Len(w),
           from <= to + 1
    PROVE  /\ SubSeq(w, from, to) \in Seq(Byte)
           /\ Len(SubSeq(w, from, to)) = to - from + 1
           /\ \A i \in 1 .. to - from + 1 : SubSeq(w, from, to)[i] = w[from + i - 1]
<1>1. from \in Int /\ to \in Int
    OBVIOUS
<1>2. \A i \in from .. to : w[i] \in Byte
    BY ElementOfSeq
<1>3. /\ SubSeq(w, from, to) \in Seq(Byte)
      /\ Len(SubSeq(w, from, to)) = IF from <= to THEN to - from + 1 ELSE 0
      /\ \A i \in 1 .. to - from + 1 : SubSeq(w, from, to)[i] = w[from + i - 1]
    BY <1>1, <1>2, SubSeqProperties
<1>4. ~(from <= to) => to - from + 1 = 0
    BY <1>1
<1> QED
    BY <1>3, <1>4, Zenon

LEMMA FrontIsSeq ==
    ASSUME NEW w \in Seq(Byte), NEW n \in 0 .. Len(w)
    PROVE  /\ SubSeq(w, 1, n) \in Seq(Byte)
           /\ Len(SubSeq(w, 1, n)) = n
           /\ \A i \in 1 .. n : SubSeq(w, 1, n)[i] = w[i]
<1>1. 1 \in 1 .. Len(w) + 1 /\ 1 <= n + 1 /\ n - 1 + 1 = n
      /\ \A i \in 1 .. n : 1 + i - 1 = i
    OBVIOUS
<1> QED
    BY <1>1, PartIsSeq

LEMMA ValueIsSeq ==
    ASSUME IInv
    PROVE  /\ Value \in Seq(Byte)
           /\ Len(Value) = used
           /\ \A i \in 1 .. used : Value[i] = data[i]
<1>1. data \in Seq(Byte) /\ used \in 0 .. Len(data)
    BY Sizes
<1> QED
    BY <1>1, FrontIsSeq DEF Value

\* Where the first and the last solid characters stand; 0 if there is none.
LEMMA SolidPlaces ==
    ASSUME IInv
    PROVE  /\ FirstSolid \in 0 .. used /\ LastSolid \in 0 .. used
           /\ FirstSolid = 0 <=> LastSolid = 0
           /\ FirstSolid # 0 => FirstSolid <= LastSolid
<1> DEFINE places == {i \in 1 .. Len(Value) : Solid(Value[i])}
<1>1. places \in SUBSET (0 .. used) /\ places \in SUBSET Nat /\ used \in Nat
    BY ValueIsSeq, Sizes
<1>2. FirstSolid = IF places # {} THEN Min(places) ELSE 0
    BY DEF FirstSolid, SelectInSeq
<1>3. LastSolid = IF places # {} THEN Max(places) ELSE 0
    BY DEF LastSolid, SelectLastInSeq
<1>4. \A p \in places : p # 0
    OBVIOUS
<1> HIDE DEF places
<1>5. CASE places = {}
    BY <1>1, <1>2, <1>3, <1>5
<1>6. CASE places # {}
  <2>1. Min(places) \in places /\ \A p \in places : Min(places) <= p
    BY <1>1, <1>6, LeastExists
  <2>2. Max(places) \in places
    BY <1>1, <1>6, GreatestExists
  <2> QED
    BY <1>1, <1>2, <1>3, <1>4, <1>6, <2>1, <2>2
<1> QED
    BY <1>5, <1>6

------------------------------------------------------------------------------
(* The initial states and the steps keep the invariant.                     *)

\* A fresh block of n bytes for the string u.
LEMMA FreshBlock ==
    ASSUME NEW n \in MinSize .. MaxSize
    PROVE  /\ Block(<<>>, n) \in Seq(Byte)
           /\ Len(Block(<<>>, n)) = n - HdrSize
           /\ n - Overhead \in MinSize - Overhead .. MaxSize - Overhead
           /\ n - Overhead \in Nat /\ n - Overhead < n - HdrSize
           /\ n - HdrSize \in Nat
<1> USE CStringAssumption
<1>1. n \in Nat /\ HdrSize < n
    BY DEF Overhead
<1>2. <<>> \in Seq(Byte)
    OBVIOUS
<1>3. Block(<<>>, n) \in Seq(Byte) /\ Len(Block(<<>>, n)) = n - HdrSize
    BY <1>1, <1>2, BlockKeeps
<1> QED
    BY <1>1, <1>3 DEF Overhead

LEMMA InitInv == Init => IInv
<1> USE CStringAssumption
<1> SUFFICES ASSUME Init PROVE IInv
    OBVIOUS
<1>1. overrun = FALSE
    BY DEF Init
<1>2. ASSUME NEW n \in MinSize .. MaxSize, NEW u \in Piece, Len(u) + Overhead <= n,
             cap = n - Overhead, used = Len(u),
             Len(data) = n - HdrSize, data \in Seq(Byte)
      PROVE  IInv
  <2>1. Len(u) \in Nat
    BY PieceIsSeq
  <2>2. /\ n \in Nat /\ Overhead = HdrSize + 1 /\ HdrSize \in Nat
        /\ MinSize \in Nat /\ MaxSize \in Nat /\ MinSize <= n /\ n <= MaxSize
    BY DEF Overhead
  <2>3. cap \in MinSize - Overhead .. MaxSize - Overhead /\ used \in 0 .. MaxSize - Overhead
    BY <1>2, <2>1, <2>2
  <2>4. Len(data) + HdrSize \in MinSize .. MaxSize
    BY <1>2, <2>2
  <2>5. used <= cap /\ cap < Len(data)
    BY <1>2, <2>1, <2>2
  <2> QED
    BY <1>1, <1>2, <2>3, <2>4, <2>5 DEF IInv, TypeOK, SizesAgree, NoOverrun, Byte
<1>3. CASE NewEmpty
  <2>1. MinSize \in MinSize .. MaxSize
    OBVIOUS
  <2>2. /\ Block(<<>>, MinSize) \in Seq(Byte)
        /\ Len(Block(<<>>, MinSize)) = MinSize - HdrSize
        /\ 0 < Len(Block(<<>>, MinSize))
    BY <2>1, FreshBlock
  <2>3. IsWrite(SetEnd(0))
    BY <2>2, SetEndFits DEF GoodWrite
  <2> DEFINE writes == <<SetEnd(0)>>
  <2>4. DOMAIN writes = 1 .. 1 /\ \A k \in 1 .. 1 : IsWrite(writes[k])
    BY <2>3
  <2>5. data = Written(Block(<<>>, MinSize), writes)
    BY <1>3 DEF NewEmpty
  <2> HIDE DEF writes
  <2>6. data \in Seq(Byte) /\ Len(data) = MinSize - HdrSize
    BY <2>2, <2>4, <2>5, WrittenIsSeq
  <2>7. <<>> \in Piece /\ Len(<<>>) = 0 /\ Len(<<>>) + Overhead <= MinSize
    BY DEF Overhead
  <2>8. cap = MinSize - Overhead /\ used = Len(<<>>)
    BY <1>3 DEF NewEmpty
  <2> QED
    BY <1>2, <2>1, <2>6, <2>7, <2>8
<1>4. ASSUME NEW u \in Piece, NewStr(u)
      PROVE  IInv
  <2> DEFINE size == round_up_power_2(Len(u) + Overhead)
             n == Max({size, MinSize})
             writes == <<<<0, u>>, SetEnd(Len(u))>>
  <2>1. u \in Seq(Byte) /\ Len(u) \in Nat /\ Len(u) + Overhead \in Nat
    BY PieceIsSeq DEF Overhead
  <2>2. size \in 1 .. MaxSize
    BY <1>4 DEF NewStr
  <2>3. Len(u) + Overhead <= size
    BY <2>1, <2>2, RoundedIsEnough
  <2>4. cap = n - Overhead /\ used = Len(u) /\ data = Written(Block(<<>>, n), writes)
    BY <1>4 DEF NewStr
  <2> HIDE DEF size
  <2>5. n = IF size >= MinSize THEN size ELSE MinSize
    BY <2>2, MaxOfTwo
  <2>6. n \in MinSize .. MaxSize /\ Len(u) + Overhead <= n
    BY <2>1, <2>2, <2>3, <2>5 DEF Overhead
  <2> HIDE DEF n
  <2>7. Block(<<>>, n) \in Seq(Byte) /\ Len(Block(<<>>, n)) = n - HdrSize
    BY <2>6, FreshBlock
  <2>8. IsWrite(<<0, u>>)
    BY <2>1 DEF IsWrite
  <2>9. IsWrite(SetEnd(Len(u)))
    <3>1. Len(u) < Len(Block(<<>>, n))
        BY <2>1, <2>6, <2>7 DEF Overhead
    <3> QED
        BY <2>1, <2>7, <3>1, SetEndFits DEF GoodWrite
  <2>10. DOMAIN writes = 1 .. 2 /\ \A k \in 1 .. 2 : IsWrite(writes[k])
    <3>1. DOMAIN writes = 1 .. 2 /\ writes[1] = <<0, u>> /\ writes[2] = SetEnd(Len(u))
        OBVIOUS
    <3>2. \A k \in 1 .. 2 : k = 1 \/ k = 2
        OBVIOUS
    <3> HIDE DEF writes
    <3> QED
        BY <2>8, <2>9, <3>1, <3>2, Zenon
  <2> HIDE DEF writes
  <2>11. data \in Seq(Byte) /\ Len(data) = n - HdrSize
    BY <2>4, <2>7, <2>10, WrittenIsSeq
  <2> QED
    BY <1>2, <2>4, <2>6, <2>11
<1> QED
    BY <1>3, <1>4 DEF Init
LEMMA CloneInv ==
    ASSUME IInv, Clone
    PROVE  IInv'
<1> DEFINE kept == SubSeq(data, 1, cap + 1)
           bytes == Block(kept, TotalSize)
<1>1. kept \in Seq(Byte)
  <2>1. 1 \in 1 .. Len(data) + 1 /\ cap + 1 \in 0 .. Len(data) /\ 1 <= cap + 1 + 1
    BY Sizes
  <2> QED
    BY <2>1, PartIsSeq, Sizes
<1>2. TotalSize \in Nat /\ HdrSize < TotalSize /\ TotalSize - HdrSize = cap + 1
    BY Sizes
<1> HIDE DEF kept
<1>3. bytes \in Seq(Byte) /\ Len(bytes) = TotalSize - HdrSize
    BY <1>1, <1>2, BlockKeeps
<1> HIDE DEF bytes
<1>4. Room(bytes, cap, used)
  <2>1. Room(data, cap, used)
    BY RoomInInv
  <2>2. Len(bytes) = cap + 1 /\ Len(bytes) + HdrSize = cap + Overhead
    BY <1>2, <1>3, Sizes
  <2>3. cap + Overhead \in MinSize .. MaxSize
    BY <2>1, Sizes DEF Room
  <2> QED
    BY <1>3, <2>1, <2>2, <2>3, Sizes DEF Room
<1>5. GoodWrite(bytes, SetEnd(used))
    BY <1>2, <1>3, Sizes, SetEndFits
<1>6. Become(cap, used, bytes, <<SetEnd(used)>>)
    BY Zenon DEF Clone, bytes, kept
<1> QED
    BY <1>4, <1>5, <1>6, OneGoodWrite

\* The writes of Assign.
LEMMA AssignInv ==
    ASSUME IInv, NEW u \in Piece, Assign(u)
    PROVE  IInv'
<1> DEFINE n == Len(u)
           bytes == FitBytes(n)
<1>1. u \in Seq(Byte) /\ n \in Nat
    BY PieceIsSeq
<1> HIDE DEF n
<1>2. Fitted(bytes, n)
    BY <1>1, FitBytesFits, Sizes DEF Assign, Sized, n
<1> HIDE DEF bytes
<1>3. bytes \in Seq(Byte) /\ FitCap(n) < Len(bytes) /\ Len(bytes) \in Nat
    BY <1>2 DEF Fitted, Room
<1>4. GoodWrite(bytes, <<0, u>>)
  <2>1. 0 + Len(u) <= Len(bytes)
    BY <1>1, <1>2, <1>3 DEF Fitted, n
  <2> QED
    BY <1>1, <1>3, <2>1, PieceFits
<1>5. GoodWrite(bytes, Clean(n, FitCap(n) - n))
  <2>1. FitCap(n) - n \in Nat /\ n + (FitCap(n) - n) <= Len(bytes)
    BY <1>1, <1>2, <1>3 DEF Fitted
  <2> QED
    BY <1>1, <1>3, <2>1, CleanFits
<1>6. GoodWrite(bytes, SetEnd(n))
    BY <1>1, <1>2, <1>3, SetEndFits DEF Fitted
<1>7. Become(FitCap(n), n, bytes, <<<<0, u>>, Clean(n, FitCap(n) - n), SetEnd(n)>>)
    BY Zenon DEF Assign, bytes, n
<1> QED
    BY <1>2, <1>4, <1>5, <1>6, <1>7, ThreeGoodWrites DEF Fitted

LEMMA SubInv ==
    ASSUME IInv, NEW u \in Piece, NEW begin \in 0 .. Len(u), NEW len \in 0 .. Len(u),
           Sub(u, begin, len)
    PROVE  IInv'
<1> DEFINE n == Min({len, Len(u) - begin})
           bytes == FitBytes(n)
           part == SubSeq(u, begin + 1, begin + n)
<1>1. u \in Seq(Byte) /\ Len(u) \in Nat
    BY PieceIsSeq
<1>2. len \in Nat /\ Len(u) - begin \in Nat
    BY <1>1
<1>3. n \in 0 .. Len(u) - begin
    BY <1>2, MinOfTwo
<1>4. Sized(n) /\ Become(FitCap(n), n, bytes, <<<<0, part>>, SetEnd(n)>>)
    BY Zenon DEF Sub
<1> HIDE DEF n
<1>5. Fitted(bytes, n)
    BY <1>3, <1>4, FitBytesFits, Sizes DEF Sized
<1> HIDE DEF bytes
<1>6. bytes \in Seq(Byte) /\ FitCap(n) < Len(bytes) /\ n <= FitCap(n) /\ Len(bytes) \in Nat
    BY <1>5 DEF Fitted, Room
<1>7. part \in Seq(Byte) /\ Len(part) = n
  <2> DEFINE from == begin + 1
             to == begin + n
  <2>1. from \in 1 .. Len(u) + 1 /\ to \in 0 .. Len(u) /\ from <= to + 1 /\ to - from + 1 = n
    BY <1>1, <1>3
  <2>2. part = SubSeq(u, from, to)
    OBVIOUS
  <2> HIDE DEF part, from, to
  <2>3. SubSeq(u, from, to) \in Seq(Byte) /\ Len(SubSeq(u, from, to)) = to - from + 1
    BY <1>1, <2>1, PartIsSeq
  <2> QED
    BY <2>1, <2>2, <2>3
<1> HIDE DEF part
<1>8. GoodWrite(bytes, <<0, part>>)
  <2>1. 0 + Len(part) <= Len(bytes)
    BY <1>3, <1>5, <1>6, <1>7 DEF Fitted
  <2> QED
    BY <1>6, <1>7, <2>1, PieceFits
<1>9. GoodWrite(bytes, SetEnd(n))
    BY <1>3, <1>5, <1>6, SetEndFits DEF Fitted
<1> QED
    BY <1>4, <1>5, <1>8, <1>9, TwoGoodWrites DEF Fitted
\* Copy and CopyStr write u at the front of a block that holds the longer of the two.
LEMMA CopyRoom ==
    ASSUME IInv, StaysInBlock, NEW u \in Piece, Sized(Len(u)), Keeps(Len(u))
    PROVE  /\ Room(FitBytes(Len(u)), FitCap(Len(u)), Max({Len(u), used}))
           /\ GoodWrite(FitBytes(Len(u)), <<0, u>>)
           /\ GoodWrite(FitBytes(Len(u)), SetEnd(Max({Len(u), used})))
<1> DEFINE n == Len(u)
           bytes == FitBytes(n)
           longer == Max({n, used})
<1>1. u \in Seq(Byte) /\ n \in Nat
    BY PieceIsSeq
<1>2. longer = IF n >= used THEN n ELSE used
    BY <1>1, MaxOfTwo, Sizes
<1>3. used <= FitCap(n)
    BY DEF Keeps, StaysInBlock
<1> HIDE DEF n
<1>4. Fitted(bytes, n)
    BY <1>1, FitBytesFits, Sizes DEF Sized, n
<1> HIDE DEF bytes, longer
<1>5. /\ bytes \in Seq(Byte) /\ FitCap(n) < Len(bytes) /\ n <= FitCap(n)
      /\ Len(bytes) \in Nat /\ FitCap(n) \in Nat
    BY <1>4 DEF Fitted, Room
<1>6. longer \in 0 .. FitCap(n) /\ longer < Len(bytes)
    BY <1>1, <1>2, <1>3, <1>5, Sizes
<1>7. Room(bytes, FitCap(n), longer)
    BY <1>4, <1>6 DEF Fitted, Room
<1>8. GoodWrite(bytes, <<0, u>>)
  <2>1. 0 + Len(u) <= Len(bytes)
    BY <1>1, <1>5 DEF n
  <2> QED
    BY <1>1, <1>5, <2>1, PieceFits
<1>9. GoodWrite(bytes, SetEnd(longer))
    BY <1>5, <1>6, SetEndFits
<1> QED
    BY <1>7, <1>8, <1>9 DEF bytes, longer, n

LEMMA CopyInv ==
    ASSUME IInv, StaysInBlock, NEW u \in Piece, Copy(u)
    PROVE  IInv'
<1>1. /\ Sized(Len(u)) /\ Keeps(Len(u))
      /\ Become(FitCap(Len(u)), Max({Len(u), used}), FitBytes(Len(u)),
                <<<<0, u>>, SetEnd(Max({Len(u), used}))>>)
    BY Zenon DEF Copy
<1> QED
    BY <1>1, CopyRoom, TwoGoodWrites

LEMMA CopyStrInv ==
    ASSUME IInv, StaysInBlock, NEW u \in Piece, CopyStr(u)
    PROVE  IInv'
<1>1. /\ Sized(Len(u)) /\ Keeps(Len(u))
      /\ Become(FitCap(Len(u)), Max({Len(u), used}), FitBytes(Len(u)), <<<<0, u>>>>)
    BY Zenon DEF CopyStr
<1> QED
    BY <1>1, CopyRoom, OneGoodWrite

\* The writes of Insert, in a block that has room for them.
LEMMA InsertWritesFit ==
    ASSUME IInv, NEW pos \in 0 .. used, NEW u \in Seq(Byte), NEW newCap, NEW bytes,
           Room(bytes, newCap, used + Len(u)),
           Become(newCap, used + Len(u), bytes, InsertWrites(pos, u))
    PROVE  IInv'
<1>0. /\ used \in Nat /\ data \in Seq(Byte) /\ Len(data) \in Nat /\ used < Len(data)
      /\ pos \in Nat /\ pos <= used
    BY Sizes
<1> DEFINE tail == SubSeq(data, pos + 1, used)
<1>1. tail \in Seq(Byte) /\ Len(tail) = used - pos
  <2>1. /\ pos + 1 \in 1 .. Len(data) + 1 /\ used \in 0 .. Len(data) /\ pos + 1 <= used + 1
        /\ used - (pos + 1) + 1 = used - pos
    BY <1>0
  <2> QED
    BY <1>0, <2>1, PartIsSeq
<1> HIDE DEF tail
<1>2. /\ bytes \in Seq(Byte) /\ Len(bytes) \in Nat /\ newCap \in Int
      /\ used + Len(u) <= newCap /\ newCap < Len(bytes) /\ Len(u) \in Nat
    BY RoomSizes
<1>3. GoodWrite(bytes, <<pos + Len(u), tail>>)
  <2>1. pos + Len(u) \in Nat /\ pos + Len(u) + Len(tail) <= Len(bytes)
    <3> DEFINE n == Len(u)
               rest == Len(tail)
               room == Len(bytes)
    <3>1. /\ n \in Nat /\ rest = used - pos /\ used + n <= newCap /\ newCap < room
          /\ newCap \in Int /\ room \in Nat
        BY <1>1, <1>2
    <3> HIDE DEF n, rest, room
    <3>2. pos + n \in Nat /\ pos + n + rest <= room
        BY <1>0, <3>1
    <3> QED
        BY <3>2 DEF n, rest, room
  <2> QED
    BY <1>1, <1>2, <2>1, PieceFits
<1>4. GoodWrite(bytes, <<pos, u>>)
  <2>1. pos \in Nat /\ pos + Len(u) <= Len(bytes)
    BY <1>0, <1>2
  <2> QED
    BY <1>2, <2>1, PieceFits
<1>5. GoodWrite(bytes, SetEnd(used + Len(u)))
  <2>1. used + Len(u) \in Nat /\ used + Len(u) < Len(bytes)
    BY <1>0, <1>2
  <2> QED
    BY <1>2, <2>1, SetEndFits
<1>6. Become(newCap, used + Len(u), bytes,
             <<<<pos + Len(u), tail>>, <<pos, u>>, SetEnd(used + Len(u))>>)
    BY Zenon DEF InsertWrites, tail
<1> QED
    BY <1>3, <1>4, <1>5, <1>6, ThreeGoodWrites

LEMMA InsertInv ==
    ASSUME IInv, NEW u \in Piece, NEW pos \in 0 .. used, Insert(pos, u)
    PROVE  IInv'
<1> DEFINE n == used + Len(u)
<1>1. u \in Seq(Byte) /\ Len(u) \in Nat /\ n \in Nat
    BY PieceIsSeq, Sizes
<1>2. CASE n <= cap
  <2>1. Become(cap, n, data, InsertWrites(pos, u))
    BY <1>2, Zenon DEF Insert
  <2>2. Room(data, cap, n)
    BY <1>1, <1>2, RoomInInv, Sizes DEF Room
  <2> QED
    BY <1>1, <2>1, <2>2, InsertWritesFit
<1>3. CASE ~(n <= cap)
  <2>1. /\ cal_fit_cap(TotalSize, n + Overhead) >= MinSize
        /\ Become(FitCap(n), n, Block(data, FitCap(n) + Overhead), InsertWrites(pos, u))
    BY <1>3, Zenon DEF Insert
  <2>2. Room(Block(data, FitCap(n) + Overhead), FitCap(n), n)
    BY <1>1, <2>1, ResizedIsFitted DEF Fitted
  <2> QED
    BY <1>1, <2>1, <2>2, InsertWritesFit
<1> QED
    BY <1>2, <1>3
LEMMA AppendInv ==
    ASSUME IInv, NEW u \in Piece, Append_(u)
    PROVE  IInv'
<1> DEFINE n == used + Len(u)
           bytes == AppendBytes(n)
<1>1. u \in Seq(Byte) /\ Len(u) \in Nat /\ n \in Nat
    BY PieceIsSeq, Sizes
<1>2. /\ cal_fit_cap(TotalSize, n + Overhead) >= MinSize
      /\ Become(FitCap(n), n, bytes, <<<<used, u>>, Clean(n, FitCap(n) - n)>>)
    BY Zenon DEF Append_
<1>3. Fitted(bytes, n)
    BY <1>1, <1>2, AppendBytesFits
<1> HIDE DEF bytes
<1>4. /\ bytes \in Seq(Byte) /\ FitCap(n) < Len(bytes) /\ n <= FitCap(n)
      /\ Len(bytes) \in Nat /\ FitCap(n) \in Nat
    BY <1>3 DEF Fitted, Room
<1>5. GoodWrite(bytes, <<used, u>>)
  <2>1. used \in Nat /\ used + Len(u) <= Len(bytes)
    BY <1>1, <1>4, Sizes
  <2> QED
    BY <1>1, <1>4, <2>1, PieceFits
<1>6. GoodWrite(bytes, Clean(n, FitCap(n) - n))
  <2>1. FitCap(n) - n \in Nat /\ n + (FitCap(n) - n) <= Len(bytes)
    BY <1>1, <1>4
  <2> QED
    BY <1>1, <1>4, <2>1, CleanFits
<1> QED
    BY <1>2, <1>3, <1>5, <1>6, TwoGoodWrites DEF Fitted

\* A string that is appended to itself where it stands.
LEMMA AppendSelfIsAppend ==
    ASSUME IInv, "self_moved" \notin Cases, AppendSelf
    PROVE  LET n == used + used
           IN  /\ n \in Nat /\ FitCap(n) <= cap
               /\ cal_fit_cap(TotalSize, n + Overhead) >= MinSize
               /\ Become(FitCap(n), n, AppendBytes(n),
                         <<<<used, Value>>, Clean(n, FitCap(n) - n)>>)
<1> DEFINE n == used + used
<1>1. cal_fit_cap(TotalSize, n + Overhead) >= MinSize
    BY DEF AppendSelf
<1>2. n \in Nat /\ FitCap(n) \in Nat /\ n <= FitCap(n)
    BY <1>1, FitCapIsEnough, Sizes
<1>3. ~(FitCap(n) > cap)
    BY DEF AppendSelf
<1>4. \E u \in {Value} :
          Become(FitCap(n), used + Len(u), AppendBytes(n),
                 <<<<used, u>>, Clean(used + Len(u), Rest(FitCap(n), used + Len(u)))>>)
    BY <1>3, Zenon DEF AppendSelf
<1>5. Become(FitCap(n), used + Len(Value), AppendBytes(n),
             <<<<used, Value>>, Clean(used + Len(Value), Rest(FitCap(n), used + Len(Value)))>>)
    BY <1>4, Zenon
<1>6. used + Len(Value) = n /\ Rest(FitCap(n), n) = FitCap(n) - n
    BY <1>2, ValueIsSeq DEF Rest
<1>7. Become(FitCap(n), n, AppendBytes(n), <<<<used, Value>>, Clean(n, FitCap(n) - n)>>)
    BY <1>5, <1>6, Zenon
<1> QED
    BY <1>1, <1>2, <1>3, <1>7, Sizes

LEMMA AppendSelfInv ==
    ASSUME IInv, StaysInBlock, AppendSelf
    PROVE  IInv'
<1> DEFINE n == used + used
           bytes == AppendBytes(n)
<1>1. "self_moved" \notin Cases
    BY DEF StaysInBlock
<1>2. /\ n \in Nat /\ cal_fit_cap(TotalSize, n + Overhead) >= MinSize
      /\ Become(FitCap(n), n, bytes, <<<<used, Value>>, Clean(n, FitCap(n) - n)>>)
    BY <1>1, AppendSelfIsAppend, Zenon
<1>3. Fitted(bytes, n)
    BY <1>2, AppendBytesFits
<1> HIDE DEF bytes
<1>4. /\ bytes \in Seq(Byte) /\ FitCap(n) < Len(bytes) /\ n <= FitCap(n)
      /\ Len(bytes) \in Nat /\ FitCap(n) \in Nat
  <2>1. Room(bytes, FitCap(n), n)
    BY <1>3 DEF Fitted
  <2> HIDE DEF n
  <2> QED
    BY <2>1, RoomSizes
<1>5. GoodWrite(bytes, <<used, Value>>)
  <2>1. used \in Nat /\ Value \in Seq(Byte) /\ Len(Value) = used
    BY ValueIsSeq, Sizes
  <2>2. used + used <= Len(bytes)
    BY <1>4, <2>1
  <2> QED
    BY <1>4, <2>1, <2>2, PieceFits
<1>6. GoodWrite(bytes, Clean(n, FitCap(n) - n))
  <2>1. FitCap(n) - n \in Nat /\ n + (FitCap(n) - n) <= Len(bytes)
    BY <1>2, <1>4
  <2> QED
    BY <1>2, <1>4, <2>1, CleanFits
<1> QED
    BY <1>2, <1>3, <1>5, <1>6, TwoGoodWrites DEF Fitted

\* Operations that write over the string in place.
LEMMA InPlaceInv ==
    ASSUME IInv, NEW w \in Seq(Byte), Len(w) = used, Become(cap, used, data, <<<<0, w>>>>)
    PROVE  IInv'
<1>1. 0 + Len(w) <= Len(data) /\ data \in Seq(Byte)
    BY Sizes
<1>2. GoodWrite(data, <<0, w>>)
    BY <1>1, PieceFits
<1> QED
    BY <1>2, RoomInInv, OneGoodWrite

LEMMA ReversedIsSeq ==
    ASSUME IInv
    PROVE  /\ Reverse(Value) \in Seq(Byte)
           /\ Len(Reverse(Value)) = used
           /\ \A i \in 1 .. used : Reverse(Value)[i] = data[used - i + 1]
<1>1. /\ Value \in Seq(Byte) /\ Len(Value) = used /\ used \in Nat
      /\ \A i \in 1 .. used : Value[i] = data[i] /\ data[i] \in Byte
    BY ValueIsSeq, Sizes, ElementOfSeq
<1>2. Reverse(Value) = [i \in 1 .. used |-> Value[used - i + 1]]
    BY <1>1, Zenon DEF Reverse
<1>3. \A i \in 1 .. used : used - i + 1 \in 1 .. used
    BY <1>1
<1>4. \A i \in 1 .. used : Value[used - i + 1] = data[used - i + 1] /\ Value[used - i + 1] \in Byte
    BY <1>1, <1>3, Zenon
<1> QED
    BY <1>1, <1>2, <1>4

\* The string with the characters that map knows replaced.
Recased(map) == [i \in 1 .. used |-> IF data[i] \in DOMAIN map THEN map[data[i]] ELSE data[i]]

LEMMA RecasedIsSeq ==
    ASSUME IInv, NEW map, \A c \in DOMAIN map : map[c] \in Byte
    PROVE  Recased(map) \in Seq(Byte) /\ Len(Recased(map)) = used
<1>1. used \in Nat /\ \A i \in 1 .. used : data[i] \in Byte
    BY Sizes, ElementOfSeq
<1> QED
    BY <1>1 DEF Recased

LEMMA CasesAreBytes ==
    /\ \A c \in DOMAIN UpperOf : UpperOf[c] \in Byte
    /\ \A c \in DOMAIN LowerOf : LowerOf[c] \in Byte
<1> USE CStringAssumption
<1>1. \A c \in DOMAIN UpperOf : c \in Byte /\ UpperOf[c] \in Byte
    BY DEF Byte, Range
<1>2. ASSUME NEW c \in DOMAIN LowerOf
      PROVE  LowerOf[c] \in Byte
  <2>1. c \in Range(UpperOf)
    BY DEF LowerOf, AntiFunction, Inverse
  <2>2. LowerOf[c] = CHOOSE s \in DOMAIN UpperOf : c \in Range(UpperOf) => UpperOf[s] = c
    BY <2>1 DEF LowerOf, AntiFunction, Inverse
  <2>3. \E s \in DOMAIN UpperOf : c \in Range(UpperOf) => UpperOf[s] = c
    BY <2>1 DEF Range
  <2>4. LowerOf[c] \in DOMAIN UpperOf
    BY <2>2, <2>3
  <2> QED
    BY <1>1, <2>4
<1> QED
    BY <1>1, <1>2
LEMMA ClearInv ==
    ASSUME IInv, Clear
    PROVE  IInv'
<1>1. Become(cap, 0, data, <<Clean(0, cap)>>)
    BY DEF Clear
<1>2. 0 + cap <= Len(data) /\ data \in Seq(Byte) /\ cap \in Nat
    BY Sizes
<1>3. GoodWrite(data, Clean(0, cap))
    BY <1>2, CleanFits
<1>4. Room(data, cap, 0)
    BY <1>2, RoomInInv DEF Room
<1> QED
    BY <1>1, <1>3, <1>4, OneGoodWrite

\* A string of blanks is cut to nothing, and no byte is written.
LEMMA WipeInv ==
    ASSUME IInv, WipeLength
    PROVE  IInv'
<1> DEFINE writes == <<>>
<1>1. DOMAIN writes = 1 .. 0
    OBVIOUS
<1>2. Become(cap, 0, data, writes)
    BY DEF WipeLength
<1> HIDE DEF writes
<1>3. Room(data, cap, 0)
    BY RoomInInv, Sizes DEF Room
<1>4. \A k \in 1 .. 0 : GoodWrite(data, writes[k])
    OBVIOUS
<1> QED
    BY <1>1, <1>2, <1>3, <1>4, BecomeKeeps

LEMMA KeepInv ==
    ASSUME IInv, NEW from \in 1 .. used + 1, NEW to \in 0 .. used, from <= to + 1, Keep(from, to)
    PROVE  IInv'
<1> DEFINE n == to - from + 1
           kept == SubSeq(data, from, to)
<1>1. n \in 0 .. used /\ used - n \in Nat /\ n + (used - n) = used
    BY Sizes
<1>2. kept \in Seq(Byte) /\ Len(kept) = n
  <2>1. from \in 1 .. Len(data) + 1 /\ to \in 0 .. Len(data) /\ data \in Seq(Byte)
    BY Sizes
  <2> QED
    BY <2>1, PartIsSeq
<1>3. Become(cap, n, data, <<<<0, kept>>, Clean(n, used - n)>>)
    BY Zenon DEF Keep
<1> HIDE DEF kept, n
<1>4. Room(data, cap, n)
    BY <1>1, RoomInInv, Sizes DEF Room
<1>5. GoodWrite(data, <<0, kept>>)
  <2>1. data \in Seq(Byte) /\ 0 + Len(kept) <= Len(data)
    BY <1>1, <1>2, Sizes
  <2> QED
    BY <1>2, <2>1, PieceFits
<1>6. GoodWrite(data, Clean(n, used - n))
  <2>1. data \in Seq(Byte) /\ n \in Nat /\ n + (used - n) <= Len(data)
    BY <1>1, Sizes
  <2> QED
    BY <1>1, <2>1, CleanFits
<1> QED
    BY <1>3, <1>4, <1>5, <1>6, TwoGoodWrites

\* A trim cuts to nothing or keeps a part of the string.
LEMMA TrimsKeep ==
    ASSUME IInv
    PROVE  /\ Trim => (FirstSolid = 0 /\ WipeLength) \/ (FirstSolid # 0 /\ Keep(FirstSolid, LastSolid))
           /\ TrimHdr => (FirstSolid = 0 /\ WipeLength) \/ (FirstSolid # 0 /\ Keep(FirstSolid, used))
           /\ TrimTail => \/ LastSolid = 1 /\ "one_solid" \in Cases /\ WipeLength
                          \/ Keep(1, LastSolid)
BY Zenon DEF Trim, TrimHdr, TrimTail

LEMMA TrimsInv ==
    ASSUME IInv, Trim \/ TrimHdr \/ TrimTail
    PROVE  IInv'
<1>1. CASE WipeLength
    BY <1>1, WipeInv
<1>2. CASE FirstSolid # 0 /\ Keep(FirstSolid, LastSolid)
  <2>1. FirstSolid \in 1 .. used + 1 /\ LastSolid \in 0 .. used /\ FirstSolid <= LastSolid + 1
    BY <1>2, SolidPlaces, Sizes
  <2> QED
    BY <1>2, <2>1, KeepInv
<1>3. CASE FirstSolid # 0 /\ Keep(FirstSolid, used)
  <2>1. FirstSolid \in 1 .. used + 1 /\ used \in 0 .. used /\ FirstSolid <= used + 1
    BY <1>3, SolidPlaces, Sizes
  <2> QED
    BY <1>3, <2>1, KeepInv
<1>4. CASE Keep(1, LastSolid)
  <2>1. 1 \in 1 .. used + 1 /\ LastSolid \in 0 .. used /\ 1 <= LastSolid + 1
    BY SolidPlaces, Sizes
  <2> QED
    BY <1>4, <2>1, KeepInv
<1> QED
    BY <1>1, <1>2, <1>3, <1>4, TrimsKeep

LEMMA StepInv ==
    ASSUME IInv, StaysInBlock, [Next]_vars
    PROVE  IInv'
<1>1. CASE UNCHANGED vars
    BY <1>1 DEF vars, IInv, TypeOK, SizesAgree, NoOverrun
<1>2. CASE Clone
    BY <1>2, CloneInv
<1>3. ASSUME NEW u \in Piece, Assign(u) PROVE IInv'
    BY <1>3, AssignInv
<1>4. ASSUME NEW u \in Piece, Copy(u) PROVE IInv'
    BY <1>4, CopyInv
<1>5. ASSUME NEW u \in Piece, CopyStr(u) PROVE IInv'
    BY <1>5, CopyStrInv
<1>6. ASSUME NEW u \in Piece, Append_(u) PROVE IInv'
    BY <1>6, AppendInv
<1>7. ASSUME NEW u \in Piece, NEW pos \in 0 .. used, Insert(pos, u) PROVE IInv'
    BY <1>7, InsertInv
<1>8. ASSUME NEW u \in Piece, NEW begin \in 0 .. Len(u), NEW len \in 0 .. Len(u), Sub(u, begin, len)
      PROVE  IInv'
    BY <1>8, SubInv
<1>9. CASE AppendSelf
    BY <1>9, AppendSelfInv
<1>10. CASE Turn
  <2>1. Become(cap, used, data, <<<<0, Reverse(Value)>>>>)
    BY <1>10 DEF Turn
  <2> QED
    BY <2>1, ReversedIsSeq, InPlaceInv
<1>11. CASE ToUpper
  <2>1. Become(cap, used, data, <<<<0, Recased(UpperOf)>>>>)
    BY <1>11, Zenon DEF ToUpper, Recase, Recased
  <2> QED
    BY <2>1, RecasedIsSeq, CasesAreBytes, InPlaceInv
<1>12. CASE ToLower
  <2>1. Become(cap, used, data, <<<<0, Recased(LowerOf)>>>>)
    BY <1>12, Zenon DEF ToLower, Recase, Recased
  <2> QED
    BY <2>1, RecasedIsSeq, CasesAreBytes, InPlaceInv
<1>13. CASE Clear
    BY <1>13, ClearInv
<1>14. CASE Trim \/ TrimHdr \/ TrimTail
    BY <1>14, TrimsInv
<1> QED
    BY <1>1, <1>2, <1>3, <1>4, <1>5, <1>6, <1>7, <1>8, <1>9, <1>10, <1>11, <1>12, <1>13,
       <1>14, Zenon DEF Next

------------------------------------------------------------------------------
(* What the steps leave in the block.                                       *)

\* Which places a write covers, and what it puts there.
LEMMA PieceCovers ==
    ASSUME NEW at \in Nat, NEW w \in Seq(Byte), NEW i \in Nat
    PROVE  /\ Covers(<<at, w>>, i) <=> i \in at + 1 .. at + Len(w)
           /\ <<at, w>>[2][i - <<at, w>>[1]] = w[i - at]
<1>1. DOMAIN w = 1 .. Len(w) /\ Len(w) \in Nat
    OBVIOUS
<1>2. Covers(<<at, w>>, i) <=> i - at \in DOMAIN w
    BY DEF Covers
<1>3. i - at \in 1 .. Len(w) <=> i \in at + 1 .. at + Len(w)
    BY <1>1
<1> QED
    BY <1>1, <1>2, <1>3

LEMMA SetEndCovers ==
    ASSUME NEW n \in Nat, NEW i \in Nat
    PROVE  /\ Covers(SetEnd(n), i) <=> i = n + 1
           /\ i = n + 1 => SetEnd(n)[2][i - SetEnd(n)[1]] = Nul
<1> DEFINE terminator == <<Nul>>
<1>1. terminator \in Seq(Byte) /\ Len(terminator) = 1 /\ terminator[1] = Nul
    BY DEF Byte
<1>2. SetEnd(n) = <<n, terminator>>
    BY DEF SetEnd
<1> HIDE DEF terminator
<1>3. Covers(SetEnd(n), i) <=> i \in n + 1 .. n + 1
    BY <1>1, <1>2, PieceCovers
<1>4. i = n + 1 => i - n = 1
    OBVIOUS
<1>5. SetEnd(n)[2][i - SetEnd(n)[1]] = terminator[i - n]
    BY <1>1, <1>2, PieceCovers
<1> QED
    BY <1>1, <1>3, <1>4, <1>5

LEMMA CleanCovers ==
    ASSUME NEW from \in Nat, NEW n \in Nat, NEW i \in Nat
    PROVE  /\ Covers(Clean(from, n), i) <=> i \in from + 1 .. from + n
           /\ i \in from + 1 .. from + n => Clean(from, n)[2][i - Clean(from, n)[1]] = Nul
<1>1. /\ Fill(Nul, n) \in Seq(Byte) /\ Len(Fill(Nul, n)) = n
      /\ \A k \in 1 .. n : Fill(Nul, n)[k] = Nul
    BY FillIsSeq DEF Byte
<1> HIDE DEF Fill
<1>2. Clean(from, n) = <<from, Fill(Nul, n)>>
    BY DEF Clean
<1>3. Covers(Clean(from, n), i) <=> i \in from + 1 .. from + n
    BY <1>1, <1>2, PieceCovers
<1>4. i \in from + 1 .. from + n => i - from \in 1 .. n
    OBVIOUS
<1>5. Clean(from, n)[2][i - Clean(from, n)[1]] = Fill(Nul, n)[i - from]
    BY <1>1, <1>2, PieceCovers
<1> QED
    BY <1>1, <1>3, <1>4, <1>5

\* The byte at i where a piece was written over bytes, and where w was written over it.
Laid(bytes, at, w, i) == IF i \in at + 1 .. at + Len(w) THEN w[i - at] ELSE bytes[i]
Over(byte, w, i) == IF Covers(w, i) THEN w[2][i - w[1]] ELSE byte

LEMMA OverEnd ==
    ASSUME NEW byte, NEW n \in Nat, NEW i \in Nat
    PROVE  Over(byte, SetEnd(n), i) = IF i = n + 1 THEN Nul ELSE byte
BY SetEndCovers, Zenon DEF Over

LEMMA OverClean ==
    ASSUME NEW byte, NEW from \in Nat, NEW n \in Nat, NEW i \in Nat
    PROVE  Over(byte, Clean(from, n), i) = IF i \in from + 1 .. from + n THEN Nul ELSE byte
BY CleanCovers, Zenon DEF Over

LEMMA OverPiece ==
    ASSUME NEW byte, NEW at \in Nat, NEW w \in Seq(Byte), NEW i \in Nat
    PROVE  Over(byte, <<at, w>>, i) = IF i \in at + 1 .. at + Len(w) THEN w[i - at] ELSE byte
BY PieceCovers, Zenon DEF Over

\* An update that writes a piece at some place, and then, perhaps, something else.
LEMMA PieceLeft ==
    ASSUME NEW newCap, NEW newUsed, NEW bytes \in Seq(Byte), NEW at \in Nat,
           NEW w \in Seq(Byte), NEW i \in 1 .. Len(bytes),
           Become(newCap, newUsed, bytes, <<<<at, w>>>>)
    PROVE  data'[i] = Laid(bytes, at, w, i)
<1>1. data' = Written(bytes, <<<<at, w>>>>)
    BY DEF Become
<1>2. i \in DOMAIN bytes /\ i \in Nat
    OBVIOUS
<1> DEFINE v == <<at, w>>
<1>3. /\ Covers(v, i) <=> i \in at + 1 .. at + Len(w)
      /\ v[2][i - v[1]] = w[i - at]
    BY <1>2, PieceCovers
<1> HIDE DEF v
<1>4. data'[i] = IF Covers(v, i) THEN v[2][i - v[1]] ELSE bytes[i]
    BY <1>1, <1>2, OneWritten DEF v
<1> QED
    BY <1>3, <1>4, Zenon DEF Laid

LEMMA PieceAndMoreLeft ==
    ASSUME NEW newCap, NEW newUsed, NEW bytes \in Seq(Byte), NEW at \in Nat,
           NEW w \in Seq(Byte), NEW more, NEW i \in 1 .. Len(bytes),
           Become(newCap, newUsed, bytes, <<<<at, w>>, more>>)
    PROVE  data'[i] = Over(Laid(bytes, at, w, i), more, i)
<1>1. data' = Written(bytes, <<<<at, w>>, more>>)
    BY DEF Become
<1>2. i \in DOMAIN bytes /\ i \in Nat
    OBVIOUS
<1> DEFINE v == <<at, w>>
<1>3. /\ Covers(v, i) <=> i \in at + 1 .. at + Len(w)
      /\ v[2][i - v[1]] = w[i - at]
    BY <1>2, PieceCovers
<1> HIDE DEF v
<1>4. data'[i] = IF Covers(more, i) THEN more[2][i - more[1]]
                 ELSE IF Covers(v, i) THEN v[2][i - v[1]] ELSE bytes[i]
    BY <1>1, <1>2, TwoWritten DEF v
<1> QED
    BY <1>3, <1>4, Zenon DEF Over, Laid

LEMMA PieceAndTwoMoreLeft ==
    ASSUME NEW newCap, NEW newUsed, NEW bytes \in Seq(Byte), NEW at \in Nat,
           NEW w \in Seq(Byte), NEW more, NEW most, NEW i \in 1 .. Len(bytes),
           Become(newCap, newUsed, bytes, <<<<at, w>>, more, most>>)
    PROVE  data'[i] = Over(Over(Laid(bytes, at, w, i), more, i), most, i)
<1>1. data' = Written(bytes, <<<<at, w>>, more, most>>)
    BY DEF Become
<1>2. i \in DOMAIN bytes /\ i \in Nat
    OBVIOUS
<1> DEFINE v == <<at, w>>
<1>3. /\ Covers(v, i) <=> i \in at + 1 .. at + Len(w)
      /\ v[2][i - v[1]] = w[i - at]
    BY <1>2, PieceCovers
<1> HIDE DEF v
<1>4. data'[i] = IF Covers(most, i) THEN most[2][i - most[1]]
                 ELSE IF Covers(more, i) THEN more[2][i - more[1]]
                 ELSE IF Covers(v, i) THEN v[2][i - v[1]] ELSE bytes[i]
  <2>1. Written(bytes, <<v, more, most>>)[i] =
            IF Covers(most, i) THEN most[2][i - most[1]]
            ELSE IF Covers(more, i) THEN more[2][i - more[1]]
            ELSE IF Covers(v, i) THEN v[2][i - v[1]] ELSE bytes[i]
    BY <1>2, ThreeWritten
  <2> QED
    BY <1>1, <2>1, Zenon DEF v
<1> QED
    BY <1>3, <1>4, Zenon DEF Over, Laid

\* The value after a step is what stands at its places.
LEMMA ReadBack ==
    ASSUME IInv', NEW t \in Seq(Byte), Len(t) = used',
           \A i \in 1 .. used' : data'[i] = t[i]
    PROVE  Value' = t
<1> USE CStringAssumption
<1>1. used' \in Nat /\ cap' \in Int /\ used' <= cap' /\ cap' < Len(data')
    BY DEF IInv, TypeOK, SizesAgree, Overhead
<1>2. data' \in Seq(Byte)
    BY DEF IInv, TypeOK, Byte
<1>3. /\ SubSeq(data', 1, used') \in Seq(Byte)
      /\ Len(SubSeq(data', 1, used')) = used'
      /\ \A i \in 1 .. used' : SubSeq(data', 1, used')[i] = data'[i]
  <2>1. used' \in 0 .. Len(data')
    BY <1>1, <1>2
  <2> QED
    BY <1>2, <2>1, FrontIsSeq
<1>4. \A i \in 1 .. Len(t) : SubSeq(data', 1, used')[i] = t[i]
    BY <1>3
<1>5. SubSeq(data', 1, used') = t
    BY <1>3, <1>4, SeqEqual
<1> QED
    BY <1>5 DEF Value

\* What is left to show of a string that ends with a NUL.
LEMMA EndsWithNul ==
    ASSUME IInv', data'[used' + 1] = Nul
    PROVE  Terminated'
<1> USE CStringAssumption
<1>1. used' \in Nat /\ cap' \in Int /\ used' <= cap' /\ cap' < Len(data')
    BY DEF IInv, TypeOK, SizesAgree, Overhead
<1>2. data' \in Seq(Byte)
    BY DEF IInv, TypeOK, Byte
<1> QED
    BY <1>1, <1>2 DEF Terminated
\* Every operation: what it leaves at the places of the new value, and behind them.
LEMMA CloneLeaves ==
    ASSUME IInv, IInv', Clone
    PROVE  Value' = Value /\ Terminated'
<1> DEFINE kept == SubSeq(data, 1, cap + 1)
           bytes == Block(kept, TotalSize)
<1>1. kept \in Seq(Byte) /\ Len(kept) = cap + 1 /\ \A i \in 1 .. cap + 1 : kept[i] = data[i]
  <2>1. cap + 1 \in 0 .. Len(data) /\ data \in Seq(Byte)
    BY Sizes
  <2> QED
    BY <2>1, FrontIsSeq
<1>2. TotalSize \in Nat /\ HdrSize < TotalSize /\ TotalSize - HdrSize = cap + 1
    BY Sizes
<1>3. Become(cap, used, bytes, <<SetEnd(used)>>)
    BY Zenon DEF Clone
<1> HIDE DEF kept
<1>4. /\ bytes \in Seq(Byte) /\ Len(bytes) = cap + 1
      /\ \A i \in 1 .. cap + 1 : bytes[i] = kept[i]
  <2>1. /\ bytes \in Seq(Byte) /\ Len(bytes) = TotalSize - HdrSize
        /\ \A i \in 1 .. TotalSize - HdrSize : i <= Len(kept) => bytes[i] = kept[i]
    BY <1>1, <1>2, BlockKeeps
  <2> HIDE DEF bytes
  <2>2. \A i \in 1 .. cap + 1 : i <= Len(kept)
    BY <1>1
  <2> QED
    BY <1>2, <2>1, <2>2
<1> HIDE DEF bytes
<1>5. data' = Written(bytes, <<SetEnd(used)>>) /\ used' = used
    BY <1>3 DEF Become
<1>6. ASSUME NEW i \in 1 .. cap + 1
      PROVE  data'[i] = IF i = used + 1 THEN Nul ELSE data[i]
  <2>1. i \in DOMAIN bytes /\ i \in Nat /\ used \in Nat
    BY <1>4, Sizes
  <2>2. data'[i] = IF Covers(SetEnd(used), i) THEN SetEnd(used)[2][i - SetEnd(used)[1]] ELSE bytes[i]
    BY <1>5, <2>1, OneWritten, Zenon
  <2>3. bytes[i] = data[i]
    BY <1>1, <1>4
  <2> QED
    BY <2>1, <2>2, <2>3, SetEndCovers, Zenon
<1>7. Value' = Value
  <2>1. \A i \in 1 .. used : i \in 1 .. cap + 1 /\ i # used + 1
    BY Sizes
  <2>2. \A i \in 1 .. used : data'[i] = Value[i]
    BY <1>6, <2>1, ValueIsSeq
  <2> QED
    BY <1>5, <2>2, ValueIsSeq, ReadBack
<1>8. Terminated'
  <2>1. used + 1 \in 1 .. cap + 1
    BY Sizes
  <2> QED
    BY <1>5, <1>6, <2>1, EndsWithNul
<1> QED
    BY <1>7, <1>8

LEMMA AssignLeaves ==
    ASSUME IInv, IInv', NEW u \in Piece, Assign(u)
    PROVE  Value' = u /\ Terminated'
<1> DEFINE n == Len(u)
           bytes == FitBytes(n)
           clean == Clean(n, FitCap(n) - n)
<1>1. u \in Seq(Byte) /\ n \in Nat
    BY PieceIsSeq
<1>2. Become(FitCap(n), n, bytes, <<<<0, u>>, clean, SetEnd(n)>>)
    BY Zenon DEF Assign
<1>3. Fitted(bytes, n)
    BY <1>1, FitBytesFits, Sizes DEF Assign, Sized
<1> HIDE DEF bytes, clean
<1>4. /\ bytes \in Seq(Byte) /\ FitCap(n) < Len(bytes) /\ n <= FitCap(n)
      /\ Len(bytes) \in Nat /\ FitCap(n) \in Nat /\ FitCap(n) - n \in Nat
    BY <1>1, <1>3 DEF Fitted, Room
<1>5. used' = n
    BY <1>2 DEF Become
<1>6. ASSUME NEW i \in 1 .. n + 1
      PROVE  data'[i] = IF i = n + 1 THEN Nul ELSE u[i]
  <2>1. i \in 1 .. Len(bytes) /\ i \in Nat
    BY <1>1, <1>4
  <2>2. data'[i] = Over(Over(Laid(bytes, 0, u, i), clean, i), SetEnd(n), i)
    BY <1>1, <1>2, <1>4, <2>1, PieceAndTwoMoreLeft
  <2>3. CASE i = n + 1
    BY <1>1, <2>1, <2>2, <2>3, OverEnd
  <2>4. CASE i # n + 1
    <3>1. i \in 0 + 1 .. 0 + Len(u) /\ i - 0 = i /\ i \notin n + 1 .. n + (FitCap(n) - n)
        BY <1>1, <1>4, <2>4
    <3>2. Laid(bytes, 0, u, i) = u[i]
        BY <3>1 DEF Laid
    <3>3. Over(u[i], clean, i) = u[i]
        BY <1>1, <1>4, <2>1, <3>1, OverClean DEF clean
    <3>4. Over(u[i], SetEnd(n), i) = u[i]
        BY <1>1, <2>1, <2>4, OverEnd
    <3> QED
        BY <2>2, <2>4, <3>2, <3>3, <3>4
  <2> QED
    BY <2>3, <2>4
<1>7. \A i \in 1 .. n : data'[i] = u[i]
    BY <1>1, <1>6
<1>8. data'[n + 1] = Nul
    BY <1>1, <1>6
<1>9. Value' = u
    BY <1>1, <1>5, <1>7, ReadBack
<1>10. Terminated'
    BY <1>5, <1>8, EndsWithNul
<1> QED
    BY <1>9, <1>10

LEMMA SubLeaves ==
    ASSUME IInv, IInv', NEW u \in Piece, NEW begin \in 0 .. Len(u), NEW len \in 0 .. Len(u),
           Sub(u, begin, len)
    PROVE  /\ \E from, to \in 0 .. Len(u) : Value' = SubSeq(u, from + 1, to)
           /\ Terminated'
<1> DEFINE n == Min({len, Len(u) - begin})
           bytes == FitBytes(n)
           to == begin + n
           part == SubSeq(u, begin + 1, to)
<1>1. u \in Seq(Byte) /\ Len(u) \in Nat
    BY PieceIsSeq
<1>2. len \in Nat /\ Len(u) - begin \in Nat
    BY <1>1
<1>3. n \in 0 .. Len(u) - begin
    BY <1>2, MinOfTwo
<1>4. Sized(n) /\ Become(FitCap(n), n, bytes, <<<<0, part>>, SetEnd(n)>>)
    BY Zenon DEF Sub
<1> HIDE DEF n
<1>5. Fitted(bytes, n)
    BY <1>3, <1>4, FitBytesFits, Sizes DEF Sized
<1> HIDE DEF bytes
<1>6. bytes \in Seq(Byte) /\ FitCap(n) < Len(bytes) /\ n <= FitCap(n) /\ Len(bytes) \in Nat
      /\ FitCap(n) \in Nat /\ n \in Nat
    BY <1>3, <1>5 DEF Fitted, Room
<1>7. part \in Seq(Byte) /\ Len(part) = n
  <2> DEFINE from == begin + 1
  <2>1. from \in 1 .. Len(u) + 1 /\ to \in 0 .. Len(u) /\ from <= to + 1 /\ to - from + 1 = n
    BY <1>1, <1>3
  <2>2. part = SubSeq(u, from, to)
    OBVIOUS
  <2> HIDE DEF part, from, to
  <2>3. SubSeq(u, from, to) \in Seq(Byte) /\ Len(SubSeq(u, from, to)) = to - from + 1
    BY <1>1, <2>1, PartIsSeq
  <2> QED
    BY <2>1, <2>2, <2>3
<1>8. to \in 0 .. Len(u)
    BY <1>1, <1>3
<1>9. used' = n
    BY <1>4 DEF Become
<1>10. \E f, t \in 0 .. Len(u) : part = SubSeq(u, f + 1, t)
    BY <1>8
<1> HIDE DEF part, to
<1>11. ASSUME NEW i \in 1 .. n + 1
       PROVE  data'[i] = IF i = n + 1 THEN Nul ELSE part[i]
  <2>1. i \in 1 .. Len(bytes) /\ i \in Nat
    BY <1>6
  <2>2. data'[i] = Over(Laid(bytes, 0, part, i), SetEnd(n), i)
    BY <1>4, <1>6, <1>7, <2>1, PieceAndMoreLeft
  <2>3. i # n + 1 => i \in 0 + 1 .. 0 + Len(part) /\ i - 0 = i
    BY <1>6, <1>7
  <2>4. i # n + 1 => Laid(bytes, 0, part, i) = part[i]
    BY <2>3 DEF Laid
  <2> QED
    BY <1>6, <2>1, <2>2, <2>4, OverEnd
<1>12. \A i \in 1 .. n : data'[i] = part[i]
    BY <1>6, <1>11
<1>13. data'[n + 1] = Nul
    BY <1>6, <1>11
<1>14. Value' = part
    BY <1>7, <1>9, <1>12, ReadBack
<1>15. Terminated'
    BY <1>9, <1>13, EndsWithNul
<1> QED
    BY <1>10, <1>14, <1>15
\* What Overwrite and Insert of TextBuffer make of a text v.
LEMMA ConcatIsSeq ==
    ASSUME NEW v \in Seq(Byte), NEW w \in Seq(Byte)
    PROVE  /\ v \o w \in Seq(Byte)
           /\ Len(v \o w) = Len(v) + Len(w)
           /\ \A i \in 1 .. Len(v) : (v \o w)[i] = v[i]
           /\ \A i \in Len(v) + 1 .. Len(v) + Len(w) : (v \o w)[i] = w[i - Len(v)]
<1> DEFINE both == v \o w
<1>1. /\ both \in Seq(Byte)
      /\ Len(both) = Len(v) + Len(w)
      /\ \A i \in 1 .. Len(v) + Len(w) : both[i] = IF i <= Len(v) THEN v[i] ELSE w[i - Len(v)]
    BY ConcatProperties
<1>2. Len(v) \in Nat /\ Len(w) \in Nat
    OBVIOUS
<1> HIDE DEF both
<1>3. \A i \in 1 .. Len(v) : both[i] = v[i]
    BY <1>1, <1>2
<1>4. \A i \in Len(v) + 1 .. Len(v) + Len(w) : both[i] = w[i - Len(v)]
    BY <1>1, <1>2
<1> QED
    BY <1>1, <1>3, <1>4, Zenon DEF both

LEMMA OverwriteIsSeq ==
    ASSUME NEW v \in Seq(Byte), NEW u \in Seq(Byte), NEW t,
           t = u \o SubSeq(v, Len(u) + 1, Len(v))
    PROVE  /\ t \in Seq(Byte)
           /\ Len(t) = IF Len(u) >= Len(v) THEN Len(u) ELSE Len(v)
           /\ \A i \in 1 .. Len(t) : t[i] = IF i <= Len(u) THEN u[i] ELSE v[i]
<1> DEFINE n == Len(u)
           from == n + 1
           to == Len(v)
           rest == SubSeq(v, from, to)
<1>1. n \in Nat /\ to \in Nat
    OBVIOUS
<1> HIDE DEF n, to
<1>2. CASE n >= to
  <2>1. from \in Int /\ to \in Int /\ to < from
    BY <1>1, <1>2
  <2>2. rest = <<>>
    BY <2>1, SubSeqEmpty
  <2>3. t = u
    BY <2>2, ConcatEmptySeq DEF n, to
  <2> QED
    BY <1>1, <1>2, <2>3 DEF n, to
<1>3. CASE ~(n >= to)
  <2>1. from \in 1 .. Len(v) + 1 /\ to \in 0 .. Len(v) /\ from <= to + 1 /\ to - from + 1 = to - n
    BY <1>1, <1>3 DEF to
  <2> HIDE DEF from
  <2>2. /\ rest \in Seq(Byte) /\ Len(rest) = to - from + 1
        /\ \A i \in 1 .. to - from + 1 : rest[i] = v[from + i - 1]
    BY <2>1, PartIsSeq
  <2>3. t = u \o rest
    BY DEF from, n, to
  <2> HIDE DEF rest
  <2>4. /\ t \in Seq(Byte) /\ Len(t) = n + Len(rest)
        /\ \A i \in 1 .. n : t[i] = u[i]
        /\ \A i \in n + 1 .. n + Len(rest) : t[i] = rest[i - n]
    BY <2>2, <2>3, ConcatIsSeq DEF n
  <2>5. Len(rest) = to - n /\ n + Len(rest) = to
    BY <1>1, <2>1, <2>2
  <2>6. ASSUME NEW i \in n + 1 .. to
        PROVE  t[i] = v[i]
    <3>1. i - n \in 1 .. to - from + 1 /\ from + (i - n) - 1 = i
        BY <1>1, <2>1 DEF from
    <3> QED
        BY <2>2, <2>4, <2>5, <3>1
  <2>7. \A i \in 1 .. to : t[i] = IF i <= n THEN u[i] ELSE v[i]
    <3>1. \A i \in 1 .. to : (i <= n => i \in 1 .. n) /\ (~(i <= n) => i \in n + 1 .. to)
        BY <1>1
    <3> QED
        BY <2>4, <2>6, <3>1, Zenon
  <2> QED
    BY <1>1, <1>3, <2>4, <2>5, <2>7 DEF n, to
<1> QED
    BY <1>2, <1>3

LEMMA CopyLeaves ==
    ASSUME IInv, IInv', StaysInBlock, NEW u \in Piece, Copy(u) \/ CopyStr(u)
    PROVE  /\ Value' = u \o SubSeq(Value, Len(u) + 1, Len(Value))
           /\ Copy(u) => Terminated'
<1> DEFINE n == Len(u)
           bytes == FitBytes(n)
           longer == Max({n, used})
           t == u \o SubSeq(Value, Len(u) + 1, Len(Value))
<1>1. u \in Seq(Byte) /\ n \in Nat /\ used \in Nat
    BY PieceIsSeq, Sizes
<1>2. longer = IF n >= used THEN n ELSE used
    BY <1>1, MaxOfTwo
<1>3. Sized(n) /\ Keeps(n)
    BY Zenon DEF Copy, CopyStr
<1>4. \/ Become(FitCap(n), longer, bytes, <<<<0, u>>, SetEnd(longer)>>)
      \/ Become(FitCap(n), longer, bytes, <<<<0, u>>>>) /\ ~Copy(u)
    BY Zenon DEF Copy, CopyStr
<1>5. Copy(u) => Become(FitCap(n), longer, bytes, <<<<0, u>>, SetEnd(longer)>>)
    BY Zenon DEF Copy
<1>6. /\ t \in Seq(Byte) /\ Len(t) = longer
      /\ \A i \in 1 .. longer : t[i] = IF i <= n THEN u[i] ELSE data[i]
  <2>1. Value \in Seq(Byte) /\ Len(Value) = used /\ \A i \in 1 .. used : Value[i] = data[i]
    BY ValueIsSeq
  <2>2. /\ t \in Seq(Byte)
        /\ Len(t) = IF n >= used THEN n ELSE used
        /\ \A i \in 1 .. Len(t) : t[i] = IF i <= n THEN u[i] ELSE Value[i]
    BY <1>1, <2>1, OverwriteIsSeq
  <2> HIDE DEF t, n, longer
  <2>3. ASSUME NEW i \in 1 .. longer, ~(i <= n)
        PROVE  Value[i] = data[i]
    BY <1>1, <1>2, <2>1, <2>3
  <2> QED
    BY <1>2, <2>2, <2>3
<1>7. Fitted(bytes, n)
    BY <1>1, <1>3, FitBytesFits, Sizes DEF Sized
<1>8. used <= FitCap(n)
    BY <1>3 DEF Keeps, StaysInBlock
<1> HIDE DEF bytes, longer, t
<1>9. /\ bytes \in Seq(Byte) /\ Len(bytes) \in Nat /\ FitCap(n) < Len(bytes) /\ n <= FitCap(n)
      /\ FitCap(n) \in Nat /\ longer \in Nat /\ longer < Len(bytes)
    BY <1>1, <1>2, <1>7, <1>8 DEF Fitted, Room
<1>10. used' = longer
    BY <1>4 DEF Become
<1>11. ASSUME NEW i \in 1 .. longer
       PROVE  Laid(bytes, 0, u, i) = t[i]
  <2>1. CASE i <= n
    <3>1. i \in 0 + 1 .. 0 + Len(u) /\ i - 0 = i
        BY <1>1, <1>9, <2>1
    <3> QED
        BY <1>6, <2>1, <3>1 DEF Laid
  <2>2. CASE ~(i <= n)
    <3>1. i \notin 0 + 1 .. 0 + Len(u)
        BY <1>1, <1>9, <2>2
    <3>2. i \in 1 .. FitCap(n) + 1 /\ i <= Len(data)
        BY <1>1, <1>2, <1>8, <1>9, <2>2, Sizes
    <3>3. bytes[i] = data[i]
        BY <1>7, <3>2 DEF Fitted
    <3> QED
        BY <1>6, <2>2, <3>1, <3>3 DEF Laid
  <2> QED
    BY <2>1, <2>2
<1>12. ASSUME NEW i \in 1 .. longer
       PROVE  data'[i] = t[i]
  <2>1. i \in 1 .. Len(bytes) /\ i \in Nat /\ i # longer + 1
    BY <1>9
  <2>2. CASE Become(FitCap(n), longer, bytes, <<<<0, u>>, SetEnd(longer)>>)
    <3>1. data'[i] = Over(Laid(bytes, 0, u, i), SetEnd(longer), i)
        BY <1>1, <1>9, <2>1, <2>2, PieceAndMoreLeft
    <3> QED
        BY <1>9, <1>11, <2>1, <3>1, OverEnd
  <2>3. CASE Become(FitCap(n), longer, bytes, <<<<0, u>>>>)
    <3>1. data'[i] = Laid(bytes, 0, u, i)
        BY <1>1, <1>9, <2>1, <2>3, PieceLeft
    <3> QED
        BY <1>11, <3>1
  <2> QED
    BY <1>4, <2>2, <2>3
<1>13. Value' = t
    BY <1>6, <1>10, <1>12, ReadBack
<1>14. ASSUME Copy(u)
       PROVE  Terminated'
  <2>1. longer + 1 \in 1 .. Len(bytes) /\ longer + 1 \in Nat
    BY <1>9
  <2>2. data'[longer + 1] = Over(Laid(bytes, 0, u, longer + 1), SetEnd(longer), longer + 1)
    BY <1>1, <1>5, <1>9, <1>14, <2>1, PieceAndMoreLeft
  <2>3. data'[longer + 1] = Nul
    BY <1>9, <2>1, <2>2, OverEnd
  <2> QED
    BY <1>10, <2>3, EndsWithNul
<1> QED
    BY <1>13, <1>14 DEF t
LEMMA AppendedLeaves ==
    ASSUME IInv, IInv', NEW w \in Seq(Byte), NEW n \in Nat, n = used + Len(w), NEW bytes,
           Fitted(bytes, n),
           Become(FitCap(n), n, bytes, <<<<used, w>>, Clean(n, FitCap(n) - n)>>)
    PROVE  /\ Value' = Value \o w
           /\ Terminated' \/ used' = cap'
<1> DEFINE t == Value \o w
           rest == FitCap(n) - n
           clean == Clean(n, rest)
<1>0. Become(FitCap(n), n, bytes, <<<<used, w>>, clean>>)
    OBVIOUS
<1>1. /\ bytes \in Seq(Byte) /\ Len(bytes) \in Nat /\ FitCap(n) < Len(bytes)
      /\ n <= FitCap(n) /\ FitCap(n) \in Nat /\ rest \in Nat /\ used \in Nat /\ Len(w) \in Nat
  <2>1. /\ bytes \in Seq(Byte) /\ FitCap(n) < Len(bytes) /\ n <= FitCap(n) /\ FitCap(n) \in Nat
    BY Zenon DEF Fitted, Room
  <2>2. used \in Nat
    BY Sizes
  <2> QED
    BY <2>1, <2>2
<1>2. /\ t \in Seq(Byte) /\ Len(t) = n
      /\ \A i \in 1 .. used : t[i] = data[i]
      /\ \A i \in used + 1 .. n : t[i] = w[i - used]
  <2>1. Value \in Seq(Byte) /\ Len(Value) = used /\ \A i \in 1 .. used : Value[i] = data[i]
    BY ValueIsSeq
  <2>2. /\ t \in Seq(Byte) /\ Len(t) = Len(Value) + Len(w)
        /\ \A i \in 1 .. Len(Value) : t[i] = Value[i]
        /\ \A i \in Len(Value) + 1 .. Len(Value) + Len(w) : t[i] = w[i - Len(Value)]
    BY <2>1, ConcatIsSeq, Zenon
  <2>3. /\ \A i \in 1 .. used : t[i] = Value[i]
        /\ \A i \in used + 1 .. n : t[i] = w[i - used]
        /\ t \in Seq(Byte) /\ Len(t) = n
    BY <2>1, <2>2, Zenon
  <2> HIDE DEF t
  <2>4. \A i \in 1 .. used : t[i] = data[i]
    BY <2>1, <2>3
  <2> QED
    BY <2>3, <2>4, Zenon
<1>1a. n # FitCap(n) => n + 1 \in n + 1 .. n + rest
    BY <1>1, SMTT(20)
<1> HIDE DEF t, rest, clean
<1>3. used' = n /\ cap' = FitCap(n)
    BY DEF Become
<1>4. ASSUME NEW i \in 1 .. n
      PROVE  data'[i] = t[i]
  <2>1. i \in 1 .. Len(bytes) /\ i \in Nat /\ i \notin n + 1 .. n + rest
    BY <1>1
  <2>2. data'[i] = Over(Laid(bytes, used, w, i), clean, i)
    BY <1>0, <1>1, <2>1, PieceAndMoreLeft
  <2>3. data'[i] = Laid(bytes, used, w, i)
    BY <1>1, <2>1, <2>2, OverClean DEF clean
  <2>4. CASE i <= used
    <3>1. i \in 1 .. used /\ i \notin used + 1 .. used + Len(w)
        BY <1>1, <2>4
    <3>2. i \in 1 .. FitCap(n) + 1
        BY <1>1
    <3>3. i <= Len(data)
        BY <2>4, Sizes
    <3>4. bytes[i] = data[i]
        BY <3>2, <3>3, Zenon DEF Fitted
    <3> QED
        BY <1>2, <2>3, <3>1, <3>4 DEF Laid
  <2>5. CASE ~(i <= used)
    <3>1. i \in used + 1 .. n /\ i \in used + 1 .. used + Len(w)
        BY <1>1, <2>5
    <3> QED
        BY <1>2, <2>3, <3>1 DEF Laid
  <2> QED
    BY <2>4, <2>5
<1>5. Value' = t
    BY <1>2, <1>3, <1>4, ReadBack
<1>6. ASSUME n # FitCap(n)
      PROVE  Terminated'
  <2> DEFINE i == n + 1
  <2>1. i \in 1 .. Len(bytes) /\ i \in Nat /\ i \in n + 1 .. n + rest
    BY <1>1, <1>1a, <1>6
  <2> HIDE DEF i
  <2>2. data'[i] = Over(Laid(bytes, used, w, i), clean, i)
    BY <1>0, <1>1, <2>1, PieceAndMoreLeft
  <2>3. data'[n + 1] = Nul
    BY <1>1, <2>1, <2>2, OverClean DEF clean, i
  <2> QED
    BY <1>3, <2>3, EndsWithNul
<1> QED
    BY <1>3, <1>5, <1>6 DEF t

LEMMA AppendLeaves ==
    ASSUME IInv, IInv', NEW u \in Piece, Append_(u)
    PROVE  /\ Value' = Value \o u
           /\ Terminated' \/ used' = cap'
<1> DEFINE n == used + Len(u)
           bytes == AppendBytes(n)
<1>1. u \in Seq(Byte) /\ Len(u) \in Nat /\ n \in Nat
    BY PieceIsSeq, Sizes
<1>2. /\ cal_fit_cap(TotalSize, n + Overhead) >= MinSize
      /\ Become(FitCap(n), n, bytes, <<<<used, u>>, Clean(n, FitCap(n) - n)>>)
    BY Zenon DEF Append_
<1>3. Fitted(bytes, n)
    BY <1>1, <1>2, AppendBytesFits
<1>4. n = used + Len(u)
    OBVIOUS
<1> HIDE DEF n, bytes
<1> QED
    BY <1>1, <1>2, <1>3, <1>4, AppendedLeaves

LEMMA AppendSelfLeaves ==
    ASSUME IInv, IInv', "self_moved" \notin Cases, AppendSelf
    PROVE  /\ Value' = Value \o Value
           /\ Terminated' \/ used' = cap'
<1> DEFINE n == used + used
           bytes == AppendBytes(n)
<1>1. /\ n \in Nat /\ cal_fit_cap(TotalSize, n + Overhead) >= MinSize
      /\ Become(FitCap(n), n, bytes, <<<<used, Value>>, Clean(n, FitCap(n) - n)>>)
    BY AppendSelfIsAppend, Zenon
<1>2. Fitted(bytes, n)
    BY <1>1, AppendBytesFits
<1>3. Value \in Seq(Byte) /\ n = used + Len(Value)
    BY ValueIsSeq
<1> HIDE DEF n, bytes
<1> QED
    BY <1>1, <1>2, <1>3, AppendedLeaves

\* Insert at pos, in a block that has room: the tail is moved behind the piece before
\* the piece is written.
LEMMA InsertedLeaves ==
    ASSUME IInv, IInv', NEW pos \in 0 .. used, NEW u \in Seq(Byte), NEW newCap, NEW bytes,
           Room(bytes, newCap, used + Len(u)),
           \A i \in 1 .. used : bytes[i] = data[i],
           Become(newCap, used + Len(u), bytes, InsertWrites(pos, u))
    PROVE  /\ Value' = SubSeq(Value, 1, pos) \o u \o SubSeq(Value, pos + 1, Len(Value))
           /\ Terminated'
<1> DEFINE k == Len(u)
           n == used + k
           front == SubSeq(Value, 1, pos)
           tail == SubSeq(Value, pos + 1, Len(Value))
           moved == SubSeq(data, pos + 1, used)
           t == front \o u \o tail
<1>1. /\ bytes \in Seq(Byte) /\ Len(bytes) \in Nat /\ newCap \in Int
      /\ n <= newCap /\ newCap < Len(bytes) /\ k \in Nat /\ used \in Nat /\ pos \in Nat
      /\ pos <= used
    BY Sizes, RoomSizes
<1>2. front \in Seq(Byte) /\ Len(front) = pos /\ \A i \in 1 .. pos : front[i] = data[i]
  <2>1. pos \in 0 .. Len(Value) /\ Value \in Seq(Byte) /\ \A i \in 1 .. pos : Value[i] = data[i]
    BY <1>1, ValueIsSeq
  <2> QED
    BY <2>1, FrontIsSeq
<1>3. /\ tail \in Seq(Byte) /\ Len(tail) = used - pos
      /\ \A i \in 1 .. used - pos : tail[i] = data[pos + i]
  <2> DEFINE from == pos + 1
  <2>1. /\ Value \in Seq(Byte) /\ Len(Value) = used /\ \A i \in 1 .. used : Value[i] = data[i]
    BY ValueIsSeq
  <2>2. from \in 1 .. Len(Value) + 1 /\ used \in 0 .. Len(Value) /\ from <= used + 1
    BY <1>1, <2>1
  <2>3. tail = SubSeq(Value, from, used)
    BY <2>1
  <2>4. /\ used - from + 1 = used - pos
        /\ \A i \in 1 .. used - pos : from + i - 1 = pos + i /\ pos + i \in 1 .. used
    BY <1>1
  <2> HIDE DEF tail, from
  <2>5. /\ tail \in Seq(Byte) /\ Len(tail) = used - from + 1
        /\ \A i \in 1 .. used - from + 1 : tail[i] = Value[from + i - 1]
    BY <2>1, <2>2, <2>3, PartIsSeq
  <2> QED
    BY <2>1, <2>4, <2>5
<1>4. /\ moved \in Seq(Byte) /\ Len(moved) = used - pos
      /\ \A i \in 1 .. used - pos : moved[i] = data[pos + i]
  <2> DEFINE from == pos + 1
  <2>1. from \in 1 .. Len(data) + 1 /\ used \in 0 .. Len(data) /\ from <= used + 1 /\ data \in Seq(Byte)
    BY <1>1, Sizes
  <2>2. moved = SubSeq(data, from, used)
    OBVIOUS
  <2>3. used - from + 1 = used - pos /\ \A i \in 1 .. used - pos : from + i - 1 = pos + i
    BY <1>1
  <2> HIDE DEF moved, from
  <2>4. /\ moved \in Seq(Byte) /\ Len(moved) = used - from + 1
        /\ \A i \in 1 .. used - from + 1 : moved[i] = data[from + i - 1]
    BY <2>1, <2>2, PartIsSeq
  <2> QED
    BY <2>3, <2>4
<1>5. Become(newCap, n, bytes, <<<<pos + k, moved>>, <<pos, u>>, SetEnd(n)>>)
    BY Zenon DEF InsertWrites
<1> HIDE DEF front, tail, moved
<1> DEFINE place == pos + k
           piece == <<pos, u>>
           end == SetEnd(n)
<1>5a. Become(newCap, n, bytes, <<<<place, moved>>, piece, end>>)
    BY <1>5
<1>6. /\ t \in Seq(Byte) /\ Len(t) = n
      /\ \A i \in 1 .. pos : t[i] = data[i]
      /\ \A i \in pos + 1 .. pos + k : t[i] = u[i - pos]
      /\ \A i \in pos + k + 1 .. n : t[i] = data[i - k]
  <2> DEFINE head == front \o u
  <2>1. /\ head \in Seq(Byte) /\ Len(head) = pos + k
        /\ \A i \in 1 .. pos : head[i] = data[i]
        /\ \A i \in pos + 1 .. pos + k : head[i] = u[i - pos]
    BY <1>2, ConcatIsSeq
  <2> HIDE DEF head
  <2>2. /\ t \in Seq(Byte) /\ Len(t) = pos + k + (used - pos)
        /\ \A i \in 1 .. pos + k : t[i] = head[i]
        /\ \A i \in pos + k + 1 .. pos + k + (used - pos) : t[i] = tail[i - (pos + k)]
    <3>1. t = head \o tail
        BY DEF head
    <3> HIDE DEF t
    <3>2. /\ t \in Seq(Byte) /\ Len(t) = Len(head) + Len(tail)
          /\ \A i \in 1 .. Len(head) : t[i] = head[i]
          /\ \A i \in Len(head) + 1 .. Len(head) + Len(tail) : t[i] = tail[i - Len(head)]
        BY <1>3, <2>1, <3>1, ConcatIsSeq, Zenon
    <3> QED
        BY <1>3, <2>1, <3>2, Zenon
  <2> HIDE DEF t
  <2>3. pos + k + (used - pos) = n
    BY <1>1
  <2>4. \A i \in pos + 1 .. pos + k : i \in 1 .. pos + k
    BY <1>1
  <2>5. \A i \in 1 .. pos : i \in 1 .. pos + k
    BY <1>1
  <2>6. ASSUME NEW i \in pos + k + 1 .. n
        PROVE  t[i] = data[i - k]
    <3>1. i - (pos + k) \in 1 .. used - pos /\ pos + (i - (pos + k)) = i - k
        BY <1>1
    <3> QED
        BY <1>3, <2>2, <2>3, <3>1
  <2> QED
    BY <2>1, <2>2, <2>3, <2>4, <2>5, <2>6
<1> HIDE DEF t
<1>7. used' = n
    BY <1>5 DEF Become
<1>7a. place \in Nat /\ n \in Nat /\ place = pos + k /\ place <= n
    BY <1>1
<1> HIDE DEF place, piece, end
<1>8. ASSUME NEW i \in 1 .. Len(bytes)
      PROVE  data'[i] = Over(Over(Laid(bytes, place, moved, i), piece, i), end, i)
    BY <1>1, <1>4, <1>5a, <1>7a, PieceAndTwoMoreLeft
<1>9. ASSUME NEW i \in 1 .. n
      PROVE  data'[i] = t[i]
  <2> DEFINE under == Laid(bytes, place, moved, i)
  <2>1. i \in 1 .. Len(bytes) /\ i \in Nat /\ i # n + 1
    BY <1>1, <1>7a
  <2>2. data'[i] = Over(Over(under, piece, i), end, i)
    BY <1>8, <2>1
  <2> HIDE DEF under
  <2>3. data'[i] = Over(under, piece, i)
    BY <1>7a, <2>1, <2>2, OverEnd DEF end
  <2>4. Over(under, piece, i) = IF i \in pos + 1 .. pos + Len(u) THEN u[i - pos] ELSE under
    BY <1>1, <2>1, OverPiece DEF piece
  <2>5. CASE i <= pos
    <3>1. /\ i \notin pos + 1 .. pos + Len(u) /\ i \notin place + 1 .. place + Len(moved)
          /\ i \in 1 .. pos /\ i \in 1 .. used
        BY <1>1, <1>4, <1>7a, <2>5
    <3>2. under = data[i]
        BY <3>1 DEF under, Laid
    <3> QED
        BY <1>6, <2>3, <2>4, <3>1, <3>2
  <2>6. CASE i \in pos + 1 .. pos + k
    BY <1>6, <2>3, <2>4, <2>6
  <2>7. CASE i > pos + k
    <3>1. /\ i \notin pos + 1 .. pos + Len(u) /\ i \in place + 1 .. place + Len(moved)
          /\ i - place \in 1 .. used - pos /\ pos + (i - place) = i - k
          /\ i \in pos + k + 1 .. n
        BY <1>1, <1>4, <1>7a, <2>7
    <3>2. under = moved[i - place]
        BY <3>1 DEF under, Laid
    <3>3. under = data[i - k]
        BY <1>4, <3>1, <3>2
    <3> QED
        BY <1>6, <2>3, <2>4, <3>1, <3>3
  <2> QED
    BY <1>1, <2>5, <2>6, <2>7
<1>10. data'[n + 1] = Nul
  <2>1. n + 1 \in 1 .. Len(bytes) /\ n + 1 \in Nat /\ n \in Nat
    BY <1>1
  <2> QED
    BY <1>8, <2>1, OverEnd DEF end
<1>11. Value' = t
    BY <1>6, <1>7, <1>9, ReadBack
<1>12. Terminated'
    BY <1>7, <1>10, EndsWithNul
<1> QED
    BY <1>11, <1>12 DEF t, front, tail
LEMMA InsertLeaves ==
    ASSUME IInv, IInv', NEW u \in Piece, NEW pos \in 0 .. used, Insert(pos, u)
    PROVE  /\ Value' = SubSeq(Value, 1, pos) \o u \o SubSeq(Value, pos + 1, Len(Value))
           /\ Terminated'
<1> DEFINE n == used + Len(u)
           bytes == Block(data, FitCap(n) + Overhead)
<1>1. u \in Seq(Byte) /\ Len(u) \in Nat /\ n \in Nat /\ used \in Nat /\ used <= n
    BY PieceIsSeq, Sizes
<1>2. CASE n <= cap
  <2>1. Become(cap, n, data, InsertWrites(pos, u))
    BY <1>2, Zenon DEF Insert
  <2>2. Room(data, cap, n)
    BY <1>1, <1>2, RoomInInv, Sizes DEF Room
  <2>3. \A i \in 1 .. used : data[i] = data[i]
    OBVIOUS
  <2> QED
    BY <1>1, <2>1, <2>2, <2>3, InsertedLeaves
<1>3. CASE ~(n <= cap)
  <2>1. /\ cal_fit_cap(TotalSize, n + Overhead) >= MinSize
        /\ Become(FitCap(n), n, bytes, InsertWrites(pos, u))
    BY <1>3, Zenon DEF Insert
  <2>2. Fitted(bytes, n)
    BY <1>1, <2>1, ResizedIsFitted
  <2> HIDE DEF bytes
  <2>3. Room(bytes, FitCap(n), n)
    BY <2>2 DEF Fitted
  <2>4. ASSUME NEW i \in 1 .. used
        PROVE  bytes[i] = data[i]
    <3>1. FitCap(n) \in Nat /\ n <= FitCap(n)
        BY <2>2 DEF Fitted
    <3>2. i \in 1 .. FitCap(n) + 1
        BY <1>1, <3>1
    <3>3. i <= Len(data)
        BY Sizes
    <3> QED
        BY <2>2, <3>2, <3>3, Zenon DEF Fitted
  <2> QED
    BY <1>1, <2>1, <2>3, <2>4, InsertedLeaves
<1> QED
    BY <1>2, <1>3

\* An operation in place leaves what it writes, and the byte behind the string.
LEMMA InPlaceLeaves ==
    ASSUME IInv, IInv', NEW w \in Seq(Byte), Len(w) = used,
           Become(cap, used, data, <<<<0, w>>>>)
    PROVE  Value' = w /\ (Terminated => Terminated')
<1>1. data \in Seq(Byte) /\ used \in Nat /\ Len(data) \in Nat /\ used < Len(data)
    BY Sizes
<1>2. used' = used
    BY DEF Become
<1>3. \A i \in 1 .. Len(data) : data'[i] = Laid(data, 0, w, i)
    BY <1>1, PieceLeft
<1>4. ASSUME NEW i \in 1 .. used
      PROVE  data'[i] = w[i]
  <2>1. i \in 1 .. Len(data) /\ i \in 0 + 1 .. 0 + Len(w) /\ i - 0 = i
    BY <1>1
  <2> QED
    BY <1>3, <2>1 DEF Laid
<1>5. data'[used + 1] = data[used + 1]
  <2>1. used + 1 \in 1 .. Len(data) /\ used + 1 \notin 0 + 1 .. 0 + Len(w)
    BY <1>1
  <2> QED
    BY <1>3, <2>1 DEF Laid
<1>6. Value' = w
    BY <1>2, <1>4, ReadBack
<1>7. Terminated => Terminated'
    BY <1>2, <1>5, EndsWithNul DEF Terminated
<1> QED
    BY <1>6, <1>7

LEMMA ClearLeaves ==
    ASSUME IInv, IInv', Clear
    PROVE  Value' = <<>> /\ Terminated'
<1> DEFINE clean == Clean(0, cap)
<1>1. Become(cap, 0, data, <<clean>>)
    BY DEF Clear
<1>2. data \in Seq(Byte) /\ cap \in Nat /\ 1 <= cap /\ cap < Len(data) /\ Len(data) \in Nat
  <2>1. cap \in MinSize - Overhead .. MaxSize - Overhead
    BY DEF IInv, TypeOK
  <2> QED
    BY <2>1, Sizes
<1>3. used' = 0 /\ data' = Written(data, <<clean>>)
    BY <1>1 DEF Become
<1>4. 1 \in DOMAIN data /\ 1 \in Nat /\ 0 \in Nat /\ 1 \in 0 + 1 .. 0 + cap
    BY <1>2
<1>5. Covers(clean, 1) /\ clean[2][1 - clean[1]] = Nul
    BY <1>2, <1>4, CleanCovers
<1> HIDE DEF clean
<1>6. data'[1] = Nul
    BY <1>3, <1>4, <1>5, OneWritten
<1>7. <<>> \in Seq(Byte) /\ Len(<<>>) = 0
    OBVIOUS
<1>8. \A i \in 1 .. used' : data'[i] = <<>>[i]
    BY <1>3
<1>9. Value' = <<>>
    BY <1>3, <1>7, <1>8, ReadBack
<1>10. data'[used' + 1] = Nul
    BY <1>3, <1>6
<1> QED
    BY <1>9, <1>10, EndsWithNul

LEMMA WipeLeaves ==
    ASSUME IInv', WipeLength
    PROVE  Value' = <<>>
<1>1. used' = 0
    BY DEF WipeLength, Become
<1>2. <<>> \in Seq(Byte) /\ Len(<<>>) = 0
    OBVIOUS
<1>3. \A i \in 1 .. used' : data'[i] = <<>>[i]
    BY <1>1
<1> QED
    BY <1>1, <1>2, <1>3, ReadBack

LEMMA KeepLeaves ==
    ASSUME IInv, IInv', NEW from \in 1 .. used + 1, NEW to \in 0 .. used, from <= to + 1,
           Keep(from, to)
    PROVE  /\ Value' = SubSeq(Value, from, to)
           /\ Terminated => Terminated'
<1> DEFINE n == to - from + 1
           rest == used - n
           clean == Clean(n, rest)
           kept == SubSeq(data, from, to)
           t == SubSeq(Value, from, to)
<1>1. /\ n \in Nat /\ n <= used /\ rest \in Nat /\ n + rest = used
      /\ used \in Nat /\ data \in Seq(Byte) /\ used < Len(data) /\ Len(data) \in Nat
    BY Sizes
<1>2. kept \in Seq(Byte) /\ Len(kept) = n /\ \A i \in 1 .. n : kept[i] = data[from + i - 1]
  <2>1. from \in 1 .. Len(data) + 1 /\ to \in 0 .. Len(data) /\ data \in Seq(Byte)
    BY Sizes
  <2> QED
    BY <2>1, PartIsSeq
<1>3. t \in Seq(Byte) /\ Len(t) = n /\ \A i \in 1 .. n : t[i] = data[from + i - 1]
  <2>1. /\ Value \in Seq(Byte) /\ Len(Value) = used /\ \A i \in 1 .. used : Value[i] = data[i]
    BY ValueIsSeq
  <2>2. from \in 1 .. Len(Value) + 1 /\ to \in 0 .. Len(Value)
    BY <2>1
  <2>3. t \in Seq(Byte) /\ Len(t) = n /\ \A i \in 1 .. n : t[i] = Value[from + i - 1]
    BY <2>1, <2>2, PartIsSeq
  <2>4. \A i \in 1 .. n : from + i - 1 \in 1 .. used
    BY <1>1
  <2> HIDE DEF t, n
  <2> QED
    BY <2>1, <2>3, <2>4
<1>4. Become(cap, n, data, <<<<0, kept>>, clean>>)
    BY Zenon DEF Keep
<1> HIDE DEF kept, t, n, rest, clean
<1>5. used' = n
    BY <1>4 DEF Become
<1>6. \A i \in 1 .. Len(data) : data'[i] = Over(Laid(data, 0, kept, i), clean, i)
    BY <1>1, <1>2, <1>4, PieceAndMoreLeft
<1>7. ASSUME NEW i \in 1 .. n
      PROVE  data'[i] = t[i]
  <2>1. i \in 1 .. Len(data) /\ i \in Nat /\ i \notin n + 1 .. n + rest
    BY <1>1
  <2>2. i \in 0 + 1 .. 0 + Len(kept) /\ i - 0 = i
    BY <1>1, <1>2
  <2>3. Laid(data, 0, kept, i) = kept[i]
    BY <2>2 DEF Laid
  <2>4. Over(kept[i], clean, i) = kept[i]
    BY <1>1, <2>1, OverClean DEF clean
  <2> QED
    BY <1>2, <1>3, <1>6, <2>1, <2>3, <2>4
<1>8. Value' = t
    BY <1>3, <1>5, <1>7, ReadBack
<1>9. ASSUME Terminated
      PROVE  Terminated'
  <2> DEFINE i == n + 1
  <2>1. i \in 1 .. Len(data) /\ i \in Nat
    BY <1>1
  <2>2. i \notin 0 + 1 .. 0 + Len(kept)
    BY <1>1, <1>2
  <2>3. i \in n + 1 .. n + rest \/ i = used + 1
    BY <1>1
  <2> HIDE DEF i
  <2>4. data'[i] = Over(data[i], clean, i)
    BY <1>6, <2>1, <2>2 DEF Laid
  <2>5. i = used + 1 => data[i] = Nul
    BY <1>9 DEF Terminated
  <2>6. data'[i] = Nul
    BY <1>1, <2>1, <2>3, <2>4, <2>5, OverClean DEF clean
  <2>7. data'[used' + 1] = Nul
    BY <1>5, <2>6 DEF i
  <2> QED
    BY <2>7, EndsWithNul
<1> QED
    BY <1>8, <1>9 DEF t
------------------------------------------------------------------------------
(* The steps, as TextBuffer and TerminatorKept see them.                    *)

\* Each trim, and what it leaves.
LEMMA TrimsLeave ==
    ASSUME IInv, IInv'
    PROVE  /\ Trim => /\ Value' = IF FirstSolid = 0 THEN <<>> ELSE SubSeq(Value, FirstSolid, LastSolid)
                      /\ WipeLength \/ (Terminated => Terminated')
           /\ TrimHdr => /\ Value' = IF FirstSolid = 0 THEN <<>>
                                     ELSE SubSeq(Value, FirstSolid, Len(Value))
                         /\ WipeLength \/ (Terminated => Terminated')
           /\ TrimTail => /\ "one_solid" \notin Cases => Value' = SubSeq(Value, 1, LastSolid)
                          /\ WipeLength \/ (Terminated => Terminated')
<1>1. used \in Nat /\ Len(Value) = used
    BY Sizes, ValueIsSeq
<1>2. ASSUME Trim
      PROVE  /\ Value' = IF FirstSolid = 0 THEN <<>> ELSE SubSeq(Value, FirstSolid, LastSolid)
             /\ WipeLength \/ (Terminated => Terminated')
  <2>1. CASE FirstSolid = 0 /\ WipeLength
    BY <2>1, WipeLeaves
  <2>2. CASE FirstSolid # 0 /\ Keep(FirstSolid, LastSolid)
    <3>1. FirstSolid \in 1 .. used + 1 /\ LastSolid \in 0 .. used /\ FirstSolid <= LastSolid + 1
        BY <1>1, <2>2, SolidPlaces
    <3> QED
        BY <2>2, <3>1, KeepLeaves
  <2> QED
    BY <1>2, <2>1, <2>2, TrimsKeep
<1>3. ASSUME TrimHdr
      PROVE  /\ Value' = IF FirstSolid = 0 THEN <<>> ELSE SubSeq(Value, FirstSolid, Len(Value))
             /\ WipeLength \/ (Terminated => Terminated')
  <2>1. CASE FirstSolid = 0 /\ WipeLength
    BY <2>1, WipeLeaves
  <2>2. CASE FirstSolid # 0 /\ Keep(FirstSolid, used)
    <3>1. FirstSolid \in 1 .. used + 1 /\ used \in 0 .. used /\ FirstSolid <= used + 1
        BY <1>1, <2>2, SolidPlaces
    <3> QED
        BY <1>1, <2>2, <3>1, KeepLeaves
  <2> QED
    BY <1>3, <2>1, <2>2, TrimsKeep
<1>4. ASSUME TrimTail
      PROVE  /\ "one_solid" \notin Cases => Value' = SubSeq(Value, 1, LastSolid)
             /\ WipeLength \/ (Terminated => Terminated')
  <2>1. CASE "one_solid" \in Cases /\ WipeLength
    BY <2>1
  <2>2. CASE Keep(1, LastSolid)
    <3>1. 1 \in 1 .. used + 1 /\ LastSolid \in 0 .. used /\ 1 <= LastSolid + 1
        BY <1>1, SolidPlaces
    <3> QED
        BY <2>2, <3>1, KeepLeaves
  <2> QED
    BY <1>4, <2>1, <2>2, TrimsKeep
<1> QED
    BY <1>2, <1>3, <1>4

\* The operations in place, and what they leave.
LEMMA TurnLeaves ==
    ASSUME IInv, IInv', Turn
    PROVE  Value' = Reverse(Value) /\ (Terminated => Terminated')
<1>1. Become(cap, used, data, <<<<0, Reverse(Value)>>>>)
    BY DEF Turn
<1> QED
    BY <1>1, ReversedIsSeq, InPlaceLeaves

LEMMA RecaseLeaves ==
    ASSUME IInv, IInv', NEW map, \A c \in DOMAIN map : map[c] \in Byte, Recase(map)
    PROVE  /\ Value' = [i \in DOMAIN Value |->
                           IF Value[i] \in DOMAIN map THEN map[Value[i]] ELSE Value[i]]
           /\ Terminated => Terminated'
<1>1. Become(cap, used, data, <<<<0, Recased(map)>>>>)
    BY Zenon DEF Recase, Recased
<1>2. Value' = Recased(map) /\ (Terminated => Terminated')
    BY <1>1, RecasedIsSeq, InPlaceLeaves
<1>3. DOMAIN Value = 1 .. used /\ \A i \in 1 .. used : Value[i] = data[i]
    BY ValueIsSeq
<1>4. Recased(map) = [i \in DOMAIN Value |-> IF Value[i] \in DOMAIN map THEN map[Value[i]] ELSE Value[i]]
    BY <1>3 DEF Recased
<1> QED
    BY <1>2, <1>4

\* What TextBuffer takes from the library is what this module takes from it.
LEMMA SameOperators ==
    /\ Text!Reverse(Value) = Reverse(Value)
    /\ Text!SelectInSeq(Value, Text!Solid) = FirstSolid
    /\ Text!SelectLastInSeq(Value, Text!Solid) = LastSolid
    /\ Text!AntiFunction(UpperOf) = LowerOf
<1>1. Text!Reverse(Value) = Reverse(Value)
    BY Zenon DEF Reverse, Text!Reverse
<1>2. Text!SelectInSeq(Value, Text!Solid) = FirstSolid
    BY Zenon DEF FirstSolid, SelectInSeq, Text!SelectInSeq, Solid, Text!Solid, Min, Text!Min
<1>3. Text!SelectLastInSeq(Value, Text!Solid) = LastSolid
    BY Zenon DEF LastSolid, SelectLastInSeq, Text!SelectLastInSeq, Solid, Text!Solid, Max, Text!Max
<1>4. Text!AntiFunction(UpperOf) = LowerOf
    BY Zenon DEF LowerOf, AntiFunction, Text!AntiFunction, Inverse, Text!Inverse, Range, Text!Range
<1> QED
    BY <1>1, <1>2, <1>3, <1>4

LEMMA StepKeepsPromise ==
    ASSUME IInv, IInv', Cases = {}
    PROVE  PromiseKept
<1>1. StaysInBlock /\ "self_moved" \notin Cases /\ "one_solid" \notin Cases
    BY DEF StaysInBlock
<1>2. ASSUME NEW u \in Piece
      PROVE  /\ Assign(u) => Text!Replace(u)
             /\ Copy(u) \/ CopyStr(u) => Text!Overwrite(u)
             /\ Append_(u) => Text!AppendPiece(u)
             /\ \A pos \in 0 .. used : Insert(pos, u) => Text!Insert(pos, u)
  <2>1. Assign(u) => Text!Replace(u)
    BY AssignLeaves DEF Text!Replace
  <2>2. Copy(u) \/ CopyStr(u) => Text!Overwrite(u)
    BY <1>1, CopyLeaves DEF Text!Overwrite
  <2>3. Append_(u) => Text!AppendPiece(u)
    BY AppendLeaves DEF Text!AppendPiece
  <2>4. ASSUME NEW pos \in 0 .. used, Insert(pos, u)
        PROVE  Text!Insert(pos, u)
    BY <2>4, InsertLeaves DEF Text!Insert
  <2> QED
    BY <2>1, <2>2, <2>3, <2>4
<1>3. AppendSelf => Text!Double
    BY <1>1, AppendSelfLeaves DEF Text!Double
<1>4. Turn => Text!Turn
    BY TurnLeaves, SameOperators, Zenon DEF Text!Turn
<1>5. ToUpper => Text!Recase(UpperOf)
    BY RecaseLeaves, CasesAreBytes, Zenon DEF ToUpper, Text!Recase
<1>6. ToLower => Text!Recase(LowerOf)
    BY RecaseLeaves, CasesAreBytes, Zenon DEF ToLower, Text!Recase
<1>7. Clear => Text!Replace(<<>>)
    BY ClearLeaves DEF Text!Replace
<1>8. Trim => Text!TrimBoth
    BY TrimsLeave, SameOperators, Zenon DEF Text!TrimBoth
<1>9. TrimHdr => Text!TrimHead
    BY TrimsLeave, SameOperators, Zenon DEF Text!TrimHead
<1>10. TrimTail => Text!TrimTail
    BY <1>1, TrimsLeave, SameOperators, Zenon DEF Text!TrimTail
<1> QED
    BY <1>2, <1>3, <1>4, <1>5, <1>6, <1>7, <1>8, <1>9, <1>10, Zenon DEF PromiseKept

\* Every step is one of TextBuffer, or leaves the value.
LEMMA StepOfText ==
    ASSUME IInv, IInv', Cases = {}, [Next]_vars
    PROVE  [Text!Next]_Value
<1>1. CASE UNCHANGED vars
    BY <1>1 DEF vars, Value
<1>2. CASE Clone
    BY <1>2, CloneLeaves
<1>3. ASSUME NEW u \in Piece, Value' = u
      PROVE  Text!Next
  <2>1. 0 \in 0 .. Len(u) /\ Len(u) \in 0 .. Len(u) /\ u = SubSeq(u, 0 + 1, Len(u))
    BY PieceIsSeq, SubSeqFull
  <2>2. Text!Replace(SubSeq(u, 0 + 1, Len(u)))
    BY <1>3, <2>1 DEF Text!Replace
  <2> QED
    BY <2>1, <2>2, Zenon DEF Text!Next
<1>4. PromiseKept
    BY StepKeepsPromise
<1>5. ASSUME NEW u \in Piece, Assign(u) PROVE Text!Next
    BY <1>3, <1>5, AssignLeaves
<1>6. ASSUME NEW u \in Piece, Copy(u) \/ CopyStr(u) PROVE Text!Next
    BY <1>4, <1>6, Zenon DEF PromiseKept, Text!Next
<1>7. ASSUME NEW u \in Piece, Append_(u) PROVE Text!Next
    BY <1>4, <1>7, Zenon DEF PromiseKept, Text!Next
<1>8. ASSUME NEW u \in Piece, NEW pos \in 0 .. used, Insert(pos, u) PROVE Text!Next
  <2>1. pos \in 0 .. Len(Value)
    BY ValueIsSeq
  <2> QED
    BY <1>4, <1>8, <2>1, Zenon DEF PromiseKept, Text!Next
<1>9. ASSUME NEW u \in Piece, NEW begin \in 0 .. Len(u), NEW len \in 0 .. Len(u), Sub(u, begin, len)
      PROVE  Text!Next
  <2>1. PICK from \in 0 .. Len(u), to \in 0 .. Len(u) : Value' = SubSeq(u, from + 1, to)
    BY <1>9, SubLeaves
  <2> QED
    BY <2>1, Zenon DEF Text!Next, Text!Replace
<1>10. CASE AppendSelf
    BY <1>4, <1>10, Zenon DEF PromiseKept, Text!Next
<1>11. CASE Turn
    BY <1>4, <1>11, Zenon DEF PromiseKept, Text!Next
<1>12. CASE ToUpper
    BY <1>4, <1>12, Zenon DEF PromiseKept, Text!Next
<1>13. CASE ToLower
    BY <1>4, <1>13, SameOperators, Zenon DEF PromiseKept, Text!Next
<1>14. CASE Clear
  <2>1. <<>> \in Piece
    BY CStringAssumption
  <2> QED
    BY <1>3, <1>14, <2>1, ClearLeaves
<1>15. CASE Trim \/ TrimHdr \/ TrimTail
    BY <1>4, <1>15, Zenon DEF PromiseKept, Text!Next
<1> QED
    BY <1>1, <1>2, <1>5, <1>6, <1>7, <1>8, <1>9, <1>10, <1>11, <1>12, <1>13, <1>14, <1>15,
       Zenon DEF Next

\* What a fresh string holds.
LEMMA NewStrLeaves ==
    ASSUME IInv, NEW u \in Piece, NewStr(u)
    PROVE  Value = u
<1> DEFINE n == Max({round_up_power_2(Len(u) + Overhead), MinSize})
           bytes == Block(<<>>, n)
           piece == <<0, u>>
           terminator == SetEnd(Len(u))
<1>1. used = Len(u) /\ data = Written(bytes, <<piece, terminator>>)
    BY DEF NewStr
<1>2. u \in Seq(Byte) /\ Len(u) \in Nat /\ data \in Seq(Byte) /\ used \in 0 .. Len(data)
    BY PieceIsSeq, Sizes
<1> HIDE DEF n, bytes
<1>3. DOMAIN bytes = 1 .. Len(data)
  <2>1. \A writes : DOMAIN Written(bytes, writes) = DOMAIN bytes
    BY DEF Written
  <2>2. DOMAIN data = 1 .. Len(data)
    BY <1>2
  <2> QED
    BY <1>1, <2>1, <2>2, Zenon
<1>4. ASSUME NEW i \in 1 .. Len(u) PROVE data[i] = u[i]
  <2>1. i \in DOMAIN bytes /\ i \in Nat /\ i # Len(u) + 1 /\ i \in 0 + 1 .. 0 + Len(u) /\ i - 0 = i
    BY <1>1, <1>2, <1>3
  <2>2. ~Covers(terminator, i)
    BY <1>2, <2>1, SetEndCovers
  <2>3. Covers(piece, i) /\ piece[2][i - piece[1]] = u[i - 0]
    BY <1>2, <2>1, PieceCovers
  <2> HIDE DEF piece, terminator
  <2> QED
    BY <1>1, <2>1, <2>2, <2>3, TwoWritten
<1>5. Value \in Seq(Byte) /\ Len(Value) = Len(u) /\ \A i \in 1 .. Len(u) : Value[i] = u[i]
    BY <1>1, <1>4, ValueIsSeq
<1> QED
    BY <1>2, <1>5, SeqEqual

LEMMA InitOfText ==
    ASSUME Init
    PROVE  Text!Init
<1>1. IInv
    BY InitInv
<1>2. CASE NewEmpty
  <2>1. used = 0
    BY <1>2 DEF NewEmpty
  <2>2. Value \in Seq(Byte) /\ Len(Value) = 0
    BY <1>1, <2>1, ValueIsSeq
  <2>3. Value = <<>>
    BY <2>2
  <2> QED
    BY <2>3, CStringAssumption DEF Text!Init
<1>3. ASSUME NEW u \in Piece, NewStr(u) PROVE Text!Init
    BY <1>1, <1>3, NewStrLeaves DEF Text!Init
<1> QED
    BY <1>2, <1>3 DEF Init

\* The steps that may take the NUL from the end of a string.
EndMayGo ==
    \/ \E u \in Piece : CopyStr(u) \/ (Append_(u) /\ used' = cap')
    \/ AppendSelf /\ used' = cap'
    \/ WipeLength

LEMMA StepKeepsEnd ==
    ASSUME IInv, IInv', StaysInBlock, Next, Terminated
    PROVE  Terminated' \/ EndMayGo
<1>1. "self_moved" \notin Cases
    BY DEF StaysInBlock
<1>2. CASE Clone
    BY <1>2, CloneLeaves
<1>3. ASSUME NEW u \in Piece, Assign(u) PROVE Terminated'
    BY <1>3, AssignLeaves
<1>4. ASSUME NEW u \in Piece, Copy(u) PROVE Terminated'
    BY <1>4, CopyLeaves
<1>5. ASSUME NEW u \in Piece, CopyStr(u) PROVE EndMayGo
    BY <1>5, Zenon DEF EndMayGo
<1>6. ASSUME NEW u \in Piece, Append_(u) PROVE Terminated' \/ EndMayGo
  <2>1. Terminated' \/ used' = cap'
    BY <1>6, AppendLeaves
  <2> QED
    BY <1>6, <2>1, Zenon DEF EndMayGo
<1>7. ASSUME NEW u \in Piece, NEW pos \in 0 .. used, Insert(pos, u) PROVE Terminated'
    BY <1>7, InsertLeaves
<1>8. ASSUME NEW u \in Piece, NEW begin \in 0 .. Len(u), NEW len \in 0 .. Len(u), Sub(u, begin, len)
      PROVE  Terminated'
    BY <1>8, SubLeaves
<1>9. CASE AppendSelf
  <2>1. Terminated' \/ used' = cap'
    BY <1>1, <1>9, AppendSelfLeaves
  <2> QED
    BY <1>9, <2>1, Zenon DEF EndMayGo
<1>10. CASE Turn
    BY <1>10, TurnLeaves
<1>11. CASE ToUpper \/ ToLower
    BY <1>11, RecaseLeaves, CasesAreBytes, Zenon DEF ToUpper, ToLower
<1>12. CASE Clear
    BY <1>12, ClearLeaves
<1>13. CASE Trim \/ TrimHdr \/ TrimTail
    BY <1>13, TrimsLeave, Zenon DEF EndMayGo
<1> QED
    BY <1>2, <1>3, <1>4, <1>5, <1>6, <1>7, <1>8, <1>9, <1>10, <1>11, <1>12, <1>13, Zenon DEF Next

------------------------------------------------------------------------------
(* The theorems.                                                            *)

\* The invariant holds in every state, if the program stays clear of the two cases.
THEOREM Invariance == StaysInBlock => (Spec => []IInv)
<1> SUFFICES ASSUME StaysInBlock PROVE Spec => []IInv
    OBVIOUS
<1>1. Init => IInv
    BY InitInv
<1>2. IInv /\ [Next]_vars => IInv'
    BY StepInv
<1> QED
    BY <1>1, <1>2, PTL DEF Spec

\* Blocks are never smaller than the least size nor larger than the largest.
THEOREM TypeCorrect == StaysInBlock => (Spec => []TypeOK)
<1>1. IInv => TypeOK
    BY DEF IInv
<1> QED
    BY <1>1, Invariance, PTL

\* The header tells the truth: the string fits into cap, and cap into the block.
THEOREM HeaderIsTrue == StaysInBlock => (Spec => []SizesAgree)
<1>1. IInv => SizesAgree
    BY DEF IInv
<1> QED
    BY <1>1, Invariance, PTL

\* No operation writes behind the end of its block.
THEOREM WritesStayInside == StaysInBlock => (Spec => []NoOverrun)
<1>1. IInv => NoOverrun
    BY DEF IInv
<1> QED
    BY <1>1, Invariance, PTL

\* A string that ends with a NUL keeps it, but for cstr_copy_str, an append that leaves
\* nothing of the capacity, and trimming a string of blanks.
THEOREM TerminatorIsKept == StaysInBlock => (Spec => TerminatorKept)
<1> SUFFICES ASSUME StaysInBlock PROVE Spec => TerminatorKept
    OBVIOUS
<1>1. IInv /\ IInv' /\ [Next]_vars => [Terminated => Terminated' \/ EndMayGo]_vars
    BY StepKeepsEnd
<1>2. TerminatorKept <=> [][Terminated => Terminated' \/ EndMayGo]_vars
    BY PTL DEF TerminatorKept, EndMayGo
<1>3. Spec => []IInv
    BY Invariance
<1> QED
    BY <1>1, <1>2, <1>3, PTL DEF Spec

\* Clear of all three cases, the strings are TextBuffer's: whatever happens to the
\* blocks, every operation makes of the value what it promises.
THEOREM Refinement == Cases = {} => (Spec => ImplementsText)
<1> SUFFICES ASSUME Cases = {} PROVE Spec => ImplementsText
    OBVIOUS
<1>1. StaysInBlock
    BY DEF StaysInBlock
<1>2. Spec => []IInv
    BY <1>1, Invariance
<1>3. Init => Text!Init
    BY InitOfText
<1>4. IInv /\ IInv' /\ [Next]_vars => [Text!Next]_Value
    BY StepOfText
<1>5. IInv /\ IInv' => PromiseKept
    BY StepKeepsPromise
<1> QED
    BY <1>2, <1>3, <1>4, <1>5, PTL DEF Spec, ImplementsText, Text!Spec
==============================================================================
