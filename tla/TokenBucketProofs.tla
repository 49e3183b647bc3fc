-------------------------- MODULE TokenBucketProofs ---------------------------
(***************************************************************************)
(* RateBound of TokenBucket, for every capacity, rate, unit of time and    *)
(* width of int.                                                           *)
(***************************************************************************)
EXTENDS TokenBucket, TLAPS

\* What the proofs take of the constants.
BucketAssumption ==
    /\ {capacity_, token_rate_, IntMax, MaxSec} \subseteq Nat
    /\ {MsPerSec, UsPerMs} \subseteq Nat \ {0}

\* RateBound as an inductive invariant: with the values of the variables, of which
\* one matters, token_num_ >= -IntMax - 1.  Without it, a sum below the range of
\* int would wrap to a large number.
Values ==
    /\ token_num_ \in Int /\ -IntMax - 1 <= token_num_
    /\ tv_sec \in Nat /\ tv_usec \in 0 .. UsPerSec - 1
    /\ granted \in Nat
    /\ opened \in Nat \X (0 .. UsPerSec - 1) /\ opened[1] <= tv_sec
    /\ saved \in Int
IInv == Values /\ RateBound

------------------------------------------------------------------------------
(* Arithmetic.                                                              *)

LEMMA Quotient ==
    ASSUME NEW a \in Nat, NEW b \in Nat \ {0}
    PROVE  a \div b \in Nat /\ b * (a \div b) <= a /\ a < b * (a \div b) + b
  BY SMT

LEMMA UsPerSecPositive ==
    ASSUME BucketAssumption
    PROVE  UsPerSec \in Nat \ {0}
  BY DEF BucketAssumption, UsPerSec

\* Milliseconds rounds toward 0, and less than a second stays that.
LEMMA Rounding ==
    ASSUME BucketAssumption, NEW us \in Int, -UsPerSec < us
    PROVE  /\ Milliseconds(us) \in Int
           /\ us >= 0 => Milliseconds(us) >= 0 /\ UsPerMs * Milliseconds(us) <= us
           /\ us < 0 => /\ Milliseconds(us) >= -MsPerSec
                        /\ UsPerMs * Milliseconds(us) <= us + UsPerMs - 1
<1>1. CASE us >= 0
  BY <1>1, Quotient DEF Milliseconds, BucketAssumption
<1>2. CASE us < 0
  <2> DEFINE q == (-us) \div UsPerMs
  <2>1. q \in Nat /\ UsPerMs * q <= -us /\ -us < UsPerMs * q + UsPerMs
    BY <1>2, Quotient DEF BucketAssumption
  <2>2. Milliseconds(us) = -q
    BY <1>2 DEF Milliseconds
  <2>3. UsPerMs * (-q) = -(UsPerMs * q)
    BY <2>1 DEF BucketAssumption
  <2>4. UsPerMs * q < UsPerMs * MsPerSec
    BY <2>1 DEF UsPerSec, BucketAssumption
  <2>5. q < MsPerSec
    BY <2>1, <2>4 DEF BucketAssumption
  <2> HIDE DEF q
  <2> QED
    BY <1>2, <2>1, <2>2, <2>3, <2>5 DEF BucketAssumption
<1> QED
  BY <1>1, <1>2

\* No call gets more milliseconds than passed since the last, but for the ends of
\* seconds.
LEMMA ElapsedBound ==
    ASSUME BucketAssumption, Values,
           NEW sec \in Nat, NEW usec \in 0 .. UsPerSec - 1, Later(sec, usec)
    PROVE  /\ Elapsed(sec, usec) \in Nat
           /\ UsPerMs * Elapsed(sec, usec) <=
                  UsPerSec * (sec - tv_sec) + usec - tv_usec + (UsPerMs - 1) * (sec - tv_sec)
<1> DEFINE us == usec - tv_usec
           ds == sec - tv_sec
<1>1. us \in Int /\ -UsPerSec < us /\ ds \in Nat /\ (us < 0 => ds >= 1)
  BY UsPerSecPositive DEF Later, Values
<1>2. /\ Milliseconds(us) \in Int
      /\ us >= 0 => Milliseconds(us) >= 0 /\ UsPerMs * Milliseconds(us) <= us
      /\ us < 0 => Milliseconds(us) >= -MsPerSec /\ UsPerMs * Milliseconds(us) <= us + UsPerMs - 1
  BY <1>1, Rounding
<1>3. Elapsed(sec, usec) = MsPerSec * ds + Milliseconds(us)
  BY DEF Elapsed
<1> HIDE DEF us, ds
<1>4. Elapsed(sec, usec) \in Nat
  <2>1. CASE us >= 0
    BY <2>1, <1>1, <1>2, <1>3 DEF BucketAssumption
  <2>2. CASE us < 0
    <3>1. MsPerSec * ds >= MsPerSec
      BY <2>2, <1>1 DEF BucketAssumption
    <3> QED
      BY <3>1, <2>2, <1>1, <1>2, <1>3 DEF BucketAssumption
  <2> QED
    BY <2>1, <2>2, <1>1
<1>5. UsPerMs * Elapsed(sec, usec) = UsPerSec * ds + UsPerMs * Milliseconds(us)
  BY <1>1, <1>2, <1>3 DEF BucketAssumption, UsPerSec
<1>6. UsPerMs * Milliseconds(us) <= us + (UsPerMs - 1) * ds
  <2>1. CASE us >= 0
    <3>1. (UsPerMs - 1) * ds \in Nat
      BY <1>1 DEF BucketAssumption
    <3>2. UsPerMs * Milliseconds(us) \in Int
      BY <1>2 DEF BucketAssumption
    <3> QED
      BY <3>1, <3>2, <2>1, <1>1, <1>2
  <2>2. CASE us < 0
    <3>1. UsPerMs - 1 <= (UsPerMs - 1) * ds
      BY <2>2, <1>1 DEF BucketAssumption
    <3> QED
      BY <3>1, <2>2, <1>1, <1>2 DEF BucketAssumption
  <2> QED
    BY <2>1, <2>2, <1>1
<1>7. UsPerSec * ds \in Int /\ (UsPerMs - 1) * ds \in Int /\ UsPerMs * Milliseconds(us) \in Int
  BY <1>1, <1>2 DEF BucketAssumption, UsPerSec
<1>8. UsPerMs * Elapsed(sec, usec) <= UsPerSec * ds + us + (UsPerMs - 1) * ds
  BY <1>1, <1>5, <1>6, <1>7
<1>9. UsPerSec * ds + us + (UsPerMs - 1) * ds =
          UsPerSec * ds + usec - tv_usec + (UsPerMs - 1) * ds
  BY <1>1, <1>7, UsPerSecPositive DEF us, Values
<1> QED
  BY <1>4, <1>8, <1>9 DEF ds

\* Overflow never makes a number larger that is not below the range of int.
LEMMA WrapsDown ==
    ASSUME BucketAssumption, NEW n \in Int, -IntMax - 1 <= n
    PROVE  Int_(n) \in Int /\ -IntMax - 1 <= Int_(n) /\ Int_(n) <= n
<1> DEFINE a == n + IntMax + 1
           b == 2 * (IntMax + 1)
<1>1. a \in Nat /\ b \in Nat \ {0}
  BY DEF BucketAssumption
<1>2. a % b \in 0 .. b - 1 /\ a % b <= a
  <2> HIDE DEF a, b
  <2> QED BY <1>1
<1>3. Int_(n) = (a % b) - (IntMax + 1)
  BY DEF Int_
<1> QED
  BY <1>1, <1>2, <1>3 DEF BucketAssumption

\* The bucket gets no more tokens than the elapsed time is worth.
LEMMA RefilledBound ==
    ASSUME BucketAssumption, Values,
           NEW sec \in Nat, NEW usec \in 0 .. UsPerSec - 1, Later(sec, usec)
    PROVE  /\ Refilled(sec, usec) \in Int
           /\ -IntMax - 1 <= Refilled(sec, usec)
           /\ Refilled(sec, usec) <= capacity_
           /\ Refilled(sec, usec) <= token_num_ + token_rate_ * Elapsed(sec, usec)
<1> DEFINE sum == token_num_ + token_rate_ * Elapsed(sec, usec)
<1>1. token_rate_ * Elapsed(sec, usec) \in Nat
  BY ElapsedBound DEF BucketAssumption
<1>2. sum \in Int /\ -IntMax - 1 <= sum
  BY <1>1 DEF BucketAssumption, Values
<1>3. Int_(sum) \in Int /\ -IntMax - 1 <= Int_(sum) /\ Int_(sum) <= sum
  BY <1>2, WrapsDown
<1>4. Refilled(sec, usec) = IF capacity_ > Int_(sum) THEN Int_(sum) ELSE capacity_
  BY DEF Refilled
<1> HIDE DEF sum
<1>5. Refilled(sec, usec) <= sum
  BY <1>2, <1>3, <1>4 DEF BucketAssumption
<1> QED
  BY <1>2, <1>3, <1>4, <1>5 DEF BucketAssumption, sum

------------------------------------------------------------------------------
(* The invariant.                                                           *)

LEMMA InitIInv ==
    ASSUME BucketAssumption, Init
    PROVE  IInv
<1>1. Values
  BY UsPerSecPositive DEF Init, Values, BucketAssumption
<1>2. Countable = 0
  BY UsPerSecPositive DEF Init, Countable, BucketAssumption
<1>3. UsPerMs * (granted + token_num_ - saved) = 0
  BY DEF Init, BucketAssumption
<1> QED
  BY <1>1, <1>2, <1>3 DEF Init, IInv, RateBound, BucketAssumption

LEMMA OpenIInv ==
    ASSUME BucketAssumption, IInv, Open
    PROVE  IInv'
<1>1. Values'
  BY UsPerSecPositive DEF IInv, Open, Values, UsPerSec
<1>2. Countable' = 0
  BY UsPerSecPositive DEF IInv, Open, Values, Countable, BucketAssumption, UsPerSec
<1>3. granted' + token_num_' - saved' = 0
  BY DEF IInv, Values, Open
<1> QED
  BY <1>1, <1>2, <1>3 DEF IInv, Open, RateBound, BucketAssumption

LEMMA GrantIInv ==
    ASSUME BucketAssumption, IInv,
           NEW sec \in Nat, NEW usec \in 0 .. UsPerSec - 1, Grant(sec, usec)
    PROVE  IInv'
<1> DEFINE gain == token_rate_ * Elapsed(sec, usec)
           spent == granted + token_num_ - saved
           passed == UsPerSec * (sec - tv_sec) + usec - tv_usec + (UsPerMs - 1) * (sec - tv_sec)
<1>1. Values /\ RateBound /\ Later(sec, usec)
  BY DEF IInv, Grant
<1>2. /\ Refilled(sec, usec) \in Int /\ -IntMax - 1 <= Refilled(sec, usec)
      /\ Refilled(sec, usec) <= capacity_ /\ Refilled(sec, usec) <= token_num_ + gain
  BY <1>1, RefilledBound
<1>3. Elapsed(sec, usec) \in Nat /\ UsPerMs * Elapsed(sec, usec) <= passed
  BY <1>1, ElapsedBound
<1>4. /\ granted' \in Nat /\ token_num_' \in Int
      /\ -IntMax - 1 <= token_num_' /\ token_num_' <= capacity_
      /\ granted' + token_num_' = granted + Refilled(sec, usec)
  BY <1>1, <1>2 DEF Grant, Values, BucketAssumption
<1>5. Values'
  BY <1>1, <1>4 DEF Grant, Later, Values, UsPerSec
<1>6. gain \in Nat /\ spent \in Int /\ passed \in Int
  BY <1>1, <1>3, UsPerSecPositive DEF Values, BucketAssumption
<1>7. UsPerMs * (granted' + token_num_' - saved') <= UsPerMs * (spent + gain)
  <2>1. granted' + token_num_' - saved' <= spent + gain
    BY <1>1, <1>2, <1>4, <1>6 DEF Grant, Values
  <2>2. granted' + token_num_' - saved' \in Int
    BY <1>1, <1>4 DEF Grant, Values
  <2> HIDE DEF spent, gain
  <2> QED
    BY <2>1, <2>2, <1>6 DEF BucketAssumption
<1>8. UsPerMs * gain <= token_rate_ * passed
  <2>1. UsPerMs * gain = token_rate_ * (UsPerMs * Elapsed(sec, usec))
    BY <1>3 DEF BucketAssumption
  <2> HIDE DEF gain, passed
  <2> QED
    BY <2>1, <1>3, <1>6 DEF BucketAssumption
<1>9. Countable \in Int /\ Countable' = Countable + passed
  BY <1>1, UsPerSecPositive DEF Grant, Values, Countable, BucketAssumption, UsPerSec
<1>10. UsPerMs * spent <= token_rate_ * Countable
  BY <1>1 DEF RateBound
<1>11. UsPerMs * (granted' + token_num_' - saved') <= token_rate_ * Countable'
  <2> HIDE DEF spent, gain, passed
  <2>1. UsPerMs * (spent + gain) = UsPerMs * spent + UsPerMs * gain
    BY <1>6 DEF BucketAssumption
  <2>2. token_rate_ * (Countable + passed) = token_rate_ * Countable + token_rate_ * passed
    BY <1>6, <1>9 DEF BucketAssumption
  <2>3. /\ UsPerMs * spent \in Int /\ UsPerMs * gain \in Int
        /\ token_rate_ * Countable \in Int /\ token_rate_ * passed \in Int
    BY <1>6, <1>9 DEF BucketAssumption
  <2>4. UsPerMs * (spent + gain) <= token_rate_ * Countable'
    BY <2>1, <2>2, <2>3, <1>8, <1>9, <1>10
  <2>5. /\ UsPerMs * (granted' + token_num_' - saved') \in Int
        /\ UsPerMs * (spent + gain) \in Int /\ token_rate_ * Countable' \in Int
    BY <1>1, <1>4, <1>5, <1>6, <1>9 DEF Values, BucketAssumption
  <2> QED
    BY <2>4, <2>5, <1>7
<1> QED
  BY <1>1, <1>4, <1>5, <1>11 DEF IInv, RateBound, Grant

------------------------------------------------------------------------------
\* The bucket never grants more, in any window of calls to Grant() (12-35), than
\* the tokens saved before and those of the time that may count.
THEOREM RateIsKept == BucketAssumption => (Spec => []RateBound)
<1> SUFFICES ASSUME BucketAssumption
             PROVE  Spec => []RateBound
  OBVIOUS
<1>1. Init => IInv
  BY InitIInv
<1>2. IInv /\ [Next]_vars => IInv'
  <2> SUFFICES ASSUME IInv, [Next]_vars
               PROVE  IInv'
    OBVIOUS
  <2>1. CASE Open
    BY <2>1, OpenIInv
  <2>2. ASSUME NEW sec \in tv_sec .. MaxSec, NEW usec \in 0 .. UsPerSec - 1, Grant(sec, usec)
        PROVE  IInv'
    <3>1. sec \in Nat
      BY DEF IInv, Values, BucketAssumption
    <3> QED
      BY <3>1, <2>2, GrantIInv
  <2>3. CASE UNCHANGED vars
    BY <2>3 DEF vars, IInv, Values, RateBound, Countable, UsPerSec
  <2> QED
    BY <2>1, <2>2, <2>3 DEF Next
<1>3. IInv => RateBound
  BY DEF IInv
<1> QED
  BY <1>1, <1>2, <1>3, PTL DEF Spec
==============================================================================
