----------------------------- MODULE TokenBucket -----------------------------
(***************************************************************************)
(* TokenFrequencyCtrl of cpp_utils/token_frequency_control.cpp: Grant()    *)
(* adds the tokens of the time since the last call to a bucket and takes   *)
(* one out.  It reads the time with gettimeofday, in seconds and           *)
(* microseconds, and counts it in milliseconds, all in int.                *)
(*                                                                         *)
(* The units are constants, so that small instances meet the end of a      *)
(* second, of a millisecond and of the range of int.  (Line 9 lacks an &,  *)
(* and is taken as it is meant.  The clock is taken not to be set back.)   *)
(***************************************************************************)
EXTENDS Integers

CONSTANTS
    capacity_, token_rate_,     \* tokens, tokens for each millisecond
    MsPerSec, UsPerMs,          \* 1000 and 1000
    IntMax,                     \* int has the values -IntMax - 1 .. IntMax
    MaxSec                      \* bound: the last second

UsPerSec == MsPerSec * UsPerMs

VARIABLES
    token_num_,
    tv_sec, tv_usec,            \* last_access_time_
    granted,                    \* history: calls granted in the window,
    opened,                     \* which began with the call at opened,
    saved                       \* that left saved tokens

vars == <<token_num_, tv_sec, tv_usec, granted, opened, saved>>

Init ==
    /\ token_num_ = 0
    /\ tv_sec = 0 /\ tv_usec \in 0 .. UsPerSec - 1
    /\ granted = 0 /\ opened = <<tv_sec, tv_usec>> /\ saved = 0

\* Faulty variant of Milliseconds: what is left of a millisecond counts as one.
MillisecondsUp(us) == IF us >= 0 THEN (us + UsPerMs - 1) \div UsPerMs ELSE -((-us) \div UsPerMs)

\* Integer division of C, which rounds toward 0.
Milliseconds(us) == IF us >= 0 THEN us \div UsPerMs ELSE -((-us) \div UsPerMs)

\* time_elapse, for a call at sec and usec.
Elapsed(sec, usec) == MsPerSec * (sec - tv_sec) + Milliseconds(usec - tv_usec)

\* What int keeps of a number (signed overflow wraps, as compiled).
Int_(n) == ((n + IntMax + 1) % (2 * (IntMax + 1))) - (IntMax + 1)

\* The tokens at that time, before the call takes one.
Refilled(sec, usec) ==
    LET tmp_tokens == Int_(token_num_ + token_rate_ * Elapsed(sec, usec))
    IN  IF capacity_ > tmp_tokens THEN tmp_tokens ELSE capacity_

\* Whether sec and usec are not before the last call.
Later(sec, usec) == sec > tv_sec \/ (sec = tv_sec /\ usec >= tv_usec)

Grant(sec, usec) ==
    /\ Later(sec, usec)
    /\ tv_sec' = sec /\ tv_usec' = usec
    /\ IF Refilled(sec, usec) < 1
       THEN token_num_' = Refilled(sec, usec) /\ granted' = granted
       ELSE token_num_' = Refilled(sec, usec) - 1 /\ granted' = granted + 1
    /\ UNCHANGED <<opened, saved>>

\* The window whose grants are counted begins now (no step of the program).
Open ==
    /\ granted' = 0 /\ opened' = <<tv_sec, tv_usec>> /\ saved' = token_num_
    /\ UNCHANGED <<token_num_, tv_sec, tv_usec>>

Next ==
    \/ Open
    \/ \E sec \in tv_sec .. MaxSec, usec \in 0 .. UsPerSec - 1 : Grant(sec, usec)

Spec == Init /\ [][Next]_vars

------------------------------------------------------------------------------
(* Properties.                                                              *)

\* The microseconds that may count for a token since the window began: those that
\* passed, and for every end of a second less than one millisecond more, because
\* a negative difference of microseconds is rounded up.
Countable ==
    LET seconds == tv_sec - opened[1]
    IN  UsPerSec * seconds + tv_usec - opened[2] + (UsPerMs - 1) * seconds

\* In no window, wherever it begins and however the calls fall into it, more is
\* granted than the tokens saved at its beginning, never above the capacity, and
\* those of its time; neither rounding, nor overflow, nor the cut at the capacity
\* ever gives a token too many.
RateBound ==
    /\ token_num_ <= capacity_ /\ saved <= capacity_
    /\ UsPerMs * (granted + token_num_ - saved) <= token_rate_ * Countable
==============================================================================
