------------------------------- MODULE NumBaseX -------------------------------
(***************************************************************************)
(* Add of cpp_utils/num_base_x.cpp: the sum of two numbers in base 36,     *)
(* written with 0-9 and a-z.  A number is the sequence of its characters;  *)
(* a character is the value of its digit, and Base stands for every        *)
(* character that is no digit, which num_convert_map takes for 0.          *)
(*                                                                         *)
(* The behaviour of this module only types the two numbers.                *)
(***************************************************************************)
EXTENDS Integers, Sequences, SequencesExt

CONSTANTS
    Base,           \* 36
    MaxDigits       \* bound: length of a number

VARIABLES num1, num2

vars == <<num1, num2>>

Digit == 0 .. Base - 1

Init == num1 = <<>> /\ num2 = <<>>

TypeNum1(c) ==
    /\ Len(num1) < MaxDigits
    /\ num1' = Append(num1, c)
    /\ UNCHANGED num2

TypeNum2(c) ==
    /\ Len(num2) < MaxDigits
    /\ num2' = Append(num2, c)
    /\ UNCHANGED num1

Next == \E c \in Digit : TypeNum1(c) \/ TypeNum2(c)

Spec == Init /\ [][Next]_vars

------------------------------------------------------------------------------
num_convert_map(c) == IF c \in Digit THEN c ELSE 0

\* Element i, from 0 on, of a vector; behind its end stands whatever is there.
Element(vec, i, stray) == IF i < Len(vec) THEN vec[i + 1] ELSE stray[i]

\* Faulty variant of Carry: the sum that needs two digits begins one too late.
CarryLate(sum) == IF sum > Base THEN 1 ELSE 0

Carry(sum) == IF sum > Base - 1 THEN 1 ELSE 0

\* The loop over the digits, lowest first, with the digits of the sum so far.  It
\* goes on to the end of the first number, if only the second is not empty.
RECURSIVE Columns(_, _, _, _, _)
Columns(vec1, vec2, stray, sum, carry) ==
    LET i == Len(sum)
        column == num_convert_map(Element(vec1, i, stray))
                      + num_convert_map(Element(vec2, i, stray)) + carry
    IN  IF i < Len(vec1) /\ vec2 # <<>>
        THEN Columns(vec1, vec2, stray, Append(sum, column % Base), Carry(column))
        ELSE [digits |-> sum, carry |-> carry]

\* Behind the loop, one more digit of one number and the carry.  The case of equal
\* lengths asks for an index one smaller than the loop leaves.
Add(x, y, stray) ==
    LET vec1 == Reverse(x)
        vec2 == Reverse(y)
        loop == Columns(vec1, vec2, stray, <<>>, 0)
        i == Len(loop.digits)
        longer == IF i = Len(vec1) THEN vec2 ELSE vec1
        column == num_convert_map(Element(longer, i, stray)) + loop.carry
        one == IF Carry(column) = 1 THEN <<1>> ELSE <<>>
    IN  IF i = Len(vec2) - 1 /\ i = Len(vec1) - 1
        THEN Reverse(loop.digits \o (IF loop.carry = 1 THEN <<1>> ELSE <<>>))
        ELSE Reverse(loop.digits \o <<column % Base>> \o one)

------------------------------------------------------------------------------
(* Properties.                                                              *)

Value(x) == FoldLeft(LAMBDA v, c : Base * v + c, 0, x)

\* What can stand behind the end of a vector: digits, and characters that are none.
Strays == [0 .. MaxDigits -> {0, Base - 1, Base}]
IsZero(stray) == \A i \in DOMAIN stray : num_convert_map(stray[i]) = 0

\* The result is the sum, carried through every digit, when the second number is
\* one digit longer than the first; and when it is not empty and no longer than
\* that, if what stands behind the vectors counts as zero.  (Everywhere else
\* digits are lost, or added.)
AddsUp ==
    /\ Len(num2) = Len(num1) + 1 =>
          \A stray \in Strays : Value(Add(num1, num2, stray)) = Value(num1) + Value(num2)
    /\ Len(num2) \in 1 .. Len(num1) + 1 =>
          \A stray \in Strays :
              IsZero(stray) => Value(Add(num1, num2, stray)) = Value(num1) + Value(num2)
==============================================================================
