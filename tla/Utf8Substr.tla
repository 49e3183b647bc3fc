------------------------------ MODULE Utf8Substr ------------------------------
(***************************************************************************)
(* c_utils/utf8_substr.cpp: a text in UTF-8 split into characters, and a   *)
(* part of it counted in characters.  Both walk by the length that the     *)
(* first byte of a character announces, and look at no other byte.         *)
(*                                                                         *)
(* The behaviour of this module only types the text.                       *)
(***************************************************************************)
EXTENDS Integers, Sequences, SequencesExt, FiniteSetsExt

CONSTANTS
    Byte,           \* a subset of 0 .. 255
    MaxBytes        \* bound: length of the text

VARIABLE input

Init == input = <<>>

Type(byte) ==
    /\ Len(input) < MaxBytes
    /\ input' = Append(input, byte)

Next == \E byte \in Byte : Type(byte)

Spec == Init /\ [][Next]_input

------------------------------------------------------------------------------
\* Faulty variant of LengthOf: the smallest first byte of two is missed.
LengthOfOffByOne(byte) ==
    CASE byte >= 252 -> 6
      [] byte \in 248 .. 251 -> 5
      [] byte \in 240 .. 247 -> 4
      [] byte \in 224 .. 239 -> 3
      [] byte \in 193 .. 223 -> 2
      [] OTHER -> 1

\* The bytes of a character by its first: 0xC0, 0xE0, 0xF0, 0xF8, 0xFC and up.
LengthOf(byte) ==
    CASE byte >= 252 -> 6
      [] byte \in 248 .. 251 -> 5
      [] byte \in 240 .. 247 -> 4
      [] byte \in 224 .. 239 -> 3
      [] byte \in 192 .. 223 -> 2
      [] OTHER -> 1

\* s.substr(i, len), which ends with the text.
substr(s, i, len) == SubSeq(s, i + 1, Min({i + len, Len(s)}))

\* What comes of a walk that has stepped over the end of the text: the loop tests
\* for the end with != and goes on, until substr throws out_of_range (unless it
\* has died of reading there).
Fails == <<-1>>

RECURSIVE CharsFrom(_, _)
CharsFrom(s, i) ==
    IF i >= Len(s) THEN (IF i = Len(s) THEN <<>> ELSE <<Fails>>)
    ELSE LET len == LengthOf(s[i + 1]) IN <<substr(s, i, len)>> \o CharsFrom(s, i + len)

utf8_to_charset(s) == IF Fails \in ToSet(CharsFrom(s, 0)) THEN <<Fails>> ELSE CharsFrom(s, 0)

\* The loop of utf8_substr at byte i, behind cur_pos characters, added of which
\* are in the result.
RECURSIVE SubstrFrom(_, _, _, _, _, _)
SubstrFrom(s, pos, length, i, cur_pos, result) ==
    LET len == LengthOf(s[i + 1])
        taken == Append(result, substr(s, i, len))
    IN  CASE i > Len(s) -> Fails
          [] i = Len(s) -> FlattenSeq(result)
          [] i < Len(s) /\ cur_pos + 1 < pos ->
                 SubstrFrom(s, pos, length, i + len, cur_pos + 1, result)
          [] i < Len(s) /\ cur_pos + 1 >= pos ->
                 IF Len(taken) = length THEN FlattenSeq(taken)
                 ELSE SubstrFrom(s, pos, length, i + len, cur_pos + 1, taken)

utf8_substr(s, pos, length) ==
    IF length = 0 THEN <<>> ELSE SubstrFrom(s, pos, length, 0, 0, <<>>)

------------------------------------------------------------------------------
(* Properties.                                                              *)

\* UTF-8 by its other rule: a character begins with each byte that does not
\* continue one, 0x80 to 0xBF.
First == {i \in DOMAIN input : input[i] \notin 128 .. 191}
Bytes(i) == SubSeq(input, i, Min({j \in First : j > i} \cup {Len(input) + 1}) - 1)
Characters == LET firsts == SetToSortSeq(First, <)
              IN  [k \in DOMAIN firsts |-> Bytes(firsts[k])]
\* The first byte of a character of more than one byte has as many leading ones.
LeadingOnes(byte) == Min({k \in 0 .. 7 : (byte \div 2^(7 - k)) % 2 = 0} \cup {8})
Valid ==
    /\ input # <<>> => 1 \in First
    /\ \A i \in First :
          LET ones == LeadingOnes(input[i])
          IN  ones \in 0 .. 6 /\ Len(Bytes(i)) = IF ones = 0 THEN 1 ELSE ones

\* Valid text is split into its characters.  Of every text that can be split, also
\* one that is not valid, utf8_substr returns the length characters from the
\* pos-th on, where 0 and 1 are both the first, or as many as there are.  So it
\* fails only for texts whose last character is cut short.
SubstrIsPart ==
    LET chars == utf8_to_charset(input)
    IN  /\ Valid => chars = Characters
        /\ chars # <<Fails>> =>
              \A pos, length \in 0 .. MaxBytes + 1 :
                  LET from == Max({pos, 1})
                  IN  utf8_substr(input, pos, length) =
                          FlattenSeq(SubSeq(chars, from, Min({from + length - 1, Len(chars)})))
==============================================================================
