----------------------------- MODULE TextBuffer ------------------------------
(***************************************************************************)
(* What the operations of c_utils/cstr.c promise about a string's value,   *)
(* with no capacity, no terminator and no memory: the value is a sequence  *)
(* of characters.                                                          *)
(***************************************************************************)
EXTENDS Naturals, Sequences, SequencesExt

CONSTANTS
    Blank,      \* the characters that trimming removes
    UpperOf,    \* the capitals of the small letters
    Piece       \* the values that operands may have, the empty one included

VARIABLE text

Init == text \in Piece

Replace(u) == text' = u
AppendPiece(u) == text' = text \o u
Double == text' = text \o text
Insert(pos, u) == text' = SubSeq(text, 1, pos) \o u \o SubSeq(text, pos + 1, Len(text))

\* The front of the text is written over.
Overwrite(u) == text' = u \o SubSeq(text, Len(u) + 1, Len(text))

Turn == text' = Reverse(text)

\* Letters change their case, all else stays.
Recase(map) ==
    text' = [i \in DOMAIN text |-> IF text[i] \in DOMAIN map THEN map[text[i]] ELSE text[i]]

\* Trimming cuts before the first character that is not blank, or behind the
\* last, or both; a text of blanks becomes empty.
Solid(c) == c \notin Blank
TrimHead ==
    text' = IF SelectInSeq(text, Solid) = 0 THEN <<>>
            ELSE SubSeq(text, SelectInSeq(text, Solid), Len(text))
TrimTail == text' = SubSeq(text, 1, SelectLastInSeq(text, Solid))
TrimBoth ==
    text' = IF SelectInSeq(text, Solid) = 0 THEN <<>>
            ELSE SubSeq(text, SelectInSeq(text, Solid), SelectLastInSeq(text, Solid))

Next ==
    \/ \E u \in Piece :
          \/ \E from, to \in 0 .. Len(u) : Replace(SubSeq(u, from + 1, to))
          \/ AppendPiece(u) \/ Overwrite(u)
          \/ \E pos \in 0 .. Len(text) : Insert(pos, u)
    \/ Double \/ Turn \/ Recase(UpperOf) \/ Recase(AntiFunction(UpperOf))
    \/ TrimHead \/ TrimTail \/ TrimBoth

Spec == Init /\ [][Next]_text
==============================================================================
