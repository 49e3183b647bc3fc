------------------------------- MODULE CString -------------------------------
(***************************************************************************)
(* The strings of c_utils/cstr.c: one allocated block that holds a header  *)
(* (cap, used), the characters and a terminating NUL.  The module follows  *)
(* one string through the operations that change it.  An operation that    *)
(* returns NULL before it changed anything leaves no step behind.          *)
(*                                                                         *)
(* The sizes of cstr.h are constants, so that small instances meet every   *)
(* one of them.  Contents of fresh memory are Junk.  The second string of  *)
(* an operation is only read; what is read of it is its value, a sequence  *)
(* of characters, whether it is a Cstr or a char pointer.                  *)
(***************************************************************************)
EXTENDS Integers, Sequences, SequencesExt, FiniteSetsExt

CONSTANTS
    HdrSize,        \* CSTR_HDR_SIZE
    MinSize,        \* _CSTR_MIN_SIZE
    TinyMax,        \* _CSTR_TINY_MAX_SIZE
    MidiumMax,      \* _CSTR_MIDIUM_MAX_SIZE
    IncrMax,        \* _CSTR_INCR_MAX
    MaxSize,        \* _CSTR_MAX_SIZE
    Char, Blank, Nul, Junk,
    UpperOf,        \* UpperOf[c]: the capital of the small letter c
    Piece,          \* the values of the operands
    Cases           \* the cases the program meets of those that lose characters

\* HdrSize and the terminator, which every block carries.
Overhead == HdrSize + 1

\* The powers that round_up_power_2 goes through, as far as MaxSize and beyond.
PowersOfTwo == {2^k : k \in 0 .. 30}

ASSUME CStringAssumption ==
    /\ {HdrSize, MinSize, TinyMax, MidiumMax, IncrMax, MaxSize} \subseteq Nat
    /\ Overhead < MinSize
    /\ MinSize <= TinyMax /\ TinyMax <= MidiumMax /\ MidiumMax <= MaxSize
    /\ MidiumMax \in PowersOfTwo /\ MaxSize < 2^30
    /\ Blank \subseteq Char
    /\ DOMAIN UpperOf \cup Range(UpperOf) \subseteq Char \ Blank
    /\ IsInjective(UpperOf) /\ DOMAIN UpperOf \cap Range(UpperOf) = {}
    /\ Nul \notin Char /\ Junk \notin Char /\ Nul # Junk
    /\ <<>> \in Piece /\ Piece \subseteq Seq(Char)
    /\ Cases \subseteq {"short_copy", "one_solid", "self_moved"}

VARIABLES
    cap,
    used,
    data,       \* the bytes of the block behind the header
    overrun     \* history: a write went past the end of the block

vars == <<cap, used, data, overrun>>

\* CSTR_TOTAL_SIZE and CSTR_TOTAL_USED.
TotalSize == cap + Overhead
TotalUsed == used + Overhead

------------------------------------------------------------------------------
(* Capacities.                                                              *)

\* The least power of two that is not below size; 0 stands for all that are above
\* MaxSize anyway.
round_up_power_2(size) ==
    IF size > 2^30 THEN 0 ELSE Min({p \in PowersOfTwo : p >= size})

\* Faulty variant of cal_fit_cap: a block that grows by IncrMax is not held to
\* the largest size.
cal_fit_capUnheld(total_cap, total_used) ==
    LET fit == CASE total_used >= MidiumMax -> total_used + IncrMax
                 [] total_used < MinSize -> MinSize
                 [] OTHER -> round_up_power_2(total_used)
    IN  CASE total_used > MaxSize \/ total_cap > MaxSize -> 0
          [] total_used = MaxSize /\ total_cap <= MaxSize -> MaxSize
          [] OTHER -> IF fit < total_cap /\ total_cap <= TinyMax THEN total_cap ELSE fit

\* The block size for total_used bytes in place of one of total_cap: powers of
\* two, from MidiumMax on steps of IncrMax; blocks up to TinyMax do not shrink.
cal_fit_cap(total_cap, total_used) ==
    LET fit == CASE total_used >= MidiumMax -> Min({total_used + IncrMax, MaxSize})
                 [] total_used < MinSize -> MinSize
                 [] OTHER -> round_up_power_2(total_used)
    IN  CASE total_used > MaxSize \/ total_cap > MaxSize -> 0
          [] total_used = MaxSize /\ total_cap <= MaxSize -> MaxSize
          [] OTHER -> IF fit < total_cap /\ total_cap <= TinyMax THEN total_cap ELSE fit

------------------------------------------------------------------------------
(* Bytes.                                                                   *)

Value == SubSeq(data, 1, used)

Fill(c, n) == [i \in 1 .. n |-> c]

\* malloc and realloc: the block gets n bytes, header included.
Block(bytes, n) == SubSeq(bytes \o Fill(Junk, n), 1, n - HdrSize)

\* A write is an index and what is written there.  After several, a byte is what
\* the last one that covers it has put there; none reaches behind the block.
Covers(w, i) == i - w[1] \in DOMAIN w[2]
Written(bytes, writes) ==
    [i \in DOMAIN bytes |->
        LET last == Max({0} \cup {k \in DOMAIN writes : Covers(writes[k], i)})
        IN  IF last = 0 THEN bytes[i] ELSE writes[last][2][i - writes[last][1]]]
Fits(bytes, w) == w[1] + Len(w[2]) <= Len(bytes)

\* The string becomes newCap, newUsed and bytes, and then the writes in their order.
Become(newCap, newUsed, bytes, writes) ==
    /\ cap' = newCap
    /\ used' = newUsed
    /\ data' = Written(bytes, writes)
    /\ overrun' = (overrun \/ \E k \in DOMAIN writes : ~Fits(bytes, writes[k]))

SetEnd(n) == <<n, <<Nul>> >>            \* CSTR_SET_END
Clean(from, n) == <<from, Fill(Nul, n)>>

------------------------------------------------------------------------------
(* Constructors.                                                            *)

\* cstr_new_str of a string: cstr_new_size for its length, then a copy.
NewStr(u) ==
    LET size == round_up_power_2(Len(u) + Overhead)
        n == Max({size, MinSize})
    IN  /\ size \in 1 .. MaxSize
        /\ cap = n - Overhead
        /\ used = Len(u)
        /\ data = Written(Block(<<>>, n), <<<<0, u>>, SetEnd(Len(u))>>)

\* cstr_new_str(NULL), and cstr_new_size for less than the smallest block.
NewEmpty ==
    /\ cap = MinSize - Overhead
    /\ used = 0
    /\ data = Written(Block(<<>>, MinSize), <<SetEnd(0)>>)

Init ==
    /\ NewEmpty \/ \E u \in Piece : NewStr(u)
    /\ overrun = FALSE

\* cstr_new, with the original freed: the copy's block is as large as cap says.
Clone ==
    /\ Become(cap, used, Block(SubSeq(data, 1, cap + 1), TotalSize), <<SetEnd(used)>>)

------------------------------------------------------------------------------
(* Operations that fit the block to a new length.                           *)

\* What cal_fit_cap makes of the block for n characters: refused, or a capacity
\* and the bytes after realloc, which is left out when the size is the same.
Sized(n) == cal_fit_cap(TotalSize, n + Overhead) \in MinSize .. MaxSize
FitCap(n) == cal_fit_cap(TotalSize, n + Overhead) - Overhead

\* Faulty variant of FitBytes: the block is never made larger.
FitBytesInPlace(n) == data
FitBytes(n) == IF FitCap(n) # cap THEN Block(data, FitCap(n) + Overhead) ELSE data

\* cstr_assign, cstr_assign_str.
Assign(u) ==
    LET n == Len(u)
    IN  /\ Sized(n)
        /\ Become(FitCap(n), n, FitBytes(n),
                  <<<<0, u>>, Clean(n, FitCap(n) - n), SetEnd(n)>>)

\* cstr_sub_cstr, cstr_sub_str: len characters of u from begin.
Sub(u, begin, len) ==
    LET n == Min({len, Len(u) - begin})
    IN  /\ begin < Len(u) /\ len \in 1 .. Len(u)
        /\ Sized(n)
        /\ Become(FitCap(n), n, FitBytes(n),
                  <<<<0, SubSeq(u, begin + 1, begin + n)>>, SetEnd(n)>>)

\* cstr_copy with begin = 0 (begin does not shorten len, so that the bytes read
\* for another begin lie outside the source): the first characters are written
\* over.  The block is fitted to them alone, also when the string is longer:
\* "short_copy" is the case in which that takes bytes of the string away.
Keeps(n) == "short_copy" \in Cases \/ used <= FitCap(n)
Copy(u) ==
    LET n == Len(u)
        longer == Max({n, used})
    IN  /\ Sized(n)
        /\ Keeps(n)
        /\ Become(FitCap(n), longer, FitBytes(n), <<<<0, u>>, SetEnd(longer)>>)

\* cstr_copy_str: as cstr_copy, but an empty string is ignored and no
\* terminator is set.
CopyStr(u) ==
    LET n == Len(u)
    IN  /\ u # <<>>
        /\ Sized(n)
        /\ Keeps(n)
        /\ Become(FitCap(n), Max({n, used}), FitBytes(n), <<<<0, u>>>>)

------------------------------------------------------------------------------
(* Operations that add to the string.                                       *)

\* Faulty variant of InsertWrites: the tail is moved after it was written over.
InsertWritesFirst(pos, u) ==
    <<<<pos, u>>, <<pos + Len(u), SubSeq(Written(data, <<<<pos, u>>>>), pos + 1, used)>>,
      SetEnd(used + Len(u))>>

\* memmove of the tail, memcpy of the piece, terminator.
InsertWrites(pos, u) ==
    <<<<pos + Len(u), SubSeq(data, pos + 1, used)>>, <<pos, u>>,
      SetEnd(used + Len(u))>>

\* cstr_insert, cstr_insert_str at a position in the string; begin and len have
\* already cut u out of the operand.  The block grows when cap is too small.  An
\* empty u only sets the terminator, wherever pos is, and one pos stands for all.
Insert(pos, u) ==
    LET n == used + Len(u)
    IN  /\ u = <<>> => pos = used
        /\ IF n <= cap
           THEN Become(cap, n, data, InsertWrites(pos, u))
           ELSE /\ cal_fit_cap(TotalSize, n + Overhead) >= MinSize
                /\ Become(FitCap(n), n, Block(data, FitCap(n) + Overhead),
                          InsertWrites(pos, u))

\* Faulty variant of AppendBytes: the terminator is forgotten in the comparison.
AppendBytesOffByOne(n) ==
    IF FitCap(n) - 1 > cap THEN Block(data, FitCap(n) + Overhead) ELSE data

\* The bytes for n characters: the block is only made larger, though cap may go
\* down.
AppendBytes(n) == IF FitCap(n) > cap THEN Block(data, FitCap(n) + Overhead) ELSE data

\* cstr_append, cstr_append_str.  The rest of the capacity is cleared, which
\* sets no terminator when nothing of it is left.
Append_(u) ==
    LET n == used + Len(u)
    IN  /\ u # <<>>
        /\ TotalSize + Len(u) <= MaxSize
        /\ cal_fit_cap(TotalSize, n + Overhead) >= MinSize
        /\ Become(FitCap(n), n, AppendBytes(n),
                  <<<<used, u>>, Clean(n, FitCap(n) - n)>>)

\* cstr_append of a string to itself.  When the block has to grow, characters and
\* length of the operand are read behind its old address ("self_moved"): there
\* they may still stand, or anything else.  The length that memset gets for the
\* rest then may wrap, for which MaxSize stands.
Rest(newCap, n) == IF n <= newCap THEN newCap - n ELSE MaxSize
ReadBehind == {Value} \cup {Fill(Junk, n) : n \in 0 .. MaxSize}
AppendSelf ==
    LET doubled == used + used
        grows == FitCap(doubled) > cap
    IN  /\ used # 0
        /\ TotalSize + used <= MaxSize
        /\ cal_fit_cap(TotalSize, doubled + Overhead) >= MinSize
        /\ grows => "self_moved" \in Cases
        /\ \E u \in IF grows THEN ReadBehind ELSE {Value} :
              LET n == used + Len(u)
              IN  Become(FitCap(doubled), n, AppendBytes(doubled),
                         <<<<used, u>>, Clean(n, Rest(FitCap(doubled), n))>>)

------------------------------------------------------------------------------
(* Operations in place.                                                     *)

\* cstr_reverse.
Turn ==
    /\ Become(cap, used, data, <<<<0, Reverse(Value)>>>>)

\* cstr_toupper, cstr_tolower: the characters that map knows are replaced.
LowerOf == AntiFunction(UpperOf)
Recase(map) ==
    Become(cap, used, data,
           <<<<0, [i \in 1 .. used |-> IF data[i] \in DOMAIN map THEN map[data[i]] ELSE data[i]]>>>>)
ToUpper == Recase(UpperOf)
ToLower == Recase(LowerOf)

\* cstr_clear.
Clear ==
    /\ Become(cap, 0, data, <<Clean(0, cap)>>)

Solid(c) == c \notin Blank
FirstSolid == SelectInSeq(Value, Solid)
LastSolid == SelectLastInSeq(Value, Solid)

\* Faulty variant of Keep: the rest is not cleared.
KeepWithTail(from, to) ==
    Become(cap, to - from + 1, data, <<<<0, SubSeq(data, from, to)>>>>)

\* Characters from .. to move to the front, the rest is cleared.
Keep(from, to) ==
    Become(cap, to - from + 1, data,
           <<<<0, SubSeq(data, from, to)>>, Clean(to - from + 1, used - (to - from + 1))>>)

\* A string of blanks: used is 0 when memset is given it as the length, so the
\* blanks stay in the block.
WipeLength == Become(cap, 0, data, <<>>)

\* cstr_trim, cstr_trim_hdr.
Trim ==
    /\ IF FirstSolid = 0 THEN WipeLength ELSE Keep(FirstSolid, LastSolid)
TrimHdr ==
    /\ IF FirstSolid = 0 THEN WipeLength ELSE Keep(FirstSolid, used)

\* cstr_trim_tail: the test for a string of blanks takes index 0 for "none", so
\* it hits the strings whose only solid character is the first ("one_solid").
TrimTail ==
    /\ used # 0
    /\ LastSolid = 1 => "one_solid" \in Cases
    /\ IF LastSolid = 1 THEN WipeLength ELSE Keep(1, LastSolid)

------------------------------------------------------------------------------
Next ==
    \/ Clone
    \/ \E u \in Piece :
          \/ Assign(u) \/ Copy(u) \/ CopyStr(u) \/ Append_(u)
          \/ \E pos \in 0 .. used : Insert(pos, u)
          \/ \E begin, len \in 0 .. Len(u) : Sub(u, begin, len)
    \/ AppendSelf \/ Turn \/ ToUpper \/ ToLower \/ Clear \/ Trim \/ TrimHdr \/ TrimTail

Spec == Init /\ [][Next]_vars

------------------------------------------------------------------------------
(* Properties.                                                              *)

\* The block is never larger than the largest size, and never smaller than the
\* smallest.
TypeOK ==
    /\ cap \in MinSize - Overhead .. MaxSize - Overhead
    /\ used \in 0 .. MaxSize - Overhead
    /\ data \in Seq(Char \cup {Nul, Junk})
    /\ Len(data) + HdrSize \in MinSize .. MaxSize
    /\ overrun \in BOOLEAN

\* cap and used tell the truth about the block: the characters fit into cap, and
\* cap and the terminator into what was allocated (the condition that is
\* commented out in cstr_is_valid, line 588).
SizesAgree == used <= cap /\ cap < Len(data)

\* No operation writes behind the end of its block.
NoOverrun == ~overrun

\* The value ends with a NUL, as the comment at line 17 has it and three operations
\* do not: TerminatorKept names them.
Terminated == used < Len(data) /\ data[used + 1] = Nul

\* A terminated string loses its NUL to three operations only: cstr_copy_str, an
\* append that leaves nothing of the capacity, and trimming a string of blanks.
TerminatorKept ==
    [][Terminated =>
        \/ Terminated'
        \/ \E u \in Piece : CopyStr(u) \/ (Append_(u) /\ used' = cap')
        \/ AppendSelf /\ used' = cap'
        \/ WipeLength]_vars

\* Whatever the capacities do, every operation makes of the value what it
\* promises: no character is lost, invented or left over by a reallocation or a
\* move.
Text == INSTANCE TextBuffer WITH text <- Value
PromiseKept ==
    /\ \A u \in Piece :
          /\ Assign(u) => Text!Replace(u)
          /\ Copy(u) \/ CopyStr(u) => Text!Overwrite(u)
          /\ Append_(u) => Text!AppendPiece(u)
          /\ \A pos \in 0 .. used : Insert(pos, u) => Text!Insert(pos, u)
    /\ AppendSelf => Text!Double
    /\ Turn => Text!Turn
    /\ ToUpper => Text!Recase(UpperOf)
    /\ ToLower => Text!Recase(LowerOf)
    /\ Clear => Text!Replace(<<>>)
    /\ Trim => Text!TrimBoth
    /\ TrimHdr => Text!TrimHead
    /\ TrimTail => Text!TrimTail
ImplementsText == Text!Spec /\ [][PromiseKept]_vars
==============================================================================
