---------------------------- MODULE CStringSearch ----------------------------
(***************************************************************************)
(* The searches and comparisons of c_utils/cstr.c: Knuth-Morris-Pratt,     *)
(* Boyer-Moore and Sunday, the counting built on the last, the scans for a *)
(* character or a prefix and the comparison.                               *)
(*                                                                         *)
(* A behaviour types a text and a pattern and calls one search, whose      *)
(* loops are steps.  The scans and the comparison are single loops and     *)
(* operators here, and so are the tables of Boyer-Moore and Sunday.        *)
(* Indices are those of the code, from 0 on; a character is its code, from *)
(* 1 to 127.                                                               *)
(***************************************************************************)
EXTENDS Integers, Sequences, FiniteSets, FiniteSetsExt

CONSTANTS
    Char,
    SearchMax,      \* _SEARCH_MAX_LEN: patterns as long as that are refused
    MaxText,        \* bound: length of the text
    MaxPattern      \* bound: length of the pattern

ASSUME SearchAssumption ==
    /\ Char \subseteq 1 .. 127
    /\ SearchMax \in Nat \ {0, 1} /\ {MaxText, MaxPattern} \subseteq Nat

VARIABLES
    text,           \* data of the string
    pattern,
    call,           \* the search that was called, or "none"
    begin,          \* where it was asked to begin
    place,          \* where it is
    next_table,     \* of Knuth-Morris-Pratt: the entries filled so far
    k,              \* in kmp_next_table: the prefix that may be made longer
    i,              \* the position in the text (i or ti)
    j,              \* the position in the pattern
    count,
    hits,           \* history: what cstr_count_str has counted
    result

vars == <<text, pattern, call, begin, place, next_table, k, i, j, count, hits, result>>
args == <<text, pattern, call, begin>>

Init ==
    /\ text = <<>> /\ pattern = <<>>
    /\ call = "none" /\ place = "typing" /\ begin = 0
    /\ next_table = <<>> /\ k = 0
    /\ i = 0 /\ j = 0
    /\ count = 0 /\ hits = {}
    /\ result = 0

Type(newText, newPattern) ==
    /\ place = "typing"
    /\ Len(newText) <= MaxText /\ text' = newText
    /\ Len(newPattern) <= MaxPattern /\ pattern' = newPattern
    /\ UNCHANGED <<call, begin, place, next_table, k, i, j, count, hits, result>>

NotFound == -1

\* s[n], counted from 0.
Nth(s, n) == s[n + 1]
Indices(s) == 0 .. Len(s) - 1

------------------------------------------------------------------------------
(* Calls and returns.                                                       *)

\* What every search asks before it starts.  (cstr_find_first takes begin as an
\* int, and hands a negative one on as a huge number.)
Searchable(from) ==
    /\ from >= 0 /\ from + Len(pattern) <= Len(text)
    /\ Len(pattern) \in 1 .. SearchMax - 1

Return(answer) ==
    /\ place' = "returned"
    /\ result' = answer
    /\ UNCHANGED <<args, next_table, k, i, j, count, hits>>

Call(search, from, start) ==
    /\ place = "typing"
    /\ call' = search /\ begin' = from
    /\ IF Searchable(from)
       THEN /\ place' = start /\ i' = from
            /\ next_table' = IF start = "table" THEN <<0>> ELSE <<>>
            /\ UNCHANGED result
       ELSE /\ place' = "returned" /\ result' = NotFound
            /\ UNCHANGED <<i, next_table>>
    /\ UNCHANGED <<text, pattern, k, j, count, hits>>

Begins == 0 .. MaxText + 1
kmp_search_first == \E from \in Begins : Call("kmp", from, "table")
boyer_moore_search_first == \E from \in Begins : Call("boyer_moore", from, "search")
cstr_find_first == \E from \in Begins \cup {-1} : Call("sunday", from, "search")

------------------------------------------------------------------------------
(* Knuth-Morris-Pratt.                                                      *)

\* Faulty variant of Shorter: the search for a prefix begins anew.
ShorterToNone(n) == 0

\* The next shorter prefix that is also a suffix.
Shorter(n) == Nth(next_table, n - 1)

\* The loop of kmp_next_table, at the entry behind those that are filled.
FillTable ==
    LET entry == Len(next_table)
        same == Nth(pattern, entry) = Nth(pattern, k)
    IN  /\ place = "table" /\ entry < Len(pattern)
        /\ CASE same -> next_table' = Append(next_table, k + 1) /\ k' = k + 1
             [] ~same /\ k = 0 -> next_table' = Append(next_table, 0) /\ UNCHANGED k
             [] ~same /\ k # 0 -> k' = Shorter(k) /\ UNCHANGED next_table
        /\ UNCHANGED <<args, place, i, j, count, hits, result>>

TableIsFull ==
    /\ place = "table" /\ Len(next_table) = Len(pattern)
    /\ place' = "search"
    /\ UNCHANGED <<args, next_table, k, i, j, count, hits, result>>

Go(newI, newJ) ==
    /\ i' = newI /\ j' = newJ
    /\ UNCHANGED <<args, place, next_table, k, count, hits, result>>

\* Faulty variant of FallBack: one character of the text is passed over.
FallBackNext == IF j = 0 THEN Go(i + 1, 0) ELSE Go(i + 1, Nth(next_table, j - 1))

\* Where text and pattern are compared after a mismatch.
FallBack == IF j = 0 THEN Go(i + 1, 0) ELSE Go(i, Nth(next_table, j - 1))

KmpStep ==
    /\ place = "search" /\ call = "kmp"
    /\ IF i >= Len(text) THEN Return(NotFound)
       ELSE IF Nth(text, i) # Nth(pattern, j) THEN FallBack
       ELSE IF j = Len(pattern) - 1 THEN Return(i - j)
       ELSE Go(i + 1, j + 1)

------------------------------------------------------------------------------
(* Boyer-Moore.                                                             *)

LastIndex == Len(pattern) - 1

\* Where the pattern put at i differs from the text.
Mismatches == {n \in Indices(pattern) : Nth(text, i + n) # Nth(pattern, n)}

\* The last index of the character in the pattern, or -1.
bm_bad_char(c) == Max({n \in Indices(pattern) : Nth(pattern, n) = c} \cup {-1})

\* The length of the longest common suffix of the pattern and of its prefix that
\* ends at n.
bm_suffix(n) ==
    Max({l \in 0 .. n + 1 : \A x \in 0 .. l - 1 : Nth(pattern, n - x) = Nth(pattern, LastIndex - x)})

\* Faulty variant of GoodSuffixInside: the first occurrence instead of the last.
GoodSuffixInsideFirst(inside) == LastIndex - Min(inside)

\* The shift when the good suffix stands again at the indices inside: in the
\* code, the later assignment overwrites the earlier.
GoodSuffixInside(inside) == LastIndex - Max(inside)

\* Where the suffix behind n stands again inside the pattern, or else a suffix of
\* it at the front.
bm_good_suffix(n) ==
    LET inside == {m \in 0 .. LastIndex - 1 : LastIndex - bm_suffix(m) = n}
        front == {m \in 0 .. LastIndex - 1 : bm_suffix(m) = m + 1 /\ n < LastIndex - m}
    IN  CASE inside # {} -> GoodSuffixInside(inside)
          [] inside = {} /\ front # {} -> LastIndex - Max(front)
          [] OTHER -> Len(pattern)

\* The comparison goes from the right.
BoyerMooreStep ==
    LET differ == Max(Mismatches)
    IN  /\ place = "search" /\ call = "boyer_moore"
        /\ IF i > Len(text) - Len(pattern) THEN Return(NotFound)
           ELSE IF Mismatches = {} THEN Return(i)
           ELSE Go(i + Max({differ - bm_bad_char(Nth(text, i + differ)),
                            bm_good_suffix(differ)}), j)

------------------------------------------------------------------------------
(* Sunday, and the counting that is built on it.                            *)

\* Faulty variant of SundayShift: the first occurrence in the pattern counts.
SundayShiftFirst(c) ==
    LET places == {n \in Indices(pattern) : Nth(pattern, n) = c}
    IN  IF places = {} THEN Len(pattern) + 1 ELSE Len(pattern) - Min(places)

SundayShift(c) ==
    LET places == {n \in Indices(pattern) : Nth(pattern, n) = c}
    IN  IF places = {} THEN Len(pattern) + 1 ELSE Len(pattern) - Max(places)

\* The byte behind the window.  Behind the text it is the terminator, or what is
\* there in its place.
ByteAt(n) == IF n < Len(text) THEN {Nth(text, n)} ELSE Char \cup {0}

\* Faulty variant of BehindHit: hits may overlap.
BehindHitOverlapping(hit) == hit + 1

\* Where cstr_count_str goes on behind a hit: one character further than its end.
BehindHit(hit) == hit + Len(pattern) + 1

\* The search returns to its caller, or to the loop of cstr_count_str.
SundayReturns(answer) ==
    IF call = "count"
    THEN IF answer = NotFound THEN Return(count)
         ELSE /\ place' = "count"
              /\ count' = count + 1 /\ hits' = hits \cup {answer}
              /\ i' = BehindHit(answer)
              /\ UNCHANGED <<args, next_table, k, j, result>>
    ELSE Return(answer)

SundayStep ==
    /\ place = "search" /\ call \in {"sunday", "count"}
    /\ IF i > Len(text) - Len(pattern) THEN SundayReturns(NotFound)
       ELSE IF Mismatches = {} THEN SundayReturns(i)
       ELSE \E c \in ByteAt(i + Len(pattern)) : Go(i + SundayShift(c), j)

\* What it asks first of the pattern is asked again by the search.
cstr_count_str ==
    \E from \in Begins :
        /\ place = "typing"
        /\ place' = "count" /\ call' = "count" /\ begin' = from /\ i' = from
        /\ UNCHANGED <<text, pattern, next_table, k, j, count, hits, result>>

CountStep ==
    /\ place = "count"
    /\ IF i < Len(text) /\ Searchable(i)
       THEN /\ place' = "search"
            /\ UNCHANGED <<args, next_table, k, i, j, count, hits, result>>
       ELSE Return(count)

------------------------------------------------------------------------------
Next ==
    \/ \E c \in Char : Type(Append(text, c), pattern) \/ Type(text, Append(pattern, c))
    \/ kmp_search_first \/ boyer_moore_search_first \/ cstr_find_first \/ cstr_count_str
    \/ FillTable \/ TableIsFull \/ KmpStep \/ BoyerMooreStep \/ SundayStep \/ CountStep

Spec == Init /\ [][Next]_vars

------------------------------------------------------------------------------
(* Scans and comparison.                                                    *)

\* Faulty variant of CharHits: the character at end belongs to the range.
CharHitsUpTo(t, c, from, end) ==
    {n \in Indices(t) : from <= n /\ (end # 0 => n <= end) /\ Nth(t, n) = c}

\* The indices of a character from a position on and before end, where 0 is no end.
CharHits(t, c, from, end) ==
    {n \in Indices(t) : from <= n /\ (end # 0 => n < end) /\ Nth(t, n) = c}

cstr_count_char(t, c, from, end) == Cardinality(CharHits(t, c, from, end))

cstr_find_char(t, c, from, end) ==
    LET found == CharHits(t, c, from, end) IN IF found = {} THEN NotFound ELSE Min(found)

cstr_is_start_with(t, p) ==
    Len(p) <= Len(t) /\ \A n \in Indices(p) : Nth(t, n) = Nth(p, n)

\* The indices that both strings have.
Shared(t, u) == Indices(t) \cap Indices(u)

cstr_compare(t, u) ==
    LET differ == {n \in Shared(t, u) : Nth(t, n) # Nth(u, n)}
    IN  CASE differ # {} -> Nth(t, Min(differ)) - Nth(u, Min(differ))
          [] differ = {} /\ Len(t) = Len(u) -> 0
          [] differ = {} /\ Len(t) < Len(u) -> -1
          [] differ = {} /\ Len(t) > Len(u) -> 1

------------------------------------------------------------------------------
(* Reference definitions.                                                   *)

Occurs(t, p, n) == n + Len(p) <= Len(t) /\ \A x \in Indices(p) : Nth(t, n + x) = Nth(p, x)
Occurrences(t, p, from) == {n \in Indices(t) : n >= from /\ Occurs(t, p, n)}

FirstOccurrence(t, p, from) ==
    IF from < 0 \/ Len(p) \notin 1 .. SearchMax - 1 \/ Occurrences(t, p, from) = {}
    THEN NotFound ELSE Min(Occurrences(t, p, from))

\* The longest proper prefix of the first l characters that is also their suffix.
Borders(l) == {n \in 0 .. l - 1 : \A x \in 0 .. n - 1 : Nth(pattern, x) = Nth(pattern, l - n + x)}

\* Occurrences of the pattern that do not overlap.
Disjoint(places) == \A m, n \in places : m < n => m + Len(pattern) <= n

------------------------------------------------------------------------------
(* Properties.                                                              *)

Answered(search) == call = search /\ place = "returned"
IsFirst(search) == Answered(search) => result = FirstOccurrence(text, pattern, begin)

\* As far as it is filled, entry n of the table of kmp_next_table is the length of
\* the longest proper prefix of pattern[0..n] that is also its suffix, as the
\* comment at line 772 has it.
TableHoldsBorders ==
    \A n \in Indices(next_table) : Nth(next_table, n) = Max(Borders(n + 1))

\* kmp_search_first returns the first occurrence at or behind begin.
KmpIsFirst == IsFirst("kmp")

\* boyer_moore_search_first does: neither of its two shifts leaps over one.
BoyerMooreIsFirst == IsFirst("boyer_moore")

\* sunday_search_first does, whatever stands in the place of the terminator.
SundayIsFirst == IsFirst("sunday")

\* cstr_count_str never counts more than there are occurrences that do not overlap,
\* and counts as many as there can be, unless two occurrences touch.
CountsApart ==
    Answered("count") =>
        LET all == IF Len(pattern) \in 1 .. SearchMax - 1
                   THEN Occurrences(text, pattern, begin) ELSE {}
            apart == {places \in SUBSET all : Disjoint(places)}
            touch == \E n \in all : n + Len(pattern) \in all
        IN  /\ \E places \in apart : result = Cardinality(places)
            /\ ~touch => \A places \in apart : Cardinality(places) <= result

RangesSplit ==
    \A c \in Char, end \in Begins : \A cut \in 1 .. end : \A from \in 0 .. cut :
        LET first == cstr_find_char(text, c, from, cut)
        IN  /\ cstr_count_char(text, c, from, end) =
                   cstr_count_char(text, c, from, cut) + cstr_count_char(text, c, cut, end)
            /\ cstr_find_char(text, c, from, end) =
                   IF first # NotFound THEN first ELSE cstr_find_char(text, c, cut, end)
            /\ cstr_find_char(text, c, from, 0) = FirstOccurrence(text, <<c>>, from)

PrefixIsFoundAtZero ==
    Searchable(0) =>
        (cstr_is_start_with(text, pattern) <=> FirstOccurrence(text, pattern, 0) = 0)

CompareIsLexical ==
    /\ cstr_compare(text, pattern) > 0 <=>
          \/ cstr_is_start_with(text, pattern) /\ text # pattern
          \/ \E n \in Shared(text, pattern) :
                /\ \A x \in 0 .. n - 1 : Nth(text, x) = Nth(pattern, x)
                /\ Nth(text, n) > Nth(pattern, n)
    /\ cstr_compare(text, pattern) = 0 <=> text = pattern
    /\ cstr_compare(text, pattern) < 0 <=> cstr_compare(pattern, text) > 0

\* The scans from cstr.c:81 to 131 and 377 to 415 agree with each other, with what
\* the searches find and with the order of dictionaries.  A range that is cut in
\* two, anywhere but at 0, can be counted and searched part after part, and a
\* character is found where a pattern of that character is; a text starts with what
\* is found at 0; a string comes after its prefixes in cstr_compare, and else the
\* first difference decides.  (Of the text alone, or of the two: one state for each
\* is enough.)
ScansAgree ==
    place = "typing" =>
        /\ pattern = <<>> => RangesSplit
        /\ PrefixIsFoundAtZero
        /\ CompareIsLexical
==============================================================================
