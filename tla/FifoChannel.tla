----------------------------- MODULE FifoChannel -----------------------------
(***************************************************************************)
(* What a queue between one producer and one consumer promises: values     *)
(* come out in the order they went in, each once, none invented.           *)
(***************************************************************************)
EXTENDS Sequences

CONSTANT Value

VARIABLES
    items,   \* put and not taken yet
    taken    \* history: what the consumer got, in order

TypeOK == items \in Seq(Value) /\ taken \in Seq(Value)

Init == items = <<>> /\ taken = <<>>

Put(v) ==
    /\ items' = Append(items, v)
    /\ UNCHANGED taken

Take ==
    /\ items # <<>>
    /\ items' = Tail(items)
    /\ taken' = Append(taken, Head(items))

Next == Take \/ \E v \in Value : Put(v)

Spec == Init /\ [][Next]_<<items, taken>>
==============================================================================
