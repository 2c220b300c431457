------------------------------- MODULE DynSeq -------------------------------
(***************************************************************************)
(* What a dynamic array promises its users (src/darray.h): it is a         *)
(* sequence, and nobody need know of the memory behind it.  DArray         *)
(* implements this.                                                        *)
(***************************************************************************)
EXTENDS Naturals, Sequences

CONSTANTS Item, Junk

Elem == Item \union {Junk}

VARIABLES
    seq,        \* the elements
    call        \* the last call and its argument

vars == <<seq, call>>

ButLast(s) == SubSeq(s, 1, Len(s) - 1)

Init == call[1] = "alloc" /\ seq \in Seq(Elem) /\ Len(seq) = call[2]

\* the elements that were there before stay; new ones have any value
Resize(n) ==
    /\ call' = <<"resize", n>>
    /\ seq' \in Seq(Elem)
    /\ Len(seq') = n
    /\ \A i \in 1..Len(seq) : i <= n => seq'[i] = seq[i]

Push(x) == call' = <<"push", x>> /\ seq' = Append(seq, x)

Grow ==
    /\ call' = <<"push", Junk>>
    /\ \E x \in Elem : seq' = Append(seq, x)

Pop == call' = <<"pop">> /\ seq' = ButLast(seq)

\* strings end with a zero
StrPush(c) ==
    /\ call' = <<"strpush", c>>
    /\ seq' = Append(Append(ButLast(seq), c), 0)

StrPop == call' = <<"strpop">> /\ seq' = Append(ButLast(ButLast(seq)), 0)

\* darr_free or darr_finalize: no call comes after it
End == call' = <<"end">> /\ UNCHANGED seq

Next ==
    /\ call # <<"end">>
    /\ \/ Resize(Len(seq'))
       \/ \E x \in Item : Push(x) \/ StrPush(x)
       \/ Grow \/ Pop \/ StrPop \/ End

Spec == Init /\ [][Next]_vars
=============================================================================
