------------------------------- MODULE DArray -------------------------------
(***************************************************************************)
(* The dynamic array (src/darray.c, and the string macros of darray.h): a  *)
(* descriptor and the elements in one allocation that realloc_nf makes     *)
(* larger or smaller.  The directory listings, the lists on the screen,    *)
(* the lines of the viewer, files fetched into memory and the tokens of    *)
(* the server file are such arrays.                                        *)
(*                                                                         *)
(* malloc_nf and realloc_nf return memory or end the program (util.c).     *)
(***************************************************************************)
EXTENDS Integers, Sequences

CONSTANTS
    Item,       \* what is stored; 0 ends strings
    Junk,       \* what is in memory nobody has written to
    MaxElem     \* bound: how many elements users ask for

ASSUME DArrayAssumption == 0 \in Item /\ Junk \notin Item /\ MaxElem \in Nat

Elem == Item \union {Junk}

VARIABLES
    da,         \* nelem, max_elem, and the memory the allocation has
    call        \* the last call and its argument

vars == <<da, call>>

-----------------------------------------------------------------------------
\* darr_alloc
Alloc(elem) ==
    [nelem |-> elem, max_elem |-> elem, mem |-> [i \in 1..elem |-> Junk]]

\* darr_resize_impl, with realloc.  Faulty form: the memory is another one.
ResizeLost(d, elem) == Alloc(elem)
ResizeImpl(d, elem) ==
    [nelem |-> elem, max_elem |-> elem,
     mem |-> [i \in 1..elem |-> IF i <= d.max_elem THEN d.mem[i] ELSE Junk]]

\* the array with room for another number of elements
Reserve(d, newsz) == [ResizeImpl(d, newsz) EXCEPT !.nelem = d.nelem]

\* Faulty forms: an empty array grows to twice its size; it grows too late.
DoubledAlways(d) == IF d.nelem >= d.max_elem THEN Reserve(d, d.max_elem * 2) ELSE d
DoubledLate(d) == IF d.nelem > d.max_elem THEN Reserve(d, d.max_elem * 2) ELSE d
Doubled(d) ==
    IF d.nelem >= d.max_elem
    THEN Reserve(d, IF d.max_elem # 0 THEN d.max_elem * 2 ELSE 1)
    ELSE d

\* darr_push_impl; without an item the memory stays as it is
PushImpl(d, item) ==
    LET e == Doubled(d)
        n == e.nelem + 1
    IN  [e EXCEPT !.nelem = n, !.mem[n] = IF item = Junk THEN @ ELSE item]

\* Faulty form: the array never gets smaller.
ShrunkNever(d) == d
Shrunk(d) ==
    IF d.nelem <= d.max_elem \div 3 THEN Reserve(d, d.max_elem \div 2) ELSE d

\* darr_pop_impl
PopImpl(d) ==
    IF d.nelem = 0 THEN d ELSE [Shrunk(d) EXCEPT !.nelem = @ - 1]

-----------------------------------------------------------------------------
Resize(n) == call' = <<"resize", n>> /\ da' = ResizeImpl(da, n)

\* darr_clear_impl
Clear == Resize(0)

Push(item) == call' = <<"push", item>> /\ da' = PushImpl(da, item)

Pop == call' = <<"pop">> /\ da' = PopImpl(da)

\* darr_strpush and darr_strpop.  Faulty form: the zero is not put back.
StrPushBare(c) == call' = <<"strpush", c>> /\ da' = PushImpl(PopImpl(da), c)
StrPush(c) ==
    /\ call' = <<"strpush", c>>
    /\ da' = PushImpl(PushImpl(PopImpl(da), c), 0)

StrPop ==
    /\ call' = <<"strpop">>
    /\ da' = PushImpl(PopImpl(PopImpl(da)), 0)

\* darr_free; or darr_finalize, which moves the elements over the descriptor
End == call' = <<"end">> /\ UNCHANGED da

-----------------------------------------------------------------------------
Init ==
    \E elem \in 0..MaxElem : da = Alloc(elem) /\ call = <<"alloc", elem>>

Next ==
    /\ call # <<"end">>
    /\ \/ \E n \in 0..MaxElem : Resize(n)
       \/ Clear
       \/ da.nelem < MaxElem /\ \E item \in Elem : Push(item)
       \/ Pop
       \/ da.nelem < MaxElem /\ \E c \in Item : StrPush(c)
       \/ StrPop
       \/ End

Spec == Init /\ [][Next]_vars

-----------------------------------------------------------------------------
\* The elements are within the memory that was allocated for them.
TypeOK ==
    /\ da \in [nelem : Nat, max_elem : Nat, mem : Seq(Elem)]
    /\ da.nelem <= da.max_elem
    /\ Len(da.mem) = da.max_elem

\* However it was used, an array holds at most three times the memory it needs,
\* but for two elements: what a directory of thousands took is given back by
\* popping it, although darr_pop_impl reallocates seldom.
Reclaims == da.max_elem <= 3 * da.nelem + 2

Contents == SubSeq(da.mem, 1, da.nelem)

Sequence == INSTANCE DynSeq WITH seq <- Contents

\* Through all reallocations the array is the sequence its users see: none of
\* the calls loses, moves or makes up an element, and strings keep their zero.
IsSequence == Sequence!Spec
=============================================================================
