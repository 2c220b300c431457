---------------------------- MODULE DArrayProofs ----------------------------
(***************************************************************************)
(* Theorems about DArray, for every set of items and arrays of every size. *)
(***************************************************************************)
EXTENDS DArray, SequenceTheorems, TLAPS

(***************************************************************************)
(* Part 1.  The functions of darray.c keep the elements within the memory  *)
(* (Sound), do not hoard (Tight), and what they do to the sequence of      *)
(* elements (ContentsOf).                                                  *)
(***************************************************************************)
Sound(d) ==
    /\ d \in [nelem : Nat, max_elem : Nat, mem : Seq(Elem)]
    /\ d.nelem <= d.max_elem
    /\ Len(d.mem) = d.max_elem

Tight(d) == d.max_elem <= 3 * d.nelem + 2

ContentsOf(d) == SubSeq(d.mem, 1, d.nelem)

\* A function over 1..n is a sequence of length n.
LEMMA MadeSeq ==
    ASSUME NEW S, NEW n \in Nat, NEW f \in [1..n -> S]
    PROVE  f \in Seq(S) /\ Len(f) = n
<1>1. f \in Seq(S)
  BY SeqDef
<1>2. Len(f) \in Nat /\ DOMAIN f = 1..Len(f)
  BY <1>1, LenProperties
<1>3. QED
  BY <1>1, <1>2

\* The elements of a sound array are a sequence.
LEMMA ContentsElements ==
    ASSUME NEW d, Sound(d)
    PROVE  /\ ContentsOf(d) \in Seq(Elem)
           /\ Len(ContentsOf(d)) = d.nelem
           /\ \A i \in 1..d.nelem : ContentsOf(d)[i] = d.mem[i]
<1>1. d.nelem \in Nat /\ d.mem \in Seq(Elem) /\ d.nelem <= Len(d.mem)
  BY DEF Sound
<1>2. \A i \in 1..d.nelem : d.mem[i] \in Elem
  BY <1>1, ElementOfSeq, LenProperties
<1>3. /\ SubSeq(d.mem, 1, d.nelem) \in Seq(Elem)
      /\ Len(SubSeq(d.mem, 1, d.nelem)) = IF 1 <= d.nelem THEN d.nelem - 1 + 1 ELSE 0
      /\ \A i \in 1..(d.nelem - 1 + 1) : SubSeq(d.mem, 1, d.nelem)[i] = d.mem[1 + i - 1]
  BY <1>1, <1>2, SubSeqProperties
<1>4. QED
  BY <1>1, <1>3 DEF ContentsOf

\* darr_alloc
LEMMA AllocSound ==
    ASSUME NEW elem \in Nat
    PROVE  /\ Sound(Alloc(elem)) /\ Tight(Alloc(elem))
           /\ Alloc(elem).nelem = elem
<1> DEFINE m == [i \in 1..elem |-> Junk]
<1>1. m \in [1..elem -> Elem]
  BY DEF Elem
<1>2. m \in Seq(Elem) /\ Len(m) = elem
  BY <1>1, MadeSeq
<1> HIDE DEF m
<1>3. Alloc(elem) = [nelem |-> elem, max_elem |-> elem, mem |-> m]
  BY DEF Alloc, m
<1>4. QED
  BY <1>2, <1>3 DEF Sound, Tight

\* darr_resize_impl: what fits stays.
LEMMA ResizeSound ==
    ASSUME NEW d, Sound(d), NEW n \in Nat
    PROVE  /\ Sound(ResizeImpl(d, n)) /\ Tight(ResizeImpl(d, n))
           /\ ResizeImpl(d, n).nelem = n /\ ResizeImpl(d, n).max_elem = n
           /\ \A i \in 1..n : i <= d.max_elem => ResizeImpl(d, n).mem[i] = d.mem[i]
<1> DEFINE m == [i \in 1..n |-> IF i <= d.max_elem THEN d.mem[i] ELSE Junk]
<1>1. d.mem \in Seq(Elem) /\ Len(d.mem) = d.max_elem /\ d.max_elem \in Nat
  BY DEF Sound
<1>2. \A i \in 1..d.max_elem : d.mem[i] \in Elem
  BY <1>1, ElementOfSeq
<1>3. m \in [1..n -> Elem]
  <2>1. \A i \in 1..n : (IF i <= d.max_elem THEN d.mem[i] ELSE Junk) \in Elem
    BY <1>1, <1>2 DEF Elem
  <2>2. QED
    BY <2>1
<1>4. m \in Seq(Elem) /\ Len(m) = n
  BY <1>3, MadeSeq
<1>5. \A i \in 1..n : i <= d.max_elem => m[i] = d.mem[i]
  OBVIOUS
<1> HIDE DEF m
<1>6. ResizeImpl(d, n) = [nelem |-> n, max_elem |-> n, mem |-> m]
  BY DEF ResizeImpl, m
<1>7. QED
  BY <1>4, <1>5, <1>6 DEF Sound, Tight

\* Another capacity that holds the elements does not change them.
LEMMA ReserveSound ==
    ASSUME NEW d, Sound(d), NEW n \in Nat, d.nelem <= n
    PROVE  /\ Sound(Reserve(d, n))
           /\ Reserve(d, n).nelem = d.nelem /\ Reserve(d, n).max_elem = n
           /\ ContentsOf(Reserve(d, n)) = ContentsOf(d)
<1> DEFINE r == ResizeImpl(d, n)
           e == [r EXCEPT !.nelem = d.nelem]
<1>1. /\ Sound(r) /\ r.max_elem = n
      /\ \A i \in 1..n : i <= d.max_elem => r.mem[i] = d.mem[i]
  BY ResizeSound
<1>2. d.nelem \in Nat /\ d.max_elem \in Nat /\ d.nelem <= d.max_elem
  BY DEF Sound
<1>3. Reserve(d, n) = e
  BY DEF Reserve
<1> HIDE DEF r
<1>4. Sound(e) /\ e.nelem = d.nelem /\ e.max_elem = n /\ e.mem = r.mem
  BY <1>1, <1>2 DEF Sound
<1> HIDE DEF e
<1>5. /\ ContentsOf(e) \in Seq(Elem) /\ Len(ContentsOf(e)) = d.nelem
      /\ \A i \in 1..d.nelem : ContentsOf(e)[i] = r.mem[i]
  BY <1>4, ContentsElements
<1>6. ContentsOf(e) = ContentsOf(d)
  <2>1. /\ ContentsOf(d) \in Seq(Elem) /\ Len(ContentsOf(d)) = d.nelem
        /\ \A i \in 1..d.nelem : ContentsOf(d)[i] = d.mem[i]
    BY ContentsElements
  <2>2. \A i \in 1..d.nelem : ContentsOf(e)[i] = ContentsOf(d)[i]
    BY <1>1, <1>2, <1>5, <2>1
  <2>3. QED
    BY <1>5, <2>1, <2>2, SeqEqual
<1>7. QED
  BY <1>3, <1>4, <1>6

\* Before a push there is room for one more.
LEMMA DoubledSound ==
    ASSUME NEW d, Sound(d)
    PROVE  /\ Sound(Doubled(d)) /\ Doubled(d).nelem = d.nelem
           /\ d.nelem < Doubled(d).max_elem
           /\ ContentsOf(Doubled(d)) = ContentsOf(d)
           /\ Tight(d) => Doubled(d).max_elem <= 3 * d.nelem + 5
<1>1. d.nelem \in Nat /\ d.max_elem \in Nat /\ d.nelem <= d.max_elem
  BY DEF Sound
<1>2. CASE d.nelem >= d.max_elem
  <2> DEFINE n == IF d.max_elem # 0 THEN d.max_elem * 2 ELSE 1
  <2>1. n \in Nat /\ d.nelem < n /\ n <= 3 * d.nelem + 5
    BY <1>1, <1>2
  <2>2. Doubled(d) = Reserve(d, n)
    BY <1>2 DEF Doubled
  <2> HIDE DEF n
  <2>3. QED
    BY <1>1, <2>1, <2>2, ReserveSound
<1>3. CASE ~(d.nelem >= d.max_elem)
  BY <1>1, <1>3 DEF Doubled, Tight
<1>4. QED
  BY <1>2, <1>3

\* darr_push_impl appends; without an item, an element of any value.
LEMMA PushSound ==
    ASSUME NEW d, Sound(d), NEW item \in Elem
    PROVE  /\ Sound(PushImpl(d, item)) /\ PushImpl(d, item).nelem = d.nelem + 1
           /\ Tight(d) => Tight(PushImpl(d, item))
           /\ \E x \in Elem :
                 /\ item # Junk => x = item
                 /\ ContentsOf(PushImpl(d, item)) = Append(ContentsOf(d), x)
<1> DEFINE e == Doubled(d)
           n == e.nelem + 1
           x == IF item = Junk THEN e.mem[n] ELSE item
           m == [e.mem EXCEPT ![n] = x]
           p == [e EXCEPT !.nelem = n, !.mem = m]
<1>1. /\ Sound(e) /\ e.nelem = d.nelem /\ d.nelem < e.max_elem
      /\ ContentsOf(e) = ContentsOf(d)
      /\ Tight(d) => e.max_elem <= 3 * d.nelem + 5
  BY DoubledSound
<1>2. PushImpl(d, item) = p
  BY DEF PushImpl
<1> HIDE DEF e
<1>3. /\ n \in 1..Len(e.mem) /\ e.mem \in Seq(Elem) /\ d.nelem \in Nat
      /\ Len(e.mem) = e.max_elem /\ n = d.nelem + 1
  BY <1>1 DEF Sound
<1>4. x \in Elem
  BY <1>3, ElementOfSeq
<1> HIDE DEF x, n
<1>5. /\ m \in Seq(Elem) /\ Len(m) = e.max_elem
      /\ \A j \in 1..Len(e.mem) : m[j] = IF j = n THEN x ELSE e.mem[j]
  BY <1>3, <1>4, ExceptSeq
<1> HIDE DEF m
<1>6. /\ Sound(p) /\ p.nelem = d.nelem + 1 /\ p.mem = m /\ p.max_elem = e.max_elem
  <2>1. /\ e \in [nelem : Nat, max_elem : Nat, mem : Seq(Elem)]
        /\ n \in Nat /\ n <= e.max_elem
    BY <1>1, <1>3 DEF Sound
  <2>2. /\ p \in [nelem : Nat, max_elem : Nat, mem : Seq(Elem)]
        /\ p.nelem = n /\ p.mem = m /\ p.max_elem = e.max_elem
    BY <1>5, <2>1
  <2> HIDE DEF p
  <2>3. QED
    BY <1>3, <1>5, <2>1, <2>2 DEF Sound
<1> HIDE DEF p
<1>7. ContentsOf(p) = Append(ContentsOf(d), x)
  <2>1. /\ ContentsOf(p) \in Seq(Elem) /\ Len(ContentsOf(p)) = n
        /\ \A i \in 1..n : ContentsOf(p)[i] = m[i]
    BY <1>3, <1>6, ContentsElements
  <2>2. /\ ContentsOf(e) \in Seq(Elem) /\ Len(ContentsOf(e)) = d.nelem
        /\ \A i \in 1..d.nelem : ContentsOf(e)[i] = e.mem[i]
    BY <1>1, ContentsElements
  <2> DEFINE a == Append(ContentsOf(e), x)
  <2>3. /\ a \in Seq(Elem) /\ Len(a) = n /\ a[n] = x
        /\ \A i \in 1..d.nelem : a[i] = e.mem[i]
    BY <1>3, <1>4, <2>2, AppendProperties
  <2> HIDE DEF a
  <2>4. \A i \in 1..n : ContentsOf(p)[i] = a[i]
    <3> TAKE i \in 1..n
    <3>1. ContentsOf(p)[i] = (IF i = n THEN x ELSE e.mem[i])
      BY <1>1, <1>3, <1>5, <2>1
    <3>2. i # n => i \in 1..d.nelem
      BY <1>3
    <3>3. QED
      BY <2>3, <3>1, <3>2
  <2>5. ContentsOf(p) = a
    BY <2>1, <2>3, <2>4, SeqEqual
  <2>6. QED
    BY <1>1, <2>5 DEF a
<1>8. item # Junk => x = item
  BY DEF x
<1>9. Tight(d) => Tight(p)
  BY SMTT(30), <1>1, <1>3, <1>6 DEF Tight, Sound
<1>10. QED
  BY <1>2, <1>4, <1>6, <1>7, <1>8, <1>9

\* Before a pop an array that is mostly unused gets smaller, but not too small.
LEMMA ShrunkSound ==
    ASSUME NEW d, Sound(d), d.nelem # 0
    PROVE  /\ Sound(Shrunk(d)) /\ Shrunk(d).nelem = d.nelem
           /\ ContentsOf(Shrunk(d)) = ContentsOf(d)
           /\ Tight(d) => Shrunk(d).max_elem <= 3 * d.nelem - 1
<1>1. d.nelem \in Nat /\ d.max_elem \in Nat /\ d.nelem <= d.max_elem
  BY DEF Sound
<1>2. CASE d.nelem <= d.max_elem \div 3
  <2> DEFINE n == d.max_elem \div 2
  <2>1. n \in Nat /\ d.nelem <= n
    BY <1>1, <1>2
  <2>2. Tight(d) => n <= 3 * d.nelem - 1
    BY <1>1, <1>2 DEF Tight
  <2>3. Shrunk(d) = Reserve(d, n)
    BY <1>2 DEF Shrunk
  <2> HIDE DEF n
  <2>4. QED
    BY <2>1, <2>2, <2>3, ReserveSound
<1>3. CASE ~(d.nelem <= d.max_elem \div 3)
  BY <1>1, <1>3 DEF Shrunk
<1>4. QED
  BY <1>2, <1>3

\* darr_pop_impl drops the last element, if there is one.
LEMMA PopSound ==
    ASSUME NEW d, Sound(d)
    PROVE  /\ Sound(PopImpl(d))
           /\ Tight(d) => Tight(PopImpl(d))
           /\ PopImpl(d).nelem = IF d.nelem = 0 THEN 0 ELSE d.nelem - 1
           /\ ContentsOf(PopImpl(d)) =
                 SubSeq(ContentsOf(d), 1, Len(ContentsOf(d)) - 1)
<1>1. /\ ContentsOf(d) \in Seq(Elem) /\ Len(ContentsOf(d)) = d.nelem /\ d.nelem \in Nat
      /\ \A i \in 1..d.nelem : ContentsOf(d)[i] = d.mem[i]
  BY ContentsElements DEF Sound
<1>2. CASE d.nelem = 0
  <2>1. SubSeq(ContentsOf(d), 1, 0 - 1) = << >>
    BY SubSeqEmpty
  <2>2. ContentsOf(d) = << >>
    BY <1>2, SubSeqEmpty DEF ContentsOf
  <2>3. QED
    BY <1>1, <1>2, <2>1, <2>2 DEF PopImpl
<1>3. CASE d.nelem # 0
  <2> DEFINE e == Shrunk(d)
             p == [e EXCEPT !.nelem = @ - 1]
             b == SubSeq(ContentsOf(d), 1, d.nelem - 1)
  <2>1. /\ Sound(e) /\ e.nelem = d.nelem /\ ContentsOf(e) = ContentsOf(d)
        /\ Tight(d) => e.max_elem <= 3 * d.nelem - 1
    BY <1>3, ShrunkSound
  <2>2. PopImpl(d) = p
    BY <1>3 DEF PopImpl
  <2> HIDE DEF e
  <2>3. Sound(p) /\ p.nelem = d.nelem - 1 /\ p.max_elem = e.max_elem /\ p.mem = e.mem
    BY <1>1, <1>3, <2>1 DEF Sound
  <2> HIDE DEF p
  <2>4. Tight(d) => Tight(p)
    BY <1>1, <1>3, <2>1, <2>3 DEF Tight
  <2>5. /\ ContentsOf(p) \in Seq(Elem) /\ Len(ContentsOf(p)) = d.nelem - 1
        /\ \A i \in 1..(d.nelem - 1) : ContentsOf(p)[i] = e.mem[i]
    BY <2>3, ContentsElements
  <2>6. \A i \in 1..d.nelem : ContentsOf(d)[i] = e.mem[i]
    BY <2>1, ContentsElements
  <2>7. /\ b \in Seq(Elem) /\ Len(b) = d.nelem - 1
        /\ \A i \in 1..(d.nelem - 1) : b[i] = ContentsOf(d)[i]
    <3>1. \A i \in 1..(d.nelem - 1) : ContentsOf(d)[i] \in Elem
      BY <1>1, ElementOfSeq
    <3>2. /\ b \in Seq(Elem)
          /\ Len(b) = IF 1 <= d.nelem - 1 THEN d.nelem - 1 - 1 + 1 ELSE 0
          /\ \A i \in 1..(d.nelem - 1 - 1 + 1) : b[i] = ContentsOf(d)[1 + i - 1]
      BY <1>1, <3>1, SubSeqProperties
    <3> HIDE DEF b
    <3>3. QED
      BY <1>1, <1>3, <3>2
  <2> HIDE DEF b
  <2>8. ContentsOf(p) = b
    BY <1>1, <2>5, <2>6, <2>7, SeqEqual
  <2>9. QED
    BY <1>1, <1>3, <2>2, <2>3, <2>4, <2>8 DEF b
<1>4. QED
  BY <1>2, <1>3

(***************************************************************************)
(* Part 2.  The calls.                                                     *)
(***************************************************************************)
IndInv == Sound(da) /\ Tight(da)

\* An item is appended as it is.
LEMMA PushItem ==
    ASSUME NEW d, Sound(d), NEW item \in Item
    PROVE  /\ Sound(PushImpl(d, item))
           /\ Tight(d) => Tight(PushImpl(d, item))
           /\ ContentsOf(PushImpl(d, item)) = Append(ContentsOf(d), item)
<1>1. item \in Elem /\ item # Junk
  BY DArrayAssumption DEF Elem
<1>2. PICK x \in Elem :
         /\ item # Junk => x = item
         /\ ContentsOf(PushImpl(d, item)) = Append(ContentsOf(d), x)
  BY <1>1, PushSound
<1>3. QED
  BY <1>1, <1>2, PushSound

\* The string macros are compositions of pushes and pops.
LEMMA StrPushSound ==
    ASSUME NEW d, Sound(d), NEW c \in Item
    PROVE  LET p == PushImpl(PushImpl(PopImpl(d), c), 0)
               s == ContentsOf(d)
           IN  /\ Sound(p) /\ (Tight(d) => Tight(p))
               /\ ContentsOf(p) = Append(Append(SubSeq(s, 1, Len(s) - 1), c), 0)
<1> DEFINE e == PopImpl(d)
           f == PushImpl(e, c)
           p == PushImpl(f, 0)
           s == ContentsOf(d)
<1>1. 0 \in Item
  BY DArrayAssumption
<1>2. /\ Sound(e) /\ (Tight(d) => Tight(e))
      /\ ContentsOf(e) = SubSeq(s, 1, Len(s) - 1)
  BY PopSound
<1> HIDE DEF e
<1>3. Sound(f) /\ (Tight(e) => Tight(f)) /\ ContentsOf(f) = Append(ContentsOf(e), c)
  BY <1>2, PushItem
<1> HIDE DEF f
<1>4. Sound(p) /\ (Tight(f) => Tight(p)) /\ ContentsOf(p) = Append(ContentsOf(f), 0)
  BY <1>1, <1>3, PushItem
<1> HIDE DEF p, s
<1>5. Sound(p) /\ (Tight(d) => Tight(p))
  BY <1>2, <1>3, <1>4
<1>6. ContentsOf(p) = Append(Append(SubSeq(s, 1, Len(s) - 1), c), 0)
  BY <1>2, <1>3, <1>4
<1>7. QED
  BY <1>5, <1>6 DEF p, f, e, s

LEMMA StrPopSound ==
    ASSUME NEW d, Sound(d)
    PROVE  LET p == PushImpl(PopImpl(PopImpl(d)), 0)
               s == ContentsOf(d)
               b == SubSeq(s, 1, Len(s) - 1)
           IN  /\ Sound(p) /\ (Tight(d) => Tight(p))
               /\ ContentsOf(p) = Append(SubSeq(b, 1, Len(b) - 1), 0)
<1> DEFINE e == PopImpl(d)
           f == PopImpl(e)
           p == PushImpl(f, 0)
           s == ContentsOf(d)
           b == SubSeq(s, 1, Len(s) - 1)
<1>1. 0 \in Item
  BY DArrayAssumption
<1>2. Sound(e) /\ (Tight(d) => Tight(e)) /\ ContentsOf(e) = b
  BY PopSound
<1> HIDE DEF e
<1>3. /\ Sound(f) /\ (Tight(e) => Tight(f))
      /\ ContentsOf(f) = SubSeq(ContentsOf(e), 1, Len(ContentsOf(e)) - 1)
  BY <1>2, PopSound
<1> HIDE DEF f
<1>4. Sound(p) /\ (Tight(f) => Tight(p)) /\ ContentsOf(p) = Append(ContentsOf(f), 0)
  BY <1>1, <1>3, PushItem
<1> HIDE DEF p, b
<1>5. Sound(p) /\ (Tight(d) => Tight(p))
  BY <1>2, <1>3, <1>4
<1>6. ContentsOf(p) = Append(SubSeq(b, 1, Len(b) - 1), 0)
  BY <1>2, <1>3, <1>4
<1>7. QED
  BY <1>5, <1>6 DEF p, f, e, b, s

\* What every call needs of the state before it, and leaves behind.
LEMMA StepSound ==
    ASSUME IndInv, Next
    PROVE  IndInv'
<1>1. Sound(da) /\ Tight(da)
  BY DEF IndInv
<1>2. CASE \E n \in 0..MaxElem : Resize(n)
  <2>1. PICK n \in 0..MaxElem : Resize(n)
    BY <1>2
  <2>2. n \in Nat /\ da' = ResizeImpl(da, n)
    BY <2>1, DArrayAssumption DEF Resize
  <2>3. QED
    BY <1>1, <2>2, ResizeSound DEF IndInv
<1>3. CASE Clear
  BY <1>1, <1>3, ResizeSound DEF Clear, Resize, IndInv
<1>4. CASE \E item \in Elem : Push(item)
  BY <1>1, <1>4, PushSound DEF Push, IndInv
<1>5. CASE Pop
  BY <1>1, <1>5, PopSound DEF Pop, IndInv
<1>6. CASE \E c \in Item : StrPush(c)
  <2>1. PICK c \in Item : da' = PushImpl(PushImpl(PopImpl(da), c), 0)
    BY <1>6 DEF StrPush
  <2> DEFINE p == PushImpl(PushImpl(PopImpl(da), c), 0)
  <2>2. Sound(p) /\ (Tight(da) => Tight(p))
    BY <1>1, StrPushSound
  <2>3. da' = p
    BY <2>1
  <2> HIDE DEF p
  <2>4. QED
    BY <1>1, <2>2, <2>3 DEF IndInv
<1>7. CASE StrPop
  <2> DEFINE p == PushImpl(PopImpl(PopImpl(da)), 0)
  <2>1. Sound(p) /\ (Tight(da) => Tight(p))
    BY <1>1, StrPopSound
  <2>2. da' = p
    BY <1>7 DEF StrPop
  <2> HIDE DEF p
  <2>3. QED
    BY <1>1, <2>1, <2>2 DEF IndInv
<1>8. CASE End
  BY <1>1, <1>8 DEF End, IndInv
<1>9. QED
  BY <1>2, <1>3, <1>4, <1>5, <1>6, <1>7, <1>8 DEF Next

\* The array is sound and tight from darr_alloc to darr_free.
LEMMA Inductive == Spec => []IndInv
<1>1. Init => IndInv
  <2> SUFFICES ASSUME Init PROVE IndInv
    OBVIOUS
  <2>1. PICK elem \in 0..MaxElem : da = Alloc(elem)
    BY DEF Init
  <2>2. elem \in Nat
    BY DArrayAssumption
  <2>3. QED
    BY <2>1, <2>2, AllocSound DEF IndInv
<1>2. IndInv /\ [Next]_vars => IndInv'
  <2>1. CASE UNCHANGED vars
    BY <2>1 DEF vars, IndInv
  <2>2. QED
    BY <2>1, StepSound
<1>3. QED
  BY <1>1, <1>2, PTL DEF Spec

\* Whatever is pushed, popped and resized, in whichever order: the elements are
\* within the memory that realloc_nf returned last (darray.c).
THEOREM StaysInMemory == Spec => []TypeOK
<1>1. IndInv => TypeOK
  BY DEF IndInv, Sound, TypeOK
<1>2. QED
  BY <1>1, Inductive, PTL

\* darr_pop_impl gives memory back in time: an array never holds more than three
\* times the memory it needs, but for two elements.
THEOREM MemoryReclaimed == Spec => []Reclaims
<1>1. IndInv => Reclaims
  BY DEF IndInv, Tight, Reclaims
<1>2. QED
  BY <1>1, Inductive, PTL

(***************************************************************************)
(* Part 3.  Refinement: a call on the array is the call on the sequence of *)
(* its elements.                                                           *)
(***************************************************************************)
\* Resize keeps the elements that fit.
LEMMA ResizeRefines ==
    ASSUME Sound(da), NEW n \in Nat, Resize(n)
    PROVE  Sequence!Resize(Len(Contents'))
<1> DEFINE d == da
           e == da'
<1>1. /\ Sound(e) /\ e.nelem = n
      /\ \A i \in 1..n : i <= d.max_elem => e.mem[i] = d.mem[i]
  BY ResizeSound DEF Resize
<1>2. d.nelem \in Nat /\ d.max_elem \in Nat /\ d.nelem <= d.max_elem
  BY DEF Sound
<1>3. /\ ContentsOf(e) \in Seq(Elem) /\ Len(ContentsOf(e)) = n
      /\ \A i \in 1..n : ContentsOf(e)[i] = e.mem[i]
  BY <1>1, ContentsElements
<1>4. /\ Len(ContentsOf(d)) = d.nelem
      /\ \A i \in 1..d.nelem : ContentsOf(d)[i] = d.mem[i]
  BY ContentsElements
<1>5. Contents' = ContentsOf(e) /\ Contents = ContentsOf(d)
  BY DEF Contents, ContentsOf
<1>6. \A i \in 1..d.nelem : i <= n => ContentsOf(e)[i] = ContentsOf(d)[i]
  BY <1>1, <1>2, <1>3, <1>4
<1>7. call' = <<"resize", n>>
  BY DEF Resize
<1> HIDE DEF d, e
<1>8. QED
  BY <1>3, <1>4, <1>5, <1>6, <1>7 DEF Sequence!Resize, Sequence!Elem, Elem

\* Every call is the same call on the sequence.
LEMMA StepRefines ==
    ASSUME Sound(da), Next
    PROVE  Sequence!Next
<1>0. Contents = ContentsOf(da) /\ Contents' = ContentsOf(da')
  BY DEF Contents, ContentsOf
<1>1. call # <<"end">>
  BY DEF Next
<1>2. CASE \E n \in 0..MaxElem : Resize(n)
  <2>1. PICK n \in 0..MaxElem : Resize(n)
    BY <1>2
  <2>2. n \in Nat
    BY DArrayAssumption
  <2>3. QED
    BY <1>1, <2>1, <2>2, ResizeRefines DEF Sequence!Next
<1>3. CASE Clear
  BY <1>1, <1>3, ResizeRefines DEF Clear, Sequence!Next
<1>4. CASE \E item \in Elem : Push(item)
  <2>1. PICK item \in Elem : Push(item)
    BY <1>4
  <2>2. PICK x \in Elem : /\ item # Junk => x = item
                          /\ Contents' = Append(Contents, x)
    BY <1>0, <2>1, PushSound DEF Push
  <2>3. CASE item = Junk
    <3>1. Sequence!Grow
      BY <2>1, <2>2, <2>3 DEF Push, Sequence!Grow, Sequence!Elem, Elem
    <3>2. QED
      BY <1>1, <3>1 DEF Sequence!Next
  <2>4. CASE item # Junk
    <3>1. item \in Item /\ Sequence!Push(item)
      BY <2>1, <2>2, <2>4 DEF Push, Sequence!Push, Elem
    <3>2. QED
      BY <1>1, <3>1 DEF Sequence!Next
  <2>5. QED
    BY <2>3, <2>4
<1>5. CASE Pop
  <2>1. Sequence!Pop
    BY <1>0, <1>5, PopSound DEF Pop, Sequence!Pop, Sequence!ButLast
  <2>2. QED
    BY <1>1, <2>1 DEF Sequence!Next
<1>6. CASE \E c \in Item : StrPush(c)
  <2>1. PICK c \in Item : StrPush(c)
    BY <1>6
  <2>2. Sequence!StrPush(c)
    BY <1>0, <2>1, StrPushSound DEF StrPush, Sequence!StrPush, Sequence!ButLast
  <2>3. QED
    BY <1>1, <2>2 DEF Sequence!Next
<1>7. CASE StrPop
  <2>1. Sequence!StrPop
    BY <1>0, <1>7, StrPopSound DEF StrPop, Sequence!StrPop, Sequence!ButLast
  <2>2. QED
    BY <1>1, <2>1 DEF Sequence!Next
<1>8. CASE End
  <2>1. Sequence!End
    BY <1>0, <1>8 DEF End, Sequence!End
  <2>2. QED
    BY <1>1, <2>1 DEF Sequence!Next
<1>9. QED
  BY <1>2, <1>3, <1>4, <1>5, <1>6, <1>7, <1>8 DEF Next

\* The dynamic array implements the sequence of DynSeq: through every doubling
\* and halving no call of darray.c loses, moves or makes up an element.
THEOREM ArrayIsSequence == Spec => IsSequence
<1>1. Init => Sequence!Init
  <2> SUFFICES ASSUME Init PROVE Sequence!Init
    OBVIOUS
  <2>1. PICK elem \in 0..MaxElem : da = Alloc(elem) /\ call = <<"alloc", elem>>
    BY DEF Init
  <2>2. elem \in Nat
    BY DArrayAssumption
  <2>3. Sound(da) /\ da.nelem = elem
    BY <2>1, <2>2, AllocSound
  <2>4. ContentsOf(da) \in Seq(Elem) /\ Len(ContentsOf(da)) = elem
    BY <2>3, ContentsElements
  <2>5. QED
    BY <2>1, <2>4 DEF Sequence!Init, Contents, ContentsOf, Sequence!Elem, Elem
<1>2. IndInv /\ [Next]_vars => [Sequence!Next]_Sequence!vars
  <2>1. CASE UNCHANGED vars
    BY <2>1 DEF vars, Sequence!vars, Contents
  <2>2. QED
    BY <2>1, StepRefines DEF IndInv
<1>3. QED
  BY <1>1, <1>2, Inductive, PTL DEF Spec, IsSequence, Sequence!Spec
=============================================================================
