--------------------------- MODULE DataSinkProofs ---------------------------
(***************************************************************************)
(* Theorems about DataSink: for every listing and every file, every way    *)
(* the connection cuts them into packets, and every size of the buffers.   *)
(***************************************************************************)
EXTENDS DataSink, RecFuns, SequenceTheorems

(***************************************************************************)
(* Part 1.  What the server sends is a sequence.                           *)
(***************************************************************************)
Sent == ToSet(Order) \union {"sp", "->", "cr", "nl", "d", "-", "l", "t", "5", "6", "f"}
                    \union Nat

\* Where the parts of two sequences are in the one they are joined to.
Parts(u, s, t) ==
    /\ Len(u) = Len(s) + Len(t)
    /\ \A k \in 1..Len(s) : u[k] = s[k]
    /\ \A j \in 1..Len(t) : u[Len(s) + j] = t[j]

LEMMA Joined ==
    ASSUME NEW S, NEW s \in Seq(S), NEW t \in Seq(S), NEW u, u = s \o t
    PROVE  u \in Seq(S) /\ Parts(u, s, t)
<1>1. Len(s) \in Nat /\ Len(t) \in Nat
  OBVIOUS
<1>2. /\ s \o t \in Seq(S) /\ Len(s \o t) = Len(s) + Len(t)
      /\ \A i \in 1..Len(s) + Len(t) :
            (s \o t)[i] = IF i <= Len(s) THEN s[i] ELSE t[i - Len(s)]
  BY ConcatProperties
<1>3. \A k \in 1..Len(s) : (s \o t)[k] = s[k]
  BY <1>1, <1>2
<1>4. ASSUME NEW j \in 1..Len(t)
      PROVE  (s \o t)[Len(s) + j] = t[j]
  <2>1. /\ Len(s) + j \in 1..Len(s) + Len(t) /\ ~(Len(s) + j <= Len(s))
        /\ Len(s) + j - Len(s) = j
    BY <1>1
  <2>2. QED
    BY <1>2, <2>1
<1>5. QED
  BY <1>2, <1>3, <1>4 DEF Parts

\* f[i] is the first i of the sequences ss, one after the other
Flattening(f, S, ss) ==
    /\ f \in [0..Len(ss) -> Seq(S)]
    /\ f[0] = << >>
    /\ \A i \in 1..Len(ss) : f[i] = f[i - 1] \o ss[i]

\* FlattenSeq is where that ends.
LEMMA FlattenIs ==
    ASSUME NEW S, NEW ss \in Seq(Seq(S))
    PROVE  \E f : Flattening(f, S, ss) /\ f[Len(ss)] = FlattenSeq(ss)
<1> DEFINE n == Len(ss)
<1>1. n \in Nat /\ \A i \in 1..n : ss[i] \in Seq(S)
  OBVIOUS
<1>2. << >> \in Seq(S)
  BY EmptySeq
<1> DEFINE step == [i \in 1..n |-> [s \in Seq(S) |-> s \o ss[i]]]
<1>3. \A i \in 1..n, s \in Seq(S) : step[i][s] = s \o ss[i] /\ s \o ss[i] \in Seq(S)
  BY <1>1, ConcatProperties
<1>4. Stepping(n, Seq(S), << >>, step)
  BY <1>1, <1>2, <1>3 DEF Stepping
<1> HIDE DEF step, n
<1>5. PICK g : StepsOf(g, n, Seq(S), << >>, step)
  BY <1>4, StepsExist
<1>6. /\ g \in [0..n -> Seq(S)] /\ g[0] = << >>
      /\ \A i \in 1..n : g[i] = step[i][g[i - 1]]
  BY <1>5 DEF StepsOf
<1>7. \A i \in 1..n : g[i] = g[i - 1] \o ss[i]
  <2> SUFFICES ASSUME NEW i \in 1..n PROVE g[i] = g[i - 1] \o ss[i]
    OBVIOUS
  <2>1. i - 1 \in 0..n
    BY <1>1
  <2>2. QED
    BY <1>3, <1>6, <2>1
<1>8. Flattening(g, S, ss)
  BY <1>6, <1>7 DEF Flattening, n
<1>9. CASE n = 0
  <2>1. FlattenSeq(ss) = ss /\ ss = << >>
    BY <1>9, EmptySeq DEF FlattenSeq, n
  <2>2. QED
    BY <1>6, <1>8, <1>9, <2>1 DEF n
<1>10. CASE n # 0
  <2> DEFINE Rec(f) == [i \in 1..n |-> IF i = 1 THEN ss[i] ELSE f[i - 1] \o ss[i]]
             h == [i \in 1..n |-> g[i]]
             flatten[i \in 1..n] == IF i = 1 THEN ss[i] ELSE flatten[i - 1] \o ss[i]
  <2>1. \A i \in 1..n : h[i] = IF i = 1 THEN ss[i] ELSE h[i - 1] \o ss[i]
    <3> SUFFICES ASSUME NEW i \in 1..n
                 PROVE  h[i] = IF i = 1 THEN ss[i] ELSE h[i - 1] \o ss[i]
      OBVIOUS
    <3>1. i # 1 => i - 1 \in 1..n
      BY <1>1
    <3>2. CASE i = 1
      <4>1. << >> \o ss[i] = ss[i]
        BY <1>1, ConcatEmptySeq
      <4>2. i - 1 = 0
        BY <3>2
      <4>3. g[i] = g[i - 1] \o ss[i]
        BY <1>7
      <4>4. QED
        BY <4>3, <1>6, <3>2, <4>1, <4>2
    <3>3. CASE i # 1
      BY <1>7, <3>1, <3>3
    <3>4. QED
      BY <3>2, <3>3
  <2>2. h = Rec(h)
    BY <2>1
  <2>3. flatten = CHOOSE f : f = Rec(f)
    OBVIOUS
  <2>4. flatten = Rec(flatten)
    <3> HIDE DEF flatten, Rec, h
    <3>1. QED
      BY <2>2, <2>3
  <2>5. FlattenSeq(ss) = flatten[n]
    BY <1>10 DEF FlattenSeq, n
  <2> HIDE DEF flatten
  <2>6. \A i \in 1..n : flatten[i] = IF i = 1 THEN ss[i] ELSE flatten[i - 1] \o ss[i]
    BY <2>4
  <2> DEFINE T == {i \in 0..n : i = 0 \/ flatten[i] = g[i]}
  <2>7. 0 \in T
    BY <1>1
  <2>8. ASSUME NEW i \in 1..n, i - 1 \in T
        PROVE  flatten[i] = g[i]
    <3>1. CASE i = 1
      <4>1. << >> \o ss[i] = ss[i]
        BY <1>1, ConcatEmptySeq
      <4>2. i - 1 = 0
        BY <3>1
      <4>3. g[i] = g[i - 1] \o ss[i]
        BY <1>7
      <4>4. QED
        BY <4>3, <1>6, <2>6, <3>1, <4>1, <4>2
    <3>2. CASE i # 1
      <4>1. flatten[i - 1] = g[i - 1]
        BY <2>8, <3>2
      <4>2. QED
        BY <1>7, <2>6, <3>2, <4>1
    <3>3. QED
      BY <3>1, <3>2
  <2>9. \A i \in 1..n : i - 1 \in T => i \in T
    BY <1>1, <2>8
  <2> HIDE DEF T
  <2>10. n \in T
    <3>1. \A i \in 0..n : i \in T
      BY <1>1, <2>7, <2>9, UpTo
    <3>2. QED
      BY <1>1, <3>1
  <2>11. QED
    BY <1>8, <1>10, <2>5, <2>10 DEF T, n
<1>11. QED
  BY <1>9, <1>10

\* Sequences put one after the other are a sequence.
LEMMA FlattenType ==
    ASSUME NEW S, NEW ss \in Seq(Seq(S))
    PROVE  FlattenSeq(ss) \in Seq(S)
<1>1. PICK f : Flattening(f, S, ss) /\ f[Len(ss)] = FlattenSeq(ss)
  BY FlattenIs
<1>2. Len(ss) \in 0..Len(ss) /\ f \in [0..Len(ss) -> Seq(S)]
  BY <1>1 DEF Flattening
<1>3. QED
  BY <1>1, <1>2

\* FlattenSeq of the first ones.
LEMMA FlattenFirst ==
    ASSUME NEW S, NEW ss \in Seq(Seq(S)), NEW f, Flattening(f, S, ss),
           NEW tt \in Seq(Seq(S)), Len(tt) <= Len(ss), \A i \in 1..Len(tt) : tt[i] = ss[i]
    PROVE  FlattenSeq(tt) = f[Len(tt)]
<1>1. PICK g : Flattening(g, S, tt) /\ g[Len(tt)] = FlattenSeq(tt)
  BY FlattenIs
<1> DEFINE n == Len(tt)
           T == {i \in 0..n : g[i] = f[i]}
<1>2. n \in Nat /\ n <= Len(ss) /\ Len(ss) \in Nat
  OBVIOUS
<1>3. /\ g[0] = << >> /\ f[0] = << >>
      /\ \A i \in 1..n : g[i] = g[i - 1] \o tt[i]
      /\ \A i \in 1..Len(ss) : f[i] = f[i - 1] \o ss[i]
  BY <1>1 DEF Flattening
<1>4. 0 \in T
  BY <1>2, <1>3
<1>5. ASSUME NEW i \in 1..n, i - 1 \in T
      PROVE  i \in T
  <2>1. i \in 1..Len(ss) /\ i \in 0..n /\ tt[i] = ss[i]
    BY <1>2
  <2>2. g[i - 1] = f[i - 1]
    BY <1>5
  <2>3. g[i] = g[i - 1] \o tt[i] /\ f[i] = f[i - 1] \o ss[i]
    BY <1>3, <2>1
  <2>4. QED
    BY <2>1, <2>2, <2>3
<1> HIDE DEF T, n
<1>6. \A i \in 0..n : i \in T
  BY <1>2, <1>4, <1>5, UpTo
<1>7. n \in T
  BY <1>2, <1>6
<1>8. QED
  BY <1>1, <1>7 DEF T, n

\* Where each one is within them all.
Within(f, ss, k) ==
    /\ Len(f[k]) = Len(f[k - 1]) + Len(ss[k])
    /\ Len(f[k - 1]) \in Nat /\ Len(f[k]) <= Len(f[Len(ss)])
    /\ \A j \in 1..Len(ss[k]) : f[Len(ss)][Len(f[k - 1]) + j] = ss[k][j]

LEMMA FlattenAt ==
    ASSUME NEW S, NEW ss \in Seq(Seq(S)), NEW f, Flattening(f, S, ss), NEW k \in 1..Len(ss)
    PROVE  Within(f, ss, k)
<1> DEFINE n == Len(ss)
<1>1. n \in Nat /\ k \in 1..n /\ k - 1 \in 0..n /\ k \in 0..n /\ \A i \in 1..n : ss[i] \in Seq(S)
  OBVIOUS
<1>2. /\ \A i \in 0..n : f[i] \in Seq(S)
      /\ \A i \in 1..n : f[i] = f[i - 1] \o ss[i]
  BY DEF Flattening
<1>3. ASSUME NEW i \in 1..n
      PROVE  /\ Len(f[i]) = Len(f[i - 1]) + Len(ss[i])
             /\ Len(f[i - 1]) \in Nat /\ Len(ss[i]) \in Nat
             /\ Len(f[i - 1]) <= Len(f[i]) /\ Len(f[i]) \in Nat
             /\ \A j \in 1..Len(f[i - 1]) : f[i][j] = f[i - 1][j]
             /\ \A j \in 1..Len(ss[i]) : /\ Len(f[i - 1]) + j \in 1..Len(f[i])
                                         /\ f[i][Len(f[i - 1]) + j] = ss[i][j]
  <2>1. i - 1 \in 0..n
    BY <1>1
  <2>2. f[i - 1] \in Seq(S) /\ ss[i] \in Seq(S) /\ f[i] = f[i - 1] \o ss[i]
    BY <1>1, <1>2, <2>1
  <2>3. Len(f[i - 1]) \in Nat /\ Len(ss[i]) \in Nat
    BY <2>2
  <2> DEFINE a == f[i - 1]
             b == ss[i]
  <2>4. a \in Seq(S) /\ b \in Seq(S) /\ f[i] = a \o b /\ Len(a) \in Nat /\ Len(b) \in Nat
    BY <2>2, <2>3
  <2> HIDE DEF a, b
  <2>5. /\ Len(a \o b) = Len(a) + Len(b)
        /\ \A j \in 1..Len(a) + Len(b) :
              (a \o b)[j] = IF j <= Len(a) THEN a[j] ELSE b[j - Len(a)]
    BY <2>4, ConcatProperties
  <2>6. \A j \in 1..Len(a) : (a \o b)[j] = a[j]
    BY <2>4, <2>5
  <2>7. \A j \in 1..Len(b) : (a \o b)[Len(a) + j] = b[j]
    <3> SUFFICES ASSUME NEW j \in 1..Len(b) PROVE (a \o b)[Len(a) + j] = b[j]
      OBVIOUS
    <3>1. /\ Len(a) + j \in 1..Len(a) + Len(b) /\ ~(Len(a) + j <= Len(a))
          /\ Len(a) + j - Len(a) = j
      BY <2>4
    <3>2. QED
      BY <2>5, <3>1
  <2>8. /\ Len(a) <= Len(a \o b) /\ Len(a \o b) \in Nat
        /\ \A j \in 1..Len(b) : Len(a) + j \in 1..Len(a \o b)
    BY <2>4, <2>5
  <2>9. QED
    BY <2>4, <2>5, <2>6, <2>7, <2>8 DEF a, b
<1> DEFINE T == {i \in 0..n : i >= k => /\ Len(f[k]) <= Len(f[i])
                                        /\ \A j \in 1..Len(f[k]) : f[i][j] = f[k][j]}
<1>4. 0 \in T
  BY <1>1
<1>5. ASSUME NEW i \in 1..n, i - 1 \in T
      PROVE  i \in T
  <2>1. CASE i < k
    BY <1>1, <2>1
  <2>2. CASE i = k
    <3>1. Len(f[k]) \in Nat
      BY <1>1, <1>2
    <3>2. QED
      BY <1>1, <2>2, <3>1
  <2>3. CASE i > k
    <3>1. /\ Len(f[k]) <= Len(f[i - 1]) /\ \A j \in 1..Len(f[k]) : f[i - 1][j] = f[k][j]
      BY SMTT(30), <1>1, <1>5, <2>3
    <3>2. Len(f[k]) \in Nat
      BY <1>1, <1>2
    <3>3. /\ Len(f[i]) = Len(f[i - 1]) + Len(ss[i])
          /\ Len(f[i - 1]) \in Nat /\ Len(ss[i]) \in Nat
          /\ \A j \in 1..Len(f[i - 1]) : f[i][j] = f[i - 1][j]
      BY <1>3
    <3>4. Len(f[k]) <= Len(f[i])
      <4>1. \A x, y, z \in Nat : x <= y /\ y <= z => x <= z
        OBVIOUS
      <4>2. Len(f[i]) \in Nat /\ Len(f[i - 1]) \in Nat /\ Len(f[i - 1]) <= Len(f[i])
        BY <1>3
      <4>3. QED
        BY <3>1, <3>2, <4>1, <4>2
    <3>5. \A j \in 1..Len(f[k]) : f[i][j] = f[k][j]
      <4> SUFFICES ASSUME NEW j \in 1..Len(f[k]) PROVE f[i][j] = f[k][j]
        OBVIOUS
      <4>1. j \in 1..Len(f[i - 1])
        BY <3>1, <3>2, <3>3
      <4>2. QED
        BY <3>1, <3>3, <4>1
    <3>6. QED
      BY <3>4, <3>5
  <2>4. QED
    BY <1>1, <2>1, <2>2, <2>3
<1> HIDE DEF T
<1>6. n \in T
  <2>1. \A i \in 0..n : i \in T
    BY <1>1, <1>4, <1>5, UpTo
  <2>2. QED
    BY <1>1, <2>1
<1>7. Len(f[k]) <= Len(f[n]) /\ \A j \in 1..Len(f[k]) : f[n][j] = f[k][j]
  BY <1>1, <1>6 DEF T
<1>8. ASSUME NEW j \in 1..Len(ss[k])
      PROVE  f[n][Len(f[k - 1]) + j] = ss[k][j]
  <2>1. Len(f[k - 1]) + j \in 1..Len(f[k]) /\ f[k][Len(f[k - 1]) + j] = ss[k][j]
    BY <1>1, <1>3
  <2>2. QED
    BY <1>7, <2>1
<1>9. QED
  BY <1>1, <1>3, <1>7, <1>8 DEF Within

\* What has nothing after i adds nothing.
Nothing(ss, i, j) ==
    i \in 0..Len(ss) /\ j \in i..Len(ss) /\ \A k \in (i + 1)..j : ss[k] = << >>

LEMMA FlattenStays ==
    ASSUME NEW S, NEW ss \in Seq(Seq(S)), NEW f, Flattening(f, S, ss),
           NEW i, NEW j, Nothing(ss, i, j)
    PROVE  f[j] = f[i]
<1> DEFINE T == {k \in 0..j : k >= i => f[k] = f[i]}
<1>1. /\ Len(ss) \in Nat /\ i \in Nat /\ j \in Nat /\ i <= j /\ j <= Len(ss)
      /\ \A k \in (i + 1)..j : ss[k] = << >>
  BY DEF Nothing
<1>2. /\ \A k \in 0..Len(ss) : f[k] \in Seq(S)
      /\ \A k \in 1..Len(ss) : f[k] = f[k - 1] \o ss[k]
  BY DEF Flattening
<1>3. 0 \in T
  BY <1>1
<1>4. ASSUME NEW k \in 1..j, k - 1 \in T
      PROVE  k \in T
  <2>1. CASE k <= i
    BY <1>1, <2>1
  <2>2. CASE k > i
    <3>1. k \in (i + 1)..j /\ k \in 1..Len(ss) /\ k - 1 \in 0..Len(ss) /\ k - 1 >= i
      BY <1>1, <2>2
    <3>2. f[k] = f[k - 1] \o << >>
      BY <1>1, <1>2, <3>1
    <3>3. f[k - 1] \in Seq(S)
      BY <1>2, <3>1
    <3>4. f[k] = f[k - 1]
      BY <3>2, <3>3, ConcatEmptySeq
    <3>5. f[k - 1] = f[i]
      BY <1>4, <3>1
    <3>6. QED
      BY <3>4, <3>5
  <2>3. QED
    BY <1>1, <2>1, <2>2
<1> HIDE DEF T
<1>5. \A k \in 0..j : k \in T
  BY <1>1, <1>3, <1>4, UpTo
<1>6. j \in T
  BY <1>1, <1>5
<1>7. QED
  BY <1>1, <1>6 DEF T

\* Short sequences.
LEMMA ShortSeqs ==
    ASSUME NEW S, NEW a \in S, NEW b \in S, NEW c \in S, NEW d \in S
    PROVE  <<a>> \in Seq(S) /\ <<a, b>> \in Seq(S) /\ <<a, b, c, d>> \in Seq(S)
OBVIOUS

\* A line of a listing.
LEMMA RenderType ==
    ASSUME NEW line \in Lines, NEW eol \in Eols
    PROVE  Render(line, eol) \in Seq(Sent)
<1> DEFINE field(i) == IF i = 1 THEN Mode[line.type]
                       ELSE IF i = SizeAt + 1 THEN line.size ELSE "f"
           fields == [i \in 1..Fields |-> <<field(i), "sp">>]
           name == IF line.type = "total" THEN << >> ELSE line.name
           to == IF line.type = "link" THEN <<"sp", "->", "sp", "f">> ELSE << >>
<1>1. /\ line.type \in {"dir", "file", "link", "total"} /\ line.size \in {"5", "6"}
      /\ line.name \in Seq(ToSet(Order))
  <2>1. DOMAIN Mode = {"dir", "file", "link", "total"}
    BY DEF Mode
  <2>2. DOMAIN Atoi = {"5", "6"}
    BY DEF Atoi
  <2>3. QED
    BY <2>1, <2>2 DEF Lines
<1>2. /\ "d" \in Sent /\ "-" \in Sent /\ "l" \in Sent /\ "t" \in Sent /\ "5" \in Sent
      /\ "6" \in Sent /\ "f" \in Sent /\ "sp" \in Sent /\ "->" \in Sent /\ "cr" \in Sent
      /\ "nl" \in Sent
  BY DEF Sent
<1>3. \A i \in 1..Fields : field(i) \in Sent
  <2>1. Mode[line.type] \in Sent
    <3>1. Mode["dir"] = "d" /\ Mode["file"] = "-" /\ Mode["link"] = "l" /\ Mode["total"] = "t"
      BY DEF Mode
    <3>2. QED
      BY <1>1, <1>2, <3>1
  <2>2. line.size \in Sent
    BY <1>1, <1>2
  <2>3. QED
    BY <1>2, <2>1, <2>2
<1>4. \A i \in 1..Fields : <<field(i), "sp">> \in Seq(Sent)
  <2> HIDE DEF field
  <2>1. QED
    BY <1>2, <1>3, ShortSeqs
<1>5. fields \in Seq(Seq(Sent))
  <2> HIDE DEF field
  <2>1. fields \in [1..Fields -> Seq(Sent)] /\ Fields \in Nat
    BY <1>4, SinkAssumption
  <2> HIDE DEF fields
  <2>2. QED
    BY <2>1
<1>6. FlattenSeq(fields) \in Seq(Sent)
  <2> HIDE DEF fields
  <2>1. QED
    BY <1>5, FlattenType
<1>7. name \in Seq(Sent)
  <2>1. ToSet(Order) \subseteq Sent
    BY DEF Sent
  <2>2. line.name \in Seq(Sent)
    BY <1>1, <2>1
  <2>3. QED
    BY <2>2, EmptySeq
<1>8. to \in Seq(Sent) /\ eol \in Seq(Sent)
  <2>1. << >> \in Seq(Sent) /\ <<"sp", "->", "sp", "f">> \in Seq(Sent)
    BY <1>2, EmptySeq, ShortSeqs
  <2>2. <<"cr", "nl">> \in Seq(Sent) /\ <<"nl">> \in Seq(Sent)
    BY <1>2, ShortSeqs
  <2>3. QED
    BY <2>1, <2>2 DEF Eols
<1>9. Render(line, eol) = ((FlattenSeq(fields) \o name) \o to) \o eol
  BY DEF Render
<1> HIDE DEF fields, name, to
<1>10. (FlattenSeq(fields) \o name) \in Seq(Sent)
  BY <1>6, <1>7, ConcatProperties
<1>11. ((FlattenSeq(fields) \o name) \o to) \in Seq(Sent)
  BY <1>8, <1>10, ConcatProperties
<1>12. QED
  BY <1>8, <1>9, <1>11, ConcatProperties

\* What the server sends.
LEMMA SourceType ==
    ASSUME Init
    PROVE  src \in Seq(Sent)
<1>1. PICK size \in FileSizes :
        src = IF kind = "list"
              THEN FlattenSeq([i \in DOMAIN listing.lines |->
                                  Render(listing.lines[i], listing.eol)])
              ELSE [i \in 1..size |-> i]
  BY DEF Init
<1>2. CASE kind = "list"
  <2> DEFINE ls == listing.lines
             rendered == [i \in DOMAIN ls |-> Render(ls[i], listing.eol)]
  <2>1. ls \in Listings /\ listing.eol \in Eols
    BY <1>2 DEF Init
  <2>2. ls \in Seq(Lines)
    BY <2>1, SinkAssumption
  <2>3. DOMAIN ls = 1..Len(ls) /\ Len(ls) \in Nat /\ \A i \in 1..Len(ls) : ls[i] \in Lines
    BY <2>2
  <2>4. rendered \in [1..Len(ls) -> Seq(Sent)]
    <3> HIDE DEF ls
    <3>1. \A i \in 1..Len(ls) : Render(ls[i], listing.eol) \in Seq(Sent)
      BY <2>1, <2>3, RenderType
    <3>2. QED
      BY <2>3, <3>1
  <2> HIDE DEF rendered
  <2>5. rendered \in Seq(Seq(Sent))
    BY <2>3, <2>4
  <2>6. FlattenSeq(rendered) \in Seq(Sent)
    BY <2>5, FlattenType
  <2>7. QED
    BY <1>1, <1>2, <2>6 DEF rendered
<1>3. CASE kind # "list"
  <2>1. size \in Nat
    BY SinkAssumption
  <2>2. [i \in 1..size |-> i] \in [1..size -> Sent]
    <3>1. Nat \subseteq Sent
      BY DEF Sent
    <3>2. \A i \in 1..size : i \in Sent
      BY <2>1, <3>1
    <3>3. QED
      BY <3>2
  <2>3. QED
    BY <1>1, <1>3, <2>1, <2>2
<1>4. QED
  BY <1>2, <1>3

(***************************************************************************)
(* Part 2.  How a line is read: its fields are one word and one space each,*)
(* so parse_dirent finds the size and the name at fixed places, and the    *)
(* first cr after its beginning is the end of the line.                    *)
(***************************************************************************)
LEMMA LeastIs ==
    ASSUME NEW at \in SUBSET Int, NEW k \in at, \A j \in at : k <= j, NEW else
    PROVE  Least(at, else) = k
<1> DEFINE l == CHOOSE x \in at : \A j \in at : x <= j
<1>1. l \in at /\ \A j \in at : l <= j
  OBVIOUS
<1>2. l <= k /\ k <= l
  BY <1>1
<1> HIDE DEF l
<1>3. l = k
  <2>1. l \in Int /\ k \in Int
    BY <1>1
  <2>2. QED
    BY <1>2, <2>1
<1>4. at # {}
  OBVIOUS
<1>5. QED
  BY <1>3, <1>4 DEF Least, l

\* The fields of a line.
FieldText(fs, n, e) ==
    /\ Len(fs) = 2 * n
    /\ \A k \in 1..n : fs[2 * k - 1] = e[k] /\ fs[2 * k] = "sp"

LEMMA FieldsAre ==
    ASSUME NEW n \in Nat, NEW S, "sp" \in S, NEW e \in [1..n -> S], NEW fs,
           fs = FlattenSeq([i \in 1..n |-> <<e[i], "sp">>])
    PROVE  fs \in Seq(S) /\ FieldText(fs, n, e)
<1> DEFINE ss == [i \in 1..n |-> <<e[i], "sp">>]
<1>1. \A i \in 1..n : <<e[i], "sp">> \in Seq(S)
  BY ShortSeqs
<1>2. ss \in Seq(Seq(S)) /\ Len(ss) = n /\ \A i \in 1..n : ss[i] = <<e[i], "sp">>
  BY <1>1
<1>3. \A i \in 1..n : Len(ss[i]) = 2 /\ ss[i][1] = e[i] /\ ss[i][2] = "sp"
  BY <1>2
<1> HIDE DEF ss
<1>4. PICK f : Flattening(f, S, ss) /\ f[Len(ss)] = FlattenSeq(ss)
  BY <1>2, FlattenIs
<1>5. /\ f \in [0..n -> Seq(S)] /\ f[0] = << >>
  BY <1>2, <1>4 DEF Flattening
<1>6. ASSUME NEW k \in 1..n
      PROVE  /\ Len(f[k]) = Len(f[k - 1]) + 2
             /\ \A j \in 1..2 : f[n][Len(f[k - 1]) + j] = ss[k][j]
  <2>1. k \in 1..Len(ss)
    BY <1>2
  <2>2. Within(f, ss, k)
    BY <1>2, <1>4, <2>1, FlattenAt
  <2>3. QED
    BY <1>2, <1>3, <2>2 DEF Within
<1> DEFINE T == {i \in 0..n : Len(f[i]) = 2 * i}
<1>7. 0 \in T
  <2>1. Len(f[0]) = 0
    BY <1>5, EmptySeq
  <2>2. QED
    BY <2>1
<1>8. ASSUME NEW k \in 1..n, k - 1 \in T
      PROVE  k \in T
  <2>1. Len(f[k - 1]) = 2 * (k - 1)
    BY <1>8
  <2>2. Len(f[k]) = 2 * (k - 1) + 2
    BY <1>6, <2>1
  <2>3. QED
    BY <2>2
<1> HIDE DEF T
<1>9. \A k \in 0..n : k \in T
  BY <1>7, <1>8, UpTo
<1>10. \A k \in 0..n : Len(f[k]) = 2 * k
  BY <1>9 DEF T
<1>11. ASSUME NEW k \in 1..n
       PROVE  f[n][2 * k - 1] = e[k] /\ f[n][2 * k] = "sp"
  <2>1. Len(f[k - 1]) = 2 * k - 2
    <3>1. k - 1 \in 0..n
      OBVIOUS
    <3>2. Len(f[k - 1]) = 2 * (k - 1)
      BY <1>10, <3>1
    <3>3. QED
      BY <3>2
  <2>2. f[n][2 * k - 2 + 1] = ss[k][1] /\ f[n][2 * k - 2 + 2] = ss[k][2]
    <3>1. 1 \in 1..2 /\ 2 \in 1..2
      OBVIOUS
    <3>2. \A j \in 1..2 : f[n][Len(f[k - 1]) + j] = ss[k][j]
      BY <1>6
    <3>3. QED
      BY <2>1, <3>1, <3>2
  <2>3. 2 * k - 2 + 1 = 2 * k - 1 /\ 2 * k - 2 + 2 = 2 * k
    OBVIOUS
  <2>4. QED
    BY <1>3, <2>2, <2>3
<1>12. f[n] = FlattenSeq(ss) /\ f[n] \in Seq(S) /\ Len(f[n]) = 2 * n
  BY <1>2, <1>4, <1>5, <1>10
<1>13. QED
  BY <1>11, <1>12 DEF ss, FieldText

\* A line of a server that ends its lines with cr nl.
Crlf == <<"cr", "nl">>
NameOf(line) == IF line.type = "total" THEN << >> ELSE line.name
Target(line) == IF line.type = "link" THEN <<"sp", "->", "sp", "f">> ELSE << >>
Word(line, i) ==
    IF i = 1 THEN Mode[line.type] ELSE IF i = SizeAt + 1 THEN line.size ELSE "f"

\* The text r is what parse_dirent is written for: fields, the name, the target
\* of a link, and the line end.
LineText(r, line) ==
    LET n == 2 * Fields + Len(NameOf(line))
        body == n + Len(Target(line))
    IN  /\ r \in Seq(Sent) /\ Len(r) = body + 2
        /\ \A k \in 1..Fields : r[2 * k - 1] = Word(line, k) /\ r[2 * k] = "sp"
        /\ \A j \in 1..Len(NameOf(line)) : r[2 * Fields + j] = NameOf(line)[j]
        /\ \A j \in 1..Len(Target(line)) : r[n + j] = Target(line)[j]
        /\ r[body + 1] = "cr" /\ r[body + 2] = "nl"

LEMMA LineParts ==
    ASSUME NEW line \in Lines
    PROVE  /\ line.type \in {"dir", "file", "link", "total"} /\ line.size \in {"5", "6"}
           /\ NameOf(line) \in Seq(Sent) /\ Target(line) \in Seq(Sent) /\ Crlf \in Seq(Sent)
           /\ Len(Target(line)) = IF line.type = "link" THEN 4 ELSE 0
           /\ Len(Crlf) = 2 /\ Crlf[1] = "cr" /\ Crlf[2] = "nl"
           /\ \A i \in Int : Word(line, i) \in Sent
           /\ \A i \in Int : Word(line, i) \in {"d", "-", "l", "t", "5", "6", "f"}
<1>1. /\ line.type \in {"dir", "file", "link", "total"} /\ line.size \in {"5", "6"}
      /\ line.name \in Seq(ToSet(Order))
  <2>1. DOMAIN Mode = {"dir", "file", "link", "total"}
    BY DEF Mode
  <2>2. DOMAIN Atoi = {"5", "6"}
    BY DEF Atoi
  <2>3. QED
    BY <2>1, <2>2 DEF Lines
<1>2. /\ "d" \in Sent /\ "-" \in Sent /\ "l" \in Sent /\ "t" \in Sent /\ "5" \in Sent
      /\ "6" \in Sent /\ "f" \in Sent /\ "sp" \in Sent /\ "->" \in Sent /\ "cr" \in Sent
      /\ "nl" \in Sent
  BY DEF Sent
<1>3. \A i \in Int : Word(line, i) \in {"d", "-", "l", "t", "5", "6", "f"}
  <2>1. Mode["dir"] = "d" /\ Mode["file"] = "-" /\ Mode["link"] = "l" /\ Mode["total"] = "t"
    BY DEF Mode
  <2>2. QED
    BY <1>1, <2>1 DEF Word
<1>4. NameOf(line) \in Seq(Sent)
  <2>1. ToSet(Order) \subseteq Sent
    BY DEF Sent
  <2>2. line.name \in Seq(Sent)
    BY <1>1, <2>1
  <2>3. QED
    BY <2>2, EmptySeq DEF NameOf
<1>5. Target(line) \in Seq(Sent) /\ Len(Target(line)) = IF line.type = "link" THEN 4 ELSE 0
  <2>1. << >> \in Seq(Sent) /\ <<"sp", "->", "sp", "f">> \in Seq(Sent)
    BY <1>2, EmptySeq, ShortSeqs
  <2>2. Len(<< >>) = 0 /\ Len(<<"sp", "->", "sp", "f">>) = 4
    OBVIOUS
  <2>3. QED
    BY <2>1, <2>2 DEF Target
<1>6. Crlf \in Seq(Sent) /\ Len(Crlf) = 2 /\ Crlf[1] = "cr" /\ Crlf[2] = "nl"
  BY <1>2, ShortSeqs DEF Crlf
<1>7. \A i \in Int : Word(line, i) \in Sent
  BY <1>2, <1>3
<1>8. QED
  BY <1>1, <1>3, <1>4, <1>5, <1>6, <1>7

LEMMA RenderText ==
    ASSUME NEW line \in Lines
    PROVE  LineText(Render(line, Crlf), line)
<1> DEFINE e == [i \in 1..Fields |-> Word(line, i)]
           fs == FlattenSeq([i \in 1..Fields |-> <<e[i], "sp">>])
           a == NameOf(line)
           b == Target(line)
           c == Crlf
           r == Render(line, Crlf)
<1>1. Fields \in Nat /\ 2 * Fields \in Nat
  BY SinkAssumption
<1>2. "sp" \in Sent
  BY DEF Sent
<1>3. e \in [1..Fields -> Sent] /\ \A i \in 1..Fields : e[i] = Word(line, i)
  BY <1>1, LineParts
<1>4. r = ((fs \o a) \o b) \o c
  <2>1. [i \in 1..Fields |-> <<e[i], "sp">>]
          = [i \in 1..Fields |-> <<IF i = 1 THEN Mode[line.type]
                                   ELSE IF i = SizeAt + 1 THEN line.size ELSE "f", "sp">>]
    BY DEF Word
  <2>2. QED
    BY <2>1 DEF Render, NameOf, Target
<1> HIDE DEF e
<1>5. /\ fs \in Seq(Sent) /\ Len(fs) = 2 * Fields
      /\ \A k \in 1..Fields : fs[2 * k - 1] = Word(line, k) /\ fs[2 * k] = "sp"
  <2>1. fs = FlattenSeq([i \in 1..Fields |-> <<e[i], "sp">>])
    OBVIOUS
  <2> HIDE DEF fs
  <2>2. fs \in Seq(Sent) /\ FieldText(fs, Fields, e)
    BY <1>1, <1>2, <1>3, <2>1, FieldsAre
  <2>3. QED
    BY <1>3, <2>2 DEF FieldText
<1>6. /\ a \in Seq(Sent) /\ b \in Seq(Sent) /\ c \in Seq(Sent)
      /\ Len(c) = 2 /\ c[1] = "cr" /\ c[2] = "nl"
  BY LineParts
<1>7. Len(a) \in Nat /\ Len(b) \in Nat
  BY <1>6
<1> HIDE DEF fs, a, b, c, r
<1> DEFINE x == fs \o a
<1>8. /\ x \in Seq(Sent) /\ Len(x) = 2 * Fields + Len(a)
      /\ \A k \in 1..2 * Fields : x[k] = fs[k]
      /\ \A j \in 1..Len(a) : x[2 * Fields + j] = a[j]
  <2>1. x = fs \o a
    OBVIOUS
  <2> HIDE DEF x
  <2>2. x \in Seq(Sent) /\ Parts(x, fs, a)
    BY <1>5, <1>6, <2>1, Joined
  <2>3. QED
    BY <1>5, <2>2 DEF Parts
<1> HIDE DEF x
<1> DEFINE n == 2 * Fields + Len(a)
<1>9. n \in Nat /\ Len(x) = n
  BY <1>1, <1>7, <1>8
<1> HIDE DEF n
<1> DEFINE y == x \o b
<1>10. /\ y \in Seq(Sent) /\ Len(y) = n + Len(b)
       /\ \A k \in 1..n : y[k] = x[k]
       /\ \A j \in 1..Len(b) : y[n + j] = b[j]
  <2>1. y = x \o b
    OBVIOUS
  <2> HIDE DEF y
  <2>2. y \in Seq(Sent) /\ Parts(y, x, b)
    BY <1>6, <1>8, <2>1, Joined
  <2>3. QED
    BY <1>9, <2>2 DEF Parts
<1> HIDE DEF y
<1> DEFINE body == n + Len(b)
<1>11. body \in Nat /\ Len(y) = body
  BY <1>7, <1>9, <1>10
<1> HIDE DEF body
<1>12. r = y \o c
  BY <1>4 DEF x, y
<1>13. /\ r \in Seq(Sent) /\ Len(r) = body + 2
       /\ \A k \in 1..body : r[k] = y[k]
       /\ \A j \in 1..2 : r[body + j] = c[j]
  <2>1. r \in Seq(Sent) /\ Parts(r, y, c)
    BY <1>6, <1>10, <1>12, Joined
  <2>2. QED
    BY <1>6, <1>11, <2>1 DEF Parts
<1>14. \A k \in 1..n : r[k] = x[k]
  BY <1>7, <1>9, <1>10, <1>13 DEF body
<1>15. \A k \in 1..2 * Fields : r[k] = fs[k]
  BY <1>1, <1>7, <1>8, <1>14 DEF n
<1>16. \A k \in 1..Fields : r[2 * k - 1] = Word(line, k) /\ r[2 * k] = "sp"
  <2> SUFFICES ASSUME NEW k \in 1..Fields
               PROVE  r[2 * k - 1] = Word(line, k) /\ r[2 * k] = "sp"
    OBVIOUS
  <2>1. 2 * k - 1 \in 1..2 * Fields /\ 2 * k \in 1..2 * Fields
    BY <1>1
  <2>2. QED
    BY <1>5, <1>15, <2>1
<1>17. \A j \in 1..Len(a) : r[2 * Fields + j] = a[j]
  <2> SUFFICES ASSUME NEW j \in 1..Len(a) PROVE r[2 * Fields + j] = a[j]
    OBVIOUS
  <2>1. 2 * Fields + j \in 1..n
    BY <1>1, <1>7 DEF n
  <2>2. QED
    BY <1>8, <1>14, <2>1
<1>18. \A j \in 1..Len(b) : r[n + j] = b[j]
  <2> SUFFICES ASSUME NEW j \in 1..Len(b) PROVE r[n + j] = b[j]
    OBVIOUS
  <2>1. n + j \in 1..body
    BY <1>7, <1>9 DEF body
  <2>2. QED
    BY <1>10, <1>13, <2>1
<1>19. r[body + 1] = "cr" /\ r[body + 2] = "nl"
  BY <1>6, <1>13
<1>20. QED
  BY <1>13, <1>16, <1>17, <1>18, <1>19 DEF LineText, a, b, n, body, r

\* One field is skipped: a word, a space, and what else is like a space.
LEMMA SkipWord ==
    ASSUME NEW m \in Seq(Sent), NEW p \in Nat \ {0}, NEW q \in (p + 2)..Len(m),
           m[p] \notin Spaces \union {"nul"}, m[p + 1] = "sp",
           \A k \in (p + 1)..(q - 1) : m[k] \in Spaces /\ m[k] # "nl",
           m[q] \notin Spaces \/ m[q] = "nl"
    PROVE  SkipField(m, p) = q
<1>1. Len(m) \in Nat /\ q \in Int /\ p + 1 \in p..Len(m) /\ q \in (p + 1)..Len(m)
  OBVIOUS
<1> DEFINE gaps == {k \in p..Len(m) : m[k] \in Spaces \union {"nul"}}
<1>2. gaps \in SUBSET Int /\ p + 1 \in gaps /\ \A j \in gaps : p + 1 <= j
  <2>1. p + 1 \in gaps
    BY <1>1 DEF Spaces
  <2>2. p \notin gaps
    OBVIOUS
  <2>3. \A j \in gaps : j \in Int /\ p <= j /\ j # p
    BY <2>2
  <2>4. QED
    BY <2>1, <2>3
<1> HIDE DEF gaps
<1>3. Least(gaps, Len(m)) = p + 1
  BY <1>2, LeastIs
<1> DEFINE words == {k \in (p + 1)..Len(m) : m[k] \notin Spaces \/ m[k] = "nl"}
<1>4. words \in SUBSET Int /\ q \in words /\ \A j \in words : q <= j
  <2>1. q \in words
    BY <1>1
  <2>2. ASSUME NEW j \in words PROVE q <= j
    <3>1. j \in (p + 1)..Len(m) /\ ~(j \in (p + 1)..(q - 1))
      OBVIOUS
    <3>2. QED
      BY <1>1, <3>1
  <2>3. QED
    BY <2>1, <2>2
<1> HIDE DEF words
<1>5. Least(words, Len(m)) = q
  BY <1>4, LeastIs
<1>6. SkipField(m, p) = Least(words, Len(m))
  BY <1>3 DEF SkipField, gaps, words
<1>7. QED
  BY <1>5, <1>6

\* The fields are skipped one after the other.
LEMMA SkipFieldsIs ==
    ASSUME NEW m, NEW p, NEW n \in Nat, NEW g \in [0..n -> Int], g[0] = p,
           \A k \in 1..n : g[k] = SkipField(m, g[k - 1])
    PROVE  SkipFields(m, p, n) = g[n]
<1> DEFINE Rec(f) == [k \in 0..n |-> IF k = 0 THEN p ELSE SkipField(m, f[k - 1])]
           ptr[k \in 0..n] == IF k = 0 THEN p ELSE SkipField(m, ptr[k - 1])
<1>1. g = Rec(g)
  <2>1. \A k \in 0..n : g[k] = IF k = 0 THEN p ELSE SkipField(m, g[k - 1])
    <3> SUFFICES ASSUME NEW k \in 0..n
                 PROVE  g[k] = IF k = 0 THEN p ELSE SkipField(m, g[k - 1])
      OBVIOUS
    <3>1. CASE k = 0
      BY <3>1
    <3>2. CASE k # 0
      <4>1. k \in 1..n
        BY <3>2
      <4>2. QED
        BY <3>2, <4>1
    <3>3. QED
      BY <3>1, <3>2
  <2>2. QED
    BY <2>1
<1>2. ptr = CHOOSE f : f = Rec(f)
  OBVIOUS
<1>3. ptr = Rec(ptr)
  <2> HIDE DEF ptr, Rec
  <2>1. QED
    BY <1>1, <1>2
<1>4. SkipFields(m, p, n) = ptr[n]
  BY DEF SkipFields
<1> HIDE DEF ptr
<1>5. \A k \in 0..n : ptr[k] = IF k = 0 THEN p ELSE SkipField(m, ptr[k - 1])
  BY <1>3
<1> DEFINE T == {k \in 0..n : ptr[k] = g[k]}
<1>6. 0 \in T
  BY <1>5
<1>7. ASSUME NEW k \in 1..n, k - 1 \in T
      PROVE  k \in T
  <2>1. k \in 0..n /\ k # 0
    OBVIOUS
  <2>2. ptr[k - 1] = g[k - 1]
    BY <1>7
  <2>3. ptr[k] = SkipField(m, ptr[k - 1])
    BY <1>5, <2>1
  <2>4. g[k] = SkipField(m, g[k - 1])
    OBVIOUS
  <2>5. QED
    BY <2>1, <2>2, <2>3, <2>4
<1> HIDE DEF T
<1>8. \A k \in 0..n : k \in T
  BY <1>6, <1>7, UpTo
<1>9. n \in T
  BY <1>8
<1>10. QED
  BY <1>4, <1>9 DEF T

\* Every place in a sequence of pairs is the first or the second of one.
LEMMA Halves ==
    ASSUME NEW n \in Nat, NEW j \in 1..2 * n
    PROVE  \E k \in 1..n : j = 2 * k - 1 \/ j = 2 * k
<1> DEFINE T == {x \in 0..n : \A y \in 1..2 * x : \E k \in 1..x : y = 2 * k - 1 \/ y = 2 * k}
<1>1. 0 \in T
  OBVIOUS
<1>2. ASSUME NEW x \in 1..n, x - 1 \in T
      PROVE  x \in T
  <2>1. \A y \in 1..2 * (x - 1) : \E k \in 1..(x - 1) : y = 2 * k - 1 \/ y = 2 * k
    BY <1>2
  <2>2. ASSUME NEW y \in 1..2 * x
        PROVE  \E k \in 1..x : y = 2 * k - 1 \/ y = 2 * k
    <3>1. CASE y \in 1..2 * (x - 1)
      <4>1. PICK k \in 1..(x - 1) : y = 2 * k - 1 \/ y = 2 * k
        BY <2>1, <3>1
      <4>2. k \in 1..x
        OBVIOUS
      <4>3. QED
        BY <4>1, <4>2
    <3>2. CASE ~(y \in 1..2 * (x - 1))
      <4>1. y = 2 * x - 1 \/ y = 2 * x
        BY <3>2
      <4>2. x \in 1..x
        OBVIOUS
      <4>3. QED
        BY <4>1, <4>2
    <3>3. QED
      BY <3>1, <3>2
  <2>3. QED
    BY <2>2
<1> HIDE DEF T
<1>3. \A x \in 0..n : x \in T
  BY <1>1, <1>2, UpTo
<1>4. n \in T
  BY <1>3
<1>5. QED
  BY <1>4 DEF T

\* The entry of a line, as the server means it.
EntryOf(line) ==
    IF line.type = "total" THEN << >>
    ELSE <<[type |-> IF line.type = "dir" THEN "dir" ELSE "file",
            name |-> line.name,
            size |-> IF line.type = "dir" THEN 0 ELSE Atoi[line.size]]>>

\* The text m has the line from i on; its line end is at end, and its name, or
\* what would be one, begins at first.
LineIn(m, i, line) ==
    LET name == i + 2 * Fields
        n == Len(NameOf(line))
        end == name + n + Len(Target(line))
    IN  /\ m \in Seq(Sent) /\ i \in Nat \ {0} /\ n \in Nat /\ end + 1 <= Len(m)
        /\ \A k \in 1..Fields : m[i + 2 * k - 2] = Word(line, k) /\ m[i + 2 * k - 1] = "sp"
        /\ \A j \in 1..n : m[name + j - 1] = NameOf(line)[j]
        /\ line.type = "link" =>
              m[name + n] = "sp" /\ m[name + n + 1] = "->" /\ m[name + n + 2] = "sp"
              /\ m[name + n + 3] = "f"
        /\ m[end] = "cr" /\ m[end + 1] = "nl"

LEMMA LineIsIn ==
    ASSUME NEW line \in Lines, NEW r, LineText(r, line), NEW m \in Seq(Sent),
           NEW i \in Nat \ {0}, i - 1 + Len(r) <= Len(m),
           \A j \in 1..Len(r) : m[i - 1 + j] = r[j]
    PROVE  LineIn(m, i, line)
<1> DEFINE a == NameOf(line)
           b == Target(line)
           n == 2 * Fields + Len(a)
           body == n + Len(b)
           name == i + 2 * Fields
           end == name + Len(a) + Len(b)
<1>1. /\ Fields \in Nat /\ Len(a) \in Nat /\ Len(b) \in Nat /\ i \in Nat /\ i >= 1
      /\ Len(b) = IF line.type = "link" THEN 4 ELSE 0
  BY LineParts, SinkAssumption
<1>2. /\ Len(r) = body + 2
      /\ \A k \in 1..Fields : r[2 * k - 1] = Word(line, k) /\ r[2 * k] = "sp"
      /\ \A j \in 1..Len(a) : r[2 * Fields + j] = a[j]
      /\ \A j \in 1..Len(b) : r[n + j] = b[j]
      /\ r[body + 1] = "cr" /\ r[body + 2] = "nl"
  BY DEF LineText
<1>3. line.type = "link" => b = <<"sp", "->", "sp", "f">>
  BY DEF Target
<1> HIDE DEF a, b
<1>4. end + 1 <= Len(m)
  BY <1>1, <1>2
<1>5. \A j \in 1..body + 2 : m[i - 1 + j] = r[j]
  BY <1>2
<1>6. ASSUME NEW k \in 1..Fields
      PROVE  m[i + 2 * k - 2] = Word(line, k) /\ m[i + 2 * k - 1] = "sp"
  <2>1. 2 * k - 1 \in 1..body + 2 /\ 2 * k \in 1..body + 2
    BY <1>1
  <2>2. i - 1 + (2 * k - 1) = i + 2 * k - 2 /\ i - 1 + 2 * k = i + 2 * k - 1
    BY <1>1
  <2> HIDE DEF body, n
  <2>3. m[i - 1 + (2 * k - 1)] = r[2 * k - 1] /\ m[i - 1 + 2 * k] = r[2 * k]
    BY <1>5, <2>1
  <2>4. QED
    BY <1>2, <2>2, <2>3
<1>7. ASSUME NEW j \in 1..Len(a)
      PROVE  m[name + j - 1] = a[j]
  <2>1. 2 * Fields + j \in 1..body + 2
    BY <1>1
  <2>2. i - 1 + (2 * Fields + j) = name + j - 1
    BY <1>1
  <2> HIDE DEF body, n, name
  <2>3. m[i - 1 + (2 * Fields + j)] = r[2 * Fields + j]
    BY <1>5, <2>1
  <2>4. QED
    BY <1>2, <2>2, <2>3
<1>8. ASSUME NEW j \in 1..Len(b)
      PROVE  m[name + Len(a) + j - 1] = b[j]
  <2>1. n + j \in 1..body + 2
    BY <1>1
  <2>2. i - 1 + (n + j) = name + Len(a) + j - 1
    BY <1>1
  <2> HIDE DEF body, n, name
  <2>3. m[i - 1 + (n + j)] = r[n + j]
    BY <1>5, <2>1
  <2>4. QED
    BY <1>2, <2>2, <2>3
<1>9. m[end] = "cr" /\ m[end + 1] = "nl"
  <2>1. body + 1 \in 1..body + 2 /\ body + 2 \in 1..body + 2
    BY <1>1
  <2>2. i - 1 + (body + 1) = end /\ i - 1 + (body + 2) = end + 1
    BY <1>1
  <2> HIDE DEF body, end
  <2>3. m[i - 1 + (body + 1)] = r[body + 1] /\ m[i - 1 + (body + 2)] = r[body + 2]
    BY <1>5, <2>1
  <2>4. QED
    BY <1>2, <2>2, <2>3
<1>10. ASSUME line.type = "link"
       PROVE  /\ m[name + Len(a)] = "sp" /\ m[name + Len(a) + 1] = "->"
              /\ m[name + Len(a) + 2] = "sp" /\ m[name + Len(a) + 3] = "f"
  <2>1. b[1] = "sp" /\ b[2] = "->" /\ b[3] = "sp" /\ b[4] = "f" /\ Len(b) = 4
    BY <1>1, <1>3, <1>10
  <2>2. 1 \in 1..Len(b) /\ 2 \in 1..Len(b) /\ 3 \in 1..Len(b) /\ 4 \in 1..Len(b)
    BY <2>1
  <2> DEFINE q == name + Len(a)
  <2>3. q + 1 - 1 = q /\ q + 2 - 1 = q + 1 /\ q + 3 - 1 = q + 2 /\ q + 4 - 1 = q + 3
    BY <1>1
  <2> HIDE DEF q, name
  <2>4. \A j \in 1..Len(b) : m[q + j - 1] = b[j]
    BY <1>8 DEF q
  <2>5. m[q + 1 - 1] = b[1] /\ m[q + 2 - 1] = b[2] /\ m[q + 3 - 1] = b[3] /\ m[q + 4 - 1] = b[4]
    BY <2>2, <2>4
  <2>6. QED
    BY <2>1, <2>3, <2>5 DEF q
<1>11. QED
  BY <1>1, <1>4, <1>6, <1>7, <1>9, <1>10 DEF LineIn, a, b

\* The characters of a legible name.
LEMMA LegibleName ==
    ASSUME NEW line \in Lines, Legible(line)
    PROVE  /\ line.type # "total" => Len(NameOf(line)) >= 1 /\ NameOf(line)[1] \notin Spaces
           /\ \A j \in 1..Len(NameOf(line)) :
                 NameOf(line)[j] \notin {"cr", "nl", "nul", "->"}
           /\ line.type = "link" => NameOf(line)[Len(NameOf(line))] \notin Spaces
           /\ line.type = "total" => Len(NameOf(line)) = 0
           /\ line.type # "total" => NameOf(line) = line.name
<1>1. NameOf(line) \in Seq(Sent)
  BY LineParts
<1>2. CASE line.type = "total"
  <2>1. NameOf(line) = << >>
    BY <1>2 DEF NameOf
  <2>2. QED
    BY <1>2, <2>1
<1>3. CASE line.type # "total"
  <2>1. NameOf(line) = line.name
    BY <1>3 DEF NameOf
  <2>2. /\ line.name # << >> /\ line.name[1] \notin Spaces
        /\ \A k \in DOMAIN line.name : line.name[k] \notin LineEnds \union {"nul", "->"}
        /\ line.type = "link" => line.name[Len(line.name)] \notin Spaces
    BY <1>3 DEF Legible
  <2>3. Len(line.name) \in Nat \ {0} /\ DOMAIN line.name = 1..Len(line.name)
    BY <1>1, <2>1, <2>2, EmptySeq
  <2>4. \A j \in 1..Len(line.name) : line.name[j] \notin {"cr", "nl", "nul", "->"}
    BY <2>2, <2>3 DEF LineEnds
  <2>5. QED
    BY <1>3, <2>1, <2>2, <2>3, <2>4
<1>4. QED
  BY <1>2, <1>3

\* Where the line end is of a line that begins at i.
EndOf(line, i) == i + 2 * Fields + Len(NameOf(line)) + Len(Target(line))

\* A line is as well in another text that is the same up to its end.
LEMMA LineInSame ==
    ASSUME NEW line \in Lines, NEW m, NEW i, LineIn(m, i, line), NEW t \in Seq(Sent),
           NEW p \in Nat, EndOf(line, i) + 1 <= p, p <= Len(t), \A j \in 1..p : t[j] = m[j]
    PROVE  LineIn(t, i, line)
<1> DEFINE n == Len(NameOf(line))
           tn == Len(Target(line))
           name == i + 2 * Fields
           end == name + n + tn
<1>1. /\ i \in Nat /\ i >= 1 /\ Fields \in Nat /\ n \in Nat /\ tn \in Nat /\ Len(t) \in Nat
      /\ tn = IF line.type = "link" THEN 4 ELSE 0
  BY SMTT(30), SinkAssumption, LineParts DEF LineIn
<1>2. /\ i \in Nat \ {0} /\ end + 1 <= Len(m) /\ m[end] = "cr" /\ m[end + 1] = "nl"
      /\ \A k \in 1..Fields : m[i + 2 * k - 2] = Word(line, k) /\ m[i + 2 * k - 1] = "sp"
      /\ \A j \in 1..n : m[name + j - 1] = NameOf(line)[j]
      /\ line.type = "link" =>
              m[name + n] = "sp" /\ m[name + n + 1] = "->" /\ m[name + n + 2] = "sp"
              /\ m[name + n + 3] = "f"
  BY DEF LineIn
<1>3. end + 1 <= p
  BY DEF EndOf
<1> HIDE DEF n, tn
<1>4. \A x \in 1..(end + 1) : t[x] = m[x]
  BY <1>1, <1>3
<1>5. ASSUME NEW k \in 1..Fields
      PROVE  t[i + 2 * k - 2] = Word(line, k) /\ t[i + 2 * k - 1] = "sp"
  <2>1. i + 2 * k - 2 \in 1..(end + 1) /\ i + 2 * k - 1 \in 1..(end + 1)
    BY <1>1
  <2> HIDE DEF end
  <2>2. QED
    BY <1>2, <1>4, <2>1
<1>6. ASSUME NEW j \in 1..n
      PROVE  t[name + j - 1] = NameOf(line)[j]
  <2>1. name + j - 1 \in 1..(end + 1)
    BY <1>1
  <2> HIDE DEF end, name
  <2>2. QED
    BY <1>2, <1>4, <2>1
<1>7. line.type = "link" =>
          t[name + n] = "sp" /\ t[name + n + 1] = "->" /\ t[name + n + 2] = "sp"
          /\ t[name + n + 3] = "f"
  <2>1. line.type = "link" =>
            /\ name + n \in 1..(end + 1) /\ name + n + 1 \in 1..(end + 1)
            /\ name + n + 2 \in 1..(end + 1) /\ name + n + 3 \in 1..(end + 1)
    BY <1>1
  <2> HIDE DEF end, name
  <2>2. QED
    BY <1>2, <1>4, <2>1
<1>8. end + 1 <= Len(t) /\ t[end] = "cr" /\ t[end + 1] = "nl"
  <2>1. end \in 1..(end + 1) /\ end + 1 \in 1..(end + 1) /\ end + 1 \in Nat
    BY <1>1, <1>2
  <2> HIDE DEF end
  <2>2. QED
    BY <1>1, <1>2, <1>3, <1>4, <2>1
<1>9. QED
  BY <1>1, <1>2, <1>5, <1>6, <1>7, <1>8 DEF LineIn, n, tn

\* Within the line there is no line end.
LEMMA LineBody ==
    ASSUME NEW line \in Lines, Legible(line), NEW m, NEW i, LineIn(m, i, line)
    PROVE  \A k \in i..(EndOf(line, i) - 1) : m[k] \notin {"cr", "nl", "nul"}
<1> DEFINE n == Len(NameOf(line))
           t == Len(Target(line))
           name == i + 2 * Fields
           end == name + n + t
<1>1. /\ i \in Nat /\ i >= 1 /\ Fields \in Nat /\ n \in Nat /\ Len(m) \in Nat
      /\ t = IF line.type = "link" THEN 4 ELSE 0
  BY SinkAssumption, LineParts DEF LineIn
<1>2. /\ end + 1 <= Len(m) /\ m[end] = "cr"
      /\ \A k \in 1..Fields : m[i + 2 * k - 2] = Word(line, k) /\ m[i + 2 * k - 1] = "sp"
      /\ \A j \in 1..n : m[name + j - 1] = NameOf(line)[j]
      /\ line.type = "link" =>
              m[name + n] = "sp" /\ m[name + n + 1] = "->" /\ m[name + n + 2] = "sp"
              /\ m[name + n + 3] = "f"
  BY DEF LineIn
<1>3. \A k \in Int : Word(line, k) \in {"d", "-", "l", "t", "5", "6", "f"}
  BY LineParts
<1>4. \A j \in 1..n : NameOf(line)[j] \notin {"cr", "nl", "nul", "->"}
  BY LegibleName
<1> HIDE DEF n, t
<1>5. ASSUME NEW k \in i..(end - 1)
      PROVE  m[k] \notin {"cr", "nl", "nul"}
  <2>1. CASE k < name
    <3>1. k - i + 1 \in 1..2 * Fields
      BY <1>1, <2>1
    <3>2. PICK x \in 1..Fields : k - i + 1 = 2 * x - 1 \/ k - i + 1 = 2 * x
      BY <1>1, <3>1, Halves
    <3>3. k = i + 2 * x - 2 \/ k = i + 2 * x - 1
      BY <1>1, <3>2
    <3>4. m[k] = Word(line, x) \/ m[k] = "sp"
      BY <1>2, <3>3
    <3>5. QED
      BY <1>3, <3>4
  <2>2. CASE name <= k /\ k < name + n
    <3>1. k - name + 1 \in 1..n
      BY <1>1, <2>2
    <3>2. name + (k - name + 1) - 1 = k
      BY <1>1
    <3> HIDE DEF name
    <3>3. m[name + (k - name + 1) - 1] = NameOf(line)[k - name + 1]
      BY <1>2, <3>1
    <3>4. QED
      BY <1>4, <3>1, <3>2, <3>3
  <2>3. CASE name + n <= k
    <3>1. line.type = "link"
      BY <1>1, <2>3
    <3>2. k \in {name + n, name + n + 1, name + n + 2, name + n + 3}
      BY <1>1, <2>3, <3>1
    <3>3. m[k] \in {"sp", "->", "f"}
      BY <1>2, <3>1, <3>2
    <3>4. QED
      BY <3>3
  <2>4. QED
    BY <1>1, <2>1, <2>2, <2>3
<1>6. EndOf(line, i) = end
  BY DEF EndOf, n, t
<1>7. QED
  BY <1>5, <1>6

\* strchr finds the line end.
LEMMA EndFound ==
    ASSUME NEW line \in Lines, Legible(line), NEW m, NEW i, LineIn(m, i, line)
    PROVE  StrChr(m, i, "cr") = EndOf(line, i)
<1> DEFINE end == EndOf(line, i)
           at == {k \in i..Len(m) : m[k] \in {"cr", "nul"}}
<1>1. i \in Nat /\ Len(m) \in Nat
  BY DEF LineIn
<1>2. end \in Int /\ end >= i /\ end <= Len(m) /\ end # 0 /\ m[end] = "cr"
  <2>1. /\ i \in Nat \ {0} /\ Fields \in Nat /\ Len(NameOf(line)) \in Nat
        /\ Len(Target(line)) \in Nat /\ end + 1 <= Len(m) /\ m[end] = "cr"
    BY SinkAssumption, LineParts DEF LineIn, EndOf
  <2>2. QED
    BY <1>1, <2>1 DEF EndOf
<1>3. \A k \in i..(end - 1) : m[k] \notin {"cr", "nl", "nul"}
  BY LineBody
<1> HIDE DEF end
<1>4. at \in SUBSET Int /\ end \in at /\ \A j \in at : end <= j
  <2>1. end \in at
    BY <1>1, <1>2
  <2>2. ASSUME NEW j \in at
        PROVE  end <= j
    <3>1. j \in i..Len(m) /\ ~(j \in i..(end - 1))
      BY <1>3
    <3>2. QED
      BY <1>1, <1>2, <3>1
  <2>3. QED
    BY <1>1, <2>1, <2>2
<1> HIDE DEF at
<1>5. Least(at, 0) = end
  BY <1>4, LeastIs
<1>6. StrChr(m, i, "cr") = end
  BY <1>2, <1>5 DEF StrChr, at
<1>7. QED
  BY <1>6 DEF end

\* SKIP_FIELD four times, or eight times.
LEMMA FieldsSkipped ==
    ASSUME NEW line \in Lines, Legible(line), NEW m, NEW i, LineIn(m, i, line)
    PROVE  /\ SkipFields(m, i, SizeAt) = i + 2 * SizeAt
           /\ SkipFields(m, i, Fields) = i + 2 * Fields + IF line.type = "total" THEN 1 ELSE 0
<1> DEFINE n == Len(NameOf(line))
           t == Len(Target(line))
           name == i + 2 * Fields
           to == name + IF line.type = "total" THEN 1 ELSE 0
           g == [k \in 0..Fields |-> IF k = Fields THEN to ELSE i + 2 * k]
<1>1. /\ i \in Nat /\ i >= 1 /\ Fields \in Nat /\ n \in Nat /\ Len(m) \in Nat
      /\ SizeAt \in Nat /\ SizeAt >= 1 /\ SizeAt < Fields
      /\ t = IF line.type = "link" THEN 4 ELSE 0
  BY SinkAssumption, LineParts DEF LineIn
<1>2. /\ name + n + t + 1 <= Len(m) /\ m[name + n + t] = "cr" /\ m[name + n + t + 1] = "nl"
      /\ m \in Seq(Sent)
      /\ \A k \in 1..Fields : m[i + 2 * k - 2] = Word(line, k) /\ m[i + 2 * k - 1] = "sp"
      /\ \A j \in 1..n : m[name + j - 1] = NameOf(line)[j]
  BY DEF LineIn
<1>3. \A k \in Int : Word(line, k) \notin Spaces \union {"nul"}
  BY LineParts DEF Spaces
<1>4. /\ line.type # "total" => n >= 1 /\ NameOf(line)[1] \notin Spaces
      /\ line.type = "total" => n = 0
  BY LegibleName
<1> HIDE DEF n, t
<1>5. to \in Int
  BY <1>1
<1>6. ASSUME NEW k \in 1..Fields
      PROVE  g[k] = SkipField(m, g[k - 1])
  <2> DEFINE p == i + 2 * k - 2
  <2>1. p \in Nat \ {0} /\ m[p] \notin Spaces \union {"nul"} /\ m[p + 1] = "sp"
    <3>1. p + 1 = i + 2 * k - 1 /\ p \in Nat \ {0}
      BY <1>1
    <3>2. QED
      BY <1>2, <1>3, <3>1
  <2>2. g[k - 1] = p
    BY <1>1
  <2>3. CASE k # Fields
    <3>1. k + 1 \in 1..Fields /\ i + 2 * (k + 1) - 2 = p + 2
      BY <1>1, <2>3
    <3>2. m[p + 2] \notin Spaces
      BY <1>2, <1>3, <3>1
    <3>3. p + 2 \in (p + 2)..Len(m) /\ g[k] = p + 2
      BY <1>1, <1>2, <2>3
    <3>4. \A x \in (p + 1)..(p + 2 - 1) : m[x] \in Spaces /\ m[x] # "nl"
      <4>1. \A x \in (p + 1)..(p + 2 - 1) : x = p + 1
        BY <2>1
      <4>2. QED
        BY <2>1, <4>1 DEF Spaces
    <3> HIDE DEF p, g
    <3>5. SkipField(m, p) = p + 2
      BY <1>2, <2>1, <3>2, <3>3, <3>4, SkipWord
    <3>6. QED
      BY <2>2, <3>3, <3>5
  <2>4. CASE k = Fields /\ line.type # "total"
    <3>1. p + 2 = name /\ to = name /\ name + 1 - 1 = name /\ 1 \in 1..n
      BY <1>1, <1>4, <2>4
    <3>2. m[name + 1 - 1] = NameOf(line)[1]
      <4> HIDE DEF name
      <4>1. QED
        BY <1>2, <3>1
    <3>3. m[p + 2] \notin Spaces
      BY <1>4, <2>4, <3>1, <3>2
    <3>4. p + 2 \in (p + 2)..Len(m) /\ g[k] = p + 2
      BY <1>1, <1>2, <2>4
    <3>5. \A x \in (p + 1)..(p + 2 - 1) : m[x] \in Spaces /\ m[x] # "nl"
      <4>1. \A x \in (p + 1)..(p + 2 - 1) : x = p + 1
        BY <2>1
      <4>2. QED
        BY <2>1, <4>1 DEF Spaces
    <3> HIDE DEF p, g
    <3>6. SkipField(m, p) = p + 2
      BY <1>2, <2>1, <3>3, <3>4, <3>5, SkipWord
    <3>7. QED
      BY <2>2, <3>4, <3>6
  <2>5. CASE k = Fields /\ line.type = "total"
    <3>1. /\ p + 2 = name /\ to = name + 1 /\ n = 0 /\ t = 0
          /\ name + n + t = p + 2 /\ name + n + t + 1 = p + 3
      BY <1>1, <1>4, <2>5
    <3>2. m[p + 2] = "cr" /\ m[p + 3] = "nl"
      BY <1>2, <3>1
    <3>3. p + 3 \in (p + 2)..Len(m) /\ g[k] = p + 3
      BY <1>1, <1>2, <2>5, <3>1
    <3>4. \A x \in (p + 1)..(p + 3 - 1) : m[x] \in Spaces /\ m[x] # "nl"
      <4>1. \A x \in (p + 1)..(p + 3 - 1) : x = p + 1 \/ x = p + 2
        BY <2>1
      <4>2. QED
        BY <2>1, <3>2, <4>1 DEF Spaces
    <3> HIDE DEF p, g
    <3>5. SkipField(m, p) = p + 3
      BY <1>2, <2>1, <3>2, <3>3, <3>4, SkipWord
    <3>6. QED
      BY <2>2, <3>3, <3>5
  <2>6. QED
    BY <2>3, <2>4, <2>5
<1>7. /\ g \in [0..Fields -> Int] /\ g[0] = i /\ g[Fields] = to
      /\ \A k \in 0..(Fields - 1) : g[k] = i + 2 * k
  BY <1>1, <1>5
<1> HIDE DEF g, to, name
<1>8. SkipFields(m, i, Fields) = to
  BY ZenonT(60), <1>1, <1>6, <1>7, SkipFieldsIs
<1> DEFINE h == [k \in 0..SizeAt |-> g[k]]
<1>9. h \in [0..SizeAt -> Int] /\ h[0] = i /\ h[SizeAt] = i + 2 * SizeAt
  BY <1>1, <1>7
<1>10. \A k \in 1..SizeAt : h[k] = SkipField(m, h[k - 1])
  <2> SUFFICES ASSUME NEW k \in 1..SizeAt PROVE h[k] = SkipField(m, h[k - 1])
    OBVIOUS
  <2>1. k \in 1..Fields /\ k - 1 \in 0..SizeAt /\ k \in 0..SizeAt
    BY <1>1
  <2>2. g[k] = SkipField(m, g[k - 1])
    BY <1>6, <2>1
  <2>3. QED
    BY <2>1, <2>2
<1> HIDE DEF h
<1>11. SkipFields(m, i, SizeAt) = i + 2 * SizeAt
  BY ZenonT(60), <1>1, <1>9, <1>10, SkipFieldsIs
<1>12. QED
  BY <1>8, <1>11 DEF to, name

\* The name ends before the arrow of a link and the space before that, or at the
\* line end.
LEMMA NameEndFound ==
    ASSUME NEW line \in Lines, Legible(line), line.type # "total", NEW m, NEW i,
           LineIn(m, i, line)
    PROVE  LET name == i + 2 * Fields
               n == Len(NameOf(line))
           IN  NameEnd(m, name, name + n + Len(Target(line))) = name + n
<1> DEFINE n == Len(NameOf(line))
           t == Len(Target(line))
           name == i + 2 * Fields
           end == name + n + t
           at == {k \in name..(end - 1) : m[k] = "->"}
<1>1. /\ i \in Nat /\ i >= 1 /\ Fields \in Nat /\ n \in Nat /\ name \in Int
      /\ t = IF line.type = "link" THEN 4 ELSE 0
  BY SinkAssumption, LineParts DEF LineIn
<1>2. /\ \A j \in 1..n : m[name + j - 1] = NameOf(line)[j]
      /\ line.type = "link" => m[name + n] = "sp" /\ m[name + n + 1] = "->"
  BY DEF LineIn
<1>3. /\ n >= 1 /\ \A j \in 1..n : NameOf(line)[j] # "->"
      /\ line.type = "link" => NameOf(line)[n] \notin Spaces
  BY LegibleName
<1> HIDE DEF n, t, name
<1>4. \A k \in name..(name + n - 1) : m[k] # "->"
  <2> SUFFICES ASSUME NEW k \in name..(name + n - 1) PROVE m[k] # "->"
    OBVIOUS
  <2>1. k - name + 1 \in 1..n /\ name + (k - name + 1) - 1 = k
    BY <1>1
  <2>2. m[name + (k - name + 1) - 1] = NameOf(line)[k - name + 1]
    BY <1>2, <2>1
  <2>3. QED
    BY <1>3, <2>1, <2>2
<1>5. CASE line.type # "link"
  <2>1. end = name + n
    BY <1>1, <1>5
  <2>2. at = {}
    BY <1>1, <1>4, <1>5
  <2> HIDE DEF at
  <2>3. Least(at, end) = end
    BY <2>2 DEF Least
  <2>4. NameEnd(m, name, end) = end
    BY <2>3 DEF NameEnd, at
  <2>5. QED
    BY <2>1, <2>4 DEF end, n, t, name
<1>6. CASE line.type = "link"
  <2> DEFINE arrow == name + n + 1
             P(e) == /\ \A k \in e..(arrow - 1) : k > name /\ m[k] \in Spaces
                     /\ e - 1 > name => m[e - 1] \notin Spaces
             ends == {e \in name..arrow : P(e)}
  <2>1. end = name + n + 4
    BY <1>1, <1>6
  <2>2. at \in SUBSET Int /\ arrow \in at /\ \A j \in at : arrow <= j
    <3>1. arrow \in at
      BY <1>1, <1>2, <1>6, <2>1
    <3>2. ASSUME NEW j \in at PROVE arrow <= j
      <4>1. j \in Int /\ name <= j /\ m[j] = "->" /\ ~(j \in name..(name + n - 1))
        BY <1>1, <1>4
      <4>2. j # name + n
        BY <1>2, <1>6, <4>1
      <4>3. QED
        BY <1>1, <4>1, <4>2
    <3>3. QED
      BY <1>1, <3>1, <3>2
  <2>3. Least(at, end) = arrow
    <3> HIDE DEF at, arrow
    <3>1. QED
      BY <2>2, LeastIs
  <2>4. arrow # end /\ arrow \in Int
    BY <1>1, <2>1
  <2>5. m[name + n - 1] \notin Spaces
    <3>1. n \in 1..n
      BY <1>1, <1>3
    <3>2. QED
      BY <1>2, <1>3, <1>6, <3>1
  <2>6. name + n \in name..arrow /\ P(name + n)
    <3>1. \A k \in (name + n)..(arrow - 1) : k = name + n
      BY <1>1
    <3>2. name + n > name /\ m[name + n] \in Spaces
      BY <1>1, <1>2, <1>3, <1>6 DEF Spaces
    <3>3. QED
      BY <1>1, <2>5, <3>1, <3>2
  <2>7. ASSUME NEW e \in name..arrow, P(e)
        PROVE  e = name + n
    <3>1. e # arrow
      <4>1. arrow - 1 = name + n /\ arrow - 1 > name
        BY <1>1, <1>3
      <4>2. m[arrow - 1] \in Spaces
        BY <1>2, <1>6, <4>1 DEF Spaces
      <4>3. QED
        BY <2>7, <4>1, <4>2
    <3>2. ~(e <= name + n - 1)
      <4>1. name + n - 1 \in Int /\ name + n - 1 <= arrow - 1
        BY <1>1
      <4>2. e <= name + n - 1 => name + n - 1 \in e..(arrow - 1)
        BY <1>1, <4>1
      <4>3. QED
        BY <2>5, <2>7, <4>2
    <3>3. QED
      BY <1>1, <3>1, <3>2
  <2>8. NameEnd(m, name, end) = CHOOSE e \in name..arrow : P(e)
    <3>1. \A x : x = arrow /\ x # end /\ Least(at, end) = x =>
                NameEnd(m, name, end)
                  = CHOOSE e \in name..x : /\ \A k \in e..(x - 1) : k > name /\ m[k] \in Spaces
                                           /\ e - 1 > name => m[e - 1] \notin Spaces
      <4> HIDE DEF arrow, end
      <4>1. QED
        BY DEF NameEnd, at
    <3>2. QED
      BY <2>3, <2>4, <3>1
  <2> HIDE DEF P, arrow, end
  <2>9. (CHOOSE e \in name..arrow : P(e)) = name + n
    BY <2>6, <2>7
  <2>10. QED
    BY <2>8, <2>9 DEF end, n, t, name
<1>7. QED
  BY <1>5, <1>6

\* parse_dirent makes of a line the entry the server means.
LEMMA ParseLine ==
    ASSUME NEW line \in Lines, Legible(line), NEW m, NEW i, LineIn(m, i, line)
    PROVE  ParseDirent(m, i) = EntryOf(line)
<1> DEFINE n == Len(NameOf(line))
           t == Len(Target(line))
           name == i + 2 * Fields
           end == name + n + t
           cr == StrChr(m, i, "cr")
           type == IF m[i] = "d" THEN "dir" ELSE "file"
           num == m[SkipFields(m, i, SizeAt)]
           first == SkipFields(m, i, Fields)
           to == NameEnd(m, first, end)
<1>1. /\ i \in Nat /\ i >= 1 /\ Fields \in Nat /\ n \in Nat /\ name \in Int /\ m \in Seq(Sent)
      /\ Len(m) \in Nat /\ SizeAt \in Nat /\ SizeAt >= 1 /\ SizeAt < Fields
      /\ t = IF line.type = "link" THEN 4 ELSE 0
      /\ end \in Nat /\ end # 0 /\ end + 1 <= Len(m)
      /\ line.type \in {"dir", "file", "link", "total"} /\ line.size \in {"5", "6"}
  BY SMTT(30), SinkAssumption, LineParts DEF LineIn
<1>2. /\ \A j \in 1..n : m[name + j - 1] = NameOf(line)[j]
      /\ \A k \in 1..Fields : m[i + 2 * k - 2] = Word(line, k)
  BY DEF LineIn
<1>3. cr = end
  BY EndFound DEF EndOf
<1>4. /\ SkipFields(m, i, SizeAt) = i + 2 * SizeAt
      /\ first = name + IF line.type = "total" THEN 1 ELSE 0
  BY FieldsSkipped
<1>5. /\ line.type = "total" => n = 0
      /\ line.type # "total" => n >= 1 /\ NameOf(line) = line.name
  BY LegibleName
<1>6. m[i] = Mode[line.type] /\ num = line.size
  <2>1. 1 \in 1..Fields /\ i + 2 * 1 - 2 = i
    BY <1>1
  <2>2. SizeAt + 1 \in 1..Fields /\ i + 2 * (SizeAt + 1) - 2 = i + 2 * SizeAt /\ SizeAt + 1 # 1
    BY <1>1
  <2>3. m[i] = Word(line, 1) /\ num = Word(line, SizeAt + 1)
    BY <1>2, <1>4, <2>1, <2>2
  <2>4. QED
    BY <2>2, <2>3 DEF Word
<1>7. (m[i] = "d") <=> line.type = "dir"
  <2>1. Mode["dir"] = "d" /\ Mode["file"] = "-" /\ Mode["link"] = "l" /\ Mode["total"] = "t"
    BY DEF Mode
  <2>2. QED
    BY <1>1, <1>6, <2>1
<1>8. num \in DOMAIN Atoi
  <2>1. DOMAIN Atoi = {"5", "6"}
    BY DEF Atoi
  <2>2. QED
    BY <1>1, <1>6, <2>1
<1> DEFINE size == IF type = "dir" THEN 0 ELSE IF num \in DOMAIN Atoi THEN Atoi[num] ELSE 0
<1>9. ParseDirent(m, i) = IF first >= end \/ to <= first THEN << >>
                          ELSE <<[type |-> type, name |-> SubSeq(m, first, to - 1), size |-> size]>>
  <2>1. \A x : x = cr /\ x # 0 /\ x = end =>
           ParseDirent(m, i) = IF first >= x \/ NameEnd(m, first, x) <= first THEN << >>
                               ELSE <<[type |-> type,
                                       name |-> SubSeq(m, first, NameEnd(m, first, x) - 1),
                                       size |-> size]>>
    <3> HIDE DEF end, n, t, name
    <3>1. QED
      BY DEF ParseDirent
  <2>2. QED
    BY <1>1, <1>3, <2>1
<1> HIDE DEF num, cr, first, to
<1>10. CASE line.type = "total"
  <2>1. first >= end
    BY <1>1, <1>4, <1>5, <1>10
  <2>2. QED
    BY <1>9, <1>10, <2>1 DEF EntryOf
<1>11. CASE line.type # "total"
  <2>1. first = name /\ ~(first >= end)
    BY <1>1, <1>4, <1>5, <1>11
  <2>2. NameEnd(m, name, end) = name + n
    BY <1>11, NameEndFound
  <2>3. to = name + n /\ ~(to <= first)
    <3>1. to = name + n
      BY <2>1, <2>2 DEF to
    <3>2. QED
      BY <1>1, <1>5, <1>11, <2>1, <3>1
  <2>4. SubSeq(m, first, to - 1) = line.name
    <3> DEFINE s == SubSeq(m, name, name + n - 1)
    <3>1. \A k \in name..(name + n - 1) : m[k] \in Sent
      BY <1>1
    <3>2. /\ s \in Seq(Sent) /\ Len(s) = IF name <= name + n - 1 THEN name + n - 1 - name + 1 ELSE 0
          /\ \A k \in 1..name + n - 1 - name + 1 : s[k] = m[name + k - 1]
      <4> HIDE DEF n, name
      <4>1. name + n - 1 \in Int
        BY <1>1
      <4>2. QED
        BY <1>1, <3>1, <4>1, SubSeqProperties
    <3> HIDE DEF s
    <3>3. Len(s) = n /\ \A k \in 1..n : s[k] = m[name + k - 1]
      <4> HIDE DEF n, name
      <4>1. name + n - 1 - name + 1 = n /\ (name <= name + n - 1)
        BY <1>1, <1>5, <1>11
      <4>2. QED
        BY <3>2, <4>1
    <3>4. NameOf(line) \in Seq(Sent)
      BY LineParts
    <3>5. \A k \in 1..Len(s) : s[k] = NameOf(line)[k]
      <4> HIDE DEF n, name
      <4>1. QED
        BY <1>2, <3>3
    <3>6. Len(s) = Len(NameOf(line))
      BY <3>3
    <3>7. s = NameOf(line)
      BY <3>2, <3>4, <3>5, <3>6, SeqEqual
    <3>8. SubSeq(m, first, to - 1) = s
      <4> HIDE DEF n, name
      <4>1. first = name /\ to - 1 = name + n - 1
        BY <1>1, <2>1, <2>3
      <4>2. QED
        BY <4>1 DEF s
    <3>9. QED
      BY <1>5, <1>11, <3>7, <3>8
  <2>5. type = IF line.type = "dir" THEN "dir" ELSE "file"
    BY <1>7
  <2>6. size = IF line.type = "dir" THEN 0 ELSE Atoi[line.size]
    BY <1>6, <1>8, <2>5
  <2> HIDE DEF type, size
  <2>7. ParseDirent(m, i) = <<[type |-> type, name |-> line.name, size |-> size]>>
    BY <1>9, <2>1, <2>3, <2>4
  <2>8. QED
    BY <1>11, <2>5, <2>6, <2>7 DEF EntryOf
<1>12. QED
  BY <1>10, <1>11

\* parse_dirent of anything is one entry or none.
LEMMA ParseOne ==
    ASSUME NEW m, NEW i
    PROVE  ParseDirent(m, i) = << >> \/ \E ent : ParseDirent(m, i) = <<ent>>
BY Zenon DEF ParseDirent

(***************************************************************************)
(* Part 3.  How a listing is read: the lines stand one after the other, the*)
(* loop of dproc_list calls parse_dirent at the beginning of each and      *)
(* nowhere else, and so by induction over the lines finds their entries.   *)
(***************************************************************************)
Rendered(ls) == [i \in DOMAIN ls |-> Render(ls[i], Crlf)]

\* The text m has the lines ls, as far as it goes, and line k begins behind the
\* place at[k - 1].
LinesAt(m, at, ls) ==
    /\ at \in [0..Len(ls) -> Nat] /\ at[0] = 0 /\ Len(m) = at[Len(ls)]
    /\ \A k \in 1..Len(ls) :
          /\ at[k] <= Len(m) /\ LineIn(m, at[k - 1] + 1, ls[k])
          /\ at[k] = EndOf(ls[k], at[k - 1] + 1) + 1

\* The lines of a listing.
LEMMA RenderedType ==
    ASSUME NEW ls \in Seq(Lines)
    PROVE  /\ Rendered(ls) \in Seq(Seq(Sent)) /\ Len(Rendered(ls)) = Len(ls)
           /\ \A k \in 1..Len(ls) : LineText(Rendered(ls)[k], ls[k])
<1> DEFINE rs == Rendered(ls)
           n == Len(ls)
<1>1. n \in Nat /\ DOMAIN ls = 1..n /\ \A k \in 1..n : ls[k] \in Lines
  OBVIOUS
<1>2. ASSUME NEW k \in 1..n
      PROVE  rs[k] = Render(ls[k], Crlf) /\ LineText(rs[k], ls[k]) /\ rs[k] \in Seq(Sent)
  <2>1. rs[k] = Render(ls[k], Crlf)
    BY <1>1 DEF Rendered
  <2>2. LineText(rs[k], ls[k])
    BY <1>1, <2>1, RenderText
  <2>3. QED
    BY <2>1, <2>2 DEF LineText
<1>3. rs \in Seq(Seq(Sent)) /\ Len(rs) = n
  <2>1. rs = [k \in 1..n |-> Render(ls[k], Crlf)]
    BY <1>1 DEF Rendered
  <2>2. \A k \in 1..n : Render(ls[k], Crlf) \in Seq(Sent)
    BY <1>2
  <2> HIDE DEF rs, n
  <2>3. QED
    BY <1>1, <2>1, <2>2
<1>4. QED
  BY <1>2, <1>3

\* FlattenSeq of them, which g counts up.
LEMMA LinesStand ==
    ASSUME NEW ls \in Seq(Lines), NEW g, Flattening(g, Sent, Rendered(ls))
    PROVE  LinesAt(g[Len(ls)], [k \in 0..Len(ls) |-> Len(g[k])], ls)
<1> DEFINE rs == Rendered(ls)
           n == Len(ls)
           m == g[n]
           at == [k \in 0..n |-> Len(g[k])]
<1>1. n \in Nat /\ DOMAIN ls = 1..n /\ \A k \in 1..n : ls[k] \in Lines
  OBVIOUS
<1>2. /\ rs \in Seq(Seq(Sent)) /\ Len(rs) = n
      /\ \A k \in 1..n : LineText(rs[k], ls[k])
  BY RenderedType
<1>3. \A k \in 1..n : rs[k] \in Seq(Sent)
  BY <1>2
<1> HIDE DEF rs, n
<1>4. Flattening(g, Sent, rs)
  BY DEF rs
<1>5. g \in [0..n -> Seq(Sent)] /\ g[0] = << >>
  BY <1>2, <1>4 DEF Flattening
<1>6. /\ at \in [0..n -> Nat] /\ at[0] = 0 /\ m \in Seq(Sent) /\ Len(m) = at[n]
  <2>1. \A k \in 0..n : g[k] \in Seq(Sent) /\ Len(g[k]) \in Nat
    BY <1>5
  <2>2. 0 \in 0..n /\ n \in 0..n
    BY <1>1
  <2>3. Len(g[0]) = 0
    BY <1>5, EmptySeq
  <2>4. QED
    BY <2>1, <2>2, <2>3
<1>7. ASSUME NEW k \in 1..n
      PROVE  /\ at[k] <= Len(m) /\ LineIn(m, at[k - 1] + 1, ls[k])
             /\ at[k] = EndOf(ls[k], at[k - 1] + 1) + 1
  <2> DEFINE r == rs[k]
             o == at[k - 1]
  <2>1. k - 1 \in 0..n /\ k \in 0..n /\ k \in 1..Len(rs)
    BY <1>1, <1>2
  <2>2. Within(g, rs, k)
    BY <1>2, <1>4, <2>1, FlattenAt
  <2>3. /\ at[k] = o + Len(r) /\ o \in Nat /\ at[k] <= Len(m)
        /\ \A j \in 1..Len(r) : m[o + j] = r[j]
    BY <1>2, <2>1, <2>2 DEF Within
  <2>4. LineText(r, ls[k]) /\ r \in Seq(Sent) /\ Len(r) \in Nat /\ ls[k] \in Lines
    BY <1>1, <1>2, <1>3
  <2> HIDE DEF r, o, at, m
  <2> DEFINE i == o + 1
  <2>5. i \in Nat \ {0} /\ i - 1 + Len(r) <= Len(m) /\ i - 1 = o
    BY <2>3, <2>4
  <2> HIDE DEF i
  <2>6. LineIn(m, i, ls[k])
    <3>1. \A j \in 1..Len(r) : m[i - 1 + j] = r[j]
      BY <2>3, <2>5
    <3>2. QED
      BY <1>6, <2>4, <2>5, <3>1, LineIsIn
  <2>7. Len(r) = 2 * Fields + Len(NameOf(ls[k])) + Len(Target(ls[k])) + 2
    BY <2>4 DEF LineText
  <2>8. /\ Fields \in Nat /\ Len(NameOf(ls[k])) \in Nat /\ Len(Target(ls[k])) \in Nat
    BY <2>4, LineParts, SinkAssumption
  <2>9. at[k] = EndOf(ls[k], o + 1) + 1
    BY <2>3, <2>7, <2>8 DEF EndOf
  <2>10. QED
    BY <2>3, <2>6, <2>9 DEF o, i
<1> HIDE DEF m, at
<1>8. LinesAt(m, at, ls)
  BY <1>6, <1>7 DEF LinesAt, n
<1>9. QED
  BY <1>8 DEF m, at, n

\* A line begins where parse_dirent is called, and it is called nowhere else
\* within the line.
LEMMA StartsAre ==
    ASSUME NEW ls \in Seq(Lines), \A k \in 1..Len(ls) : Legible(ls[k]),
           NEW m \in Seq(Sent), NEW at, LinesAt(m, at, ls), NEW p \in 0..Len(m),
           NEW k \in 1..Len(ls)
    PROVE  LET buf == SubSeq(m, 1, p)
           IN  /\ at[k - 1] < p => at[k - 1] + 1 \in Starts(buf)
               /\ \A j \in (at[k - 1] + 2)..at[k] : j \notin Starts(buf)
<1> DEFINE buf == SubSeq(m, 1, p)
           o == at[k - 1]
           i == o + 1
           end == EndOf(ls[k], i)
<1>1. /\ Len(ls) \in Nat /\ Len(m) \in Nat /\ p \in Nat /\ p <= Len(m) /\ ls[k] \in Lines
      /\ Legible(ls[k]) /\ k - 1 \in 0..Len(ls)
  OBVIOUS
<1>2. /\ o \in Nat /\ LineIn(m, i, ls[k]) /\ at[k] = end + 1 /\ at[k] <= Len(m)
      /\ at[k] \in Nat /\ at[0] = 0
  BY SMTT(30), <1>1 DEF LinesAt
<1>3. \A j \in i..(end - 1) : m[j] \notin {"cr", "nl", "nul"}
  BY <1>1, <1>2, LineBody
<1>4. m[end] = "cr" /\ m[end + 1] = "nl" /\ end \in Nat /\ end > i
  <2>1. m[end] = "cr" /\ m[end + 1] = "nl"
    BY <1>2 DEF LineIn, EndOf
  <2>2. /\ Fields \in Nat /\ Fields >= 1 /\ Len(NameOf(ls[k])) \in Nat
        /\ Len(Target(ls[k])) \in Nat
    BY SMTT(30), <1>1, LineParts, SinkAssumption
  <2>3. i \in Nat
    BY <1>2
  <2> HIDE DEF i
  <2>4. EndOf(ls[k], i) \in Nat /\ EndOf(ls[k], i) > i
    BY <2>2, <2>3 DEF EndOf
  <2>5. QED
    BY <2>1, <2>4
<1>5. /\ buf \in Seq(Sent) /\ DOMAIN buf = 1..p
      /\ \A j \in 1..p : buf[j] = m[j]
  <2>1. \A j \in 1..p : m[j] \in Sent
    BY <1>1
  <2>2. /\ buf \in Seq(Sent) /\ Len(buf) = IF 1 <= p THEN p - 1 + 1 ELSE 0
        /\ \A j \in 1..p - 1 + 1 : buf[j] = m[1 + j - 1]
    BY <1>1, <2>1, SubSeqProperties
  <2>3. QED
    BY <1>1, <2>2
<1>6. o # 0 => m[o] \in LineEnds
  <2>1. SUFFICES ASSUME o # 0 PROVE m[o] \in LineEnds
    OBVIOUS
  <2>2. k - 1 # 0
    BY <1>2, <2>1
  <2>3. k - 1 \in 1..Len(ls)
    BY <1>1, <2>2
  <2> DEFINE q == at[k - 1 - 1] + 1
  <2>4. LineIn(m, q, ls[k - 1]) /\ at[k - 1] = EndOf(ls[k - 1], q) + 1
    BY <2>3 DEF LinesAt
  <2>5. m[EndOf(ls[k - 1], q) + 1] = "nl"
    <3> HIDE DEF q
    <3>1. QED
      BY <2>4 DEF LineIn, EndOf
  <2>6. QED
    BY <2>4, <2>5 DEF LineEnds
<1> HIDE DEF buf, end
<1>7. ASSUME o < p PROVE i \in Starts(buf)
  <2>1. i \in 1..p /\ i \in i..(end - 1) /\ i - 1 = o
    BY SMTT(30), <1>1, <1>2, <1>4, <1>7
  <2>2. buf[i] \notin LineEnds
    BY <1>3, <1>5, <2>1 DEF LineEnds
  <2>3. i > 1 => buf[i - 1] \in LineEnds
    <3>1. i > 1 => o \in 1..p /\ o # 0
      BY <1>1, <1>2, <1>7
    <3>2. QED
      BY <1>5, <1>6, <2>1, <3>1
  <2>4. QED
    BY <1>5, <2>1, <2>2, <2>3 DEF Starts
<1>8. ASSUME NEW j \in (o + 2)..(end + 1) PROVE j \notin Starts(buf)
  <2>1. SUFFICES ASSUME j \in Starts(buf) PROVE FALSE
    OBVIOUS
  <2>2. j \in 1..p /\ j > 1 /\ j - 1 \in 1..p
    BY SMTT(30), <1>1, <1>2, <1>5, <2>1 DEF Starts
  <2>3. m[j - 1] \in LineEnds /\ m[j] \notin LineEnds
    BY <1>5, <2>1, <2>2 DEF Starts
  <2>4. CASE j <= end
    <3>1. j - 1 \in i..(end - 1)
      BY <1>2, <1>4, <2>4
    <3>2. QED
      BY <1>3, <2>3, <3>1 DEF LineEnds
  <2>5. CASE j > end
    <3>1. j = end + 1
      BY <1>2, <1>4, <2>5
    <3>2. QED
      BY <1>4, <2>3, <3>1 DEF LineEnds
  <2>6. QED
    BY <1>2, <1>4, <2>4, <2>5
<1>9. QED
  BY <1>2, <1>7, <1>8 DEF buf

\* The lines follow each other.
LEMMA AtGrows ==
    ASSUME NEW ls \in Seq(Lines), NEW m, NEW at, LinesAt(m, at, ls)
    PROVE  /\ \A k \in 1..Len(ls) : at[k - 1] < at[k]
           /\ \A k \in 0..Len(ls) : \A j \in 0..k : at[j] <= at[k]
<1> DEFINE n == Len(ls)
<1>1. n \in Nat /\ \A k \in 1..n : ls[k] \in Lines /\ k - 1 \in 0..n
  OBVIOUS
<1>2. at \in [0..n -> Nat]
  BY DEF LinesAt
<1>3. ASSUME NEW k \in 1..n PROVE at[k - 1] < at[k]
  <2> DEFINE o == at[k - 1]
             i == o + 1
  <2>1. o \in Nat /\ i \in Nat /\ i = o + 1
    BY <1>1, <1>2
  <2>2. at[k] = EndOf(ls[k], i) + 1
    BY <1>3 DEF LinesAt
  <2>3. /\ Fields \in Nat /\ Len(NameOf(ls[k])) \in Nat /\ Len(Target(ls[k])) \in Nat
    BY <1>1, LineParts, SinkAssumption
  <2> HIDE DEF i, o
  <2>4. EndOf(ls[k], i) \in Nat /\ EndOf(ls[k], i) >= i
    BY <2>1, <2>3 DEF EndOf
  <2>5. o < at[k]
    BY <2>1, <2>2, <2>4
  <2>6. QED
    BY <2>5 DEF o
<1> HIDE DEF n
<1> DEFINE T == {k \in 0..n : \A j \in 0..k : at[j] <= at[k]}
<1>4. 0 \in T
  BY <1>1, <1>2
<1>5. ASSUME NEW k \in 1..n, k - 1 \in T
      PROVE  k \in T
  <2>1. at[k - 1] < at[k] /\ at[k - 1] \in Nat /\ at[k] \in Nat
    BY <1>1, <1>2, <1>3
  <2>2. ASSUME NEW j \in 0..k PROVE at[j] <= at[k]
    <3>1. CASE j = k
      BY <2>1, <3>1
    <3>2. CASE j # k
      <4>1. j \in 0..(k - 1) /\ j \in 0..n
        BY <1>1, <3>2
      <4>2. at[j] <= at[k - 1] /\ at[j] \in Nat
        BY <1>2, <1>5, <4>1
      <4>3. QED
        BY <2>1, <4>2
    <3>3. QED
      BY <3>1, <3>2
  <2>3. QED
    BY <1>1, <2>2
<1> HIDE DEF T
<1>6. \A k \in 0..n : k \in T
  BY <1>1, <1>4, <1>5, UpTo
<1>7. QED
  BY <1>3, <1>6 DEF T, n

\* What dproc_list finds: the entries of the whole lines and at most one more.
FoundMore(found, sure, S) ==
    sure \in Seq(S) /\ (found = sure \/ \E ent \in S : found = sure \o <<ent>>)

LEMMA FoundAre ==
    ASSUME NEW ls \in Seq(Lines), \A k \in 1..Len(ls) : Legible(ls[k]),
           NEW m \in Seq(Sent), NEW at, LinesAt(m, at, ls), NEW p \in 0..Len(m),
           NEW tail \in Seq(Sent), NEW w \in 0..Len(ls), at[w] <= p,
           w < Len(ls) => at[w + 1] > p
    PROVE  LET found == Found(SubSeq(m, 1, p), tail)
               sure == Meant(SubSeq(ls, 1, w))
           IN  (\E S : FoundMore(found, sure, S)) /\ (p = Len(m) => found = sure)
<1> DEFINE n == Len(ls)
           buf == SubSeq(m, 1, p)
           t == buf \o tail
           parsed(i) == IF i \in Starts(buf) THEN ParseDirent(t, i) ELSE << >>
           ents == [i \in 1..p |-> parsed(i)]
           meant == [k \in 1..w |-> EntryOf(ls[k])]
           S == {ParseDirent(t, i)[1] : i \in 1..p} \union {EntryOf(ls[k])[1] : k \in 1..n}
<1>1. /\ n \in Nat /\ Len(m) \in Nat /\ p \in Nat /\ p <= Len(m) /\ w \in Nat /\ w <= n
      /\ \A k \in 1..n : ls[k] \in Lines
  OBVIOUS
<1>2. /\ buf \in Seq(Sent) /\ Len(buf) = p /\ DOMAIN buf = 1..p
      /\ \A j \in 1..p : buf[j] = m[j]
  <2>1. \A j \in 1..p : m[j] \in Sent
    BY <1>1
  <2>2. /\ buf \in Seq(Sent) /\ Len(buf) = IF 1 <= p THEN p - 1 + 1 ELSE 0
        /\ \A j \in 1..p - 1 + 1 : buf[j] = m[1 + j - 1]
    BY <1>1, <2>1, SubSeqProperties
  <2>3. QED
    BY <1>1, <2>2
<1>3. t \in Seq(Sent) /\ Len(t) >= p /\ \A j \in 1..p : t[j] = m[j]
  <2> HIDE DEF buf
  <2>1. t \in Seq(Sent) /\ Parts(t, buf, tail)
    BY <1>2, Joined
  <2>2. Len(t) = p + Len(tail) /\ Len(tail) \in Nat /\ \A j \in 1..p : t[j] = buf[j]
    BY <1>2, <2>1 DEF Parts
  <2>3. QED
    BY <1>1, <1>2, <2>1, <2>2
<1> HIDE DEF n, t
<1>4. \A i \in 1..p : parsed(i) \in Seq(S)
  <2> SUFFICES ASSUME NEW i \in 1..p PROVE parsed(i) \in Seq(S)
    OBVIOUS
  <2>1. << >> \in Seq(S)
    BY EmptySeq
  <2>2. ParseDirent(t, i) = << >> \/ \E ent : ParseDirent(t, i) = <<ent>>
    BY ParseOne
  <2>3. ASSUME NEW ent, ParseDirent(t, i) = <<ent>> PROVE ParseDirent(t, i) \in Seq(S)
    <3>1. ParseDirent(t, i)[1] = ent
      BY <2>3
    <3>2. ent \in S
      BY <3>1
    <3> HIDE DEF S
    <3>3. QED
      BY <2>3, <3>2
  <2>4. QED
    BY <2>1, <2>2, <2>3
<1>5. \A k \in 1..n : EntryOf(ls[k]) \in Seq(S)
  <2> SUFFICES ASSUME NEW k \in 1..n PROVE EntryOf(ls[k]) \in Seq(S)
    OBVIOUS
  <2>1. << >> \in Seq(S)
    BY EmptySeq
  <2>2. EntryOf(ls[k]) = << >> \/ \E ent : EntryOf(ls[k]) = <<ent>>
    BY Zenon DEF EntryOf
  <2>3. ASSUME NEW ent, EntryOf(ls[k]) = <<ent>> PROVE EntryOf(ls[k]) \in Seq(S)
    <3>1. EntryOf(ls[k])[1] = ent
      BY <2>3
    <3>2. ent \in S
      BY <3>1
    <3> HIDE DEF S
    <3>3. QED
      BY <2>3, <3>2
  <2>4. QED
    BY <2>1, <2>2, <2>3
<1>6. /\ ents \in Seq(Seq(S)) /\ Len(ents) = p /\ \A i \in 1..p : ents[i] = parsed(i)
  <2> HIDE DEF S, parsed
  <2>1. QED
    BY <1>1, <1>4
<1>7. /\ meant \in Seq(Seq(S)) /\ Len(meant) = w /\ \A k \in 1..w : meant[k] = EntryOf(ls[k])
  <2> HIDE DEF S
  <2>1. QED
    BY <1>1, <1>5
<1>8. Found(buf, tail) = FlattenSeq(ents)
  <2> HIDE DEF buf
  <2>1. QED
    BY <1>2 DEF Found, t
<1>9. Meant(SubSeq(ls, 1, w)) = FlattenSeq(meant)
  <2> DEFINE s == SubSeq(ls, 1, w)
  <2>1. DOMAIN s = 1..w /\ \A k \in 1..w : s[k] = ls[k]
    <3>1. /\ s \in Seq(Lines) /\ Len(s) = IF 1 <= w THEN w - 1 + 1 ELSE 0
          /\ \A j \in 1..w - 1 + 1 : s[j] = ls[1 + j - 1]
      BY <1>1, SubSeqProperties DEF n
    <3>2. QED
      BY <1>1, <3>1
  <2> HIDE DEF s
  <2>2. Meant(s) = FlattenSeq([k \in DOMAIN s |-> EntryOf(s[k])])
    BY DEF Meant, EntryOf
  <2>3. [k \in DOMAIN s |-> EntryOf(s[k])] = meant
    BY <2>1
  <2>4. QED
    BY <2>2, <2>3 DEF s
<1> HIDE DEF ents, meant, S
<1>10. PICK f : Flattening(f, S, ents) /\ f[p] = Found(buf, tail)
  BY <1>6, <1>8, FlattenIs
<1>11. PICK e : Flattening(e, S, meant) /\ e[w] = Meant(SubSeq(ls, 1, w))
  BY <1>7, <1>9, FlattenIs
<1>12. /\ f \in [0..p -> Seq(S)] /\ f[0] = << >> /\ \A i \in 1..p : f[i] = f[i - 1] \o parsed(i)
  BY <1>6, <1>10 DEF Flattening
<1>13. /\ e \in [0..w -> Seq(S)] /\ e[0] = << >>
       /\ \A k \in 1..w : e[k] = e[k - 1] \o EntryOf(ls[k])
  BY <1>7, <1>11 DEF Flattening
<1>14. /\ at \in [0..n -> Nat] /\ at[0] = 0 /\ Len(m) = at[n]
       /\ \A k \in 1..n : at[k] <= Len(m) /\ LineIn(m, at[k - 1] + 1, ls[k])
                          /\ at[k] = EndOf(ls[k], at[k - 1] + 1) + 1
  BY DEF LinesAt, n
<1>15. /\ \A k \in 1..n : at[k - 1] < at[k]
       /\ \A k \in 0..n : \A j \in 0..k : at[j] <= at[k]
  BY AtGrows DEF n
<1>16. ASSUME NEW k \in 1..n
       PROVE  /\ at[k - 1] < p => at[k - 1] + 1 \in Starts(buf)
              /\ \A j \in (at[k - 1] + 2)..at[k] : j \notin Starts(buf)
  BY StartsAre DEF n, buf
<1> HIDE DEF buf
<1> DEFINE T == {k \in 0..w : f[at[k]] = e[k]}
<1>17. 0 \in T
  BY <1>1, <1>12, <1>13, <1>14
<1>18. ASSUME NEW k \in 1..w, k - 1 \in T
       PROVE  k \in T
  <2> DEFINE o == at[k - 1]
             i == o + 1
             q == at[k]
  <2>1. k \in 1..n /\ k - 1 \in 0..n /\ k \in 0..n /\ k \in 0..w /\ w \in 0..n
    BY <1>1
  <2>2. o \in Nat /\ q \in Nat /\ o < q /\ q <= at[w] /\ at[w] \in Nat /\ q <= p
    <3>1. o \in Nat /\ q \in Nat /\ at[w] \in Nat
      BY <1>14, <2>1
    <3>2. o < q /\ q <= at[w]
      <4>1. k \in 0..w
        BY <2>1
      <4>2. QED
        BY <1>15, <2>1, <4>1
    <3>3. at[w] <= p
      OBVIOUS
    <3> HIDE DEF o, q
    <3>4. QED
      BY <1>1, <3>1, <3>2, <3>3
  <2>3. f[o] = e[k - 1]
    BY <1>18
  <2>4. i \in Starts(buf) /\ \A j \in (o + 2)..q : j \notin Starts(buf)
    BY <1>1, <1>16, <2>1, <2>2
  <2>5. LineIn(m, i, ls[k]) /\ q = EndOf(ls[k], i) + 1 /\ Legible(ls[k]) /\ ls[k] \in Lines
    BY <1>1, <1>14, <2>1 DEF n
  <2> HIDE DEF o, q
  <2>6. i \in 1..p /\ i - 1 = o /\ i \in 0..p /\ q \in i..p
    BY <1>1, <2>2
  <2> HIDE DEF i
  <2>7. LineIn(t, i, ls[k])
    BY <1>1, <1>3, <2>2, <2>5, <2>6, LineInSame
  <2>8. ParseDirent(t, i) = EntryOf(ls[k])
    BY <2>5, <2>7, ParseLine
  <2>9. parsed(i) = EntryOf(ls[k])
    BY <2>4, <2>8
  <2>10. \A j \in (i + 1)..q : ents[j] = << >>
    <3> SUFFICES ASSUME NEW j \in (i + 1)..q PROVE ents[j] = << >>
      OBVIOUS
    <3>1. j \in (o + 2)..q /\ j \in 1..p
      BY <1>1, <2>2, <2>6
    <3>2. QED
      BY <1>6, <2>4, <3>1
  <2> HIDE DEF parsed
  <2>11. f[i] = f[o] \o EntryOf(ls[k])
    BY <1>12, <2>6, <2>9
  <2>12. f[q] = f[i]
    <3>1. Nothing(ents, i, q)
      BY <1>6, <2>6, <2>10 DEF Nothing
    <3>2. QED
      BY <1>6, <1>10, <3>1, FlattenStays
  <2>13. e[k] = e[k - 1] \o EntryOf(ls[k])
    BY <1>13
  <2>14. f[q] = e[k]
    BY <2>3, <2>11, <2>12, <2>13
  <2>15. QED
    BY <2>1, <2>14 DEF q
<1> HIDE DEF T
<1>19. w \in T
  <2>1. \A k \in 0..w : k \in T
    BY <1>1, <1>17, <1>18, UpTo
  <2>2. QED
    BY <1>1, <2>1
<1>20. f[at[w]] = e[w] /\ e[w] \in Seq(S) /\ at[w] \in Nat /\ w \in 0..n
  BY <1>1, <1>13, <1>14, <1>19 DEF T
<1>21. CASE at[w] = p
  BY <1>10, <1>11, <1>20, <1>21 DEF FoundMore, buf
<1>22. CASE at[w] # p
  <2> DEFINE o == at[w]
             i == o + 1
  <2>1. w < n
    <3>1. SUFFICES ASSUME w = n PROVE FALSE
      BY <1>1
    <3>2. QED
      BY <1>1, <1>14, <1>20, <1>22, <3>1
  <2>2. w + 1 \in 1..n /\ w + 1 - 1 = w
    BY <1>1, <2>1
  <2>3. at[w + 1] > p /\ o < p /\ at[w + 1] \in Nat /\ at[w + 1] <= Len(m)
    <3>1. at[w + 1] > p
      BY <2>1 DEF n
    <3>2. at[w] <= p
      OBVIOUS
    <3>3. o < p
      BY <1>1, <1>20, <1>22, <3>2
    <3>4. w + 1 \in 0..n
      BY <2>2
    <3>5. QED
      BY <1>14, <2>2, <3>1, <3>3, <3>4
  <2>4. i \in Starts(buf) /\ \A j \in (o + 2)..at[w + 1] : j \notin Starts(buf)
    BY <1>16, <2>2, <2>3
  <2>5. i \in 1..p /\ i - 1 = o /\ i \in 0..p /\ p \in i..p /\ p # Len(m)
    BY SMTT(30), <1>1, <1>20, <2>3
  <2>6. \A j \in (i + 1)..p : ents[j] = << >>
    <3> SUFFICES ASSUME NEW j \in (i + 1)..p PROVE ents[j] = << >>
      OBVIOUS
    <3>1. j \in (o + 2)..at[w + 1] /\ j \in 1..p
      BY SMTT(30), <1>1, <1>20, <2>3
    <3> HIDE DEF i, o
    <3>2. QED
      BY <1>6, <2>4, <3>1
  <2>7. ParseDirent(t, i) = << >> \/ \E ent : ParseDirent(t, i) = <<ent>>
    BY ParseOne
  <2>8. parsed(i) = ParseDirent(t, i) /\ ParseDirent(t, i) \in Seq(S)
    BY <1>4, <2>4, <2>5 DEF S
  <2> HIDE DEF i, o, parsed
  <2>9. f[i] = e[w] \o ParseDirent(t, i)
    BY <1>12, <1>20, <2>5, <2>8 DEF o
  <2>10. f[p] = f[i]
    <3>1. Nothing(ents, i, p)
      BY <1>6, <2>5, <2>6 DEF Nothing
    <3>2. QED
      BY <1>6, <1>10, <3>1, FlattenStays
  <2>11. Found(buf, tail) = e[w] \o ParseDirent(t, i)
    BY <1>10, <2>9, <2>10
  <2>12. CASE ParseDirent(t, i) = << >>
    <3>1. e[w] \o << >> = e[w]
      BY <1>20, ConcatEmptySeq
    <3>2. QED
      BY <1>11, <1>20, <2>5, <2>11, <2>12, <3>1 DEF FoundMore, buf
  <2>13. CASE \E ent : ParseDirent(t, i) = <<ent>>
    <3>1. PICK ent : ParseDirent(t, i) = <<ent>>
      BY <2>13
    <3>2. ent \in S
      <4>1. Len(<<ent>>) = 1 /\ <<ent>>[1] = ent /\ <<ent>> \in Seq(S)
        BY <2>8, <3>1
      <4>2. QED
        BY <4>1, ElementOfSeq
    <3>3. QED
      BY <1>11, <1>20, <2>5, <2>11, <3>1, <3>2 DEF FoundMore, buf
  <2>14. QED
    BY <2>7, <2>12, <2>13
<1>23. QED
  BY <1>21, <1>22

\* qsort loses none of the entries, and sorts them.
LEMMA SortingsAre ==
    ASSUME NEW S, NEW found, NEW sure, FoundMore(found, sure, S), NEW d \in Sortings(found)
    PROVE  /\ \A i \in DOMAIN sure : sure[i] \in ToSet(d)
           /\ \A i, j \in DOMAIN d : i < j => ~DirentLess(d[j], d[i])
           /\ Len(d) <= Len(sure) + 1
<1>1. PICK p \in Bijection(DOMAIN found, DOMAIN found) :
        /\ d = [k \in DOMAIN found |-> found[p[k]]]
        /\ \A i, j \in DOMAIN found : i < j => ~DirentLess(found[p[j]], found[p[i]])
  BY DEF Sortings
<1>2. /\ p \in [DOMAIN found -> DOMAIN found]
      /\ \A i \in DOMAIN found : \E k \in DOMAIN found : p[k] = i
  BY <1>1 DEF Bijection, Injection, Surjection
<1>3. /\ sure \in Seq(S) /\ found \in Seq(S) /\ Len(sure) \in Nat /\ Len(found) \in Nat
      /\ Len(sure) <= Len(found) /\ Len(found) <= Len(sure) + 1
      /\ \A i \in 1..Len(sure) : found[i] = sure[i]
  <2>1. sure \in Seq(S) /\ Len(sure) \in Nat
    BY DEF FoundMore
  <2>2. CASE found = sure
    BY <2>1, <2>2
  <2>3. CASE \E ent \in S : found = sure \o <<ent>>
    <3>1. PICK ent \in S : found = sure \o <<ent>>
      BY <2>3
    <3> DEFINE last == <<ent>>
    <3>2. last \in Seq(S) /\ Len(last) = 1
      OBVIOUS
    <3>3. found = sure \o last
      BY <3>1
    <3> HIDE DEF last
    <3>4. found \in Seq(S) /\ Parts(found, sure, last)
      BY <2>1, <3>2, <3>3, Joined
    <3>5. Len(found) = Len(sure) + 1 /\ \A k \in 1..Len(sure) : found[k] = sure[k]
      BY <3>2, <3>4 DEF Parts
    <3>6. QED
      BY <2>1, <3>4, <3>5
  <2>4. QED
    BY <2>2, <2>3 DEF FoundMore
<1>4. DOMAIN found = 1..Len(found) /\ DOMAIN sure = 1..Len(sure)
  BY <1>3
<1>5. DOMAIN d = DOMAIN found /\ \A k \in DOMAIN found : d[k] = found[p[k]]
  BY <1>1
<1>6. Len(d) = Len(found)
  <2>1. d \in [1..Len(found) -> S]
    BY <1>1, <1>2, <1>3, <1>4
  <2>2. d \in Seq(S)
    BY <1>3, <2>1
  <2>3. DOMAIN d = 1..Len(d) /\ Len(d) \in Nat
    BY <2>2
  <2>4. QED
    BY <1>3, <1>4, <1>5, <2>3
<1>7. ASSUME NEW i \in DOMAIN sure
      PROVE  sure[i] \in ToSet(d)
  <2>1. i \in DOMAIN found /\ found[i] = sure[i]
    BY <1>3, <1>4
  <2>2. PICK k \in DOMAIN found : p[k] = i
    BY <1>2, <2>1
  <2>3. k \in DOMAIN d /\ d[k] = sure[i]
    BY <1>5, <2>1, <2>2
  <2>4. QED
    BY <2>3 DEF ToSet
<1>8. \A i, j \in DOMAIN d : i < j => ~DirentLess(d[j], d[i])
  BY <1>1, <1>5
<1>9. QED
  BY <1>3, <1>6, <1>7, <1>8

\* There is a last line that arrived whole.
LEMMA LastWhole ==
    ASSUME NEW n \in Nat, NEW at \in [0..n -> Nat], at[0] = 0, NEW p \in Nat
    PROVE  \E w \in 0..n : at[w] <= p /\ (w < n => at[w + 1] > p)
<1> DEFINE T == {k \in 0..n : at[k] > p}
<1>1. CASE T = {}
  <2>1. n \in 0..n /\ at[n] \in Nat /\ ~(n \in T)
    BY <1>1
  <2>2. QED
    BY <2>1
<1>2. CASE T # {}
  <2>1. T \in SUBSET Nat
    OBVIOUS
  <2>2. PICK k \in T : \A y \in T : k <= y
    <3> HIDE DEF T
    <3>1. QED
      BY <1>2, <2>1, LeastNat
  <2>3. k \in 1..n
    OBVIOUS
  <2>4. k - 1 \in 0..n /\ k - 1 \notin T /\ at[k - 1] \in Nat /\ k - 1 + 1 = k
    BY <2>2, <2>3
  <2>5. at[k - 1] <= p /\ at[k - 1 + 1] > p
    BY <2>4
  <2>6. QED
    BY <2>4, <2>5
<1>3. QED
  BY <1>1, <1>2

(***************************************************************************)
(* Part 4.  The invariant.  The buffer of a listing has room for a packet  *)
(* when it is doubled (Sink); a file has what was received, and the count  *)
(* is all of it unless the size was understated or came late (Counted);    *)
(* the viewer has what was counted when the data ended (Shown).            *)
(***************************************************************************)
Sink ==
    /\ TypeOK
    /\ src \in Seq(Sent)
    /\ rbuf \in [buf : Seq(Sent), bufsz : Nat] /\ PacketMax <= rbuf.bufsz
    /\ xfer \in [out : Seq(Sent), total : Int, count : Int]

Counted ==
    kind # "list" =>
        /\ xfer.out = SubSeq(src, 1, pos)
        /\ xfer.count <= pos
        /\ pos = 0 => xfer.count = 0
        /\ xfer.total >= Len(src) /\ mark # "late" => xfer.count = pos

Shown ==
    view = IF kind = "view" /\ pc = "done" /\ xfer.count > 0
           THEN [data |-> xfer.out, size |-> xfer.count] ELSE NoView

LEMMA InitSink == Init => Sink /\ Counted /\ Shown
<1> SUFFICES ASSUME Init PROVE Sink /\ Counted /\ Shown
  OBVIOUS
<1>1. /\ kind \in {"list", "file", "view"} /\ rbuf = [buf |-> << >>, bufsz |-> BufInit]
      /\ pos = 0 /\ lost = FALSE /\ view = NoView /\ pc = "open"
      /\ mark \in {"due", "none"}
  BY DEF Init
<1>2. PICK total \in Int : xfer = [out |-> << >>, total |-> total, count |-> 0]
  <2>1. 0 \in Int /\ Known \subseteq Int
    BY SinkAssumption
  <2>2. QED
    BY <2>1 DEF Init
<1>3. src \in Seq(Sent) /\ Len(src) \in Nat
  <2>1. src \in Seq(Sent)
    BY SourceType
  <2>2. QED
    BY <2>1
<1>4. << >> \in Seq(Sent) /\ Len(<< >>) = 0
  BY EmptySeq
<1>5. SubSeq(src, 1, 0) = << >>
  BY SubSeqEmpty
<1>6. BufInit \in Nat /\ PacketMax <= BufInit
  BY SinkAssumption
<1>7. Sink
  <2>1. rbuf \in [buf : Seq(Sent), bufsz : Nat] /\ PacketMax <= rbuf.bufsz
        /\ rbuf.bufsz \in Nat /\ Len(rbuf.buf) <= rbuf.bufsz
    BY <1>1, <1>4, <1>6
  <2>2. xfer \in [out : Seq(Sent), total : Int, count : Int] /\ xfer.total \in Int
        /\ xfer.count \in Int
    BY <1>2, <1>4
  <2>3. pos \in 0..Len(src)
    BY <1>1, <1>3
  <2>4. QED
    BY <1>1, <1>3, <2>1, <2>2, <2>3 DEF Sink, TypeOK
<1>8. Counted
  <2>1. xfer.out = << >> /\ xfer.count = 0
    BY <1>2
  <2>2. QED
    BY <1>1, <1>5, <2>1 DEF Counted
<1>9. Shown
  BY <1>1 DEF Shown
<1>10. QED
  BY <1>7, <1>8, <1>9

\* A packet: the bytes that come after the ones received.
LEMMA Packet ==
    ASSUME Sink, NEW n \in 1..PacketMax, pos + n <= Len(src)
    PROVE  /\ n \in Nat \ {0} /\ n <= PacketMax /\ pos \in Nat /\ pos + n \in 0..Len(src)
           /\ Len(src) \in Nat
           /\ SubSeq(src, pos + 1, pos + n) \in Seq(Sent)
           /\ Len(SubSeq(src, pos + 1, pos + n)) = n
           /\ SubSeq(src, 1, pos) \o SubSeq(src, pos + 1, pos + n) = SubSeq(src, 1, pos + n)
<1>1. /\ n \in Nat \ {0} /\ n <= PacketMax /\ pos \in 0..Len(src) /\ pos \in Nat
      /\ src \in Seq(Sent) /\ Len(src) \in Nat /\ pos + n \in 0..Len(src)
  BY SinkAssumption DEF Sink, TypeOK
<1>2. \A i \in (pos + 1)..(pos + n) : src[i] \in Sent
  BY <1>1
<1>3. /\ SubSeq(src, pos + 1, pos + n) \in Seq(Sent)
      /\ Len(SubSeq(src, pos + 1, pos + n))
            = IF pos + 1 <= pos + n THEN (pos + n) - (pos + 1) + 1 ELSE 0
  BY <1>1, <1>2, SubSeqProperties
<1>4. 1 \in 1..(Len(src) + 1) /\ pos \in (1 - 1)..Len(src) /\ pos + n \in pos..Len(src)
  BY <1>1
<1>5. SubSeq(src, 1, pos) \o SubSeq(src, pos + 1, pos + n) = SubSeq(src, 1, pos + n)
  BY <1>1, <1>4, ConcatAdjacentSubSeq
<1>6. QED
  BY <1>1, <1>3, <1>5

\* dproc_list.
LEMMA RecvListStep ==
    ASSUME Sink, Counted, Shown, NEW n \in 1..PacketMax, pos + n <= Len(src), NEW ok \in BOOLEAN,
           RecvList(n, ok)
    PROVE  Sink' /\ Counted' /\ Shown'
<1> DEFINE more == SubSeq(src, pos + 1, pos + n)
<1>1. /\ kind = "list" /\ pos' = pos + n
      /\ UNCHANGED <<kind, listing, src, dirent, xfer, mark, view, pc>>
      /\ IF Grown(n) = rbuf.bufsz \/ ok
         THEN rbuf' = [buf |-> rbuf.buf \o more, bufsz |-> Grown(n)] /\ lost' = lost
         ELSE lost' = TRUE /\ rbuf' = rbuf
  BY DEF RecvList
<1>2. /\ n \in Nat \ {0} /\ n <= PacketMax /\ pos + n \in 0..Len(src)
      /\ more \in Seq(Sent) /\ Len(more) = n
  BY Packet
<1>3. /\ rbuf \in [buf : Seq(Sent), bufsz : Nat] /\ PacketMax <= rbuf.bufsz
      /\ PacketMax \in Nat /\ rbuf.bufsz \in Nat /\ rbuf.buf \in Seq(Sent)
      /\ Len(rbuf.buf) \in Nat /\ Len(rbuf.buf) <= rbuf.bufsz /\ lost \in BOOLEAN
  BY SinkAssumption DEF Sink, TypeOK
<1> HIDE DEF more
<1>4. rbuf' \in [buf : Seq(Sent), bufsz : Nat] /\ PacketMax <= rbuf'.bufsz
      /\ Len(rbuf'.buf) <= rbuf'.bufsz /\ lost' \in BOOLEAN
  <2> DEFINE big == Grown(n)
  <2>1. /\ big \in Nat /\ PacketMax <= big /\ Len(rbuf.buf) + n <= big
    BY <1>2, <1>3 DEF Grown
  <2>2. /\ rbuf.buf \o more \in Seq(Sent)
        /\ Len(rbuf.buf \o more) = Len(rbuf.buf) + n
    BY <1>2, <1>3, ConcatProperties
  <2> HIDE DEF big
  <2>3. CASE rbuf' = [buf |-> rbuf.buf \o more, bufsz |-> big] /\ lost' = lost
    <3>1. rbuf'.buf = rbuf.buf \o more /\ rbuf'.bufsz = big
      BY <2>3
    <3>2. QED
      BY <1>3, <2>1, <2>2, <2>3, <3>1
  <2>4. CASE lost' = TRUE /\ rbuf' = rbuf
    BY <1>3, <2>4
  <2>5. QED
    BY <1>1, <2>3, <2>4 DEF big
<1>5. Sink'
  <2>1. rbuf'.bufsz \in Nat
    BY <1>4
  <2>2. TypeOK'
    BY <1>1, <1>2, <1>4, <2>1 DEF Sink, TypeOK
  <2>3. QED
    BY <1>1, <1>4, <2>2 DEF Sink
<1>6. Counted' /\ Shown'
  BY <1>1 DEF Counted, Shown
<1>7. QED
  BY <1>5, <1>6

\* dproc_xfer.
LEMMA RecvXferStep ==
    ASSUME Sink, Counted, Shown, NEW n \in 1..PacketMax, pos + n <= Len(src), pc = "open",
           RecvXfer(n)
    PROVE  Sink' /\ Counted' /\ Shown'
<1> DEFINE more == SubSeq(src, pos + 1, pos + n)
           count == Count(n)
<1>1. /\ kind # "list" /\ pos' = pos + n
      /\ xfer' = [xfer EXCEPT !.out = @ \o more, !.count = count]
      /\ UNCHANGED <<kind, listing, src, lost, rbuf, dirent, mark, view, pc>>
  BY DEF RecvXfer
<1>2. /\ n \in Nat \ {0} /\ pos \in Nat /\ pos + n \in 0..Len(src) /\ Len(src) \in Nat
      /\ more \in Seq(Sent) /\ SubSeq(src, 1, pos) \o more = SubSeq(src, 1, pos + n)
  BY Packet
<1>3. /\ xfer \in [out : Seq(Sent), total : Int, count : Int] /\ xfer.out \in Seq(Sent)
      /\ xfer.total \in Int /\ xfer.count \in Int
  BY DEF Sink
<1>4. /\ xfer.out = SubSeq(src, 1, pos) /\ xfer.count <= pos
      /\ xfer.total >= Len(src) /\ mark # "late" => xfer.count = pos
  BY <1>1 DEF Counted
<1>5. /\ count \in Int /\ count <= pos + n
      /\ xfer.total >= Len(src) /\ mark # "late" => count = pos + n
  BY <1>2, <1>3, <1>4 DEF Count
<1>6. xfer.out \o more \in Seq(Sent)
  BY <1>2, <1>3, ConcatProperties
<1> HIDE DEF more, count
<1>7. /\ xfer'.out = SubSeq(src, 1, pos + n) /\ xfer'.count = count /\ xfer'.total = xfer.total
      /\ xfer' \in [out : Seq(Sent), total : Int, count : Int]
  BY <1>1, <1>2, <1>3, <1>4, <1>5, <1>6
<1>8. Sink'
  <2>1. TypeOK'
    BY <1>1, <1>2, <1>3, <1>5, <1>7 DEF Sink, TypeOK
  <2>2. QED
    BY <1>1, <1>7, <2>1 DEF Sink
<1>9. Counted'
  BY SMTT(30), <1>1, <1>2, <1>5, <1>7 DEF Counted
<1>10. Shown'
  BY <1>1 DEF Shown
<1>11. QED
  BY <1>8, <1>9, <1>10

\* cproc_xfer.
LEMMA Reply150Step ==
    ASSUME Sink, Counted, Shown, pc = "open", Reply150
    PROVE  Sink' /\ Counted' /\ Shown'
<1>1. /\ kind # "list" /\ mark' = IF pos = 0 THEN "read" ELSE "late"
      /\ xfer' = [xfer EXCEPT !.total = Len(src)]
      /\ UNCHANGED <<kind, listing, src, pos, lost, rbuf, dirent, view, pc>>
  BY DEF Reply150
<1>2. /\ xfer \in [out : Seq(Sent), total : Int, count : Int] /\ src \in Seq(Sent)
      /\ Len(src) \in Nat /\ Len(src) \in Int
  BY DEF Sink
<1>3. /\ xfer' \in [out : Seq(Sent), total : Int, count : Int]
      /\ xfer'.total \in Int /\ xfer'.count \in Int
      /\ xfer'.out = xfer.out /\ xfer'.count = xfer.count
  BY <1>1, <1>2
<1>4. TypeOK'
  BY <1>1, <1>3 DEF Sink, TypeOK
<1>5. Sink'
  BY <1>1, <1>3, <1>4 DEF Sink
<1>6. Counted'
  BY <1>1, <1>3 DEF Counted
<1>7. Shown'
  BY <1>1 DEF Shown
<1>8. QED
  BY <1>5, <1>6, <1>7

\* The end of the data.
LEMMA EofStep ==
    ASSUME Sink, Counted, Shown, pc = "open", EofXfer \/ \E tail \in Tails : EofList(tail)
    PROVE  Sink' /\ Counted' /\ Shown'
<1>1. /\ pc' = "done"
      /\ UNCHANGED <<kind, listing, src, pos, lost, rbuf, xfer, mark>>
  BY DEF EofXfer, EofList
<1>2. Sink'
  <2>1. TypeOK'
    BY <1>1 DEF Sink, TypeOK
  <2>2. QED
    BY <1>1, <2>1 DEF Sink
<1>3. Counted'
  BY <1>1 DEF Counted
<1>4. view = NoView
  BY DEF Shown
<1>5. Shown'
  <2>1. CASE EofXfer
    BY <1>1, <1>4, <2>1 DEF EofXfer, Viewed, Shown
  <2>2. CASE \E tail \in Tails : EofList(tail)
    BY <1>1, <1>4, <2>2 DEF EofList, Shown
  <2>3. QED
    BY <2>1, <2>2
<1>6. QED
  BY <1>2, <1>3, <1>5

LEMMA SinkStep == Sink /\ Counted /\ Shown /\ [Next]_vars => Sink' /\ Counted' /\ Shown'
<1> SUFFICES ASSUME Sink, Counted, Shown, [Next]_vars
             PROVE  Sink' /\ Counted' /\ Shown'
  OBVIOUS
<1>1. CASE UNCHANGED vars
  <2>1. Sink'
    BY <1>1 DEF vars, Sink, TypeOK
  <2>2. Counted' /\ Shown'
    BY <1>1 DEF vars, Counted, Shown
  <2>3. QED
    BY <2>1, <2>2
<1>2. CASE Next
  <2>1. pc = "open"
    BY <1>2 DEF Next
  <2>2. ASSUME NEW n \in 1..PacketMax, pos + n <= Len(src), RecvXfer(n)
        PROVE  Sink' /\ Counted' /\ Shown'
    BY <2>1, <2>2, RecvXferStep
  <2>3. ASSUME NEW n \in 1..PacketMax, pos + n <= Len(src), NEW ok \in BOOLEAN, RecvList(n, ok)
        PROVE  Sink' /\ Counted' /\ Shown'
    BY <2>3, RecvListStep
  <2>4. CASE Reply150
    BY <2>1, <2>4, Reply150Step
  <2>5. CASE EofXfer \/ \E tail \in Tails : EofList(tail)
    BY <2>1, <2>5, EofStep
  <2>6. QED
    BY <1>2, <2>2, <2>3, <2>4, <2>5 DEF Next
<1>3. QED
  BY <1>1, <1>2

\* A listing: its lines, all of which the buffer has that were received, if realloc
\* did not fail, and at the end the directory is sorted from what is in the buffer.
Listed ==
    kind = "list" =>
        /\ listing \in [lines : Listings, eol : Eols]
        /\ src = FlattenSeq([i \in DOMAIN listing.lines |->
                                Render(listing.lines[i], listing.eol)])
        /\ ~lost => rbuf.buf = SubSeq(src, 1, pos)
        /\ pc = "done" => \E tail \in Tails : dirent \in Sortings(Found(rbuf.buf, tail))

LEMMA InitListed == Init => Listed
<1> SUFFICES ASSUME Init, kind = "list" PROVE Listed
  BY DEF Listed
<1>1. /\ listing \in [lines : Listings, eol : Eols]
      /\ src = FlattenSeq([i \in DOMAIN listing.lines |->
                              Render(listing.lines[i], listing.eol)])
      /\ rbuf = [buf |-> << >>, bufsz |-> BufInit] /\ pos = 0 /\ pc = "open"
  BY DEF Init
<1>2. SubSeq(src, 1, 0) = << >>
  BY SubSeqEmpty
<1>3. QED
  BY <1>1, <1>2 DEF Listed

LEMMA ListedStep == Sink /\ Listed /\ [Next]_vars => Listed'
<1> SUFFICES ASSUME Sink, Listed, [Next]_vars PROVE Listed'
  OBVIOUS
<1>1. CASE UNCHANGED vars
  BY <1>1 DEF vars, Listed
<1>2. CASE Next
  <2>1. pc = "open"
    BY <1>2 DEF Next
  <2>2. ASSUME NEW n \in 1..PacketMax, pos + n <= Len(src), NEW ok \in BOOLEAN, RecvList(n, ok)
        PROVE  Listed'
    <3> DEFINE more == SubSeq(src, pos + 1, pos + n)
    <3>1. /\ kind = "list" /\ pos' = pos + n
          /\ UNCHANGED <<kind, listing, src, pc>>
          /\ IF Grown(n) = rbuf.bufsz \/ ok
             THEN rbuf' = [buf |-> rbuf.buf \o more, bufsz |-> Grown(n)] /\ lost' = lost
             ELSE lost' = TRUE /\ rbuf' = rbuf
      BY <2>2 DEF RecvList
    <3>2. SubSeq(src, 1, pos) \o more = SubSeq(src, 1, pos + n)
      BY <2>2, Packet
    <3> HIDE DEF more
    <3>3. ~lost' => ~lost /\ rbuf'.buf = rbuf.buf \o more
      BY <3>1
    <3>4. ~lost' => rbuf'.buf = SubSeq(src', 1, pos')
      BY <3>1, <3>2, <3>3 DEF Listed
    <3>5. QED
      BY <2>1, <3>1, <3>4 DEF Listed
  <2>3. ASSUME NEW tail \in Tails, EofList(tail)
        PROVE  Listed'
    <3>1. /\ kind = "list" /\ dirent' \in Sortings(Found(rbuf.buf, tail))
          /\ UNCHANGED <<kind, listing, src, pos, lost, rbuf>>
      BY <2>3 DEF EofList
    <3>2. QED
      BY <3>1 DEF Listed
  <2>4. ASSUME NEW n \in 1..PacketMax, RecvXfer(n) PROVE Listed'
    BY <2>4 DEF RecvXfer, Listed
  <2>5. CASE Reply150
    BY <2>5 DEF Reply150, Listed
  <2>6. CASE EofXfer
    BY <2>6 DEF EofXfer, Listed
  <2>7. QED
    BY <1>2, <2>2, <2>3, <2>4, <2>5, <2>6 DEF Next
<1>3. QED
  BY <1>1, <1>2

(***************************************************************************)
(* Part 5.  The theorems.                                                  *)
(***************************************************************************)
\* The types; and the receive buffer of dproc_list holds every listing, although
\* a packet that does not fit doubles it once only.
THEOREM ListingFits == Spec => []TypeOK
<1>1. Sink => TypeOK
  BY DEF Sink
<1>2. QED
  BY <1>1, InitSink, SinkStep, PTL DEF Spec

\* view_done never gives the viewer more bytes than dproc_xfer received.
THEOREM ViewerStaysInside == Spec => []ViewInside
<1>1. Sink /\ Counted /\ Shown => ViewInside
  <2> SUFFICES ASSUME Sink, Counted, Shown PROVE ViewInside
    OBVIOUS
  <2>1. CASE view = NoView
    <3>1. view.size = 0 /\ view.data = << >>
      BY <2>1 DEF NoView
    <3>2. QED
      BY <3>1, EmptySeq DEF ViewInside
  <2>2. CASE kind = "view" /\ view = [data |-> xfer.out, size |-> xfer.count]
    <3>1. /\ pos \in 0..Len(src) /\ src \in Seq(Sent) /\ Len(src) \in Nat
          /\ xfer.out = SubSeq(src, 1, pos) /\ xfer.count <= pos
      BY <2>2 DEF Sink, TypeOK, Counted
    <3>2. \A i \in 1..pos : src[i] \in Sent
      BY <3>1
    <3>3. Len(SubSeq(src, 1, pos)) = pos
      BY <3>1, <3>2, SubSeqProperties
    <3>4. view.data = xfer.out /\ view.size = xfer.count
      BY <2>2
    <3>5. QED
      BY <3>1, <3>3, <3>4 DEF ViewInside
  <2>3. QED
    BY <2>1, <2>2 DEF Shown
<1>2. QED
  BY <1>1, InitSink, SinkStep, PTL DEF Spec

\* The viewer shows the whole file, and the count that dproc_xfer keeps gets to
\* the end, if the size was not understated and the 150 reply was not late.
THEOREM ViewerShowsAll == Spec => []ViewWhole
<1>1. Sink /\ Counted /\ Shown => ViewWhole
  <2> SUFFICES ASSUME Sink, Counted, Shown, kind = "view", pc = "done",
                      xfer.total >= Len(src), mark # "late"
               PROVE  xfer.count = pos /\ view = [data |-> SubSeq(src, 1, pos), size |-> pos]
    BY DEF ViewWhole
  <2>1. xfer.count = pos /\ xfer.out = SubSeq(src, 1, pos) /\ pos \in Nat
    BY DEF Counted, Sink, TypeOK
  <2>2. CASE pos > 0
    BY <2>1, <2>2 DEF Shown
  <2>3. CASE pos = 0
    <3>1. SubSeq(src, 1, 0) = << >>
      BY SubSeqEmpty
    <3>2. view = NoView
      BY <2>1, <2>3 DEF Shown
    <3>3. QED
      BY <2>1, <2>3, <3>1, <3>2 DEF NoView
  <2>4. QED
    BY <2>1, <2>2, <2>3
<1>2. QED
  BY <1>1, InitSink, SinkStep, PTL DEF Spec

\* What the bytes in memory behind the buffer are.
LEMMA TailType == Tails \subseteq Seq(Sent)
<1>1. "nul" \in Sent /\ "cr" \in Sent /\ "nl" \in Sent
  <2>1. Order[1] = "nul" /\ 1 \in DOMAIN Order
    BY DEF Order
  <2>2. QED
    BY <2>1 DEF Sent, ToSet
<1>2. QED
  BY <1>1, ShortSeqs DEF Tails

\* However a listing comes in packets, and wherever it breaks off, the directory
\* has every line that arrived, and nothing that is not in the listing but the
\* entry of the broken line; it is all of it, sorted, if the listing is whole.
THEOREM ListingIsRead == Spec => []ListsAll
<1>1. Sink /\ Listed => ListsAll
  <2> DEFINE ls == listing.lines
             n == Len(ls)
             whole == Whole
             sure == Meant(SubSeq(ls, 1, whole))
  <2> SUFFICES ASSUME Sink, Listed, kind = "list", pc = "done", ~lost, listing.eol = <<"cr", "nl">>,
                      \A i \in DOMAIN ls : Legible(ls[i])
               PROVE  /\ \A i \in DOMAIN sure : sure[i] \in ToSet(dirent)
                      /\ \A i, j \in DOMAIN dirent : i < j => ~DirentLess(dirent[j], dirent[i])
                      /\ IF pos = Len(src) THEN dirent \in Sortings(sure)
                         ELSE Len(dirent) <= Len(sure) + 1
    BY DEF ListsAll
  <2>1. /\ ls \in Seq(Lines) /\ n \in Nat /\ DOMAIN ls = 1..n /\ \A k \in 1..n : Legible(ls[k])
        /\ src = FlattenSeq(Rendered(ls)) /\ rbuf.buf = SubSeq(src, 1, pos)
    BY SinkAssumption DEF Listed, Rendered, Crlf
  <2>2. PICK tail \in Tails : dirent \in Sortings(Found(SubSeq(src, 1, pos), tail))
    BY <2>1 DEF Listed
  <2>3. src \in Seq(Sent) /\ pos \in 0..Len(src) /\ tail \in Seq(Sent) /\ pos \in Nat
    BY <2>2, TailType DEF Sink, TypeOK
  <2> HIDE DEF ls
  <2>4. Rendered(ls) \in Seq(Seq(Sent)) /\ Len(Rendered(ls)) = n
    BY <2>1, RenderedType
  <2>5. PICK g : Flattening(g, Sent, Rendered(ls)) /\ src = g[n]
    BY <2>1, <2>4, FlattenIs
  <2> DEFINE at == [k \in 0..n |-> Len(g[k])]
  <2>6. LinesAt(src, at, ls)
    BY <2>1, <2>5, LinesStand
  <2>7. ASSUME NEW k \in 0..n
        PROVE  Len(FlattenSeq([i \in 1..k |-> Render(ls[i], listing.eol)])) = at[k]
    <3> DEFINE tt == [i \in 1..k |-> Render(ls[i], listing.eol)]
    <3>1. k \in Nat /\ k <= n
      BY <2>1
    <3>2. \A i \in 1..k : Rendered(ls)[i] = Render(ls[i], listing.eol)
                          /\ Rendered(ls)[i] \in Seq(Sent)
      BY <2>1, <2>4, <3>1 DEF Rendered, Crlf
    <3>3. tt \in Seq(Seq(Sent)) /\ Len(tt) = k /\ \A i \in 1..k : tt[i] = Rendered(ls)[i]
      BY <3>1, <3>2
    <3> HIDE DEF tt
    <3>4. FlattenSeq(tt) = g[k]
      BY <2>4, <2>5, <3>1, <3>3, FlattenFirst
    <3>5. QED
      BY <3>4 DEF tt
  <2> DEFINE IsWhole(w) == at[w] <= pos /\ (w < n => at[w + 1] > pos)
  <2>8. \E w \in 0..n : IsWhole(w)
    <3>1. at \in [0..n -> Nat] /\ at[0] = 0
      BY <2>6 DEF LinesAt
    <3> HIDE DEF at
    <3>2. QED
      BY <2>1, <2>3, <3>1, LastWhole
  <2>9. whole = CHOOSE w \in 0..n : IsWhole(w)
    <3> DEFINE Upto(k) == Len(FlattenSeq([i \in 1..k |-> Render(ls[i], listing.eol)]))
    <3>1. whole = CHOOSE w \in 0..n : Upto(w) <= pos /\ (w < n => Upto(w + 1) > pos)
      BY DEF Whole, ls
    <3>2. \A w \in 0..n : w < n => w + 1 \in 0..n
      BY <2>1
    <3>3. \A w \in 0..n : Upto(w) = at[w]
      BY <2>7
    <3> HIDE DEF Upto, at
    <3>4. \A w \in 0..n : (Upto(w) <= pos /\ (w < n => Upto(w + 1) > pos)) <=> IsWhole(w)
      BY <3>2, <3>3
    <3> DEFINE A(w) == Upto(w) <= pos /\ (w < n => Upto(w + 1) > pos)
    <3>5. \A w \in 0..n : A(w) <=> IsWhole(w)
      BY <3>4
    <3>6. whole = CHOOSE w \in 0..n : A(w)
      BY <3>1
    <3> HIDE DEF A, IsWhole, whole
    <3>7. QED
      BY <3>5, <3>6
  <2> HIDE DEF IsWhole, whole
  <2>10. whole \in 0..n /\ IsWhole(whole)
    BY <2>8, <2>9
  <2> DEFINE found == Found(SubSeq(src, 1, pos), tail)
  <2>11. (\E S : FoundMore(found, sure, S)) /\ (pos = Len(src) => found = sure)
    <3>1. at[whole] <= pos /\ (whole < n => at[whole + 1] > pos)
      BY <2>10 DEF IsWhole
    <3> HIDE DEF at
    <3>2. QED
      BY ZenonT(60), <2>1, <2>3, <2>6, <2>10, <3>1, FoundAre
  <2> HIDE DEF found, sure
  <2>12. dirent \in Sortings(found)
    BY <2>2 DEF found
  <2>13. QED
    BY <2>11, <2>12, SortingsAre
<1>2. QED
  BY <1>1, InitSink, SinkStep, InitListed, ListedStep, PTL DEF Spec
=============================================================================
