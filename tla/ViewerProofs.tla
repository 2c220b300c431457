---------------------------- MODULE ViewerProofs ----------------------------
(***************************************************************************)
(* Theorems about Viewer: for every file of every length, every size of    *)
(* the view and any number of files and keys.                              *)
(***************************************************************************)
EXTENDS Viewer, RecFuns, SequenceTheorems

(***************************************************************************)
(* Part 1.  The split into lines.  After i bytes view_memopen has the runs *)
(* that a line end among them ends, and start is behind the last line end. *)
(***************************************************************************)
Span == Nat \X Nat
Scan == [start : Nat, spans : Seq(Span)]

\* the non-empty runs that end before the i-th byte, and their line end by it
Runs(file, i) ==
    {r \in Span : /\ r[2] > 0 /\ r[1] + r[2] < i
                  /\ \A j \in (r[1] + 1)..(r[1] + r[2]) : file[j] # "nl"
                  /\ file[r[1] + r[2] + 1] = "nl"
                  /\ r[1] = 0 \/ file[r[1]] = "nl"}

Elems(s) == {s[k] : k \in 1..Len(s)}

Increasing(s) == \A j, k \in 1..Len(s) : j < k => s[j][1] < s[k][1]

SplitOK(start, spans, file, i) ==
    /\ start \in 0..i
    /\ start = 0 \/ file[start] = "nl"
    /\ \A j \in (start + 1)..i : file[j] # "nl"
    /\ Elems(spans) = Runs(file, i)
    /\ Increasing(spans)
    /\ \A k \in 1..Len(spans) : spans[k][1] < start

\* A run that ends right before a line end begins where start is.
LEMMA LastRun ==
    ASSUME NEW file, NEW i \in Nat \ {0}, NEW start \in 0..(i - 1),
           start = 0 \/ file[start] = "nl",
           \A j \in (start + 1)..(i - 1) : file[j] # "nl",
           NEW r \in Runs(file, i)
    PROVE  r \in Runs(file, i - 1) \/ r = <<start, (i - 1) - start>>
<1>1. /\ r \in Span /\ r[2] > 0 /\ r[1] + r[2] < i
      /\ \A j \in (r[1] + 1)..(r[1] + r[2]) : file[j] # "nl"
      /\ file[r[1] + r[2] + 1] = "nl"
      /\ r[1] = 0 \/ file[r[1]] = "nl"
  BY DEF Runs
<1>2. r[1] \in Nat /\ r[2] \in Nat /\ r = <<r[1], r[2]>>
  BY <1>1 DEF Span
<1>3. CASE r[1] + r[2] < i - 1
  BY <1>1, <1>3 DEF Runs
<1>4. CASE r[1] + r[2] = i - 1
  <2>1. ~(r[1] < start)
    <3> SUFFICES ASSUME r[1] < start PROVE FALSE
      OBVIOUS
    <3>1. start \in (r[1] + 1)..(r[1] + r[2]) /\ start # 0
      BY <1>2, <1>4
    <3>2. QED
      BY <1>1, <3>1
  <2>2. ~(start < r[1])
    <3> SUFFICES ASSUME start < r[1] PROVE FALSE
      OBVIOUS
    <3>1. r[1] \in (start + 1)..(i - 1) /\ r[1] # 0
      BY <1>1, <1>2, <1>4
    <3>2. QED
      BY <1>1, <3>1
  <2>3. r[1] = start /\ r[2] = (i - 1) - start
    BY <1>2, <1>4, <2>1, <2>2
  <2>4. QED
    BY <1>2, <2>3
<1>5. QED
  BY <1>1, <1>2, <1>3, <1>4

\* One byte more.
LEMMA SplitStep ==
    ASSUME NEW file \in Seq(Bytes), NEW i \in 1..Len(file), NEW s \in Scan,
           SplitOK(s.start, s.spans, file, i - 1)
    PROVE  LET t == SpanStep(s, i, file[i])
           IN  t \in Scan /\ SplitOK(t.start, t.spans, file, i)
<1> DEFINE t == SpanStep(s, i, file[i])
           start == s.start
           spans == s.spans
           new == <<start, (i - 1) - start>>
<1>1. start \in Nat /\ spans \in Seq(Span) /\ i \in Nat \ {0} /\ Len(spans) \in Nat
  BY DEF Scan
<1>2. /\ start \in 0..(i - 1)
      /\ start = 0 \/ file[start] = "nl"
      /\ \A j \in (start + 1)..(i - 1) : file[j] # "nl"
      /\ Elems(spans) = Runs(file, i - 1)
      /\ Increasing(spans)
      /\ \A k \in 1..Len(spans) : spans[k][1] < start
  BY DEF SplitOK
<1>3. CASE file[i] # "nl"
  <2>1. t = s
    BY <1>3 DEF SpanStep
  <2>2. Runs(file, i) = Runs(file, i - 1)
    <3>1. ASSUME NEW r \in Runs(file, i)
          PROVE  r[1] + r[2] < i - 1
      <4>1. r[1] \in Nat /\ r[2] \in Nat /\ r[1] + r[2] < i /\ file[r[1] + r[2] + 1] = "nl"
        BY DEF Runs, Span
      <4>2. r[1] + r[2] + 1 # i
        BY <1>3, <4>1
      <4>3. QED
        BY <1>1, <4>1, <4>2
    <3>2. Runs(file, i) \subseteq Runs(file, i - 1)
      BY <3>1 DEF Runs
    <3>3. Runs(file, i - 1) \subseteq Runs(file, i)
      BY <1>1 DEF Runs, Span
    <3>4. QED
      BY <3>2, <3>3
  <2>3. \A j \in (start + 1)..i : file[j] # "nl"
    BY <1>1, <1>2, <1>3
  <2>4. start \in 0..i
    BY <1>1, <1>2
  <2>5. SplitOK(start, spans, file, i)
    BY <1>2, <2>2, <2>3, <2>4 DEF SplitOK
  <2>6. QED
    BY <2>1, <2>5
<1>4. CASE file[i] = "nl" /\ i - 1 > start
  <2>1. t = [start |-> i, spans |-> Append(spans, new)]
    BY <1>4 DEF SpanStep
  <2>2. new \in Span
    BY <1>1, <1>4 DEF Span
  <2> DEFINE more == Append(spans, new)
  <2>3. /\ more \in Seq(Span) /\ Len(more) = Len(spans) + 1 /\ more[Len(spans) + 1] = new
        /\ \A k \in 1..Len(spans) : more[k] = spans[k]
    BY <1>1, <2>2, AppendProperties
  <2>4. new[1] = start /\ new[2] = (i - 1) - start
    OBVIOUS
  <2>5. Runs(file, i) = Runs(file, i - 1) \union {new}
    <3>1. new \in Runs(file, i)
      <4>1. new[2] > 0 /\ new[1] + new[2] = i - 1
        BY <1>1, <1>4, <2>4
      <4>2. (new[1] + 1)..(new[1] + new[2]) = (start + 1)..(i - 1) /\ i - 1 + 1 = i
        BY <1>1, <2>4, <4>1
      <4> HIDE DEF new
      <4>3. \A j \in (new[1] + 1)..(new[1] + new[2]) : file[j] # "nl"
        BY <1>2, <4>2
      <4>4. file[new[1] + new[2] + 1] = "nl"
        BY <1>4, <4>1, <4>2
      <4>5. new[1] = 0 \/ file[new[1]] = "nl"
        BY <1>2, <2>4
      <4>6. new[1] + new[2] < i
        BY <1>1, <4>1
      <4>7. QED
        BY <2>2, <4>1, <4>3, <4>4, <4>5, <4>6 DEF Runs
    <3>2. Runs(file, i - 1) \subseteq Runs(file, i)
      BY <1>1 DEF Runs, Span
    <3>3. \A r \in Runs(file, i) : r \in Runs(file, i - 1) \/ r = new
      BY <1>1, <1>2, LastRun
    <3>4. QED
      BY <3>1, <3>2, <3>3
  <2> HIDE DEF new
  <2>6. Elems(more) = Elems(spans) \union {new}
    <3>1. Elems(more) \subseteq Elems(spans) \union {new}
      <4> SUFFICES ASSUME NEW k \in 1..Len(more)
                   PROVE  more[k] \in Elems(spans) \union {new}
        BY DEF Elems
      <4>1. k \in 1..Len(spans) \/ k = Len(spans) + 1
        BY <1>1, <2>3
      <4>2. QED
        BY <2>3, <4>1 DEF Elems
    <3>2. \A k \in 1..Len(spans) : spans[k] \in Elems(more)
      <4> SUFFICES ASSUME NEW k \in 1..Len(spans) PROVE spans[k] \in Elems(more)
        OBVIOUS
      <4>1. k \in 1..Len(more) /\ more[k] = spans[k]
        BY <1>1, <2>3
      <4>2. QED
        BY <4>1 DEF Elems
    <3>3. new \in Elems(more)
      <4>1. Len(spans) + 1 \in 1..Len(more)
        BY <1>1, <2>3
      <4>2. QED
        BY <2>3, <4>1 DEF Elems
    <3>4. QED
      BY <3>1, <3>2, <3>3 DEF Elems
  <2>7. \A k \in 1..Len(more) : k \in 1..Len(spans) \/ (k = Len(spans) + 1 /\ more[k] = new)
    BY <1>1, <2>3
  <2>8. Increasing(more)
    <3> SUFFICES ASSUME NEW j \in 1..Len(more), NEW k \in 1..Len(more), j < k
                 PROVE  more[j][1] < more[k][1]
      BY DEF Increasing
    <3>1. j \in 1..Len(spans) /\ more[j] = spans[j]
      BY <1>1, <2>3
    <3>2. CASE k \in 1..Len(spans)
      BY <1>2, <2>3, <3>1, <3>2 DEF Increasing
    <3>3. CASE k = Len(spans) + 1
      BY <1>2, <2>3, <2>4, <3>1, <3>3
    <3>4. QED
      BY <2>7, <3>2, <3>3
  <2>9. \A k \in 1..Len(more) : more[k][1] < i
    <3> SUFFICES ASSUME NEW k \in 1..Len(more) PROVE more[k][1] < i
      OBVIOUS
    <3>1. CASE k \in 1..Len(spans)
      <4>1. more[k] = spans[k] /\ spans[k] \in Span
        BY <1>1, <2>3, <3>1
      <4>2. spans[k][1] < start /\ spans[k][1] \in Nat
        BY <1>2, <3>1, <4>1 DEF Span
      <4>3. QED
        BY <1>1, <1>4, <4>1, <4>2
    <3>2. CASE k = Len(spans) + 1
      BY <1>1, <1>4, <2>3, <2>4, <3>2
    <3>3. QED
      BY <2>7, <3>1, <3>2
  <2> HIDE DEF more
  <2>10. SplitOK(i, more, file, i)
    <3>1. i \in 0..i /\ \A j \in (i + 1)..i : file[j] # "nl"
      BY <1>1
    <3>2. QED
      BY <1>2, <1>4, <2>5, <2>6, <2>8, <2>9, <3>1 DEF SplitOK
  <2>11. t = [start |-> i, spans |-> more]
    BY <2>1 DEF more
  <2>12. t.start = i /\ t.spans = more /\ t \in Scan
    BY <1>1, <2>3, <2>11 DEF Scan
  <2>13. QED
    BY <2>10, <2>12
<1>5. CASE file[i] = "nl" /\ ~(i - 1 > start)
  <2>1. t = [start |-> i, spans |-> spans]
    BY <1>5 DEF SpanStep
  <2>2. start = i - 1
    BY <1>1, <1>2, <1>5
  <2>3. Runs(file, i) = Runs(file, i - 1)
    <3>1. Runs(file, i - 1) \subseteq Runs(file, i)
      BY <1>1 DEF Runs, Span
    <3>2. ASSUME NEW r \in Runs(file, i)
          PROVE  r \in Runs(file, i - 1)
      <4>1. r \in Runs(file, i - 1) \/ r = new
        BY <1>1, <1>2, LastRun
      <4>2. r[2] > 0
        BY DEF Runs
      <4>3. new[2] = 0
        BY <1>1, <2>2
      <4> HIDE DEF new
      <4>4. r # new
        BY <4>2, <4>3
      <4>5. QED
        BY <4>1, <4>4
    <3>3. QED
      BY <3>1, <3>2
  <2>4. \A k \in 1..Len(spans) : spans[k][1] < i
    <3> SUFFICES ASSUME NEW k \in 1..Len(spans) PROVE spans[k][1] < i
      OBVIOUS
    <3>1. spans[k][1] < start /\ spans[k][1] \in Nat
      BY <1>1, <1>2 DEF Span
    <3>2. QED
      BY <1>1, <2>2, <3>1
  <2>5. SplitOK(i, spans, file, i)
    <3>1. i \in 0..i /\ \A j \in (i + 1)..i : file[j] # "nl"
      BY <1>1
    <3>2. QED
      BY <1>2, <1>5, <2>3, <2>4, <3>1 DEF SplitOK
  <2>6. t.start = i /\ t.spans = spans /\ t \in Scan
    BY <1>1, <2>1 DEF Scan
  <2>7. QED
    BY <2>5, <2>6
<1>6. QED
  BY <1>3, <1>4, <1>5

\* The loop of view_memopen, as a function of how many bytes it has seen.
LEMMA SpansAre ==
    ASSUME NEW file \in Seq(Bytes)
    PROVE  \E scan \in [0..Len(file) -> Scan] :
              /\ scan[0] = [start |-> 0, spans |-> << >>]
              /\ \A i \in 1..Len(file) : scan[i] = SpanStep(scan[i - 1], i, file[i])
              /\ Spans(file) = scan[Len(file)].spans
<1> DEFINE n == Len(file)
           s0 == [start |-> 0, spans |-> << >>]
           step == [i \in 1..n |-> [s \in Scan |-> SpanStep(s, i, file[i])]]
<1>1. n \in Nat /\ s0 \in Scan
  BY EmptySeq DEF Scan
<1>2. ASSUME NEW i \in 1..n, NEW s \in Scan
      PROVE  SpanStep(s, i, file[i]) \in Scan
  <2> DEFINE new == <<s.start, i - 1 - s.start>>
             more == Append(s.spans, new)
  <2>1. s.start \in Nat /\ s.spans \in Seq(Span) /\ i \in Nat
    BY <1>1 DEF Scan
  <2>2. i - 1 > s.start => new \in Span
    BY <2>1 DEF Span
  <2> HIDE DEF new
  <2>3. i - 1 > s.start => more \in Seq(Span)
    BY <2>1, <2>2, AppendProperties
  <2>4. SpanStep(s, i, file[i]) =
            IF file[i] # "nl" THEN s
            ELSE [start |-> i, spans |-> IF i - 1 > s.start THEN more ELSE s.spans]
    BY DEF SpanStep, new
  <2> HIDE DEF more
  <2>5. (IF i - 1 > s.start THEN more ELSE s.spans) \in Seq(Span)
    BY <2>1, <2>3
  <2>6. QED
    BY <2>1, <2>4, <2>5 DEF Scan
<1>3. \A i \in 1..n, s \in Scan : step[i][s] \in Scan
  BY <1>2
<1>4. \A i \in 1..n, s \in Scan : step[i][s] = SpanStep(s, i, file[i])
  OBVIOUS
<1> HIDE DEF n, s0, step
<1>5. PICK g \in [0..n -> Scan] : g[0] = s0 /\ \A i \in 1..n : g[i] = step[i][g[i - 1]]
  <2>1. Stepping(n, Scan, s0, step)
    BY <1>1, <1>3 DEF Stepping
  <2>2. QED
    BY <2>1, StepsExist DEF StepsOf
<1>6. ASSUME NEW i \in 1..n
      PROVE  g[i] = SpanStep(g[i - 1], i, file[i])
  <2>1. i - 1 \in 0..n
    BY <1>1
  <2>2. g[i - 1] \in Scan
    BY <2>1
  <2>3. QED
    BY <1>4, <1>5, <2>2
<1> DEFINE scan[i \in 0..n] == IF i = 0 THEN s0 ELSE SpanStep(scan[i - 1], i, file[i])
           Rec(f) == [i \in 0..n |-> IF i = 0 THEN s0 ELSE SpanStep(f[i - 1], i, file[i])]
<1>7. g = Rec(g)
  <2>1. \A i \in 0..n : i = 0 \/ i \in 1..n
    BY <1>1
  <2>2. \A i \in 0..n : g[i] = IF i = 0 THEN s0 ELSE SpanStep(g[i - 1], i, file[i])
    BY <1>5, <1>6, <2>1
  <2>3. QED
    BY <2>2
<1>8. scan = CHOOSE f : f = Rec(f)
  OBVIOUS
<1>9. scan = Rec(scan)
  <2> HIDE DEF scan, Rec
  <2>1. QED
    BY <1>7, <1>8
<1>10. Spans(file) = scan[n].spans
  BY DEF Spans, n, s0
<1> HIDE DEF scan
<1>11. scan[0] = s0 /\ \A i \in 1..n : scan[i] = SpanStep(scan[i - 1], i, file[i])
  <2>1. \A i \in 0..n : scan[i] = IF i = 0 THEN s0 ELSE SpanStep(scan[i - 1], i, file[i])
    BY <1>9
  <2>2. 0 \in 0..n /\ \A i \in 1..n : i \in 0..n /\ i # 0
    BY <1>1
  <2>3. QED
    BY <2>1, <2>2
<1>12. \A i \in 0..n : scan[i] \in Scan
  <2> DEFINE T == {i \in 0..n : scan[i] \in Scan}
  <2>1. 0 \in T
    BY <1>1, <1>11
  <2>2. \A i \in 1..n : i - 1 \in T => i \in T
    BY <1>1, <1>2, <1>11
  <2>3. \A i \in 0..n : i \in T
    <3> HIDE DEF T
    <3>1. QED
      BY <1>1, <2>1, <2>2, UpTo
  <2>4. QED
    BY <2>3
<1>13. scan \in [0..n -> Scan]
  BY <1>9, <1>12
<1>14. QED
  BY <1>10, <1>11, <1>13 DEF n, s0

\* view_memopen makes a line of each run of bytes that a line end ends, in order.
LEMMA SplitRight ==
    ASSUME NEW file \in Seq(Bytes)
    PROVE  /\ Spans(file) \in Seq(Span)
           /\ Elems(Spans(file)) = Runs(file, Len(file))
           /\ Increasing(Spans(file))
<1> DEFINE n == Len(file)
<1>1. PICK scan \in [0..n -> Scan] :
              /\ scan[0] = [start |-> 0, spans |-> << >>]
              /\ \A i \in 1..n : scan[i] = SpanStep(scan[i - 1], i, file[i])
              /\ Spans(file) = scan[n].spans
  BY SpansAre
<1>2. n \in Nat
  OBVIOUS
<1> DEFINE Good(i) == SplitOK(scan[i].start, scan[i].spans, file, i)
           T == {i \in 0..n : Good(i)}
<1>3. 0 \in T
  <2>1. scan[0].start = 0 /\ scan[0].spans = << >>
    BY <1>1
  <2>2. Runs(file, 0) = {}
    BY DEF Runs, Span
  <2>3. Elems(<< >>) = {}
    BY EmptySeq DEF Elems
  <2>4. Increasing(<< >>) /\ \A k \in 1..Len(<< >>) : (<< >>)[k][1] < 0
    BY EmptySeq DEF Increasing
  <2>5. 0 \in 0..0 /\ \A j \in (0 + 1)..0 : file[j] # "nl"
    OBVIOUS
  <2>6. SplitOK(0, << >>, file, 0)
    BY <2>2, <2>3, <2>4, <2>5 DEF SplitOK
  <2>7. Good(0)
    BY <2>1, <2>6
  <2>8. QED
    BY <1>2, <2>7
<1>4. ASSUME NEW i \in 1..n, i - 1 \in T
      PROVE  i \in T
  <2>1. Good(i - 1) /\ i - 1 \in 0..n /\ i \in 0..n
    BY <1>2, <1>4
  <2>2. scan[i - 1] \in Scan
    BY <2>1
  <2>3. Good(i)
    BY <1>1, <2>1, <2>2, SplitStep
  <2>4. QED
    BY <2>1, <2>3
<1>5. n \in T
  <2> HIDE DEF T, n
  <2>1. \A i \in 0..n : i \in T
    BY <1>2, <1>3, <1>4, UpTo
  <2>2. QED
    BY <1>2, <2>1
<1>6. Good(n) /\ scan[n] \in Scan
  BY <1>2, <1>5
<1>7. QED
  BY <1>1, <1>6 DEF SplitOK, Scan

(***************************************************************************)
(* Part 2.  A line on the screen.  After i bytes the loop of view_update   *)
(* has the characters among them in their places, and as long as it has    *)
(* not stopped it is at the column where the i-th byte ends.               *)
(***************************************************************************)
Row == [Cols -> Cells]
Paint == [x : Nat, row : Row, torn : BOOLEAN]

IsChar(file, span, j) == file[span[1] + j] # "tab"

\* the columns of a line, from byte to byte
Rising(col, file, span) ==
    /\ col \in [0..span[2] -> Nat] /\ col[0] = 0
    /\ \A i \in 1..span[2] :
          /\ col[i] > col[i - 1]
          /\ IsChar(file, span, i) => col[i] = col[i - 1] + 1
          /\ ~IsChar(file, span, i) => col[i] = NextStop(col[i - 1])

\* what is painted after i bytes
PaintOK(n, file, span, h, col, i, p) ==
    /\ p.x <= col[i] /\ (p.x < NumCol => p.x = col[i])
    /\ \A j \in 1..i : col[j] <= col[i]
    /\ \A j \in 1..i : IsChar(file, span, j) /\ col[j] > h /\ col[j] <= NumCol
                         => p.row[col[j] - h] = <<n, span[1] + j>>
    /\ h = 0 => \A c \in Cols :
          c <= p.x /\ (\A j \in 1..i : IsChar(file, span, j) => col[j] # c) => p.row[c] = Blank

LEMMA NextStopIs ==
    ASSUME NEW x \in Nat
    PROVE  NextStop(x) \in Nat /\ NextStop(x) > x
<1>1. Tab \in Nat \ {0}
  BY ViewerAssumption
<1>2. x % Tab \in 0..(Tab - 1)
  BY <1>1
<1>3. QED
  BY <1>1, <1>2 DEF NextStop

\* The columns at which the bytes end rise.
LEMMA ColumnsRise ==
    ASSUME NEW file, NEW span \in Span
    PROVE  Rising(Columns(file, span), file, span)
<1> DEFINE n == span[2]
           Col(i, x) == IF file[span[1] + i] = "tab" THEN NextStop(x) ELSE x + 1
           step == [i \in 1..n |-> [x \in Nat |-> Col(i, x)]]
<1>1. n \in Nat
  BY DEF Span
<1>2. ASSUME NEW i \in 1..n, NEW x \in Nat
      PROVE  Col(i, x) \in Nat /\ Col(i, x) > x
  BY NextStopIs
<1>3. \A i \in 1..n, x \in Nat : step[i][x] = Col(i, x) /\ step[i][x] \in Nat
  BY <1>2
<1> HIDE DEF n, step, Col
<1>4. PICK g \in [0..n -> Nat] : g[0] = 0 /\ \A i \in 1..n : g[i] = step[i][g[i - 1]]
  <2>1. Stepping(n, Nat, 0, step)
    BY <1>1, <1>3 DEF Stepping
  <2>2. QED
    BY <2>1, StepsExist DEF StepsOf
<1> DEFINE col[i \in 0..n] == IF i = 0 THEN 0 ELSE Col(i, col[i - 1])
           Rec(f) == [i \in 0..n |-> IF i = 0 THEN 0 ELSE Col(i, f[i - 1])]
<1>5. g = Rec(g)
  <2>1. \A i \in 1..n : i - 1 \in 0..n /\ g[i - 1] \in Nat
    BY <1>1
  <2>2. \A i \in 1..n : g[i] = Col(i, g[i - 1])
    BY <1>3, <1>4, <2>1
  <2>3. \A i \in 0..n : i = 0 \/ i \in 1..n
    BY <1>1
  <2>4. \A i \in 0..n : g[i] = IF i = 0 THEN 0 ELSE Col(i, g[i - 1])
    BY <1>4, <2>2, <2>3
  <2>5. QED
    BY <2>4
<1>6. col = CHOOSE f : f = Rec(f)
  OBVIOUS
<1>7. col = Rec(col)
  <2> HIDE DEF col, Rec
  <2>1. QED
    BY <1>5, <1>6
<1>8. Columns(file, span) = col
  BY DEF Columns, n, Col
<1> HIDE DEF col
<1>9. col[0] = 0 /\ \A i \in 1..n : col[i] = Col(i, col[i - 1])
  <2>1. \A i \in 0..n : col[i] = IF i = 0 THEN 0 ELSE Col(i, col[i - 1])
    BY <1>7
  <2>2. 0 \in 0..n /\ \A i \in 1..n : i \in 0..n /\ i # 0
    BY <1>1
  <2>3. QED
    BY <2>1, <2>2
<1>10. \A i \in 0..n : col[i] \in Nat
  <2> DEFINE T == {i \in 0..n : col[i] \in Nat}
  <2>1. 0 \in T
    BY <1>1, <1>9
  <2>2. ASSUME NEW i \in 1..n, i - 1 \in T
        PROVE  i \in T
    <3>1. col[i - 1] \in Nat /\ col[i] = Col(i, col[i - 1]) /\ i \in 0..n
      BY <1>1, <1>9, <2>2
    <3>2. QED
      BY <1>2, <3>1
  <2>3. \A i \in 0..n : i \in T
    <3> HIDE DEF T
    <3>1. QED
      BY <1>1, <2>1, <2>2, UpTo
  <2>4. QED
    BY <2>3
<1>11. col \in [0..n -> Nat]
  BY <1>7, <1>10
<1>12. ASSUME NEW i \in 1..n
       PROVE  /\ col[i] > col[i - 1]
              /\ IsChar(file, span, i) => col[i] = col[i - 1] + 1
              /\ ~IsChar(file, span, i) => col[i] = NextStop(col[i - 1])
  <2>1. col[i - 1] \in Nat
    BY <1>1, <1>10
  <2>2. col[i] = Col(i, col[i - 1])
    BY <1>9
  <2>3. col[i] > col[i - 1]
    BY <1>2, <2>1, <2>2
  <2>4. QED
    BY <2>2, <2>3 DEF Col, IsChar
<1>13. QED
  BY <1>8, <1>9, <1>11, <1>12 DEF Rising, n

\* A byte paints within the row.
LEMMA PutByteType ==
    ASSUME NEW n \in 1..MaxOpens, NEW file, NEW h \in Nat, NEW p \in Paint, NEW at \in Nat
    PROVE  PutByte(n, file, h, p, at) \in Paint
<1>1. p.x \in Nat /\ p.row \in Row /\ p.torn \in BOOLEAN
  BY DEF Paint
<1>2. NextStop(p.x) \in Nat
  BY <1>1, NextStopIs
<1>3. Cleared(p.row, p.x + 1, NextStop(p.x)) \in Row
  BY <1>1 DEF Cleared, Row, Cells
<1>4. <<n, at>> \in Cells
  BY DEF Cells
<1>5. [p.row EXCEPT ![p.x + 1 - h] = <<n, at>>] \in Row
  BY <1>1, <1>4 DEF Row
<1>6. CASE p.x >= NumCol
  BY <1>6 DEF PutByte
<1>7. CASE ~(p.x >= NumCol) /\ file[at] = "tab"
  <2>1. PutByte(n, file, h, p, at) =
            [x |-> NextStop(p.x), row |-> Cleared(p.row, p.x + 1, NextStop(p.x)),
             torn |-> p.torn \/ NextStop(p.x) > NumCol]
    BY <1>7 DEF PutByte
  <2>2. (p.torn \/ NextStop(p.x) > NumCol) \in BOOLEAN
    OBVIOUS
  <2>3. QED
    BY <1>2, <1>3, <2>1, <2>2 DEF Paint
<1>8. CASE ~(p.x >= NumCol) /\ file[at] # "tab"
  <2> DEFINE row == IF p.x + 1 - h > 0 THEN [p.row EXCEPT ![p.x + 1 - h] = <<n, at>>] ELSE p.row
  <2>1. PutByte(n, file, h, p, at) = [p EXCEPT !.x = p.x + 1, !.row = row]
    BY <1>8 DEF PutByte
  <2>2. row \in Row /\ p.x + 1 \in Nat
    BY <1>1, <1>5
  <2> HIDE DEF row
  <2>3. QED
    BY <1>1, <2>1, <2>2 DEF Paint
<1>9. QED
  BY <1>6, <1>7, <1>8

\* One byte more.
LEMMA PaintStep ==
    ASSUME NEW n \in 1..MaxOpens, NEW file, NEW span \in Span, NEW h \in Nat,
           NEW col, Rising(col, file, span), NEW i \in 1..span[2],
           NEW p \in Paint, PaintOK(n, file, span, h, col, i - 1, p)
    PROVE  PaintOK(n, file, span, h, col, i, PutByte(n, file, h, p, span[1] + i))
<1> DEFINE q == PutByte(n, file, h, p, span[1] + i)
           at == span[1] + i
<1>1. /\ p.x \in Nat /\ p.row \in Row /\ p = [x |-> p.x, row |-> p.row, torn |-> p.torn]
      /\ span[1] \in Nat /\ span[2] \in Nat /\ i \in Nat \ {0} /\ NumCol \in Nat
  BY ViewerAssumption DEF Paint, Span
<1>2. /\ \A j \in 0..span[2] : col[j] \in Nat
      /\ col[i] > col[i - 1] /\ i - 1 \in 0..span[2] /\ i \in 0..span[2]
      /\ IsChar(file, span, i) => col[i] = col[i - 1] + 1
      /\ ~IsChar(file, span, i) => col[i] = NextStop(col[i - 1])
  BY <1>1 DEF Rising
<1>3. /\ p.x <= col[i - 1] /\ (p.x < NumCol => p.x = col[i - 1])
      /\ \A j \in 1..(i - 1) : col[j] <= col[i - 1]
      /\ \A j \in 1..(i - 1) : IsChar(file, span, j) /\ col[j] > h /\ col[j] <= NumCol
                                 => p.row[col[j] - h] = <<n, span[1] + j>>
      /\ h = 0 => \A c \in Cols :
            c <= p.x /\ (\A j \in 1..(i - 1) : IsChar(file, span, j) => col[j] # c)
              => p.row[c] = Blank
  BY DEF PaintOK
<1>4. \A j \in 1..i : j = i \/ (j \in 1..(i - 1) /\ j \in 0..span[2])
  BY <1>1
<1>5. \A j \in 1..i : col[j] \in Nat /\ col[j] <= col[i]
  BY <1>2, <1>3, <1>4
<1>6. \A j \in 1..(i - 1) : j \in 1..i /\ col[j] \in Nat /\ col[j] <= col[i - 1]
  BY <1>1, <1>3, <1>5
<1>7. CASE p.x >= NumCol
  <2>1. q = p
    BY <1>7 DEF PutByte
  <2>2. p.x <= col[i] /\ ~(p.x < NumCol) /\ col[i] > NumCol
    BY <1>1, <1>2, <1>3, <1>7
  <2>3. \A j \in 1..i : IsChar(file, span, j) /\ col[j] > h /\ col[j] <= NumCol
                          => p.row[col[j] - h] = <<n, span[1] + j>>
    <3> SUFFICES ASSUME NEW j \in 1..i, IsChar(file, span, j), col[j] > h, col[j] <= NumCol
                 PROVE  p.row[col[j] - h] = <<n, span[1] + j>>
      OBVIOUS
    <3>1. j # i
      BY <1>1, <1>5, <2>2
    <3>2. QED
      BY <1>3, <1>4, <3>1
  <2>4. h = 0 => \A c \in Cols :
            c <= p.x /\ (\A j \in 1..i : IsChar(file, span, j) => col[j] # c)
              => p.row[c] = Blank
    BY <1>3, <1>6
  <2> HIDE DEF q
  <2>5. QED
    BY <1>5, <2>1, <2>2, <2>3, <2>4 DEF PaintOK, q
<1>8. CASE ~(p.x >= NumCol) /\ IsChar(file, span, i)
  <2> DEFINE row == IF p.x + 1 - h > 0 THEN [p.row EXCEPT ![p.x + 1 - h] = <<n, at>>] ELSE p.row
  <2>1. q.x = p.x + 1 /\ q.row = row
    BY <1>1, <1>8 DEF PutByte, IsChar
  <2>2. p.x = col[i - 1] /\ col[i] = p.x + 1
    BY <1>1, <1>2, <1>3, <1>8
  <2>3. \A c \in Cols : row[c] = IF p.x + 1 - h > 0 /\ c = p.x + 1 - h THEN <<n, at>> ELSE p.row[c]
    BY <1>1 DEF Row
  <2> HIDE DEF row, q, at
  <2>4. ASSUME NEW j \in 1..i, IsChar(file, span, j), col[j] > h, col[j] <= NumCol
        PROVE  row[col[j] - h] = <<n, span[1] + j>>
    <3>1. col[j] - h \in Cols
      BY <1>1, <1>5, <2>4 DEF Cols
    <3>2. CASE j = i
      <4>1. col[j] - h = p.x + 1 - h /\ p.x + 1 - h > 0
        BY <1>1, <1>5, <2>2, <2>4, <3>2
      <4>2. row[col[j] - h] = <<n, at>>
        BY <2>3, <3>1, <4>1
      <4>3. QED
        BY <3>2, <4>2 DEF at
    <3>3. CASE j \in 1..(i - 1)
      <4>1. p.row[col[j] - h] = <<n, span[1] + j>>
        BY <1>3, <2>4, <3>3
      <4>2. col[j] - h # p.x + 1 - h
        BY <1>1, <1>6, <2>2, <3>3
      <4>3. QED
        BY <2>3, <3>1, <4>1, <4>2
    <3>4. QED
      BY <1>4, <3>2, <3>3
  <2>5. ASSUME h = 0, NEW c \in Cols, c <= p.x + 1,
               \A j \in 1..i : IsChar(file, span, j) => col[j] # c
        PROVE  row[c] = Blank
    <3>1. c # p.x + 1 /\ c \in Nat
      BY <1>1, <1>8, <2>2, <2>5 DEF Cols
    <3>2. c <= p.x
      BY <1>1, <2>5, <3>1
    <3>3. row[c] = p.row[c]
      BY <1>1, <2>3, <2>5, <3>1
    <3>4. p.row[c] = Blank
      BY <1>3, <1>6, <2>5, <3>2
    <3>5. QED
      BY <3>3, <3>4
  <2>6. q.x <= col[i] /\ (q.x < NumCol => q.x = col[i])
    BY <1>1, <2>1, <2>2
  <2>7. QED
    BY <1>5, <2>1, <2>4, <2>5, <2>6 DEF PaintOK, q
<1>9. CASE ~(p.x >= NumCol) /\ ~IsChar(file, span, i)
  <2> DEFINE ts == NextStop(p.x)
             row == Cleared(p.row, p.x + 1, ts)
  <2>1. q.x = ts /\ q.row = row
    BY <1>1, <1>9 DEF PutByte, IsChar
  <2>2. p.x = col[i - 1] /\ col[i] = ts
    BY <1>1, <1>2, <1>3, <1>9
  <2>3. \A c \in Cols : row[c] = IF c \in (p.x + 1)..ts THEN Blank ELSE p.row[c]
    BY DEF Cleared
  <2>4. ts \in Nat /\ ts > p.x
    BY <1>1, NextStopIs
  <2> HIDE DEF row, q, ts
  <2>5. ASSUME NEW j \in 1..i, IsChar(file, span, j), col[j] > h, col[j] <= NumCol
        PROVE  row[col[j] - h] = <<n, span[1] + j>>
    <3>1. j \in 1..(i - 1)
      BY <1>4, <1>9, <2>5
    <3>2. col[j] - h \in Cols /\ col[j] - h <= p.x
      BY <1>1, <1>6, <2>2, <2>5, <3>1 DEF Cols
    <3>3. row[col[j] - h] = p.row[col[j] - h]
      BY <1>1, <2>3, <3>2 DEF Cols
    <3>4. QED
      BY <1>3, <2>5, <3>1, <3>3
  <2>6. ASSUME h = 0, NEW c \in Cols, c <= ts,
               \A j \in 1..i : IsChar(file, span, j) => col[j] # c
        PROVE  row[c] = Blank
    <3>1. CASE c \in (p.x + 1)..ts
      BY <2>3, <3>1
    <3>2. CASE c <= p.x
      <4>1. p.row[c] = Blank
        BY <1>3, <1>6, <2>6, <3>2
      <4>2. QED
        BY <2>3, <4>1
    <3>3. QED
      BY <1>1, <2>4, <2>6, <3>1, <3>2 DEF Cols
  <2>7. q.x <= col[i] /\ (q.x < NumCol => q.x = col[i])
    BY <2>1, <2>2, <2>4
  <2>8. QED
    BY <1>5, <2>1, <2>5, <2>6, <2>7 DEF PaintOK, q
<1>10. QED
  BY <1>7, <1>8, <1>9

\* A line that is painted over any row is shown right.
LEMMA LineShown ==
    ASSUME NEW n \in 1..MaxOpens, NEW file, NEW span \in Span, NEW h \in Nat, NEW old \in Row
    PROVE  /\ PaintLine(n, file, span, h, old) \in Paint
           /\ RowRight(n, file, span, h, PaintLine(n, file, span, h, old).row)
<1> DEFINE m == span[2]
           Put(i, p) == PutByte(n, file, h, p, span[1] + i)
           p0 == [x |-> 0, row |-> old, torn |-> FALSE]
           step == [i \in 1..m |-> [p \in Paint |-> Put(i, p)]]
           col == Columns(file, span)
<1>1. m \in Nat /\ span[1] \in Nat /\ p0 \in Paint /\ NumCol \in Nat
  BY ViewerAssumption DEF Paint, Span
<1>2. ASSUME NEW i \in 1..m, NEW p \in Paint
      PROVE  Put(i, p) \in Paint
  <2>1. span[1] + i \in Nat
    BY <1>1
  <2>2. QED
    BY <2>1, PutByteType
<1>3. \A i \in 1..m, p \in Paint : step[i][p] = Put(i, p) /\ step[i][p] \in Paint
  BY <1>2
<1> HIDE DEF m, step, p0, Put, col
<1>4. PICK g \in [0..m -> Paint] : g[0] = p0 /\ \A i \in 1..m : g[i] = step[i][g[i - 1]]
  <2>1. Stepping(m, Paint, p0, step)
    BY <1>1, <1>3 DEF Stepping
  <2>2. QED
    BY <2>1, StepsExist DEF StepsOf
<1> DEFINE paint[i \in 0..m] == IF i = 0 THEN p0 ELSE Put(i, paint[i - 1])
           Rec(f) == [i \in 0..m |-> IF i = 0 THEN p0 ELSE Put(i, f[i - 1])]
           last == paint[m]
<1>5. g = Rec(g)
  <2>1. \A i \in 1..m : i - 1 \in 0..m /\ g[i - 1] \in Paint
    BY <1>1
  <2>2. \A i \in 1..m : g[i] = Put(i, g[i - 1])
    BY <1>3, <1>4, <2>1
  <2>3. \A i \in 0..m : i = 0 \/ i \in 1..m
    BY <1>1
  <2>4. \A i \in 0..m : g[i] = IF i = 0 THEN p0 ELSE Put(i, g[i - 1])
    BY <1>4, <2>2, <2>3
  <2>5. QED
    BY <2>4
<1>6. paint = CHOOSE f : f = Rec(f)
  OBVIOUS
<1>7. paint = Rec(paint)
  <2> HIDE DEF paint, Rec
  <2>1. QED
    BY <1>5, <1>6
<1>8. PaintLine(n, file, span, h, old) =
        IF last.x >= NumCol THEN last
        ELSE [last EXCEPT !.row = Cleared(@, EndColumn(last.x, h), NumCol)]
  BY DEF PaintLine, m, p0, Put
<1> HIDE DEF paint
<1>9. paint[0] = p0 /\ \A i \in 1..m : paint[i] = Put(i, paint[i - 1])
  <2>1. \A i \in 0..m : paint[i] = IF i = 0 THEN p0 ELSE Put(i, paint[i - 1])
    BY <1>7
  <2>2. 0 \in 0..m /\ \A i \in 1..m : i \in 0..m /\ i # 0
    BY <1>1
  <2>3. QED
    BY <2>1, <2>2
<1>10. Rising(col, file, span)
  BY ColumnsRise DEF col
<1> DEFINE T == {i \in 0..m : paint[i] \in Paint /\ PaintOK(n, file, span, h, col, i, paint[i])}
<1>11. 0 \in T
  <2>1. paint[0].x = 0 /\ col[0] = 0
    BY <1>9, <1>10 DEF p0, Rising
  <2>2. \A c \in Cols : ~(c <= 0)
    BY DEF Cols
  <2>3. PaintOK(n, file, span, h, col, 0, paint[0])
    BY <2>1, <2>2 DEF PaintOK
  <2>4. QED
    BY <1>1, <1>9, <2>3
<1>12. ASSUME NEW i \in 1..m, i - 1 \in T
       PROVE  i \in T
  <2>1. /\ i \in 0..m /\ i \in 1..span[2] /\ paint[i - 1] \in Paint
        /\ PaintOK(n, file, span, h, col, i - 1, paint[i - 1])
    BY <1>1, <1>12 DEF m
  <2>2. paint[i] = PutByte(n, file, h, paint[i - 1], span[1] + i) /\ paint[i] \in Paint
    BY <1>2, <1>9, <2>1 DEF Put
  <2>3. PaintOK(n, file, span, h, col, i, paint[i])
    BY <1>10, <2>1, <2>2, PaintStep
  <2>4. QED
    BY <2>1, <2>2, <2>3
<1>13. last \in Paint /\ PaintOK(n, file, span, h, col, m, last)
  <2>1. \A i \in 0..m : i \in T
    <3> HIDE DEF T
    <3>1. QED
      BY <1>1, <1>11, <1>12, UpTo
  <2>2. m \in 0..m
    BY <1>1
  <2>3. QED
    BY <2>1, <2>2
<1> HIDE DEF T, last
<1> DEFINE q == PaintLine(n, file, span, h, old)
           e == EndColumn(last.x, h)
<1>14. last.x \in Nat /\ last.row \in Row /\ last.torn \in BOOLEAN
  BY <1>13 DEF Paint
<1>15. /\ last.x <= col[m] /\ (last.x < NumCol => last.x = col[m])
       /\ \A j \in 1..m : col[j] <= col[m]
       /\ \A j \in 1..m : IsChar(file, span, j) /\ col[j] > h /\ col[j] <= NumCol
                            => last.row[col[j] - h] = <<n, span[1] + j>>
       /\ h = 0 => \A c \in Cols :
             c <= last.x /\ (\A j \in 1..m : IsChar(file, span, j) => col[j] # c)
               => last.row[c] = Blank
  BY <1>13 DEF PaintOK
<1>16. \A j \in 0..m : col[j] \in Nat
  BY <1>10 DEF Rising, m
<1>17. e \in Nat \ {0} /\ (last.x >= h => e = last.x - h + 1) /\ (last.x < h => e = 1)
  BY <1>14 DEF EndColumn
<1>18. q \in Paint
  <2>1. Cleared(last.row, e, NumCol) \in Row
    BY <1>14 DEF Cleared, Row, Cells
  <2>2. [last EXCEPT !.row = Cleared(@, e, NumCol)] \in Paint
    BY <1>13, <2>1 DEF Paint
  <2>3. QED
    BY <1>8, <1>13, <2>2
<1>19. \A c \in Cols : q.row[c] = IF last.x < NumCol /\ c >= e THEN Blank ELSE last.row[c]
  <2>1. CASE last.x >= NumCol
    BY <1>1, <1>8, <1>14, <2>1
  <2>2. CASE ~(last.x >= NumCol)
    <3>1. q = [last EXCEPT !.row = Cleared(@, e, NumCol)]
      BY <1>8, <2>2
    <3>2. q.row = Cleared(last.row, e, NumCol)
      BY <1>13, <3>1 DEF Paint
    <3> HIDE DEF q, e
    <3>3. \A c \in Cols : c \in Nat /\ c <= NumCol /\ (c \in e..NumCol <=> c >= e)
      BY <1>1, <1>17 DEF Cols
    <3>4. \A c \in Cols : q.row[c] = IF c \in e..NumCol THEN Blank ELSE last.row[c]
      BY <3>2 DEF Cleared
    <3>5. QED
      BY <1>1, <1>14, <2>2, <3>3, <3>4
  <2>3. QED
    BY <2>1, <2>2
<1> HIDE DEF q, e
<1>20. ASSUME NEW i \in 1..m, IsChar(file, span, i), col[i] > h, col[i] <= NumCol
       PROVE  q.row[col[i] - h] = <<n, span[1] + i>>
  <2>1. col[i] \in Nat /\ col[i] <= col[m] /\ col[m] \in Nat
    BY <1>1, <1>15, <1>16
  <2>2. col[i] - h \in Cols
    BY <1>1, <1>20, <2>1 DEF Cols
  <2>3. last.x < NumCol => ~(col[i] - h >= e)
    BY <1>14, <1>15, <1>17, <1>20, <2>1
  <2>4. q.row[col[i] - h] = last.row[col[i] - h]
    BY <1>19, <2>2, <2>3
  <2>5. QED
    BY <1>15, <1>20, <2>4
<1>21. ASSUME NEW c \in Cols, h = 0 \/ (col[m] < NumCol /\ col[m] < c + h),
              \A i \in 1..m : IsChar(file, span, i) => col[i] # c + h
       PROVE  q.row[c] = Blank
  <2>1. c \in Nat \ {0} /\ c <= NumCol /\ col[m] \in Nat
    BY <1>1, <1>16 DEF Cols
  <2>2. CASE last.x < NumCol /\ c >= e
    BY <1>19, <2>2
  <2>3. CASE ~(last.x < NumCol /\ c >= e)
    <3>1. h = 0 /\ c <= last.x
      BY <1>1, <1>14, <1>15, <1>17, <1>21, <2>1, <2>3
    <3>2. \A j \in 1..m : IsChar(file, span, j) => col[j] # c
      BY <1>21, <2>1, <3>1
    <3>3. last.row[c] = Blank
      BY <1>15, <3>1, <3>2
    <3>4. QED
      BY <1>19, <2>3, <3>3
  <2>4. QED
    BY <2>2, <2>3
<1>22. RowRight(n, file, span, h, q.row)
  <2> DEFINE chars == {i \in 1..m : file[span[1] + i] # "tab"}
  <2>1. \A i \in chars : i \in 1..m /\ IsChar(file, span, i)
    BY DEF IsChar
  <2>2. \A i \in 1..m : IsChar(file, span, i) => i \in chars
    BY DEF IsChar
  <2> HIDE DEF chars
  <2>3. \A i \in chars : col[i] > h /\ col[i] <= NumCol => q.row[col[i] - h] = <<n, span[1] + i>>
    BY <1>20, <2>1
  <2>4. \A c \in Cols : (h = 0 \/ (col[m] < NumCol /\ col[m] < c + h))
                          /\ (\A i \in chars : col[i] # c + h) => q.row[c] = Blank
    BY <1>21, <2>2
  <2>5. QED
    BY <2>3, <2>4 DEF RowRight, chars, col, m
<1>23. QED
  BY <1>18, <1>22 DEF q

(***************************************************************************)
(* Part 3.  The invariant: the types, and that the lines are those of the  *)
(* file that is open (Split); where the first file can be scrolled to      *)
(* (FirstFile); and that what is not marked is on the screen (Marked).     *)
(***************************************************************************)
Split == data # Closed => lines = Spans(data[2])

FirstFile ==
    /\ opens = 0 => data = Closed /\ vscroll = 0
    /\ opens = 1 /\ data # Closed =>
          IF lines = << >> THEN vscroll = 0 ELSE vscroll < Len(lines)

BlankRow == [c \in Cols |-> Blank]

\* the frame is drawn and nothing is below the text
FrameDrawn == screen.frame = data[1] /\ \A r \in Rows \ DrawnRows : screen.text[r] = BlankRow

Marked ==
    data # Closed =>
        /\ "frame" \in dirty => "text" \in dirty
        /\ "frame" \notin dirty => FrameDrawn
        /\ "buttons" \notin dirty => screen.buttons
        /\ "text" \notin dirty => TextRight(screen.text)

Screens == [text : [Rows -> Row], frame : 0..MaxOpens, torn : BOOLEAN, buttons : BOOLEAN]

\* The lines of a file are a sequence of spans.
LEMMA FileSpans ==
    ASSUME NEW file \in Files
    PROVE  file \in Seq(Bytes) /\ Spans(file) \in Seq(Nat \X Nat)
<1>1. file \in Seq(Bytes)
  BY ViewerAssumption
<1>2. QED
  BY <1>1, SplitRight DEF Span

\* What an open viewer holds.
LEMMA OpenBuffer ==
    ASSUME NEW d \in Buffers, d # Closed
    PROVE  d[1] \in 1..MaxOpens /\ d[2] \in Files /\ d = <<d[1], d[2]>>
BY DEF Buffers

LEMMA PanelsType == PanelsOver \in Screens
<1>1. Filled(Panel) \in [Rows -> Row]
  BY DEF Filled, Row, Cells
<1>2. 0 \in 0..MaxOpens
  BY ViewerAssumption
<1>3. QED
  BY <1>1, <1>2 DEF PanelsOver, Screens

LEMMA InitAll == Init => TypeOK /\ Split /\ FirstFile /\ Marked /\ OwnerFrees
<1> SUFFICES ASSUME Init PROVE TypeOK /\ Split /\ FirstFile /\ Marked /\ OwnerFrees
  OBVIOUS
<1>1. /\ data = Closed /\ lines = << >> /\ vscroll = 0 /\ hscroll = 0 /\ dirty = {}
      /\ opens = 0 /\ heap = {} /\ dropped = {} /\ pc = "input" /\ screen = PanelsOver
  BY DEF Init
<1>2. TypeOK
  <2>1. << >> \in Seq(Nat \X Nat) /\ 0 \in 0..MaxH /\ 0 \in 0..MaxOpens
    BY EmptySeq, ViewerAssumption
  <2>2. data \in Buffers
    BY <1>1 DEF Buffers
  <2>3. screen \in Screens
    BY <1>1, PanelsType
  <2>4. QED
    BY <1>1, <2>1, <2>2, <2>3 DEF TypeOK, Screens, Row
<1>3. QED
  BY <1>1, <1>2 DEF Split, FirstFile, Marked, OwnerFrees

\* Opening a file, from either side.
LEMMA MemOpenType ==
    ASSUME TypeOK, NEW file \in Files, MemOpen(file)
    PROVE  /\ data' \in Buffers /\ data' = <<opens + 1, file>> /\ data' # Closed
           /\ lines' = Spans(file) /\ lines' \in Seq(Nat \X Nat)
           /\ dirty' = Parts /\ opens' = opens + 1 /\ opens' \in 1..MaxOpens
           /\ heap' = heap \cup {opens + 1} /\ heap' \subseteq 1..opens'
           /\ dropped' = dropped \cup (IF data = Closed THEN {} ELSE {data[1]})
           /\ UNCHANGED <<vscroll, hscroll, screen>>
<1>1. /\ opens < MaxOpens /\ opens' = opens + 1 /\ data' = <<opens + 1, file>>
      /\ heap' = heap \cup {opens + 1} /\ lines' = Spans(file) /\ dirty' = Parts
      /\ dropped' = dropped \cup (IF data = Closed THEN {} ELSE {data[1]})
      /\ UNCHANGED <<vscroll, hscroll, screen>>
  BY DEF MemOpen, MarkedByOpen
<1>2. opens \in 0..MaxOpens /\ heap \subseteq 1..opens /\ MaxOpens \in Nat
  BY ViewerAssumption DEF TypeOK
<1>3. opens + 1 \in 1..MaxOpens
  BY <1>1, <1>2
<1>4. data' \in Buffers
  BY <1>1, <1>3 DEF Buffers
<1>5. heap' \subseteq 1..opens'
  BY <1>1, <1>2
<1>6. data' # Closed
  BY <1>1 DEF Closed
<1>7. lines' \in Seq(Nat \X Nat)
  BY <1>1, FileSpans
<1>8. QED
  BY <1>1, <1>3, <1>4, <1>5, <1>6, <1>7

\* view_input keeps the scroll position natural, and below the last line when it
\* was, if the view shows a line at all.
LEMMA VScrollIs ==
    ASSUME NEW key \in Scrolls, NEW v \in Nat, NEW n \in Nat
    PROVE  /\ VScroll(key, v, n) \in Nat
           /\ n = 0 /\ v = 0 => VScroll(key, v, n) = 0
           /\ v < n /\ NumVis > 1 => VScroll(key, v, n) < n
<1>1. NumVis \in Nat \ {0}
  BY ViewerAssumption
<1> DEFINE at == AtEnd(n)
<1>2. at \in Nat /\ (n = 0 => at = 0) /\ (n > 0 /\ NumVis > 1 => at < n)
  BY <1>1 DEF AtEnd
<1>3. VScroll(key, v, n) =
        CASE key = "home" -> 0
          [] key = "end" -> at
          [] key = "pgup" -> IF v - NumVis < 0 THEN 0 ELSE v - NumVis
          [] key = "pgdn" -> IF v + NumVis >= n THEN at ELSE v + NumVis
          [] key = "up" -> IF v > 0 THEN v - 1 ELSE v
          [] key = "down" -> IF v < n - 1 THEN v + 1 ELSE v
          [] OTHER -> v
  BY DEF VScroll, PageUp, PageDown
<1> HIDE DEF at
<1>4. CASE key = "home"
  BY <1>1, <1>2, <1>3, <1>4
<1>5. CASE key = "end"
  BY <1>1, <1>2, <1>3, <1>5
<1>6. CASE key = "pgup"
  BY <1>1, <1>2, <1>3, <1>6
<1>7. CASE key = "pgdn"
  BY <1>1, <1>2, <1>3, <1>7
<1>8. CASE key = "up"
  BY <1>1, <1>2, <1>3, <1>8
<1>9. CASE key = "down"
  BY <1>1, <1>2, <1>3, <1>9
<1>10. CASE key \in {"left", "right"}
  BY <1>1, <1>2, <1>3, <1>10
<1>11. QED
  BY <1>4, <1>5, <1>6, <1>7, <1>8, <1>9, <1>10 DEF Scrolls

\* What view_update leaves on the screen.
Under == IF "frame" \in dirty THEN Filled(Blank) ELSE screen.text

LEMMA UpdateIs ==
    ASSUME TypeOK, Update
    PROVE  /\ screen' \in Screens
           /\ screen'.frame = IF "frame" \in dirty THEN data[1] ELSE screen.frame
           /\ screen'.buttons <=> (screen.buttons \/ "buttons" \in dirty)
           /\ \A r \in Rows : "text" \notin dirty \/ r \notin DrawnRows
                                => screen'.text[r] = Under[r]
           /\ "text" \in dirty => \A r \in DrawnRows : InFile(r) =>
                RowRight(data[1], data[2], lines[vscroll + r], hscroll, screen'.text[r])
<1> DEFINE drawn == IF "text" \in dirty THEN DrawnRows ELSE {}
           inside == {q \in drawn : InFile(q)}
           Line(r) == PaintLine(data[1], data[2], lines[vscroll + r], hscroll, Under[r])
           painted == [r \in inside |-> Line(r)]
           text == [r \in Rows |-> IF r \in inside THEN painted[r].row
                                   ELSE IF r \in drawn THEN [c \in Cols |-> Junk] ELSE Under[r]]
<1>1. PICK junktorn \in BOOLEAN :
        screen' = [text |-> text,
                   frame |-> IF "frame" \in dirty THEN data[1] ELSE screen.frame,
                   torn |-> \/ "frame" \notin dirty /\ screen.torn
                            \/ junktorn \/ \E r \in inside : painted[r].torn,
                   buttons |-> screen.buttons \/ "buttons" \in dirty]
  <2>1. DOMAIN painted = inside
    OBVIOUS
  <2>2. QED
    BY <2>1 DEF Update, Under
<1>2. /\ screen.text \in [Rows -> Row] /\ screen.frame \in 0..MaxOpens
      /\ screen.buttons \in BOOLEAN /\ screen.torn \in BOOLEAN
      /\ data \in Buffers /\ vscroll \in Nat /\ hscroll \in Nat
      /\ lines \in Seq(Nat \X Nat) /\ Len(lines) \in Nat
      /\ NumVis \in Nat \ {0} /\ MaxOpens \in Nat /\ MaxH \in Nat
  BY ViewerAssumption DEF TypeOK, Row
<1>3. data[1] \in 1..MaxOpens /\ data[1] \in 0..MaxOpens
  <2>1. data # Closed
    BY DEF Update
  <2>2. QED
    BY <1>2, <2>1, OpenBuffer
<1>4. Under \in [Rows -> Row]
  BY <1>2 DEF Under, Filled, Row, Cells
<1>5. DrawnRows \subseteq Rows
  BY <1>2 DEF DrawnRows, Rows
<1>6. ASSUME NEW r \in DrawnRows, InFile(r)
      PROVE  /\ Line(r) \in Paint
             /\ RowRight(data[1], data[2], lines[vscroll + r], hscroll, Line(r).row)
  <2>1. vscroll + r \in 1..Len(lines)
    BY <1>2, <1>6 DEF InFile, DrawnRows
  <2>2. lines[vscroll + r] \in Span
    BY <1>2, <2>1 DEF Span
  <2>3. Under[r] \in Row
    BY <1>4, <1>5
  <2>4. QED
    BY <1>2, <1>3, <2>2, <2>3, LineShown
<1>7. \A r \in inside : r \in DrawnRows /\ InFile(r) /\ painted[r] = Line(r)
  OBVIOUS
<1> HIDE DEF Line
<1>8. \A r \in inside : painted[r].row \in Row /\ painted[r].row = Line(r).row
  BY <1>6, <1>7 DEF Paint
<1> HIDE DEF painted
<1>9. text \in [Rows -> Row]
  <2>1. [c \in Cols |-> Junk] \in Row
    BY DEF Row, Cells
  <2>2. ASSUME NEW r \in Rows
        PROVE  text[r] \in Row
    BY <1>4, <1>8, <2>1
  <2>3. QED
    BY <2>2
<1>10. screen'.text = text /\ screen' \in Screens
  <2> HIDE DEF text, inside
  <2>1. QED
    BY <1>1, <1>2, <1>3, <1>9 DEF Screens
<1>11. /\ screen'.frame = IF "frame" \in dirty THEN data[1] ELSE screen.frame
       /\ screen'.buttons <=> (screen.buttons \/ "buttons" \in dirty)
  <2> HIDE DEF text, inside
  <2>1. QED
    BY <1>1
<1>12. ASSUME NEW r \in Rows, "text" \notin dirty \/ r \notin DrawnRows
       PROVE  screen'.text[r] = Under[r]
  BY <1>10, <1>12
<1>13. ASSUME "text" \in dirty, NEW r \in DrawnRows, InFile(r)
       PROVE  RowRight(data[1], data[2], lines[vscroll + r], hscroll, screen'.text[r])
  <2>1. r \in inside /\ r \in Rows
    BY <1>5, <1>13
  <2>2. screen'.text[r] = Line(r).row
    BY <1>8, <1>10, <2>1
  <2>3. QED
    BY <1>6, <1>13, <2>2
<1>14. QED
  BY <1>10, <1>11, <1>12, <1>13

\* Types.
LEMMA TypeStep ==
    ASSUME TypeOK, [Next]_vars
    PROVE  TypeOK'
<1>1. /\ MaxH \in Nat /\ opens \in 0..MaxOpens /\ vscroll \in Nat /\ hscroll \in 0..MaxH
      /\ Len(lines) \in Nat
  BY ViewerAssumption DEF TypeOK
<1>2. ASSUME NEW file \in Files, MemOpen(file), UNCHANGED pc
      PROVE  TypeOK'
  <2>1. opens' \in 0..MaxOpens /\ vscroll' = vscroll /\ hscroll' = hscroll /\ screen' = screen
    BY <1>2, MemOpenType
  <2>2. dropped' \subseteq 1..MaxOpens
    <3>1. data # Closed => data[1] \in 1..MaxOpens
      BY OpenBuffer DEF TypeOK
    <3>2. QED
      BY <1>1, <1>2, <3>1, MemOpenType DEF TypeOK
  <2>3. QED
    BY <1>2, <2>1, <2>2, MemOpenType DEF TypeOK
<1>3. CASE KeyOpen
  BY <1>2, <1>3 DEF KeyOpen
<1>4. CASE NetOpen
  BY <1>2, <1>4 DEF NetOpen
<1>5. ASSUME NEW key \in Scrolls, KeyScroll(key)
      PROVE  TypeOK'
  <2>1. vscroll' \in Nat
    BY <1>1, <1>5, VScrollIs DEF KeyScroll
  <2>2. hscroll' \in 0..MaxH
    BY <1>1, <1>5 DEF KeyScroll, HScroll
  <2>3. dirty' \subseteq Parts
    BY <1>5 DEF KeyScroll, TypeOK, Parts
  <2>4. QED
    BY <1>5, <2>1, <2>2, <2>3 DEF KeyScroll, TypeOK
<1>6. CASE KeyRedraw
  BY <1>6 DEF KeyRedraw, TypeOK
<1>7. CASE KeyClose
  <2>1. data' \in Buffers
    BY <1>7 DEF KeyClose, Buffers
  <2>2. lines' \in Seq(Nat \X Nat)
    BY <1>7, EmptySeq DEF KeyClose
  <2>3. dirty' \subseteq Parts
    BY <1>7 DEF KeyClose, TypeOK, Parts
  <2>4. heap' \subseteq 1..opens'
    BY <1>7 DEF KeyClose, HeapFreed, TypeOK
  <2>5. QED
    BY <1>7, <2>1, <2>2, <2>3, <2>4 DEF KeyClose, TypeOK
<1>8. CASE EndInput
  BY <1>8 DEF EndInput, TypeOK
<1>9. CASE EndNet
  BY <1>9 DEF EndNet, TypeOK
<1>10. CASE Update \/ UpdatePanels
  <2>1. screen' \in Screens
    BY <1>10, UpdateIs, PanelsType DEF UpdatePanels
  <2>2. /\ UNCHANGED <<data, lines, vscroll, hscroll, opens, heap, dropped>>
        /\ dirty' \subseteq Parts /\ pc' = "input"
    BY <1>10 DEF Update, UpdatePanels, TypeOK
  <2>3. QED
    BY <2>1, <2>2 DEF TypeOK, Screens, Row
<1>11. CASE UpdateCrashes
  BY <1>11 DEF UpdateCrashes, TypeOK
<1>12. CASE UNCHANGED vars
  BY <1>12 DEF vars, TypeOK
<1>13. QED
  BY <1>3, <1>4, <1>5, <1>6, <1>7, <1>8, <1>9, <1>10, <1>11, <1>12 DEF Next

\* The lines are those of the open file.
LEMMA SplitNext ==
    ASSUME TypeOK, Split, [Next]_vars
    PROVE  Split'
<1>1. ASSUME NEW file \in Files, MemOpen(file)
      PROVE  Split'
  <2>1. data' = <<opens + 1, file>> /\ lines' = Spans(file)
    BY <1>1, MemOpenType
  <2>2. data'[2] = file
    BY <2>1
  <2>3. QED
    BY <2>1, <2>2 DEF Split
<1>2. CASE KeyOpen \/ NetOpen
  BY <1>1, <1>2 DEF KeyOpen, NetOpen
<1>3. ASSUME UNCHANGED <<data, lines>>
      PROVE  Split'
  BY <1>3 DEF Split
<1>4. CASE KeyClose
  BY <1>4 DEF KeyClose, Split
<1>5. ASSUME NEW key \in Scrolls, KeyScroll(key)
      PROVE  UNCHANGED <<data, lines>>
  BY <1>5 DEF KeyScroll
<1>6. CASE \/ KeyRedraw \/ EndInput \/ EndNet \/ Update \/ UpdateCrashes \/ UpdatePanels
         \/ UNCHANGED vars
  BY <1>3, <1>6 DEF KeyRedraw, EndInput, EndNet, Update, UpdateCrashes, UpdatePanels, vars
<1>7. QED
  BY <1>2, <1>3, <1>4, <1>5, <1>6 DEF Next

\* The scroll position of the first file.
LEMMA FirstFileNext ==
    ASSUME NumVis > 1, TypeOK, FirstFile, [Next]_vars
    PROVE  FirstFile'
<1>1. /\ opens \in Nat /\ vscroll \in Nat /\ lines \in Seq(Nat \X Nat) /\ Len(lines) \in Nat
      /\ (lines = << >> <=> Len(lines) = 0)
  BY EmptySeq DEF TypeOK
<1>2. ASSUME NEW file \in Files, MemOpen(file)
      PROVE  FirstFile'
  <2>1. /\ lines' \in Seq(Nat \X Nat) /\ opens' = opens + 1 /\ vscroll' = vscroll
    BY <1>2, MemOpenType
  <2>2. Len(lines') \in Nat /\ (lines' = << >> <=> Len(lines') = 0)
    BY <2>1, EmptySeq
  <2>3. opens' = 1 => vscroll' = 0
    BY <1>1, <2>1 DEF FirstFile
  <2>4. opens' # 0
    BY <1>1, <2>1
  <2>5. QED
    BY <2>2, <2>3, <2>4 DEF FirstFile
<1>3. CASE KeyOpen \/ NetOpen
  BY <1>2, <1>3 DEF KeyOpen, NetOpen
<1>4. ASSUME NEW key \in Scrolls, KeyScroll(key)
      PROVE  FirstFile'
  <2>1. /\ data # Closed /\ vscroll' = VScroll(key, vscroll, Len(lines))
        /\ UNCHANGED <<data, lines, opens>>
    BY <1>4 DEF KeyScroll
  <2>2. /\ Len(lines) = 0 /\ vscroll = 0 => vscroll' = 0
        /\ vscroll < Len(lines) => vscroll' < Len(lines)
    BY <1>1, <2>1, VScrollIs
  <2>3. QED
    BY <1>1, <2>1, <2>2 DEF FirstFile
<1>5. CASE KeyClose
  BY <1>5 DEF KeyClose, FirstFile
<1>6. ASSUME UNCHANGED <<data, lines, opens, vscroll>>
      PROVE  FirstFile'
  BY <1>6 DEF FirstFile
<1>7. CASE \/ KeyRedraw \/ EndInput \/ EndNet \/ Update \/ UpdateCrashes \/ UpdatePanels
         \/ UNCHANGED vars
  BY <1>6, <1>7 DEF KeyRedraw, EndInput, EndNet, Update, UpdateCrashes, UpdatePanels, vars
<1>8. QED
  BY <1>3, <1>4, <1>5, <1>7 DEF Next

\* What is not marked for drawing is on the screen as it is.
LEMMA MarkedSame ==
    ASSUME Marked, UNCHANGED <<data, lines, vscroll, hscroll, dirty, screen>>
    PROVE  Marked'
BY DEF Marked, FrameDrawn, TextRight, DrawnRows, InFile

\* When view_update returns nothing is marked, and all of it is on the screen.
LEMMA UpdateShows ==
    ASSUME TypeOK, Marked, Update
    PROVE  TextRight(screen'.text) /\ screen'.frame = data[1] /\ screen'.buttons
<1>1. data # Closed
  BY DEF Update
<1>2. screen'.frame = data[1] /\ screen'.buttons
  BY <1>1, UpdateIs DEF Marked, FrameDrawn
<1>3. DrawnRows \subseteq Rows
  <2>1. NumVis \in Nat /\ Len(lines) \in Nat
    BY ViewerAssumption DEF TypeOK
  <2>2. QED
    BY <2>1 DEF DrawnRows, Rows
<1>4. \A r \in Rows \ DrawnRows : screen'.text[r] = BlankRow
  <2>1. \A r \in Rows \ DrawnRows : Under[r] = BlankRow
    BY <1>1 DEF Under, Marked, FrameDrawn, Filled, BlankRow
  <2>2. QED
    BY <2>1, UpdateIs
<1>5. ASSUME NEW r \in DrawnRows, InFile(r)
      PROVE  RowRight(data[1], data[2], lines[vscroll + r], hscroll, screen'.text[r])
  <2>1. CASE "text" \in dirty
    BY <1>5, <2>1, UpdateIs
  <2>2. CASE "text" \notin dirty
    <3>1. "frame" \notin dirty /\ TextRight(screen.text)
      BY <1>1, <2>2 DEF Marked
    <3>2. screen'.text[r] = screen.text[r]
      BY <1>3, <2>2, <3>1, UpdateIs DEF Under
    <3>3. QED
      BY <1>5, <3>1, <3>2 DEF TextRight
  <2>3. QED
    BY <2>1, <2>2
<1>6. QED
  BY <1>2, <1>4, <1>5 DEF TextRight, BlankRow

LEMMA MarkedNext ==
    ASSUME TypeOK, Marked, [Next]_vars
    PROVE  Marked'
<1>1. ASSUME NEW file \in Files, MemOpen(file)
      PROVE  Marked'
  BY <1>1, MemOpenType DEF Marked, Parts
<1>2. CASE KeyOpen \/ NetOpen
  BY <1>1, <1>2 DEF KeyOpen, NetOpen
<1>3. ASSUME NEW key \in Scrolls, KeyScroll(key)
      PROVE  Marked'
  <2>1. data # Closed /\ dirty' = dirty \cup {"text"} /\ UNCHANGED <<data, lines, screen>>
    BY <1>3 DEF KeyScroll
  <2>2. FrameDrawn => FrameDrawn'
    BY <2>1 DEF FrameDrawn, DrawnRows
  <2>3. QED
    BY <2>1, <2>2 DEF Marked
<1>4. CASE KeyRedraw
  BY <1>4 DEF KeyRedraw, Marked, Parts
<1>5. CASE KeyClose
  BY <1>5 DEF KeyClose, Marked
<1>6. CASE Update
  <2>1. dirty' = {} /\ UNCHANGED <<data, lines, vscroll, hscroll>>
    BY <1>6 DEF Update
  <2>2. TextRight(screen'.text) /\ screen'.frame = data[1] /\ screen'.buttons
    BY <1>6, UpdateShows
  <2>3. TextRight(screen.text)'
    BY <2>1, <2>2 DEF TextRight, DrawnRows, InFile
  <2>4. FrameDrawn'
    BY <2>1, <2>2, <2>3 DEF FrameDrawn, TextRight, BlankRow
  <2>5. QED
    BY <2>1, <2>2, <2>3, <2>4 DEF Marked
<1>7. CASE UpdatePanels
  BY <1>7 DEF UpdatePanels, Marked
<1>8. CASE UpdateCrashes \/ EndInput \/ EndNet \/ UNCHANGED vars
  BY <1>8, MarkedSame DEF UpdateCrashes, EndInput, EndNet, vars
<1>9. QED
  BY <1>2, <1>3, <1>4, <1>5, <1>6, <1>7, <1>8 DEF Next

\* The buffers.
LEMMA OwnedNext ==
    ASSUME TypeOK, OwnerFrees, [Next]_vars
    PROVE  OwnerFrees'
<1>1. ASSUME NEW file \in Files, MemOpen(file)
      PROVE  OwnerFrees'
  <2>1. /\ heap' = heap \cup {opens + 1} /\ data' = <<opens + 1, file>> /\ data' # Closed
        /\ dropped' = dropped \cup (IF data = Closed THEN {} ELSE {data[1]})
    BY <1>1, MemOpenType
  <2>2. opens + 1 \notin heap
    BY DEF TypeOK
  <2>3. heap = dropped'
    BY <2>1 DEF OwnerFrees
  <2>4. QED
    BY <2>1, <2>2, <2>3 DEF OwnerFrees
<1>2. CASE KeyOpen \/ NetOpen
  BY <1>1, <1>2 DEF KeyOpen, NetOpen
<1>3. CASE KeyClose
  BY <1>3 DEF KeyClose, HeapFreed, OwnerFrees
<1>4. ASSUME UNCHANGED <<data, heap, dropped>>
      PROVE  OwnerFrees'
  BY <1>4 DEF OwnerFrees
<1>5. ASSUME NEW key \in Scrolls, KeyScroll(key)
      PROVE  UNCHANGED <<data, heap, dropped>>
  BY <1>5 DEF KeyScroll
<1>6. CASE \/ KeyRedraw \/ EndInput \/ EndNet \/ Update \/ UpdateCrashes \/ UpdatePanels
         \/ UNCHANGED vars
  BY <1>4, <1>6 DEF KeyRedraw, EndInput, EndNet, Update, UpdateCrashes, UpdatePanels, vars
<1>7. QED
  BY <1>2, <1>3, <1>4, <1>5, <1>6 DEF Next

\* The lines view_update reads once the position is AtEnd, or 0.
LEMMA ReadsInside ==
    ASSUME NEW n \in Nat, NEW v \in Nat, v = 0 \/ v = AtEnd(n)
    PROVE  LET rows == IF n < NumVis - 1 THEN n ELSE NumVis - 1
               reads == {v + r - 1 : r \in 1..rows}
           IN  /\ reads \subseteq 0..(n - 1)
               /\ v = AtEnd(n) /\ n > 0 /\ NumVis > 1 => n - 1 \in reads
<1> DEFINE rows == IF n < NumVis - 1 THEN n ELSE NumVis - 1
           at == AtEnd(n)
<1>1. NumVis \in Nat \ {0} /\ rows \in 0..n
  BY ViewerAssumption
<1>2. at \in Nat /\ at + rows \in 0..n /\ (n > 0 /\ NumVis > 1 => at + rows = n /\ rows > 0)
  BY <1>1 DEF AtEnd
<1> HIDE DEF rows, at
<1>3. \A r \in 1..rows : v + r - 1 \in 0..(n - 1)
  BY <1>1, <1>2 DEF at
<1>4. ASSUME v = at, n > 0, NumVis > 1
      PROVE  rows \in 1..rows /\ v + rows - 1 = n - 1
  BY <1>1, <1>2, <1>4
<1>5. QED
  BY <1>3, <1>4 DEF rows, at

\* Home, End, and Page Down into the end.
LEMMA EndsStep ==
    ASSUME TypeOK, NEW key \in {"home", "end", "pgdn"}, KeyScroll(key),
           key = "pgdn" => vscroll + NumVis >= Len(lines)
    PROVE  /\ ReadLines' \subseteq 0..(Len(lines) - 1)
           /\ key # "home" /\ lines # << >> /\ NumVis > 1
                => Len(lines) - 1 \in ReadLines'
<1>1. /\ Len(lines) \in Nat /\ vscroll \in Nat /\ lines' = lines
      /\ vscroll' = VScroll(key, vscroll, Len(lines))
      /\ (lines # << >> => Len(lines) > 0)
  BY EmptySeq DEF TypeOK, KeyScroll
<1>2. VScroll(key, vscroll, Len(lines)) = IF key = "home" THEN 0 ELSE AtEnd(Len(lines))
  BY <1>1 DEF VScroll, PageDown
<1>3. vscroll' \in Nat
  BY <1>1, VScrollIs DEF Scrolls
<1>4. ReadLines' = {vscroll' + r - 1 : r \in 1..(IF Len(lines) < NumVis - 1 THEN Len(lines)
                                                ELSE NumVis - 1)}
  BY <1>1 DEF ReadLines, DrawnRows
<1>5. vscroll' = 0 \/ vscroll' = AtEnd(Len(lines))
  BY <1>1, <1>2
<1>6. key # "home" => vscroll' = AtEnd(Len(lines))
  BY <1>1, <1>2
<1>7. QED
  BY <1>1, <1>3, <1>4, <1>5, <1>6, ReadsInside

(***************************************************************************)
(* Part 4.  The theorems.                                                  *)
(***************************************************************************)
\* The viewer's variables keep their types.
THEOREM ViewerTypeCorrect == Spec => []TypeOK
<1>1. QED
  BY InitAll, TypeStep, PTL DEF Spec

\* view_memopen makes of every file the lines it has: the non-empty runs of bytes
\* that a line end follows, in order and each once.
THEOREM LinesOfEveryFile == Spec => []LinesAreRuns
<1>1. TypeOK /\ Split => LinesAreRuns
  <2> SUFFICES ASSUME TypeOK, Split, data # Closed
               PROVE  LinesAreRuns
    BY DEF LinesAreRuns
  <2> DEFINE file == data[2]
             n == Len(file)
             runs == {r \in (0..n) \X (1..n) :
                        /\ r[1] + r[2] < n
                        /\ \A i \in (r[1] + 1)..(r[1] + r[2]) : file[i] # "nl"
                        /\ file[r[1] + r[2] + 1] = "nl"
                        /\ r[1] = 0 \/ file[r[1]] = "nl"}
  <2>1. data \in Buffers
    BY DEF TypeOK
  <2>2. file \in Seq(Bytes) /\ n \in Nat
    BY <2>1, OpenBuffer, FileSpans
  <2>3. lines = Spans(file)
    BY DEF Split
  <2>4. Elems(lines) = Runs(file, n) /\ Increasing(lines)
    BY <2>2, <2>3, SplitRight
  <2>5. runs = Runs(file, n)
    <3> HIDE DEF file, n
    <3>1. runs \subseteq Runs(file, n)
      BY <2>2 DEF Runs, Span
    <3>2. Runs(file, n) \subseteq runs
      <4>1. ASSUME NEW r \in Runs(file, n)
            PROVE  r \in (0..n) \X (1..n)
        BY <2>2 DEF Runs, Span
      <4>2. QED
        BY <4>1 DEF Runs
    <3>3. QED
      BY <3>1, <3>2
  <2>6. QED
    BY <2>4, <2>5 DEF LinesAreRuns, Elems, Increasing
<1>2. Init => TypeOK /\ Split
  BY InitAll
<1>3. TypeOK /\ Split /\ [Next]_vars => TypeOK' /\ Split'
  BY TypeStep, SplitNext
<1>4. QED
  BY <1>1, <1>2, <1>3, PTL DEF Spec

\* In the first file the line at the top of the screen exists, whatever keys
\* scrolled there, in a view of at least one line.
THEOREM TopLineThere == ASSUME NumVis > 1 PROVE Spec => []TopLineExists
<1>1. Init => TypeOK /\ FirstFile
  BY InitAll
<1>2. TypeOK /\ FirstFile /\ [Next]_vars => TypeOK' /\ FirstFile'
  BY TypeStep, FirstFileNext
<1>3. FirstFile => TopLineExists
  BY DEF FirstFile, TopLineExists
<1>4. QED
  BY <1>1, <1>2, <1>3, PTL DEF Spec

\* Home, End, and Page Down into the end leave view_update only lines of the file
\* to read, in every file and from every position an earlier file left behind.
THEOREM EndsLeaveInside == Spec => EndsInside
<1>1. TypeOK /\ [Next]_vars =>
        [\A key \in {"home", "end", "pgdn"} :
            KeyScroll(key) /\ (key = "pgdn" => vscroll + NumVis >= Len(lines))
            => /\ ReadLines' \subseteq 0..(Len(lines) - 1)
               /\ key # "home" /\ lines # << >> /\ NumVis > 1
                    => Len(lines) - 1 \in ReadLines']_vars
  BY EndsStep
<1>2. QED
  BY <1>1, ViewerTypeCorrect, PTL DEF Spec, EndsInside

\* When view_update returns, every row that has a line shows that line at the
\* scroll position and the rows below a short file show nothing, in a frame of the
\* open file, however many files were opened and closed and whatever is on the
\* screen that the loop paints over.
THEOREM OpenFileShown == Spec => ViewShown
<1>1. Init => TypeOK /\ Marked
  BY InitAll
<1>2. TypeOK /\ Marked /\ [Next]_vars => TypeOK' /\ Marked'
  BY TypeStep, MarkedNext
<1>3. TypeOK /\ Marked /\ [Next]_vars =>
        [pc = "ui" /\ data # Closed /\ pc' = "input" =>
            /\ TextRight(screen'.text)
            /\ screen'.frame = data[1] /\ screen'.buttons]_vars
  <2> SUFFICES ASSUME TypeOK, Marked, Next, pc = "ui", data # Closed, pc' = "input"
               PROVE  TextRight(screen'.text) /\ screen'.frame = data[1] /\ screen'.buttons
    BY DEF vars
  <2>1. pc # pc'
    OBVIOUS
  <2>2. Update
    BY <2>1 DEF Next, KeyOpen, NetOpen, KeyScroll, KeyRedraw, KeyClose, EndInput, EndNet,
                UpdateCrashes, UpdatePanels
  <2>3. QED
    BY <2>2, UpdateShows
<1>4. QED
  BY <1>1, <1>2, <1>3, PTL DEF Spec, ViewShown

\* Whatever fetches come while a file is shown, the viewer frees each buffer it
\* was handed when it closes, never one twice or one that is shown, and loses
\* the ones that were replaced and no others.
THEOREM BuffersFreed == Spec => []OwnerFrees
<1>1. Init => TypeOK /\ OwnerFrees
  BY InitAll
<1>2. TypeOK /\ OwnerFrees /\ [Next]_vars => TypeOK' /\ OwnerFrees'
  BY TypeStep, OwnedNext
<1>3. QED
  BY <1>1, <1>2, PTL DEF Spec
=============================================================================
