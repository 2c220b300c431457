---------------------------- MODULE CtlRecvProofs ----------------------------
(***************************************************************************)
(* Theorems about CtlRecv, for every size of crecv, lines of every length  *)
(* and any number of them, however recv cuts the stream.                   *)
(***************************************************************************)
EXTENDS CtlRecv, RecFuns, SequenceTheorems

(***************************************************************************)
(* Part 1.  Streams of bytes.  What is in crecv and on its way is always   *)
(* the end of what was sent (StreamOK): within a line positions go up by   *)
(* one, after a line end the next line begins, the last byte ends line n,  *)
(* and every line comes after the last one delivered.  On a tidy           *)
(* connection it is all that was not delivered yet (TidyOK).               *)
(***************************************************************************)
StreamOK(s, last, n) ==
    /\ s \in Seq(Byte)
    /\ \A i \in 1..Len(s) : s[i].pos > 0 /\ s[i].line <= n
    /\ \A i, j \in 1..Len(s) :
          i <= j => /\ s[i].line <= s[j].line
                    /\ (\A k \in i..(j - 1) : ~s[k].nl)
                       => s[j].line = s[i].line /\ s[j].pos = s[i].pos + (j - i)
    /\ \A i \in 1..(Len(s) - 1) : s[i].nl => s[i + 1].line = s[i].line + 1 /\ s[i + 1].pos = 1
    /\ Len(s) > 0 => last < s[1].line /\ s[Len(s)].nl /\ s[Len(s)].line = n
    /\ last \in Nat /\ last <= n

TidyOK(s, last, n) ==
    /\ Len(s) > 0 => s[1].line = last + 1 /\ s[1].pos = 1
    /\ Len(s) = 0 => last = n
    /\ \A i \in 1..Len(s) : s[i].pos <= BufSize /\ (s[i].pos = BufSize => s[i].nl)

\* The scan of handle_control stops at the first line end there is.
LEMMA FirstEndIs ==
    ASSUME NEW buf \in Seq(Byte), Ended(buf)
    PROVE  /\ FirstEnd(buf) \in 1..Len(buf) /\ buf[FirstEnd(buf)].nl
           /\ \A j \in 1..(FirstEnd(buf) - 1) : ~buf[j].nl
<1> DEFINE T == {i \in 1..Len(buf) : buf[i].nl}
<1>1. T \in SUBSET Nat /\ T # {}
  BY DEF Ended
<1>2. PICK x \in T : \A y \in T : x <= y
  BY <1>1, LeastNat
<1>3. \A j \in 1..(x - 1) : ~buf[j].nl
  BY <1>2
<1>4. x \in 1..Len(buf) /\ buf[x].nl /\ \A j \in 1..(x - 1) : ~buf[j].nl
  BY <1>3
<1>5. QED
  BY <1>4 DEF FirstEnd

\* The bytes of a line.
LEMMA LineBytesAre ==
    ASSUME NEW n \in Nat, NEW len \in Nat \ {0}
    PROVE  /\ LineBytes(n, len) \in Seq(Byte) /\ Len(LineBytes(n, len)) = len
           /\ \A k \in 1..len : /\ LineBytes(n, len)[k].line = n
                                /\ LineBytes(n, len)[k].pos = k
                                /\ LineBytes(n, len)[k].nl <=> k = len
<1> DEFINE b == [k \in 1..len |-> [line |-> n, pos |-> k, nl |-> k = len]]
<1>1. b \in [1..len -> Byte]
  BY DEF Byte
<1>2. b \in Seq(Byte)
  BY <1>1, SeqDef
<1>3. Len(b) = len
  BY <1>2, LenProperties
<1>4. \A k \in 1..len : b[k] = [line |-> n, pos |-> k, nl |-> k = len]
  OBVIOUS
<1>5. LineBytes(n, len) = b
  BY DEF LineBytes
<1> HIDE DEF b
<1>6. \A k \in 1..len : b[k].line = n /\ b[k].pos = k /\ (b[k].nl <=> k = len)
  <2> TAKE k \in 1..len
  <2> DEFINE e == (k = len)
  <2>1. e \in BOOLEAN /\ (e <=> k = len)
    OBVIOUS
  <2>2. b[k] = [line |-> n, pos |-> k, nl |-> e]
    BY <1>4
  <2> HIDE DEF e
  <2>3. b[k].line = n /\ b[k].pos = k /\ b[k].nl = e
    BY <2>2
  <2>4. QED
    BY <2>1, <2>3
<1>7. QED
  BY <1>2, <1>3, <1>5, <1>6

\* The server sends one more line.
LEMMA Extended ==
    ASSUME NEW s, NEW last, NEW n \in Nat, StreamOK(s, last, n), NEW len \in Nat \ {0}
    PROVE  /\ StreamOK(s \o LineBytes(n + 1, len), last, n + 1)
           /\ len <= BufSize /\ TidyOK(s, last, n)
              => TidyOK(s \o LineBytes(n + 1, len), last, n + 1)
<1> DEFINE b == LineBytes(n + 1, len)
           t == s \o b
           m == Len(s)
<1>0. n + 1 \in Nat
  OBVIOUS
<1>1. b \in Seq(Byte) /\ Len(b) = len
  BY <1>0, LineBytesAre
<1>1a. \A k \in 1..len : b[k].line = n + 1 /\ b[k].pos = k /\ (b[k].nl <=> k = len)
  BY <1>0, LineBytesAre
<1>2. s \in Seq(Byte) /\ m \in Nat
  BY DEF StreamOK
<1> HIDE DEF b
<1>3. /\ t \in Seq(Byte) /\ Len(t) = m + len
      /\ \A i \in 1..(m + len) : t[i] = IF i <= m THEN s[i] ELSE b[i - m]
  BY <1>1, <1>2, ConcatProperties
<1> HIDE DEF t
<1>4. \A i \in 1..m : t[i] = s[i]
  BY <1>2, <1>3
<1>5. \A i \in (m + 1)..(m + len) :
         t[i].line = n + 1 /\ t[i].pos = i - m /\ (t[i].nl <=> i = m + len)
  <2> TAKE i \in (m + 1)..(m + len)
  <2>1. i - m \in 1..len /\ t[i] = b[i - m]
    BY SMTT(30), <1>2, <1>3
  <2>2. b[i - m].line = n + 1 /\ b[i - m].pos = i - m /\ (b[i - m].nl <=> i - m = len)
    BY <1>1a, <2>1
  <2>3. i - m = len <=> i = m + len
    BY <1>2
  <2>4. QED
    BY <2>1, <2>2, <2>3
<1> HIDE DEF m
<1>6. \A i \in 1..m : s[i].line \in Nat /\ s[i].pos \in Nat /\ s[i].line <= n /\ s[i].pos > 0
  <2>1. \A i \in 1..m : s[i] \in Byte
    BY <1>2, ElementOfSeq DEF m
  <2>2. QED
    BY <2>1 DEF StreamOK, Byte, m
<1>7. \A i \in 1..Len(t) : t[i].pos > 0 /\ t[i].line <= n + 1
  BY SMTT(30), <1>2, <1>3, <1>4, <1>5, <1>6
<1>8. ASSUME NEW i \in 1..Len(t), NEW j \in 1..Len(t), i <= j
      PROVE  /\ t[i].line <= t[j].line
             /\ (\A k \in i..(j - 1) : ~t[k].nl)
                => t[j].line = t[i].line /\ t[j].pos = t[i].pos + (j - i)
  <2>1. CASE j <= m
    <3>1. i \in 1..m /\ j \in 1..m /\ i..(j - 1) \subseteq 1..m
      BY <1>2, <1>3, <1>8, <2>1
    <3>2. QED
      BY SMTT(30), <1>4, <1>8, <3>1 DEF StreamOK, m
  <2>2. CASE i <= m /\ m < j
    <3>1. m \in i..(j - 1) /\ m \in 1..m /\ i \in 1..m /\ j \in (m + 1)..(m + len)
      BY <1>2, <1>3, <1>8, <2>2
    <3>2. s[m].nl
      BY <1>2, <3>1 DEF StreamOK, m
    <3>3. t[m].nl
      BY <1>4, <3>1, <3>2
    <3>4. t[i].line <= t[j].line
      BY <1>4, <1>5, <1>6, <3>1
    <3>5. QED
      BY <3>1, <3>3, <3>4
  <2>3. CASE m < i
    <3>1. i \in (m + 1)..(m + len) /\ j \in (m + 1)..(m + len)
      BY <1>2, <1>3, <1>8, <2>3
    <3>2. QED
      BY <1>2, <1>5, <3>1
  <2>4. QED
    BY <1>2, <2>1, <2>2, <2>3
<1>9. ASSUME NEW i \in 1..(Len(t) - 1), t[i].nl
      PROVE  t[i + 1].line = t[i].line + 1 /\ t[i + 1].pos = 1
  <2>1. CASE i < m
    <3>1. i \in 1..(m - 1) /\ i \in 1..m /\ i + 1 \in 1..m
      BY <1>2, <2>1
    <3>2. QED
      BY <1>4, <1>9, <3>1 DEF StreamOK, m
  <2>2. CASE i = m
    <3>1. i \in 1..m /\ m + 1 \in (m + 1)..(m + len)
      BY <1>2, <2>2
    <3>2. s[m].line = n
      BY <1>2, <2>2, <3>1 DEF StreamOK, m
    <3>3. QED
      BY <1>2, <1>4, <1>5, <2>2, <3>1, <3>2
  <2>3. CASE m < i
    <3>1. i \in (m + 1)..(m + len) /\ i # m + len
      BY <1>2, <1>3, <2>3
    <3>2. QED
      BY <1>5, <1>9, <3>1
  <2>4. QED
    BY <1>2, <2>1, <2>2, <2>3
<1>10. Len(t) > 0 => last < t[1].line /\ t[Len(t)].nl /\ t[Len(t)].line = n + 1
  <2>1. m + len \in (m + 1)..(m + len)
    BY <1>2
  <2>2. last < t[1].line
    <3>1. CASE m = 0
      BY <1>5, <2>1, <3>1 DEF StreamOK
    <3>2. CASE m # 0
      BY <1>2, <1>4, <3>2 DEF StreamOK, m
    <3>3. QED
      BY <3>1, <3>2
  <2>3. QED
    BY <1>3, <1>5, <2>1, <2>2
<1>11. StreamOK(t, last, n + 1)
  BY <1>3, <1>7, <1>8, <1>9, <1>10 DEF StreamOK
<1>12. ASSUME len <= BufSize, TidyOK(s, last, n)
       PROVE  TidyOK(t, last, n + 1)
  <2>1. t[1].line = last + 1 /\ t[1].pos = 1
    <3>1. CASE m = 0
      BY <1>5, <1>12, <3>1 DEF TidyOK, m
    <3>2. CASE m # 0
      BY <1>2, <1>4, <1>12, <3>2 DEF TidyOK, m
    <3>3. QED
      BY <3>1, <3>2
  <2>2. ASSUME NEW i \in 1..Len(t)
        PROVE  t[i].pos <= BufSize /\ (t[i].pos = BufSize => t[i].nl)
    <3>1. CASE i <= m
      BY <1>2, <1>4, <1>12, <3>1 DEF TidyOK, m
    <3>2. CASE m < i
      <4>1. i \in (m + 1)..(m + len)
        BY <1>2, <1>3, <3>2
      <4>2. QED
        BY <1>2, <1>5, <1>12, <4>1, CtlAssumption
    <3>3. QED
      BY <1>2, <3>1, <3>2
  <2>3. Len(t) # 0
    BY <1>2, <1>3
  <2>4. QED
    BY <2>1, <2>2, <2>3 DEF TidyOK
<1>13. QED
  BY <1>11, <1>12 DEF t, b

\* The beginning of the stream is dropped, or delivered up to a line end.
LEMMA SuffixOK ==
    ASSUME NEW s, NEW last, NEW n \in Nat, StreamOK(s, last, n), NEW k \in 0..Len(s),
           NEW t \in Seq(Byte), Len(t) = Len(s) - k, \A i \in 1..Len(t) : t[i] = s[i + k],
           NEW l, l = last \/ (k > 0 /\ s[k].nl /\ l = s[k].line)
    PROVE  /\ StreamOK(t, l, n)
           /\ k > 0 /\ s[k].nl /\ l = s[k].line /\ TidyOK(s, last, n) => TidyOK(t, l, n)
<1> DEFINE m == Len(s)
<1>1. /\ s \in Seq(Byte) /\ m \in Nat /\ k \in 0..m /\ Len(t) = m - k
      /\ last \in Nat /\ last <= n
  BY DEF StreamOK
<1>2. \A i \in 1..m : s[i].line \in Nat /\ s[i].pos \in Nat /\ s[i].line <= n /\ s[i].pos > 0
  <2>1. \A i \in 1..m : s[i] \in Byte
    BY <1>1, ElementOfSeq
  <2>2. QED
    BY <2>1 DEF StreamOK, Byte
<1>3. m > 0 => last < s[1].line /\ s[m].nl /\ s[m].line = n
  BY DEF StreamOK
<1>4. \A i \in 1..(m - 1) : s[i].nl => s[i + 1].line = s[i].line + 1 /\ s[i + 1].pos = 1
  BY DEF StreamOK
<1>5. \A i, j \in 1..m : i <= j => s[i].line <= s[j].line
  BY DEF StreamOK
<1> HIDE DEF m
<1>6. \A i \in 1..Len(t) : i + k \in 1..m /\ t[i] = s[i + k]
  BY <1>1 DEF m
<1>7. l \in Nat /\ l <= n
  BY <1>1, <1>2 DEF m
<1>8. ASSUME NEW i \in 1..Len(t), NEW j \in 1..Len(t), i <= j
      PROVE  /\ t[i].line <= t[j].line
             /\ (\A h \in i..(j - 1) : ~t[h].nl)
                => t[j].line = t[i].line /\ t[j].pos = t[i].pos + (j - i)
  <2> DEFINE p == i + k
             q == j + k
  <2>1. p \in 1..m /\ q \in 1..m /\ p <= q /\ t[i] = s[p] /\ t[j] = s[q]
    BY <1>1, <1>6, <1>8
  <2>2. q - p = j - i
    BY <1>1
  <2>3. ASSUME \A h \in i..(j - 1) : ~t[h].nl
        PROVE  \A h \in p..(q - 1) : ~s[h].nl
    <3> TAKE h \in p..(q - 1)
    <3>1. h - k \in i..(j - 1) /\ h - k \in 1..Len(t) /\ (h - k) + k = h
      BY <1>1
    <3>2. t[h - k] = s[h]
      BY <1>6, <3>1
    <3>3. QED
      BY <2>3, <3>1, <3>2
  <2> HIDE DEF p, q
  <2>4. s[p].line <= s[q].line
    BY <1>5, <2>1
  <2>5. (\A h \in p..(q - 1) : ~s[h].nl) => s[q].line = s[p].line /\ s[q].pos = s[p].pos + (q - p)
    BY <2>1 DEF StreamOK, m
  <2>6. QED
    BY <2>1, <2>2, <2>3, <2>4, <2>5
<1>9. ASSUME NEW i \in 1..(Len(t) - 1), t[i].nl
      PROVE  t[i + 1].line = t[i].line + 1 /\ t[i + 1].pos = 1
  <2>1. /\ i \in 1..Len(t) /\ i + 1 \in 1..Len(t) /\ i + k \in 1..(m - 1)
        /\ (i + 1) + k = (i + k) + 1
    BY <1>1
  <2>2. t[i] = s[i + k] /\ t[i + 1] = s[(i + k) + 1]
    BY <1>6, <2>1
  <2>3. s[i + k].nl
    BY <1>9, <2>2, Zenon
  <2>4. s[(i + k) + 1].line = s[i + k].line + 1 /\ s[(i + k) + 1].pos = 1
    BY <1>4, <2>1, <2>3
  <2>5. QED
    BY <2>2, <2>4
<1>10. ASSUME Len(t) > 0
       PROVE  l < t[1].line /\ t[Len(t)].nl /\ t[Len(t)].line = n
  <2>1. /\ 1 \in 1..Len(t) /\ Len(t) \in 1..Len(t) /\ Len(t) + k = m /\ m > 0
        /\ 1 + k = k + 1 /\ k + 1 \in 1..m
    BY <1>1, <1>10
  <2>2. t[1] = s[k + 1] /\ t[Len(t)] = s[m]
    BY <1>6, <2>1
  <2>3. CASE l = last
    BY <1>1, <1>2, <1>3, <1>5, <2>1, <2>2, <2>3
  <2>4. CASE k > 0 /\ s[k].nl /\ l = s[k].line
    <3> DEFINE nl == s[k].nl
               line == s[k].line
    <3>a. k > 0 /\ nl /\ l = line
      BY <2>4
    <3> HIDE DEF nl, line
    <3>1. k \in 1..(m - 1) /\ k \in 1..m
      BY <1>1, <2>1, <3>a
    <3>2. s[k + 1].line = s[k].line + 1
      BY <1>4, <2>4, <3>1
    <3>3. QED
      BY <1>2, <1>3, <2>1, <2>2, <2>4, <3>1, <3>2
  <2>5. QED
    BY <2>3, <2>4
<1>11. \A i \in 1..Len(t) : t[i].pos > 0 /\ t[i].line <= n
  BY <1>2, <1>6
<1>12. StreamOK(t, l, n)
  BY <1>7, <1>8, <1>9, <1>10, <1>11 DEF StreamOK
<1>13. ASSUME k > 0, s[k].nl, l = s[k].line, TidyOK(s, last, n)
       PROVE  TidyOK(t, l, n)
  <2>1. ASSUME Len(t) > 0
        PROVE  t[1].line = l + 1 /\ t[1].pos = 1
    <3>1. 1 \in 1..Len(t) /\ 1 + k = k + 1 /\ k \in 1..(m - 1)
      BY <1>1, <1>13, <2>1
    <3>2. t[1] = s[k + 1]
      BY <1>6, <3>1
    <3>3. QED
      BY <1>4, <1>13, <3>1, <3>2
  <2>2. ASSUME Len(t) = 0
        PROVE  l = n
    <3>1. k = m /\ m > 0
      BY <1>1, <1>13, <2>2
    <3>2. QED
      BY <1>3, <1>13, <3>1
  <2>3. \A i \in 1..m : s[i].pos <= BufSize /\ (s[i].pos = BufSize => s[i].nl)
    BY <1>13 DEF TidyOK, m
  <2>4. \A i \in 1..Len(t) : t[i].pos <= BufSize /\ (t[i].pos = BufSize => t[i].nl)
    BY <1>6, <2>3
  <2>5. QED
    BY <2>1, <2>2, <2>4 DEF TidyOK
<1>14. QED
  BY <1>12, <1>13

\* What lies in front of the first line end is one line, from the byte it
\* begins with.
LEMMA LineIs ==
    ASSUME NEW s, NEW last, NEW n \in Nat, StreamOK(s, last, n), NEW buf \in Seq(Byte),
           Len(buf) <= Len(s), \A i \in 1..Len(buf) : buf[i] = s[i], Ended(buf)
    PROVE  LET k == FirstEnd(buf)
               bs == SubSeq(buf, 1, k)
           IN  /\ k \in 1..Len(buf) /\ s[k].nl
               /\ bs \in Seq(Byte) /\ Len(bs) = k /\ bs[k] = s[k]
               /\ From(bs) = s[1].pos /\ s[1].pos \in Nat \ {0}
               /\ s[k].line = s[1].line /\ s[k].line \in Nat
<1> DEFINE k == FirstEnd(buf)
           bs == SubSeq(buf, 1, k)
<1>1. k \in 1..Len(buf) /\ buf[k].nl /\ \A j \in 1..(k - 1) : ~buf[j].nl
  BY FirstEndIs
<1> HIDE DEF k
<1>2. /\ s \in Seq(Byte) /\ Len(s) \in Nat /\ Len(buf) \in Nat
      /\ \A i \in 1..Len(s) : s[i] \in Byte
  <2>1. s \in Seq(Byte)
    BY DEF StreamOK
  <2>2. QED
    BY <2>1, ElementOfSeq
<1>3. /\ bs \in Seq(Byte) /\ Len(bs) = k
      /\ \A i \in 1..k : bs[i] = s[i]
  <2>1. \A i \in 1..k : buf[i] \in Byte
    BY <1>1, <1>2, ElementOfSeq
  <2>2. /\ bs \in Seq(Byte) /\ Len(bs) = IF 1 <= k THEN k - 1 + 1 ELSE 0
        /\ \A i \in 1..(k - 1 + 1) : bs[i] = buf[1 + i - 1]
    BY <1>1, <1>2, <2>1, SubSeqProperties
  <2> HIDE DEF bs
  <2>3. QED
    BY <1>1, <1>2, <2>2
<1> HIDE DEF bs
<1>4. s[k].nl /\ \A j \in 1..(k - 1) : ~s[j].nl
  <2>1. \A j \in 1..k : s[j] = buf[j]
    BY <1>1
  <2>2. k \in 1..k /\ 1..(k - 1) \subseteq 1..k
    BY <1>1
  <2>3. QED
    BY <1>1, <2>1, <2>2, Zenon
<1>5. \A i \in 1..k : /\ s[i].line = s[1].line /\ s[i].pos = s[1].pos + (i - 1)
                       /\ s[i] \in Byte
  <2> TAKE i \in 1..k
  <2>1. /\ 1 \in 1..Len(s) /\ i \in 1..Len(s) /\ 1 <= i
        /\ \A j \in 1..(i - 1) : ~s[j].nl
    BY <1>1, <1>2, <1>4
  <2>2. QED
    BY <1>2, <2>1 DEF StreamOK
<1>6. s[1].pos \in Nat \ {0} /\ s[1].line \in Nat /\ s[k].line \in Nat
  <2>1. 1 \in 1..Len(s) /\ k \in 1..Len(s)
    BY <1>1, <1>2
  <2>2. s[1] \in Byte /\ s[k] \in Byte /\ s[1].pos > 0
    BY <1>2, <2>1 DEF StreamOK
  <2>3. QED
    BY <2>2 DEF Byte
<1>7. \A i \in 1..Len(bs) : bs[i] = [line |-> bs[Len(bs)].line, nl |-> i = Len(bs),
                                     pos |-> bs[1].pos + i - 1]
  <2> TAKE i \in 1..Len(bs)
  <2> DEFINE e == (i = Len(bs))
  <2>1. i \in 1..k /\ (e <=> i = k)
    BY <1>3
  <2>2. e \in BOOLEAN /\ s[i].nl = e
    <3>1. s[i].nl \in BOOLEAN
      BY <1>5, <2>1 DEF Byte
    <3>2. i # k => i \in 1..(k - 1)
      BY <1>1, <2>1
    <3> HIDE DEF e
    <3>3. s[i].nl <=> i = k
      BY <1>4, <3>2
    <3>4. e \in BOOLEAN
      BY DEF e
    <3>5. QED
      BY <2>1, <3>1, <3>3, <3>4
  <2> HIDE DEF e
  <2>3. 1 \in 1..k /\ k \in 1..k
    BY <1>1
  <2>4. /\ s[i].line = bs[Len(bs)].line /\ s[i].pos = bs[1].pos + i - 1
        /\ bs[i] = s[i]
    BY <1>3, <1>5, <1>6, <2>1, <2>3
  <2>5. s[i] = [line |-> s[i].line, nl |-> s[i].nl, pos |-> s[i].pos]
    BY <1>5, <2>1 DEF Byte
  <2>6. bs[i] = [line |-> bs[Len(bs)].line, nl |-> e, pos |-> bs[1].pos + i - 1]
    BY <2>2, <2>4, <2>5
  <2>7. QED
    BY <2>6 DEF e
<1>8. From(bs) = bs[1].pos
  <2> DEFINE whole == \A i \in 1..Len(bs) : bs[i] = [line |-> bs[Len(bs)].line, nl |-> i = Len(bs),
                                                 pos |-> bs[1].pos + i - 1]
  <2>1. From(bs) = IF whole THEN bs[1].pos ELSE 0
    BY DEF From
  <2>2. whole
    BY <1>7, Zenon
  <2> HIDE DEF whole
  <2>3. QED
    BY <2>1, <2>2
<1>9. 1 \in 1..k /\ k \in 1..k
  BY <1>1
<1>10. QED
  BY <1>1, <1>3, <1>4, <1>5, <1>6, <1>8, <1>9 DEF k, bs

(***************************************************************************)
(* Part 2.  The actions.  IndInv adds to TypeOK and RoomLeft what is in    *)
(* the stream, and what the scan knows: a fragment that is kept leaves     *)
(* room, and on a tidy connection a recv always brings a line end.         *)
(***************************************************************************)
Bytes == crecv \o sock

LastOf(g) == IF g = << >> THEN 0 ELSE g[Len(g)][Len(g[Len(g)])].line

IndInv ==
    /\ TypeOK
    /\ StreamOK(Bytes, LastOf(got), sent)
    /\ tidy => TidyOK(Bytes, LastOf(got), sent)
    /\ pc = "scan" /\ lined => Len(crecv) < BufSize
    /\ pc = "scan" /\ tidy => lined \/ Ended(crecv)
    /\ pc # "scan" => Len(crecv) < BufSize /\ ~Ended(crecv)

\* Bytes that move from the socket to crecv leave the stream as it is.
LEMMA MovedBytes ==
    ASSUME NEW a \in Seq(Byte), NEW b \in Seq(Byte), NEW rd \in 0..Len(b)
    PROVE  /\ (a \o SubSeq(b, 1, rd)) \o SubSeq(b, rd + 1, Len(b)) = a \o b
           /\ SubSeq(b, 1, rd) \in Seq(Byte) /\ Len(SubSeq(b, 1, rd)) = rd
           /\ SubSeq(b, rd + 1, Len(b)) \in Seq(Byte)
<1>1. Len(b) \in Nat /\ \A i \in 1..Len(b) : b[i] \in Byte
  BY ElementOfSeq
<1> DEFINE p == SubSeq(b, 1, rd)
           q == SubSeq(b, rd + 1, Len(b))
<1>2. p \in Seq(Byte) /\ Len(p) = rd
  <2>1. \A i \in 1..rd : b[i] \in Byte
    BY <1>1
  <2>2. p \in Seq(Byte) /\ Len(p) = IF 1 <= rd THEN rd - 1 + 1 ELSE 0
    BY <1>1, <2>1, SubSeqProperties
  <2> HIDE DEF p
  <2>3. QED
    BY <2>2
<1>3. q \in Seq(Byte)
  <2>1. \A i \in (rd + 1)..Len(b) : b[i] \in Byte
    BY <1>1
  <2>2. rd + 1 \in Int /\ Len(b) \in Int
    BY <1>1
  <2>3. QED
    BY <2>1, <2>2, SubSeqProperties
<1>4. p \o q = b
  <2>1. /\ 1 \in 1..Len(b) + 1 /\ rd \in 1 - 1..Len(b) /\ Len(b) \in rd..Len(b)
    BY <1>1
  <2>2. p \o q = SubSeq(b, 1, Len(b))
    BY <2>1, ConcatAdjacentSubSeq
  <2>3. QED
    BY <2>2, SubSeqFull
<1> HIDE DEF p, q
<1>5. (a \o p) \o q = a \o (p \o q)
  BY SMTT(30), <1>2, <1>3, ConcatAssociative
<1>6. QED
  BY <1>2, <1>3, <1>4, <1>5 DEF p, q

\* Bytes that leave crecv at its front leave an end of the stream.
LEMMA CutBytes ==
    ASSUME NEW a \in Seq(Byte), NEW b \in Seq(Byte), NEW k \in 0..Len(a)
    PROVE  LET r == SubSeq(a, k + 1, Len(a))
               t == r \o b
           IN  /\ r \in Seq(Byte) /\ Len(r) = Len(a) - k
               /\ t \in Seq(Byte) /\ k \in 0..Len(a \o b) /\ Len(t) = Len(a \o b) - k
               /\ \A i \in 1..Len(t) : t[i] = (a \o b)[i + k]
<1> DEFINE r == SubSeq(a, k + 1, Len(a))
           t == r \o b
           c == a \o b
<1>1. Len(a) \in Nat /\ Len(b) \in Nat /\ \A i \in 1..Len(a) : a[i] \in Byte
  BY ElementOfSeq
<1>2. /\ r \in Seq(Byte) /\ Len(r) \in Nat /\ Len(r) = Len(a) - k
      /\ \A i \in 1..Len(r) : r[i] = a[i + k]
  <2>1. \A i \in (k + 1)..Len(a) : a[i] \in Byte
    BY <1>1
  <2>2. k + 1 \in Int /\ Len(a) \in Int
    BY <1>1
  <2>3. /\ r \in Seq(Byte)
        /\ Len(r) = IF k + 1 <= Len(a) THEN Len(a) - (k + 1) + 1 ELSE 0
        /\ \A i \in 1..(Len(a) - (k + 1) + 1) : r[i] = a[(k + 1) + i - 1]
    BY <2>1, <2>2, SubSeqProperties
  <2> HIDE DEF r
  <2>4. Len(r) = Len(a) - k /\ Len(r) \in Nat
    BY <1>1, <2>3
  <2>5. ASSUME NEW i \in 1..Len(r)
        PROVE  r[i] = a[i + k]
    <3>1. i \in 1..(Len(a) - (k + 1) + 1) /\ (k + 1) + i - 1 = i + k
      BY <1>1, <2>4
    <3>2. QED
      BY <2>3, <3>1
  <2>6. QED
    BY <2>3, <2>4, <2>5
<1> HIDE DEF r
<1>3. /\ t \in Seq(Byte) /\ Len(t) = Len(r) + Len(b)
      /\ \A i \in 1..(Len(r) + Len(b)) : t[i] = IF i <= Len(r) THEN r[i] ELSE b[i - Len(r)]
  BY <1>2, ConcatProperties
<1>4. /\ c \in Seq(Byte) /\ Len(c) = Len(a) + Len(b)
      /\ \A i \in 1..(Len(a) + Len(b)) : c[i] = IF i <= Len(a) THEN a[i] ELSE b[i - Len(a)]
  BY ConcatProperties
<1> HIDE DEF c, t
<1>5. Len(t) = Len(c) - k /\ k \in 0..Len(c)
  <2>1. Len(c) = Len(a) + Len(b) /\ Len(t) = (Len(a) - k) + Len(b)
    BY <1>2, <1>3, <1>4
  <2>2. QED
    BY <1>1, <2>1
<1>6. ASSUME NEW i \in 1..Len(t)
      PROVE  t[i] = c[i + k]
  <2>1. i + k \in 1..(Len(a) + Len(b)) /\ i \in 1..(Len(r) + Len(b))
    BY <1>1, <1>2, <1>3
  <2>2. CASE i <= Len(r)
    <3>1. i + k <= Len(a) /\ i \in 1..Len(r)
      BY <1>1, <1>2, <2>2
    <3>2. t[i] = (IF i <= Len(r) THEN r[i] ELSE b[i - Len(r)])
      BY <1>3, <2>1
    <3>3. c[i + k] = a[i + k]
      <4> DEFINE j == i + k
      <4>1. j \in 1..(Len(a) + Len(b)) /\ j <= Len(a)
        BY <2>1, <3>1
      <4> HIDE DEF j
      <4>2. c[j] = a[j]
        BY <1>4, <4>1
      <4>3. QED
        BY <4>2 DEF j
    <3>4. r[i] = a[i + k]
      BY <1>2, <3>1
    <3>5. t[i] = r[i]
      BY <2>2, <3>2, Zenon
    <3>6. QED
      BY <3>3, <3>4, <3>5, Zenon
  <2>3. CASE ~(i <= Len(r))
    <3>1. ~(i + k <= Len(a)) /\ (i + k) - Len(a) = i - Len(r)
      <4> DEFINE m == Len(a)
                 h == Len(r)
      <4>1. i \in Int /\ m \in Nat /\ h \in Nat
        BY <1>1, <1>2, <2>1
      <4>2. k \in Int /\ h = m - k
        BY <1>1, <1>2
      <4>3. ~(i <= h)
        BY <2>3
      <4> HIDE DEF m, h
      <4>4. ~(i + k <= m) /\ (i + k) - m = i - h
        BY <4>1, <4>2, <4>3
      <4>5. QED
        BY <4>4 DEF m, h
    <3>2. t[i] = b[i - Len(r)]
      BY <1>3, <2>1, <2>3
    <3>3. c[i + k] = b[(i + k) - Len(a)]
      BY <1>4, <2>1, <3>1
    <3>4. QED
      BY <3>1, <3>2, <3>3
  <2>4. QED
    BY <2>2, <2>3
<1>7. QED
  BY <1>2, <1>3, <1>5, <1>6 DEF c, t, r

\* The server sends a line.
LEMMA SendInd ==
    ASSUME IndInv, NEW len \in Lens, Send(len)
    PROVE  IndInv'
<1>1. /\ len \in Nat \ {0} /\ sent \in Nat /\ crecv \in Seq(Byte) /\ sock \in Seq(Byte)
      /\ StreamOK(Bytes, LastOf(got), sent)
  BY CtlAssumption DEF IndInv, TypeOK
<1> DEFINE b == LineBytes(sent + 1, len)
<1>2. b \in Seq(Byte) /\ sent + 1 \in Nat
  BY <1>1, LineBytesAre
<1>3. sock' = sock \o b /\ sent' = sent + 1 /\ (tidy => len <= BufSize)
  BY DEF Send
<1>4. UNCHANGED <<tidy, up, crecv, lined, got, ctl, pc>>
  BY DEF Send
<1> HIDE DEF b
<1>5. Bytes' = Bytes \o b
  BY SMTT(30), <1>1, <1>2, <1>3, <1>4, ConcatAssociative DEF Bytes
<1>6. StreamOK(Bytes \o b, LastOf(got), sent + 1)
  BY <1>1, Extended DEF b
<1>7. tidy => TidyOK(Bytes \o b, LastOf(got), sent + 1)
  <2>1. tidy => len <= BufSize /\ TidyOK(Bytes, LastOf(got), sent)
    BY <1>3 DEF IndInv
  <2>2. len <= BufSize /\ TidyOK(Bytes, LastOf(got), sent)
        => TidyOK(Bytes \o b, LastOf(got), sent + 1)
    BY <1>1, Extended DEF b
  <2>3. QED
    BY <2>1, <2>2
<1>8. sock' \in Seq(Byte)
  BY <1>1, <1>2, <1>3, ConcatProperties
<1>9. TypeOK'
  BY <1>2, <1>3, <1>4, <1>8 DEF IndInv, TypeOK
<1>10. StreamOK(Bytes, LastOf(got), sent)' /\ (tidy => TidyOK(Bytes, LastOf(got), sent))'
  <2>1. LastOf(got)' = LastOf(got) /\ tidy' = tidy
    BY <1>4 DEF LastOf
  <2>2. QED
    BY <1>3, <1>5, <1>6, <1>7, <2>1
<1>11. QED
  BY <1>4, <1>9, <1>10 DEF IndInv, Ended

\* A recv: there is room, and a tidy connection brings the end of a line, or
\* crecv would hold BufSize bytes of a line that is not longer.
LEMMA RecvInd ==
    ASSUME IndInv, Recv
    PROVE  IndInv' /\ UNCHANGED <<tidy, sent, got>>
<1>1. /\ crecv \in Seq(Byte) /\ sock \in Seq(Byte) /\ BufSize \in Nat \ {0}
      /\ Len(crecv) \in Nat /\ Len(sock) \in Nat /\ Len(crecv) < BufSize
      /\ StreamOK(Bytes, LastOf(got), sent)
  BY CtlAssumption DEF IndInv, TypeOK, Recv
<1>2. Room(crecv) = crecv
  BY <1>1 DEF Room
<1>3. UNCHANGED <<tidy, sent, up, got, ctl>> /\ lined' = FALSE /\ pc' = "scan"
  BY DEF Recv
<1>4. PICK rd \in Sizes(crecv) : /\ crecv' = crecv \o SubSeq(sock, 1, rd)
                                 /\ sock' = SubSeq(sock, rd + 1, Len(sock))
  BY <1>2 DEF Recv
<1>5. Len(sock) > 0
  <2>1. sock # << >>
    BY DEF Recv
  <2>2. QED
    BY <1>1, <2>1, EmptySeq
<1>6. /\ rd \in 1..Len(sock) /\ rd <= BufSize - Len(crecv)
      /\ tidy => rd = Len(sock) \/ rd = BufSize - Len(crecv)
  <2> DEFINE max == IF Len(sock) < BufSize - Len(crecv) THEN Len(sock)
                    ELSE BufSize - Len(crecv)
  <2>1. /\ max \in 1..Len(sock) /\ max <= BufSize - Len(crecv)
        /\ max = Len(sock) \/ max = BufSize - Len(crecv)
    BY <1>1, <1>5
  <2>2. rd \in IF tidy THEN {max} ELSE 1..max
    BY <1>4 DEF Sizes
  <2> HIDE DEF max
  <2>3. CASE tidy
    BY <2>1, <2>2, <2>3
  <2>4. CASE ~tidy
    BY <1>1, <2>1, <2>2, <2>4
  <2>5. QED
    BY <2>3, <2>4
<1> DEFINE p == SubSeq(sock, 1, rd)
<1>7. /\ p \in Seq(Byte) /\ Len(p) = rd /\ sock' \in Seq(Byte)
      /\ (crecv \o p) \o sock' = crecv \o sock
  <2>1. rd \in 0..Len(sock)
    BY <1>1, <1>6
  <2>2. QED
    BY <1>1, <1>4, <2>1, MovedBytes
<1>8. crecv' = crecv \o p
  BY <1>4
<1> HIDE DEF p
<1>9. crecv' \in Seq(Byte) /\ Len(crecv') = Len(crecv) + rd /\ Len(crecv') <= BufSize
  <2>1. crecv' \in Seq(Byte) /\ Len(crecv') = Len(crecv) + Len(p)
    BY <1>1, <1>7, <1>8, ConcatProperties
  <2>2. QED
    BY <1>1, <1>6, <1>7, <2>1
<1>10. Bytes' = Bytes
  BY <1>7, <1>8 DEF Bytes
<1>11. TypeOK'
  BY <1>3, <1>7, <1>9 DEF IndInv, TypeOK
<1>12. StreamOK(Bytes, LastOf(got), sent)' /\ (tidy => TidyOK(Bytes, LastOf(got), sent))'
  <2>1. LastOf(got)' = LastOf(got) /\ tidy' = tidy /\ sent' = sent
    BY <1>3 DEF LastOf
  <2>2. QED
    BY <1>10, <2>1 DEF IndInv
<1>13. ASSUME tidy
       PROVE  Ended(crecv)'
  <2> DEFINE s == Bytes
             n == Len(crecv')
  <2>1. TidyOK(s, LastOf(got), sent)
    BY <1>13 DEF IndInv
  <2>2. /\ s \in Seq(Byte) /\ Len(s) = n + Len(sock') /\ n \in 1..Len(s) /\ n \in Nat
        /\ \A i \in 1..n : crecv'[i] = s[i]
    <3>1. s = crecv' \o sock'
      BY <1>10 DEF Bytes
    <3>2. /\ s \in Seq(Byte) /\ Len(s) = n + Len(sock')
          /\ \A i \in 1..(n + Len(sock')) :
                s[i] = IF i <= n THEN crecv'[i] ELSE sock'[i - n]
      BY SMTT(30), <1>7, <1>9, <3>1, ConcatProperties
    <3>3. n \in Nat /\ n > 0 /\ Len(sock') \in Nat
      BY <1>1, <1>6, <1>7, <1>9
    <3> HIDE DEF s, n
    <3>4. \A i \in 1..n : crecv'[i] = s[i]
      BY <3>2, <3>3
    <3>5. QED
      BY <3>2, <3>3, <3>4
  <2> SUFFICES ASSUME \A i \in 1..n : ~s[i].nl
               PROVE  FALSE
    BY <2>2 DEF Ended
  <2>3. CASE rd = Len(sock)
    <3>1. Len(s) = n
      <4>1. Len(s) = Len(crecv) + Len(sock)
        BY <1>1, ConcatProperties DEF Bytes
      <4>2. QED
        BY <1>9, <2>3, <4>1
    <3>2. s[Len(s)].nl
      BY <1>1, <2>2, <3>1 DEF StreamOK
    <3>3. QED
      BY <2>2, <3>1, <3>2
  <2>4. CASE rd = BufSize - Len(crecv)
    <3>1. n = BufSize
      BY <1>1, <1>9, <2>4
    <3>2. /\ 1 \in 1..Len(s) /\ n \in 1..Len(s) /\ 1 <= n
          /\ \A k \in 1..(n - 1) : ~s[k].nl
      BY <2>2
    <3>3. s[n].pos = s[1].pos + (n - 1)
      BY <1>1, <3>2 DEF StreamOK
    <3>4. s[1].pos = 1
      BY <2>1, <2>2 DEF TidyOK
    <3>5. s[n].pos = BufSize
      BY <2>2, <3>1, <3>3, <3>4
    <3>6. s[n].nl
      BY <2>1, <3>2, <3>5 DEF TidyOK
    <3>7. QED
      BY <2>2, <3>6
  <2>5. QED
    BY <1>6, <1>13, <2>3, <2>4
<1>14. QED
  BY <1>3, <1>11, <1>12, <1>13 DEF IndInv

\* What proc_control is called with: the rest of one line, which comes after
\* the last one; on a tidy connection all of the next line.
LEMMA LineDelivered ==
    ASSUME IndInv, ProcLine
    PROVE  LET k == FirstEnd(crecv)
               bs == SubSeq(crecv, 1, k)
           IN  /\ k \in 1..Len(crecv) /\ Bytes[k].nl
               /\ bs \in Seq(Byte) /\ Len(bs) = k /\ bs[k] = Bytes[k]
               /\ Bytes[k].line \in (LastOf(got) + 1)..sent
               /\ From(bs) \in Nat \ {0}
               /\ tidy => Bytes[k].line = LastOf(got) + 1 /\ From(bs) = 1
<1> DEFINE k == FirstEnd(crecv)
           bs == SubSeq(crecv, 1, k)
           s == Bytes
           last == LastOf(got)
<1>1. /\ crecv \in Seq(Byte) /\ sock \in Seq(Byte) /\ sent \in Nat
      /\ Len(crecv) \in Nat /\ Len(sock) \in Nat
      /\ StreamOK(s, last, sent) /\ Ended(crecv)
  BY DEF IndInv, TypeOK, ProcLine
<1>2. /\ s \in Seq(Byte) /\ Len(s) = Len(crecv) + Len(sock)
      /\ \A i \in 1..(Len(crecv) + Len(sock)) :
            s[i] = IF i <= Len(crecv) THEN crecv[i] ELSE sock[i - Len(crecv)]
  BY <1>1, ConcatProperties DEF Bytes
<1>3. tidy => TidyOK(s, last, sent)
  BY DEF IndInv
<1> HIDE DEF s, last
<1>4. Len(crecv) <= Len(s) /\ \A i \in 1..Len(crecv) : crecv[i] = s[i]
  BY <1>1, <1>2
<1>5. /\ k \in 1..Len(crecv) /\ s[k].nl
      /\ bs \in Seq(Byte) /\ Len(bs) = k /\ bs[k] = s[k]
      /\ From(bs) = s[1].pos /\ s[1].pos \in Nat \ {0}
      /\ s[k].line = s[1].line /\ s[k].line \in Nat
  BY <1>1, <1>4, LineIs
<1> HIDE DEF k, bs
<1>6. k \in 1..Len(s) /\ Len(s) > 0
  BY <1>1, <1>4, <1>5
<1>7. last \in Nat /\ last < s[1].line /\ s[k].line <= sent
  BY <1>1, <1>6 DEF StreamOK
<1>8. s[k].line \in (last + 1)..sent
  BY <1>1, <1>5, <1>7
<1>9. tidy => s[k].line = last + 1 /\ From(bs) = 1
  BY <1>3, <1>5, <1>6 DEF TidyOK
<1>10. QED
  BY <1>5, <1>8, <1>9 DEF k, bs, s, last

\* proc_control: the line leaves crecv, the rest of it stays.
LEMMA ProcLineInd ==
    ASSUME IndInv, ProcLine
    PROVE  IndInv'
<1> DEFINE k == FirstEnd(crecv)
           bs == SubSeq(crecv, 1, k)
           r == SubSeq(crecv, k + 1, Len(crecv))
           l == Bytes[k].line
<1>1. /\ got' = Append(got, bs) /\ crecv' = r /\ lined' = TRUE /\ ctl' \in {ctl, -1}
      /\ UNCHANGED <<tidy, sent, up, sock, pc>> /\ pc = "scan"
  BY DEF ProcLine
<1>2. /\ crecv \in Seq(Byte) /\ sock \in Seq(Byte) /\ sent \in Nat
      /\ Len(crecv) \in Nat /\ Len(crecv) <= BufSize /\ BufSize \in Nat
      /\ got \in Seq(Seq(Byte)) /\ StreamOK(Bytes, LastOf(got), sent)
  BY CtlAssumption DEF IndInv, TypeOK
<1>3. /\ k \in 1..Len(crecv) /\ Bytes[k].nl
      /\ bs \in Seq(Byte) /\ Len(bs) = k /\ bs[k] = Bytes[k]
  BY LineDelivered
<1> HIDE DEF k
<1>4. k \in 0..Len(crecv)
  BY <1>2, <1>3
<1>5. /\ r \in Seq(Byte) /\ Len(r) = Len(crecv) - k
      /\ r \o sock \in Seq(Byte) /\ k \in 0..Len(Bytes)
      /\ Len(r \o sock) = Len(Bytes) - k
      /\ \A i \in 1..Len(r \o sock) : (r \o sock)[i] = Bytes[i + k]
  <2> DEFINE t == r \o sock
             c == crecv \o sock
  <2>1. /\ r \in Seq(Byte) /\ Len(r) = Len(crecv) - k
        /\ t \in Seq(Byte) /\ k \in 0..Len(c) /\ Len(t) = Len(c) - k
        /\ \A i \in 1..Len(t) : t[i] = c[i + k]
    BY <1>2, <1>4, CutBytes
  <2>2. c = Bytes
    BY DEF Bytes
  <2> HIDE DEF r, t, c
  <2>3. QED
    BY <2>1, <2>2 DEF t
<1> HIDE DEF bs, r
<1>6. Bytes' = r \o sock
  BY <1>1 DEF Bytes
<1>7. k > 0
  BY <1>2, <1>3
<1>8. /\ StreamOK(r \o sock, l, sent)
      /\ TidyOK(Bytes, LastOf(got), sent) => TidyOK(r \o sock, l, sent)
  BY ZenonT(40), <1>2, <1>3, <1>5, <1>7, SuffixOK
<1>9. got' \in Seq(Seq(Byte)) /\ Len(got') = Len(got) + 1 /\ got'[Len(got) + 1] = bs /\ got' # << >>
  BY <1>1, <1>2, <1>3, AppendProperties
<1>10. LastOf(got') = l
  BY <1>3, <1>9 DEF LastOf
<1> HIDE DEF l
<1>11. TypeOK'
  <2>1. Len(crecv') <= BufSize
    BY <1>1, <1>2, <1>3, <1>5
  <2>2. QED
    BY <1>1, <1>5, <1>9, <2>1 DEF IndInv, TypeOK
<1>12. StreamOK(Bytes, LastOf(got), sent)'
  BY <1>1, <1>6, <1>8, <1>10
<1>13. (tidy => TidyOK(Bytes, LastOf(got), sent))'
  BY <1>1, <1>6, <1>8, <1>10 DEF IndInv
<1>14. Len(crecv') < BufSize
  BY <1>1, <1>2, <1>3, <1>5
<1>15. QED
  BY <1>1, <1>11, <1>12, <1>13, <1>14 DEF IndInv

\* The end of the scan: on a tidy connection nothing is thrown away.
LEMMA EndRecvInd ==
    ASSUME IndInv, EndRecv
    PROVE  IndInv'
<1>1. /\ pc = "scan" /\ ~Ended(crecv) /\ crecv' = Kept(crecv, lined) /\ pc' = "recv"
      /\ UNCHANGED <<tidy, sent, up, sock, lined, got, ctl>>
  BY DEF EndRecv
<1>2. /\ crecv \in Seq(Byte) /\ sock \in Seq(Byte) /\ Len(crecv) \in Nat
      /\ sent \in Nat /\ StreamOK(Bytes, LastOf(got), sent)
      /\ BufSize \in Nat \ {0}
  BY CtlAssumption DEF IndInv, TypeOK
<1>3. LastOf(got)' = LastOf(got)
  BY <1>1 DEF LastOf
<1>4. CASE lined
  <2>1. crecv' = crecv /\ Bytes' = Bytes
    BY <1>1, <1>4 DEF Kept, Bytes
  <2>2. Len(crecv) < BufSize
    BY <1>1, <1>4 DEF IndInv
  <2>3. QED
    BY <1>1, <1>3, <2>1, <2>2 DEF IndInv, TypeOK, Ended
<1>5. CASE ~lined
  <2>1. ~tidy
    BY <1>1, <1>5 DEF IndInv
  <2>2. crecv' = << >> /\ Len(crecv') = 0 /\ crecv' \in Seq(Byte)
    BY <1>1, <1>5, EmptySeq DEF Kept
  <2>3. Bytes' = sock /\ sock' = sock
    BY <1>1, <1>2, <2>2, ConcatEmptySeq DEF Bytes
  <2>4. StreamOK(sock, LastOf(got), sent)
    <3> DEFINE k == Len(crecv)
    <3>1. k \in 0..Len(Bytes) /\ Len(sock) = Len(Bytes) - k
          /\ \A i \in 1..Len(sock) : sock[i] = Bytes[i + k]
      <4>1. /\ Len(Bytes) = k + Len(sock) /\ Len(sock) \in Nat
            /\ \A i \in 1..(k + Len(sock)) :
                  Bytes[i] = IF i <= k THEN crecv[i] ELSE sock[i - k]
        BY <1>2, ConcatProperties DEF Bytes
      <4>2. k \in Nat
        BY <1>2
      <4> HIDE DEF k
      <4>3. ASSUME NEW i \in 1..Len(sock)
            PROVE  sock[i] = Bytes[i + k]
        <5>1. i + k \in 1..(k + Len(sock)) /\ ~(i + k <= k) /\ (i + k) - k = i
          BY <4>1, <4>2
        <5>2. QED
          BY <4>1, <5>1
      <4>4. QED
        BY <4>1, <4>2, <4>3
    <3> HIDE DEF k
    <3>2. QED
      BY <1>2, <3>1, SuffixOK
  <2>5. ~Ended(crecv)'
    BY <2>2 DEF Ended
  <2>6. TypeOK'
    BY <1>1, <1>2, <2>2 DEF IndInv, TypeOK
  <2>7. QED
    BY <1>1, <1>2, <1>3, <2>1, <2>2, <2>3, <2>4, <2>5, <2>6 DEF IndInv
<1>6. QED
  BY <1>4, <1>5

\* The server closed the connection, and all it sent was received: ftp_close
\* throws away a fragment, of which a tidy connection has none.
LEMMA EofInd ==
    ASSUME IndInv, Eof
    PROVE  IndInv'
<1>1. /\ pc # "scan" /\ sock = << >> /\ ctl' = -1 /\ crecv' = << >> /\ pc' = "select"
      /\ UNCHANGED <<tidy, sent, up, sock, lined, got>>
  BY DEF Eof
<1>2. /\ crecv \in Seq(Byte) /\ Len(crecv) \in Nat /\ ~Ended(crecv)
      /\ sent \in Nat /\ StreamOK(Bytes, LastOf(got), sent)
      /\ BufSize \in Nat \ {0}
  BY <1>1, CtlAssumption DEF IndInv, TypeOK
<1>3. LastOf(got)' = LastOf(got)
  BY <1>1 DEF LastOf
<1>4. Bytes = crecv
  BY <1>1, <1>2, ConcatEmptySeq DEF Bytes
<1>5. << >> \in Seq(Byte) /\ Len(<< >>) = 0
  BY EmptySeq
<1>6. Bytes' = << >>
  BY <1>1, <1>5, ConcatEmptySeq DEF Bytes
<1>7. crecv = << >>
  <2>1. Len(crecv) > 0 => crecv[Len(crecv)].nl
    BY <1>2, <1>4 DEF StreamOK
  <2>2. ~(Len(crecv) > 0)
    BY <1>2, <2>1 DEF Ended
  <2>3. QED
    BY <1>2, <2>2, EmptySeq
<1>8. Bytes' = Bytes
  BY <1>4, <1>6, <1>7
<1>9. TypeOK'
  BY <1>1, <1>2, <1>5 DEF IndInv, TypeOK
<1>10. ~Ended(crecv)'
  BY <1>1, <1>5 DEF Ended
<1>11. QED
  BY <1>1, <1>2, <1>3, <1>5, <1>8, <1>9, <1>10 DEF IndInv

\* IndInv holds in every session.
LEMMA Inductive == Spec => []IndInv
<1>1. Init => IndInv
  <2> SUFFICES ASSUME Init PROVE IndInv
    OBVIOUS
  <2>1. /\ crecv = << >> /\ sock = << >> /\ got = << >> /\ sent = 0 /\ pc = "select"
        /\ tidy \in BOOLEAN /\ up = TRUE /\ lined = FALSE /\ ctl = 1
    BY DEF Init
  <2>2. /\ << >> \in Seq(Byte) /\ Len(<< >>) = 0 /\ << >> \in Seq(Seq(Byte))
        /\ BufSize \in Nat \ {0}
    BY EmptySeq, CtlAssumption
  <2>3. Bytes = << >>
    BY <2>1, <2>2, ConcatEmptySeq DEF Bytes
  <2>4. TypeOK
    <3>1. crecv \in Seq(Byte) /\ Len(crecv) <= BufSize /\ sock \in Seq(Byte)
      BY <2>1, <2>2
    <3>2. sent \in Nat /\ got \in Seq(Seq(Byte))
      BY <2>1, <2>2
    <3>3. tidy \in BOOLEAN /\ up \in BOOLEAN /\ lined \in BOOLEAN
      BY <2>1
    <3>4. ctl \in {1, -1} /\ pc \in {"select", "recv", "scan"}
      BY <2>1
    <3>5. QED
      BY <3>1, <3>2, <3>3, <3>4 DEF TypeOK
  <2>5. LastOf(got) = 0
    BY <2>1 DEF LastOf
  <2>6. StreamOK(<< >>, 0, 0)
    BY <2>2 DEF StreamOK
  <2>7. TidyOK(<< >>, 0, 0)
    BY <2>2 DEF TidyOK
  <2>8. ~Ended(crecv)
    BY <2>1, <2>2 DEF Ended
  <2>9. QED
    BY <2>1, <2>2, <2>3, <2>4, <2>5, <2>6, <2>7, <2>8 DEF IndInv
<1>2. IndInv /\ [Next]_vars => IndInv'
  <2> SUFFICES ASSUME IndInv, [Next]_vars PROVE IndInv'
    OBVIOUS
  <2>1. CASE \E len \in Lens : Send(len)
    BY <2>1, SendInd
  <2>2. CASE Hangup
    BY <2>2 DEF Hangup, IndInv, TypeOK, Bytes, LastOf, Ended
  <2>3. CASE Recv
    BY <2>3, RecvInd
  <2>4. CASE ProcLine
    BY <2>4, ProcLineInd
  <2>5. CASE EndRecv
    BY <2>5, EndRecvInd
  <2>6. CASE Again
    BY <2>6 DEF Again, IndInv, TypeOK, Bytes, LastOf, Ended
  <2>7. CASE Eof
    BY <2>7, EofInd
  <2>8. CASE UNCHANGED vars
    BY <2>8 DEF vars, IndInv, TypeOK, Bytes, LastOf, Ended
  <2>9. QED
    BY <2>1, <2>2, <2>3, <2>4, <2>5, <2>6, <2>7, <2>8 DEF Next, Client
<1>3. QED
  BY <1>1, <1>2, PTL DEF Spec

\* recv is never asked for more than crecv has room for, and num_crecv never
\* exceeds it (handle_control).
THEOREM StaysInBuffer == Spec => []TypeOK
<1>1. IndInv => TypeOK
  BY DEF IndInv
<1>2. QED
  BY <1>1, Inductive, PTL

\* The branch of handle_control that discards a full buffer is dead, whatever
\* the server sends: a fragment that is kept always leaves room.
THEOREM NeverFull == Spec => []RoomLeft
<1>1. IndInv => RoomLeft
  BY DEF IndInv, RoomLeft
<1>2. QED
  BY <1>1, Inductive, PTL

(***************************************************************************)
(* Part 3.  Refinement: the calls of proc_control are those of LineStream. *)
(***************************************************************************)
\* the call that a line stands for
CallOf(bs) == [line |-> bs[Len(bs)].line, from |-> From(bs)]

\* A function on 1..n is a sequence.
LEMMA FunIsSeq ==
    ASSUME NEW S, NEW n \in Nat, NEW f \in [1..n -> S]
    PROVE  f \in Seq(S) /\ Len(f) = n
<1>1. f \in Seq(S)
  <2>1. Seq(S) = UNION {[1..m -> S] : m \in Nat}
    BY SeqDef
  <2>2. QED
    BY <2>1
<1>2. Len(f) \in Nat /\ DOMAIN f = 1..Len(f)
  BY <1>1, LenProperties
<1>3. DOMAIN f = 1..n
  OBVIOUS
<1>4. QED
  BY <1>1, <1>2, <1>3

\* One more line is one more call.
LEMMA AppendedCall ==
    ASSUME got \in Seq(Seq(Byte)), NEW bs \in Seq(Byte), got' = Append(got, bs)
    PROVE  /\ Len(Calls') = Len(Calls) + 1
           /\ SubSeq(Calls', 1, Len(Calls)) = Calls
           /\ Calls'[Len(Calls) + 1] = CallOf(bs)
<1> DEFINE n == Len(got)
<1>1. /\ n \in Nat /\ Len(got') = n + 1 /\ got'[n + 1] = bs
      /\ \A i \in 1..n : got'[i] = got[i]
  BY AppendProperties
<1>2. /\ Calls = [i \in 1..n |-> CallOf(got[i])]
      /\ Calls' = [i \in 1..(n + 1) |-> CallOf(got'[i])]
  BY <1>1 DEF Calls, CallOf, From
<1> HIDE DEF n
<1> DEFINE S == {CallOf(got'[i]) : i \in 1..(n + 1)}
<1>3. Calls' \in Seq(S) /\ Len(Calls') = n + 1
  <2>1. Calls' \in [1..(n + 1) -> S]
    BY <1>2
  <2> HIDE DEF S
  <2>2. QED
    BY <1>1, <2>1, FunIsSeq
<1>4. Calls \in Seq(S) /\ Len(Calls) = n
  <2>1. Calls \in [1..n -> S]
    <3> SUFFICES ASSUME NEW i \in 1..n PROVE CallOf(got[i]) \in S
      BY <1>2
    <3>1. i \in 1..(n + 1) /\ got'[i] = got[i]
      BY <1>1
    <3>2. QED
      BY <3>1
  <2> HIDE DEF S
  <2>2. QED
    BY <1>1, <2>1, FunIsSeq
<1> HIDE DEF S
<1>5. \A i \in 1..n : Calls'[i] = Calls[i]
  BY <1>1, <1>2
<1>6. Calls'[n + 1] = CallOf(bs)
  BY <1>1, <1>2
<1> DEFINE c == Calls'
           d == SubSeq(c, 1, n)
<1>7. c \in Seq(S) /\ Len(c) = n + 1
  BY <1>3
<1> HIDE DEF c
<1>8. /\ d \in Seq(S) /\ Len(d) = n
      /\ \A i \in 1..n : d[i] = c[i]
  <2>1. \A i \in 1..n : c[i] \in S
    BY <1>1, <1>7, ElementOfSeq
  <2>2. /\ d \in Seq(S) /\ Len(d) = IF 1 <= n THEN n - 1 + 1 ELSE 0
        /\ \A i \in 1..(n - 1 + 1) : d[i] = c[1 + i - 1]
    BY <1>1, <2>1, SubSeqProperties
  <2> HIDE DEF d
  <2>3. QED
    BY <1>1, <2>2
<1>9. d = Calls
  <2> HIDE DEF d
  <2>1. \A i \in 1..n : d[i] = Calls[i]
    BY <1>5, <1>8 DEF c
  <2>2. QED
    BY <1>4, <1>8, <2>1, SeqEqual
<1>10. QED
  BY <1>3, <1>4, <1>6, <1>9 DEF c

\* The last line of the calls is the last line delivered.
LEMMA LastLineIs ==
    ASSUME got \in Seq(Seq(Byte))
    PROVE  Lines!LastLine = LastOf(got)
<1>1. Len(got) \in Nat /\ (got = << >> <=> Len(got) = 0)
  BY EmptySeq
<1>2. Calls = [i \in 1..Len(got) |-> CallOf(got[i])]
  BY DEF Calls, CallOf
<1> DEFINE n == Len(got)
           S == {CallOf(got[i]) : i \in 1..n}
<1>3. Calls \in [1..n -> S]
  BY <1>2
<1> HIDE DEF S
<1>4. Calls \in Seq(S) /\ Len(Calls) = n
  <2> HIDE DEF n
  <2>1. n \in Nat
    BY <1>1 DEF n
  <2>2. QED
    BY <1>3, <2>1, FunIsSeq
<1>5. Calls = << >> <=> got = << >>
  BY <1>1, <1>4, EmptySeq
<1>6. got # << >> => Calls[Len(Calls)].line = got[n][Len(got[n])].line
  <2> SUFFICES ASSUME got # << >>
               PROVE  Calls[n].line = got[n][Len(got[n])].line
    BY <1>4
  <2>1. n \in 1..n
    BY <1>1
  <2>2. Calls[n] = CallOf(got[n])
    BY <1>2, <2>1
  <2>3. QED
    BY <2>2 DEF CallOf
<1>7. QED
  BY <1>5, <1>6 DEF Lines!LastLine, LastOf

\* A call of proc_control is a call of LineStream.
LEMMA ProcLineRefines ==
    ASSUME IndInv, ProcLine
    PROVE  Lines!Deliver
<1> DEFINE k == FirstEnd(crecv)
           bs == SubSeq(crecv, 1, k)
<1>1. /\ k \in 1..Len(crecv) /\ bs \in Seq(Byte) /\ Len(bs) = k /\ bs[k] = Bytes[k]
      /\ Bytes[k].line \in (LastOf(got) + 1)..sent
      /\ From(bs) \in Nat \ {0}
      /\ tidy => Bytes[k].line = LastOf(got) + 1 /\ From(bs) = 1
  BY LineDelivered
<1>2. got' = Append(got, bs) /\ UNCHANGED <<tidy, sent>>
  BY DEF ProcLine
<1> HIDE DEF k, bs
<1>3. got \in Seq(Seq(Byte))
  BY DEF IndInv, TypeOK
<1>4. /\ Len(Calls') = Len(Calls) + 1 /\ SubSeq(Calls', 1, Len(Calls)) = Calls
      /\ Calls'[Len(Calls) + 1] = CallOf(bs)
  BY <1>1, <1>2, <1>3, AppendedCall
<1> DEFINE c == CallOf(bs)
<1>5. c = [line |-> Bytes[k].line, from |-> From(bs)]
  BY <1>1 DEF CallOf
<1>6. c.line = Bytes[k].line /\ c.from = From(bs)
  BY <1>5
<1>7. Lines!LastLine = LastOf(got)
  BY <1>3, LastLineIs
<1>8. /\ c.line \in (Lines!LastLine + 1)..sent
      /\ c.from \in Nat \ {0}
      /\ tidy => c = [line |-> Lines!LastLine + 1, from |-> 1]
  BY <1>1, <1>5, <1>6, <1>7
<1> HIDE DEF c
<1>9. Calls'[Len(Calls) + 1] = c
  BY <1>4 DEF c
<1>10. QED
  BY <1>2, <1>4, <1>8, <1>9 DEF Lines!Deliver

\* handle_control implements LineStream: however recv cuts what the server sent,
\* and however often crecv ends within a line, proc_control is called with lines
\* of the server, in order and unmixed, and on a tidy connection with each whole
\* line.
THEOREM LinesDelivered == Spec => DeliversLines
<1>1. Init => Lines!Init
  <2> SUFFICES ASSUME Init PROVE Lines!Init
    OBVIOUS
  <2>1. got = << >> /\ sent = 0 /\ tidy \in BOOLEAN
    BY DEF Init
  <2>2. Calls = << >>
    BY <2>1 DEF Calls
  <2>3. QED
    BY <2>1, <2>2 DEF Lines!Init
<1>2. IndInv /\ [Next]_vars => [Lines!Next]_Lines!vars
  <2> SUFFICES ASSUME IndInv, [Next]_vars PROVE [Lines!Next]_Lines!vars
    OBVIOUS
  <2>1. got' = got => Calls' = Calls
    BY DEF Calls, From
  <2>2. CASE \E len \in Lens : Send(len)
    <3>1. got' = got /\ tidy' = tidy /\ sent' = sent + 1
      BY <2>2 DEF Send
    <3>2. Lines!Send
      BY <2>1, <3>1 DEF Lines!Send
    <3>3. QED
      BY <3>2 DEF Lines!Next
  <2>3. CASE ProcLine
    BY <2>3, ProcLineRefines DEF Lines!Next
  <2>4. CASE Hangup \/ Recv \/ EndRecv \/ Again \/ Eof \/ UNCHANGED vars
    <3>1. UNCHANGED <<tidy, sent, got>>
      BY <2>4 DEF Hangup, Recv, EndRecv, Again, Eof, vars
    <3>2. QED
      BY <2>1, <3>1 DEF Lines!vars
  <2>5. QED
    BY <2>2, <2>3, <2>4 DEF Next, Client
<1>3. QED
  BY <1>1, <1>2, Inductive, PTL DEF Spec, DeliversLines, Lines!Spec
=============================================================================
