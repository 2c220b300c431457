---------------------------- MODULE PanelsProofs ----------------------------
(***************************************************************************)
(* Theorems about Panels, for every height of the panels, every page step, *)
(* and directories of every length.                                        *)
(***************************************************************************)
EXTENDS Panels, RecFuns, SequenceTheorems

(***************************************************************************)
(* Part 1.  Why the view stays inside.  An emptied list keeps any cursor,  *)
(* and a scroll position that is not below it; a list with n entries has   *)
(* its cursor c in the view, and the view, from o, inside the entries.     *)
(***************************************************************************)
Fits(c, o, n) ==
    /\ c >= -1
    /\ c < 0 => o = 0
    /\ c >= 0 => o <= c
    /\ n > 0 => /\ 0 <= c /\ c < n
                /\ c < o + VisLines
                /\ o = 0 \/ o + VisLines <= n

Good(l) == l \in TuiListState /\ Fits(l.cur, l.view_offs, Size(l))

\* What Good gives arithmetic: the cursor, the view and the size are integers.
LEMMA GoodNumbers ==
    ASSUME NEW l, Good(l)
    PROVE  /\ l.cur \in Int /\ l.view_offs \in Nat /\ l.num_sel \in Nat
           /\ l.entries \in Seq(ListEntry) /\ Size(l) \in Nat
           /\ VisLines \in Nat /\ VisLines > 0
BY GeometryAssumption DEF Good, TuiListState, Size

\* A list in which only cursor, view and dirty were assigned is good when these
\* fit.
LEMMA MovedTo ==
    ASSUME NEW l, Good(l), NEW c \in Int, NEW o \in Nat, Fits(c, o, Size(l)),
           NEW m, m = [l EXCEPT !.cur = c, !.dirty = 1, !.view_offs = o]
    PROVE  Good(m) /\ Size(m) = Size(l)
<1>1. l \in TuiListState
  BY DEF Good
<1>2. m \in TuiListState /\ m.cur = c /\ m.view_offs = o /\ Size(m) = Size(l)
  BY <1>1 DEF TuiListState, Size
<1>3. QED
  BY <1>2 DEF Good

\* one line down, of tui_list_cur_next, in numbers
LEMMA NextFits ==
    ASSUME NEW c \in Int, NEW o \in Nat, NEW n \in Nat, Fits(c, o, n), c + 1 < n,
           VisLines \in Nat, VisLines > 0,
           NEW p, p = IF c + 1 - o >= VisLines THEN c + 1 - VisLines + 1 ELSE o
    PROVE  p \in Nat /\ Fits(c + 1, p, n)
<1>1. 0 <= c /\ c < o + VisLines /\ o <= c /\ (o = 0 \/ o + VisLines <= n)
  BY DEF Fits
<1>2. CASE c + 1 - o >= VisLines
  <2>1. p = c + 2 - VisLines /\ c + 1 = o + VisLines
    BY <1>1, <1>2
  <2>2. p = o + 1
    BY <2>1
  <2>3. QED
    BY <1>1, <2>1, <2>2 DEF Fits
<1>3. CASE ~(c + 1 - o >= VisLines)
  BY <1>1, <1>3 DEF Fits
<1>4. QED
  BY <1>2, <1>3

\* tui_list_cur_next keeps the cursor in view.
LEMMA CurNextGood ==
    ASSUME NEW l, Good(l)
    PROVE  Good(CurNext(l))
<1> DEFINE o == IF l.cur + 1 - l.view_offs >= VisLines
                THEN l.cur + 1 - VisLines + 1 ELSE l.view_offs
<1>1. CASE l.cur + 1 >= Size(l)
  BY <1>1 DEF CurNext
<1>2. CASE ~(l.cur + 1 >= Size(l))
  <2>1. CurNext(l) = [l EXCEPT !.cur = l.cur + 1, !.dirty = 1, !.view_offs = o]
    BY <1>2 DEF CurNext, Good, TuiListState
  <2>2. l.cur + 1 < Size(l) /\ l.cur + 1 \in Int
    BY <1>2, GoodNumbers
  <2>3. o \in Nat /\ Fits(l.cur + 1, o, Size(l))
    BY <2>2, GoodNumbers, NextFits DEF Good
  <2> HIDE DEF o
  <2>4. QED
    BY <2>1, <2>2, <2>3, MovedTo
<1>3. QED
  BY <1>1, <1>2

\* tui_list_cur_prev keeps the cursor in view.
LEMMA CurPrevGood ==
    ASSUME NEW l, Good(l)
    PROVE  Good(CurPrev(l))
<1> DEFINE o == IF l.cur - 1 < l.view_offs THEN l.cur - 1 ELSE l.view_offs
<1>1. CASE l.cur <= 0
  BY <1>1 DEF CurPrev
<1>2. CASE ~(l.cur <= 0)
  <2>1. CurPrev(l) = [l EXCEPT !.cur = l.cur - 1, !.dirty = 1, !.view_offs = o]
    BY <1>2 DEF CurPrev, Good, TuiListState
  <2>2. l.cur > 0 /\ l.cur - 1 \in Int
    BY <1>2, GoodNumbers
  <2>3. o \in Nat /\ Fits(l.cur - 1, o, Size(l))
    BY SMTT(30), <2>2, GoodNumbers DEF Good, Fits
  <2> HIDE DEF o
  <2>4. QED
    BY <2>1, <2>2, <2>3, MovedTo
<1>3. QED
  BY <1>1, <1>2

\* tui_list_cur_start and tui_list_cur_end, on an empty list too.
LEMMA CurEndsGood ==
    ASSUME NEW l, Good(l)
    PROVE  Good(CurStart(l)) /\ Good(CurEnd(l))
<1>1. Good(CurStart(l))
  <2>1. CurStart(l) = [l EXCEPT !.cur = 0, !.dirty = 1, !.view_offs = 0]
    BY DEF CurStart, Good, TuiListState
  <2>2. 0 \in Int /\ 0 \in Nat /\ Fits(0, 0, Size(l))
    BY GoodNumbers DEF Fits
  <2>3. QED
    BY <2>1, <2>2, MovedTo
<1>2. Good(CurEnd(l))
  <2> DEFINE o == IF Size(l) < VisLines THEN 0 ELSE Size(l) - VisLines
  <2>1. CurEnd(l) = [l EXCEPT !.cur = Size(l) - 1, !.dirty = 1, !.view_offs = o]
    BY DEF CurEnd, Good, TuiListState
  <2>2. o \in Nat /\ Size(l) - 1 \in Int /\ Fits(Size(l) - 1, o, Size(l))
    BY GoodNumbers DEF Fits
  <2> HIDE DEF o
  <2>3. QED
    BY <2>1, <2>2, MovedTo
<1>3. QED
  BY <1>1, <1>2

\* the scroll position of tui_list_setcur, in numbers
LEMMA CentredFits ==
    ASSUME NEW i \in Nat, NEW n \in Nat, i < n, VisLines \in Nat, VisLines > 0,
           NEW mid, mid = i - VisLines \div 2,
           NEW offs, offs = IF mid + VisLines >= n THEN n - VisLines ELSE mid,
           NEW p, p = IF offs < 0 THEN 0 ELSE offs
    PROVE  p \in Nat /\ Fits(i, p, n)
<1> DEFINE h == VisLines \div 2
<1>1. h \in Nat /\ h < VisLines
  OBVIOUS
<1> HIDE DEF h
<1>2. mid = i - h
  BY DEF h
<1>3. QED
  BY <1>1, <1>2 DEF Fits

\* tui_list_setcur: a list whose entries were replaced may have any cursor and
\* any scroll position not below it.
LEMMA SetCurGood ==
    ASSUME NEW l \in TuiListState, NEW idx \in Nat,
           l.cur >= -1, l.cur < 0 => l.view_offs = 0, l.cur >= 0 => l.view_offs <= l.cur,
           Good(l) \/ idx = 0
    PROVE  Good(SetCur(l, idx))
<1>0. /\ l.cur \in Int /\ l.view_offs \in Nat /\ Size(l) \in Nat
      /\ VisLines \in Nat /\ VisLines > 0
  BY GeometryAssumption DEF TuiListState, Size
<1>1. CASE idx = l.cur
  <2>1. SetCur(l, idx) = l
    BY <1>1 DEF SetCur
  <2>2. idx = 0 => Fits(l.cur, l.view_offs, Size(l))
    BY <1>0, <1>1 DEF Fits
  <2>3. QED
    BY <2>1, <2>2 DEF Good
<1>2. CASE idx # l.cur /\ idx >= Size(l)
  <2>1. SetCur(l, idx) = l
    BY <1>0, <1>2 DEF SetCur
  <2>2. idx = 0 => Fits(l.cur, l.view_offs, Size(l))
    BY <1>0, <1>2 DEF Fits
  <2>3. QED
    BY <2>1, <2>2 DEF Good
<1>3. CASE idx # l.cur /\ idx < Size(l)
  <2> DEFINE o == IF idx < l.view_offs \/ idx >= l.view_offs + VisLines
                  THEN Centred(l, idx) ELSE l.view_offs
  <2>1. SetCur(l, idx) = [l EXCEPT !.cur = idx, !.dirty = 1, !.view_offs = o]
    BY <1>0, <1>3 DEF SetCur, TuiListState
  <2>2. Centred(l, idx) \in Nat /\ Fits(idx, Centred(l, idx), Size(l))
    BY <1>0, <1>3, CentredFits DEF Centred
  <2>3. o \in Nat /\ Fits(idx, o, Size(l))
    <3>1. CASE idx < l.view_offs \/ idx >= l.view_offs + VisLines
      BY <2>2, <3>1
    <3>2. CASE ~(idx < l.view_offs \/ idx >= l.view_offs + VisLines)
      <4>1. o = l.view_offs /\ o <= idx /\ idx < o + VisLines
        BY <1>0, <3>2
      <4>2. o = 0 \/ o + VisLines <= Size(l)
        <5>1. CASE idx = 0
          BY <1>0, <4>1, <5>1
        <5>2. CASE Good(l)
          BY <1>0, <1>3, <4>1, <5>2 DEF Good, Fits
        <5>3. QED
          BY <5>1, <5>2
      <4> HIDE DEF o
      <4>3. QED
        BY <1>0, <1>3, <4>1, <4>2 DEF Fits
    <3>3. QED
      BY <3>1, <3>2
  <2> HIDE DEF o
  <2> DEFINE m == [l EXCEPT !.cur = idx, !.dirty = 1, !.view_offs = o]
  <2>4. m \in TuiListState /\ m.cur = idx /\ m.view_offs = o /\ Size(m) = Size(l)
    <3>1. idx \in Int /\ o \in Nat
      BY <2>3
    <3>2. QED
      BY <3>1 DEF TuiListState, Size
  <2>5. QED
    BY <2>1, <2>3, <2>4 DEF Good
<1>4. QED
  BY <1>0, <1>1, <1>2, <1>3

\* The cursor keys keep the view inside the list.
LEMMA MovedGood ==
    ASSUME NEW l, Good(l), NEW key \in MoveKeys
    PROVE  Good(Moved(key, l))
<1>0. l.cur \in Int /\ PageStep \in Nat /\ PageStep > 0
  BY GoodNumbers, GeometryAssumption
<1>1. \A i \in Nat : Good(SetCur(l, i))
  BY SetCurGood DEF Good, Fits
<1>2. l.cur - PageStep >= 0 => l.cur - PageStep \in Nat
  BY <1>0
<1>3. l.cur >= -1 => l.cur + PageStep \in Nat
  BY <1>0
<1>4. l.cur >= -1
  BY DEF Good, Fits
<1>5. ~(l.cur - PageStep < 0) => l.cur - PageStep >= 0
  BY <1>0
<1>6. QED
  BY <1>1, <1>2, <1>3, <1>4, <1>5, CurNextGood, CurPrevGood, CurEndsGood
     DEF Moved, MoveKeys

\* A list in which only num_sel and dirty, and the flag of one entry, changed is
\* as good as before.
LEMMA FlagsGood ==
    ASSUME NEW l, Good(l), NEW q \in Seq(ListEntry), Len(q) = Size(l),
           NEW k \in Nat, NEW d \in {0, 1}, NEW m,
           m = [l EXCEPT !.entries = q, !.num_sel = k, !.dirty = d]
    PROVE  Good(m) /\ Size(m) = Size(l)
BY DEF Good, TuiListState, Size

\* marking a list for drawing
LEMMA DirtyGood ==
    ASSUME NEW l, Good(l), NEW d \in {0, 1}
    PROVE  Good([l EXCEPT !.dirty = d])
BY DEF Good, TuiListState, Size

\* The count of tui_list_toggle_sel is natural.
LEMMA CountedNat ==
    ASSUME NEW n \in Nat, NEW sel \in {0, 1}
    PROVE  Counted(n, sel) \in Nat
BY DEF Counted

\* tui_list_toggle_sel on an entry of the list
LEMMA ToggleSelGood ==
    ASSUME NEW l, Good(l), NEW idx \in Int, InRange(l, idx)
    PROVE  Good(ToggleSel(l, idx))
<1> DEFINE e == l.entries[idx + 1]
           sel == 1 - e.sel
           f == [e EXCEPT !.sel = sel]
           q == [l.entries EXCEPT ![idx + 1] = f]
           k == Counted(l.num_sel, sel)
<1>1. idx + 1 \in 1..Len(l.entries) /\ l.entries \in Seq(ListEntry) /\ l.num_sel \in Nat
  BY GoodNumbers DEF InRange, Size
<1>2. e \in ListEntry
  BY <1>1
<1>3. sel \in {0, 1}
  BY <1>2 DEF ListEntry
<1>4. f \in ListEntry
  <2> HIDE DEF sel
  <2> QED
    BY <1>2, <1>3 DEF ListEntry
<1>5. k \in Nat
  BY <1>1, <1>3, CountedNat
<1>6. ToggleSel(l, idx) = [l EXCEPT !.entries = q, !.num_sel = k, !.dirty = 1]
  BY <1>1 DEF ToggleSel, Entry, Good, TuiListState
<1> HIDE DEF f, k
<1>7. q \in Seq(ListEntry) /\ Len(q) = Size(l)
  BY <1>1, <1>4, ExceptSeq DEF Size
<1> HIDE DEF q
<1>8. QED
  BY <1>5, <1>6, <1>7, FlagsGood

\* updateui refills a list: tui_clear_list, the items, the cursor on the first.
LEMMA RefillGood ==
    ASSUME NEW l, Good(l), NEW texts \in Seq(Texts)
    PROVE  Good(Refill(l, texts))
<1> DEFINE q == [i \in 1..Len(texts) |-> [text |-> texts[i], sel |-> 0]]
           m == AddItems(ClearList(l), texts)
<1>1. q \in Seq(ListEntry)
  BY DEF ListEntry
<1>2. << >> \o q \in Seq(ListEntry)
  BY <1>1
<1> HIDE DEF q
<1>3. m \in TuiListState /\ m.cur = l.cur /\ m.view_offs = l.view_offs
  <2>1. m = [ClearList(l) EXCEPT !.entries = ClearList(l).entries \o q,
                                 !.dirty = IF texts = << >> THEN @ ELSE 1]
    BY DEF AddItems, q
  <2>2. ClearList(l) \in TuiListState /\ ClearList(l).entries = << >>
        /\ ClearList(l).cur = l.cur /\ ClearList(l).view_offs = l.view_offs
    <3>1. << >> \in Seq(ListEntry)
      OBVIOUS
    <3>2. QED
      BY <3>1 DEF ClearList, Good, TuiListState
  <2>3. QED
    BY <1>2, <2>1, <2>2 DEF TuiListState
<1> HIDE DEF m
<1>4. l.cur >= -1 /\ (l.cur < 0 => l.view_offs = 0) /\ (l.cur >= 0 => l.view_offs <= l.cur)
  BY DEF Good, Fits
<1>5. Good(SetCur(m, 0))
  BY <1>3, <1>4, SetCurGood
<1>6. QED
  BY <1>5 DEF Refill, m

\* A good list draws inside its entries, with its cursor on the screen.
LEMMA GoodInside ==
    ASSUME NEW l, Good(l)
    PROVE  DrawsInside(l) /\ CursorOnScreen(l)
<1> DEFINE n == Size(l)
           k == IF n > VisLines THEN VisLines ELSE n
           o == l.view_offs
           c == l.cur
<1>1. n \in Nat /\ o \in Nat /\ c \in Int /\ VisLines \in Nat /\ VisLines > 0
  BY GoodNumbers
<1>2. n > 0 => 0 <= c /\ c < n /\ o <= c /\ c < o + VisLines /\ (o = 0 \/ o + VisLines <= n)
  BY <1>1 DEF Good, Fits
<1>3. DrawnLines(l) = {i + o : i \in 0..(k - 1)}
  BY DEF DrawnLines
<1> HIDE DEF n, o, c
<1>4. k \in Nat /\ k <= n /\ k <= VisLines /\ (k = n \/ k = VisLines)
  BY <1>1
<1> HIDE DEF k
<1>5. \A i \in 0..(k - 1) : 0 <= i + o /\ i + o < n
  BY <1>1, <1>2, <1>4
<1>6. n > 0 => c - o \in 0..(k - 1) /\ (c - o) + o = c
  BY <1>1, <1>2, <1>4
<1>7. DrawsInside(l)
  BY <1>3, <1>5 DEF DrawsInside, InRange, n
<1>8. n > 0 => c \in DrawnLines(l)
  BY <1>3, <1>6
<1>9. QED
  BY <1>2, <1>7, <1>8 DEF CursorOnScreen, InRange, n, c

-----------------------------------------------------------------------------
(***************************************************************************)
(* Part 2: the program.                                                    *)
(***************************************************************************)

\* ViewInside is not inductive: the cursor and the scroll position outlive the
\* entries they were valid for, so what they satisfy while a list is empty or
\* unfilled is part of the invariant.
IndInv == TypeOK /\ \A s \in Sides : Good(list[s])

\* The lists after a change, when every one of them is good.
LEMMA ListsGood ==
    ASSUME NEW new \in [Sides -> TuiListState], \A s \in Sides : Good(new[s]),
           Lists(new), shown \in [Sides -> BOOLEAN]
    PROVE  /\ list' \in [Sides -> TuiListState]
           /\ \A s \in Sides : Good(list'[s])
           /\ shown' \in [Sides -> BOOLEAN]
<1>1. \A s \in Sides : (shown[s] /\ Rows(new[s]) = Rows(list[s])) \in BOOLEAN
  OBVIOUS
<1>2. QED
  BY <1>1 DEF Lists

\* The focused list replaced by a good one.
LEMMA FocusGood ==
    ASSUME IndInv, NEW m, Good(m)
    PROVE  /\ [list EXCEPT ![focus] = m] \in [Sides -> TuiListState]
           /\ \A s \in Sides : Good([list EXCEPT ![focus] = m][s])
BY DEF IndInv, TypeOK, Good

\* act_redraw leaves the lists good.
LEMMA RedrawnGood ==
    ASSUME IndInv
    PROVE  /\ Redrawn(list) \in [Sides -> TuiListState]
           /\ \A s \in Sides : Good(Redrawn(list)[s])
<1>1. \A s \in Sides : Good([list[s] EXCEPT !.dirty = 1])
  BY DirtyGood DEF IndInv
<1>2. \A s \in Sides : Redrawn(list)[s] = [list[s] EXCEPT !.dirty = 1]
  BY DEF Redrawn
<1>3. \A s \in Sides : Good(Redrawn(list)[s])
  BY <1>1, <1>2
<1>4. \A s \in Sides : Redrawn(list)[s] \in TuiListState
  BY <1>3 DEF Good
<1>5. QED
  BY <1>3, <1>4 DEF Redrawn

\* update_localdir leaves a listing and a flag.
LEMMA LocaldirTyped ==
    ASSUME IndInv, NEW moved \in BOOLEAN, UpdateLocaldir(moved)
    PROVE  dir' \in [Sides -> Seq(Texts)] /\ modified' \in [Sides -> BOOLEAN]
<1>1. dir \in [Sides -> Seq(Texts)] /\ modified \in [Sides -> BOOLEAN] /\ Local \in Sides
  BY DEF IndInv, TypeOK, Local, Sides
<1>2. CASE /\ dir' = [dir EXCEPT ![Local] = dir[Local]]
           /\ modified' = [modified EXCEPT ![Local] = modified[Local] \/ moved]
  <2>1. (modified[Local] \/ moved) \in BOOLEAN
    BY <1>1
  <2>2. QED
    BY <1>1, <1>2, <2>1
<1>3. CASE \E d \in Listings : /\ dir' = [dir EXCEPT ![Local] = d]
                               /\ modified' = [modified EXCEPT ![Local] = TRUE]
  <2>1. PICK d \in Listings : /\ dir' = [dir EXCEPT ![Local] = d]
                              /\ modified' = [modified EXCEPT ![Local] = TRUE]
    BY <1>3
  <2>2. d \in Seq(Texts)
    BY PanelsAssumption
  <2>3. QED
    BY <1>1, <2>1, <2>2
<1>4. QED
  BY <1>2, <1>3 DEF UpdateLocaldir

\* What a wrong index does is one of the two faults.
LEMMA CrashTyped ==
    ASSUME NEW s, NEW idxs, NEW wild
    PROVE  MayCrash(s, idxs, wild) \subseteq {"none", "crash"}
BY DEF MayCrash

\* main starts with two empty lists.
LEMMA InitInd == Init => IndInv
<1> SUFFICES ASSUME Init
             PROVE  IndInv
  OBVIOUS
<1>1. Good(NewList) /\ NewList \in TuiListState
  <2>1. << >> \in Seq(ListEntry) /\ 0 \in Nat /\ -1 \in Int
    OBVIOUS
  <2>2. NewList \in TuiListState
    BY <2>1 DEF NewList, TuiListState
  <2>3. Fits(-1, 0, 0)
    BY DEF Fits
  <2>4. QED
    BY <2>2, <2>3 DEF Good, NewList, Size
<1>2. dir \in [Sides -> Seq(Texts)]
  <2>1. PICK d \in Listings : dir = [s \in Sides |-> IF s = Remote THEN << >> ELSE d]
    BY DEF Init
  <2>2. d \in Seq(Texts) /\ << >> \in Seq(Texts)
    BY PanelsAssumption
  <2>3. QED
    BY <2>1, <2>2
<1>3. TypeOK
  BY <1>1, <1>2 DEF Init, TypeOK, Remote, Local, Sides
<1>4. QED
  BY <1>1, <1>3 DEF IndInv, Init

\* Ins keeps the lists good: on an entry it toggles and moves on, outside the
\* entries it can change the count and the mark only.
LEMMA InsGood ==
    ASSUME IndInv, KeyIns
    PROVE  IndInv'
<1> DEFINE l == list[focus]
<1>1. Good(l) /\ shown \in [Sides -> BOOLEAN] /\ fault \in {"none", "crash"}
  BY DEF IndInv, TypeOK
<1>2. CASE InRange(l, l.cur) /\ Lists([list EXCEPT ![focus] = CurNext(ToggleSel(l, l.cur))])
           /\ UNCHANGED fault
  <2>1. l.cur \in Int
    BY <1>1, GoodNumbers
  <2> DEFINE m == CurNext(ToggleSel(l, l.cur))
  <2>2. Good(m)
    BY <1>1, <1>2, <2>1, ToggleSelGood, CurNextGood
  <2>3. Lists([list EXCEPT ![focus] = m])
    BY <1>2
  <2> HIDE DEF m, l
  <2>4. list' \in [Sides -> TuiListState] /\ (\A s \in Sides : Good(list'[s]))
        /\ shown' \in [Sides -> BOOLEAN]
    BY <1>1, <2>2, <2>3, FocusGood, ListsGood
  <2>5. QED
    BY <1>2, <2>4 DEF IndInv, TypeOK, KeyIns, ActKey, Key
<1>3. CASE fault' \in {"none", "crash"} /\ \E sel \in {0, 1} :
             Lists([list EXCEPT ![focus].num_sel = Counted(@, sel), ![focus].dirty = 1])
  <2>1. PICK sel \in {0, 1} :
             Lists([list EXCEPT ![focus].num_sel = Counted(@, sel), ![focus].dirty = 1])
    BY <1>3
  <2> DEFINE k == Counted(l.num_sel, sel)
             m == [l EXCEPT !.entries = l.entries, !.num_sel = k, !.dirty = 1]
  <2>2. k \in Nat /\ l.entries \in Seq(ListEntry) /\ Len(l.entries) = Size(l)
    BY <1>1, GoodNumbers, CountedNat DEF Size
  <2>3. Good(m)
    <3> HIDE DEF l, k
    <3>1. QED
      BY <1>1, <2>2, FlagsGood
  <2>4. list \in [Sides -> TuiListState] /\ focus \in Sides
    BY DEF IndInv, TypeOK
  <2>5. [list EXCEPT ![focus].num_sel = Counted(@, sel), ![focus].dirty = 1]
        = [list EXCEPT ![focus] = m]
    <3>1. m = [l EXCEPT !.num_sel = k, !.dirty = 1]
      BY <2>4 DEF TuiListState
    <3>2. QED
      BY <2>4, <3>1
  <2>6. Lists([list EXCEPT ![focus] = m])
    BY <2>1, <2>5
  <2> HIDE DEF m, k, l
  <2>7. list' \in [Sides -> TuiListState] /\ (\A s \in Sides : Good(list'[s]))
        /\ shown' \in [Sides -> BOOLEAN]
    BY <1>1, <2>3, <2>6, FocusGood, ListsGood
  <2>8. QED
    BY <1>3, <2>7 DEF IndInv, TypeOK, KeyIns, ActKey, Key
<1>4. QED
  BY <1>2, <1>3 DEF KeyIns

\* updateui refills the lists of the directories that were modified.
LEMMA UpdateUiGood ==
    ASSUME IndInv, UpdateUi
    PROVE  IndInv'
<1> DEFINE new == [s \in Sides |-> Updated(s)]
           drawn == [s \in Sides |-> [new[s] EXCEPT !.dirty = 0]]
<1>1. \A s \in Sides : Good(list[s]) /\ dir[s] \in Seq(Texts) /\ modified[s] \in BOOLEAN
  BY DEF IndInv, TypeOK
<1>2. \A s \in Sides : Good(new[s])
  BY <1>1, RefillGood DEF Updated
<1>3. list' = drawn
  BY DEF UpdateUi
<1>4. shown' \in [Sides -> BOOLEAN]
  <2>1. shown \in [Sides -> BOOLEAN]
    BY DEF IndInv, TypeOK
  <2>2. shown' = [s \in Sides |-> (new[s].dirty = 1 \/ modified[s])
                                   \/ (shown[s] /\ Rows(new[s]) = Rows(list[s]))]
    BY DEF UpdateUi
  <2>3. QED
    BY <1>1, <2>1, <2>2
<1>5. \A s \in Sides : Good([new[s] EXCEPT !.dirty = 0])
  <2> HIDE DEF new
  <2>1. QED
    BY <1>2, DirtyGood
<1>6. drawn \in [Sides -> TuiListState] /\ \A s \in Sides : Good(drawn[s])
  <2> HIDE DEF new
  <2>1. \A s \in Sides : drawn[s] = [new[s] EXCEPT !.dirty = 0]
    OBVIOUS
  <2>2. \A s \in Sides : Good(drawn[s])
    BY <1>5, <2>1
  <2>3. \A s \in Sides : drawn[s] \in TuiListState
    BY <2>2 DEF Good
  <2>4. QED
    BY <2>2, <2>3
<1> HIDE DEF drawn, new
<1>7. QED
  BY <1>3, <1>4, <1>6 DEF IndInv, TypeOK, UpdateUi

\* Each step keeps the invariant.
LEMMA NextInd == IndInv /\ [Next]_vars => IndInv'
<1> SUFFICES ASSUME IndInv, [Next]_vars
             PROVE  IndInv'
  OBVIOUS
<1> USE DEF Key, ActKey, Reads
<1>1. ASSUME NEW key \in MoveKeys, KeyMove(key)
      PROVE  IndInv'
  <2> DEFINE m == Moved(key, list[focus])
  <2>1. Good(list[focus]) /\ shown \in [Sides -> BOOLEAN]
    BY DEF IndInv, TypeOK
  <2>2. Good(m)
    BY <2>1, MovedGood
  <2>3. Lists([list EXCEPT ![focus] = m])
    BY <1>1 DEF KeyMove
  <2> HIDE DEF m
  <2>4. list' \in [Sides -> TuiListState] /\ (\A s \in Sides : Good(list'[s]))
        /\ shown' \in [Sides -> BOOLEAN]
    BY <2>1, <2>2, <2>3, FocusGood, ListsGood
  <2>5. QED
    BY <1>1, <2>4 DEF IndInv, TypeOK, KeyMove
<1>2. CASE KeyIns
  BY <1>2, InsGood
<1>3. CASE KeyTab
  <2>1. list' = Redrawn(list) /\ focus' \in Sides /\ shown' \in [Sides -> BOOLEAN]
    BY <1>3 DEF KeyTab, IndInv, TypeOK, Sides, Remote, Local
  <2>2. QED
    BY <1>3, <2>1, RedrawnGood DEF KeyTab, IndInv, TypeOK
<1>4. CASE KeyRedraw
  BY <1>4, RedrawnGood DEF KeyRedraw, IndInv, TypeOK
<1>5. CASE KeyEnter
  <2>1. dir' \in [Sides -> Seq(Texts)] /\ modified' \in [Sides -> BOOLEAN]
    BY <1>5, LocaldirTyped DEF KeyEnter, IndInv, TypeOK
  <2>2. fault' \in {"none", "crash"} /\ hit' \in BOOLEAN
    BY <1>5, CrashTyped DEF KeyEnter
  <2>3. QED
    BY <1>5, <2>1, <2>2 DEF KeyEnter, IndInv, TypeOK
<1>6. CASE KeyBack
  BY <1>6, LocaldirTyped DEF KeyBack, IndInv, TypeOK
<1>7. CASE KeyF5
  <2>1. fault' \in {"none", "crash"} /\ hit' \in BOOLEAN
    BY <1>7, CrashTyped DEF KeyF5
  <2>2. modified' \in [Sides -> BOOLEAN]
    BY <1>7 DEF KeyF5, IndInv, TypeOK
  <2>3. QED
    BY <1>7, <2>1, <2>2 DEF KeyF5, IndInv, TypeOK
<1>8. CASE KeyF8
  <2>1. fault' \in {"none", "crash"} /\ hit' \in BOOLEAN
    BY <1>8, CrashTyped DEF KeyF8
  <2>2. dir' \in [Sides -> Seq(Texts)] /\ modified' \in [Sides -> BOOLEAN]
    BY <1>8, LocaldirTyped DEF KeyF8, IndInv, TypeOK
  <2>3. QED
    BY <1>8, <2>1, <2>2 DEF KeyF8, IndInv, TypeOK
<1>9. CASE KeyF3
  <2>1. fault' \in {"none", "crash"} /\ hit' \in BOOLEAN
    BY <1>9, CrashTyped DEF KeyF3
  <2>2. view' \in {0, 1} /\ (list' = list \/ list' = Redrawn(list))
    BY <1>9 DEF KeyF3, IndInv, TypeOK
  <2>3. QED
    BY <1>9, <2>1, <2>2, RedrawnGood DEF KeyF3, IndInv, TypeOK
<1>10. CASE KeyCloseView
  BY <1>10 DEF KeyCloseView, IndInv, TypeOK
<1>11. CASE EndInput
  BY <1>11 DEF EndInput, IndInv, TypeOK
<1>12. CASE NetList
  <2>1. PICK d \in Listings : dir' = [dir EXCEPT ![Remote] = d]
    BY <1>12 DEF NetList
  <2>2. d \in Seq(Texts)
    BY PanelsAssumption
  <2>3. dir' \in [Sides -> Seq(Texts)] /\ modified' \in [Sides -> BOOLEAN]
    BY <1>12, <2>1, <2>2 DEF NetList, IndInv, TypeOK
  <2>4. QED
    BY <1>12, <2>3 DEF NetList, IndInv, TypeOK
<1>13. CASE NetPwd
  BY <1>13 DEF NetPwd, IndInv, TypeOK
<1>14. CASE NetXferDone
  BY <1>14, LocaldirTyped DEF NetXferDone, IndInv, TypeOK
<1>15. CASE NetViewDone
  <2>1. view' \in {0, 1}
    BY <1>15 DEF NetViewDone, IndInv, TypeOK
  <2>2. QED
    BY <1>15, <2>1, RedrawnGood DEF NetViewDone, IndInv, TypeOK
<1>16. CASE EndNet
  BY <1>16 DEF EndNet, IndInv, TypeOK
<1>17. CASE UpdateUi
  BY <1>17, UpdateUiGood
<1>18. CASE ViewUpdate
  BY <1>18 DEF ViewUpdate, IndInv, TypeOK
<1>19. CASE UNCHANGED vars
  BY <1>19 DEF vars, IndInv, TypeOK
<1>20. QED
  BY <1>1, <1>2, <1>3, <1>4, <1>5, <1>6, <1>7, <1>8, <1>9, <1>10, <1>11, <1>12,
     <1>13, <1>14, <1>15, <1>16, <1>17, <1>18, <1>19 DEF Next, Keys, Net

\* The invariant holds whatever is typed, selected, listed and viewed.
THEOREM PanelsInductive == Spec => []IndInv
<1>1. QED
  BY InitInd, NextInd, PTL DEF Spec

\* main.c's panels stay well typed: no count below zero, no list without entries.
THEOREM PanelsTypeCorrect == Spec => []TypeOK
<1>1. IndInv => TypeOK
  BY DEF IndInv
<1>2. QED
  BY <1>1, PanelsInductive, PTL

\* draw_list reads entries only, and shows the cursor, in every state: what
\* tui_clear_list leaves behind is put right by updateui, or is harmless.
THEOREM ViewStaysInside == Spec => []ViewInside
<1>1. IndInv => ViewInside
  BY GoodInside DEF IndInv, ViewInside
<1>2. QED
  BY <1>1, PanelsInductive, PTL

-----------------------------------------------------------------------------
(***************************************************************************)
(* Part 3: the screen.  A list that is not on the screen as it is has its  *)
(* mark set, and while the viewer covers the screen both lists have.       *)
(***************************************************************************)
Marked == \A s \in Sides : /\ shown[s] \/ list[s].dirty = 1
                           /\ view = 1 => list[s].dirty = 1

\* A list is marked by what changed it.
MarkedBy(l, m) == m.dirty = 1 \/ m = l

\* Every cursor key that changes a list marks it.
LEMMA MovedMarks ==
    ASSUME NEW l, Good(l), NEW key \in MoveKeys
    PROVE  MarkedBy(l, Moved(key, l))
<1>1. l \in TuiListState /\ l.cur \in Int /\ PageStep \in Nat
  BY GoodNumbers, GeometryAssumption DEF Good
<1>2. MarkedBy(l, CurNext(l)) /\ MarkedBy(l, CurPrev(l))
  BY <1>1 DEF MarkedBy, CurNext, CurPrev, TuiListState
<1>3. MarkedBy(l, CurStart(l)) /\ MarkedBy(l, CurEnd(l))
  BY <1>1 DEF MarkedBy, CurStart, CurEnd, TuiListState
<1>4. \A i \in Int : i >= 0 => MarkedBy(l, SetCur(l, i))
  BY <1>1 DEF MarkedBy, SetCur, TuiListState
<1>5. ~(l.cur - PageStep < 0) => l.cur - PageStep \in Int /\ l.cur - PageStep >= 0
  BY <1>1
<1>6. l.cur + PageStep \in Int /\ l.cur + PageStep >= 0
  BY <1>1, GeometryAssumption DEF Good, Fits
<1>7. QED
  BY <1>2, <1>3, <1>4, <1>5, <1>6 DEF Moved, MoveKeys

\* Ins marks its list.
LEMMA InsMarks ==
    ASSUME NEW l \in TuiListState
    PROVE  CurNext(ToggleSel(l, l.cur)).dirty = 1
<1> DEFINE m == ToggleSel(l, l.cur)
<1>1. m.dirty = 1 /\ "dirty" \in DOMAIN m
  BY DEF ToggleSel, TuiListState
<1> HIDE DEF m
<1>2. CurNext(m).dirty = 1
  BY <1>1 DEF CurNext
<1>3. QED
  BY <1>2 DEF m

\* A change that marks what it changes keeps every list shown or marked.
LEMMA ListsMarked ==
    ASSUME Marked, NEW new, Lists(new), view' = view,
           \A s \in Sides : MarkedBy(list[s], new[s])
    PROVE  Marked'
<1>1. list' = new
      /\ shown' = [s \in Sides |-> shown[s] /\ Rows(new[s]) = Rows(list[s])]
  BY DEF Lists
<1>2. \A s \in Sides : new[s].dirty = 1 \/ new[s] = list[s]
  BY DEF MarkedBy
<1>3. QED
  BY <1>1, <1>2 DEF Marked

\* Marking both lists makes any screen acceptable.
LEMMA RedrawnMarks ==
    ASSUME IndInv, list' = Redrawn(list)
    PROVE  Marked'
<1>1. \A s \in Sides : list[s] \in TuiListState
  BY DEF IndInv, TypeOK
<1>2. \A s \in Sides : list'[s].dirty = 1
  BY <1>1 DEF Redrawn, TuiListState
<1>3. QED
  BY <1>2 DEF Marked

\* When updateui returns both lists are on the screen.
LEMMA UpdateUiShows ==
    ASSUME IndInv, Marked, UpdateUi
    PROVE  \A s \in Sides : shown'[s]
<1> SUFFICES ASSUME NEW s \in Sides
             PROVE  shown'[s]
  OBVIOUS
<1>1. shown'[s] = ((Updated(s).dirty = 1 \/ modified[s])
                   \/ (shown[s] /\ Rows(Updated(s)) = Rows(list[s])))
  BY DEF UpdateUi
<1>2. CASE modified[s]
  BY <1>1, <1>2
<1>3. CASE ~modified[s]
  BY <1>1, <1>3 DEF Updated, Marked
<1>4. QED
  BY <1>2, <1>3

\* Each step keeps every list shown or marked.
LEMMA NextMarked == IndInv /\ Marked /\ [Next]_vars => Marked'
<1> SUFFICES ASSUME IndInv, Marked, [Next]_vars
             PROVE  Marked'
  OBVIOUS
<1> USE DEF Key, ActKey, Reads
<1>1. ASSUME NEW key \in MoveKeys, KeyMove(key)
      PROVE  Marked'
  <2> DEFINE m == Moved(key, list[focus])
  <2>1. Good(list[focus]) /\ list \in [Sides -> TuiListState] /\ focus \in Sides
    BY DEF IndInv, TypeOK
  <2>2. MarkedBy(list[focus], m)
    BY <2>1, MovedMarks
  <2>3. Lists([list EXCEPT ![focus] = m]) /\ view' = view
    BY <1>1 DEF KeyMove
  <2> HIDE DEF m
  <2>4. \A s \in Sides : MarkedBy(list[s], [list EXCEPT ![focus] = m][s])
    BY <2>1, <2>2 DEF MarkedBy
  <2>5. QED
    BY <2>3, <2>4, ListsMarked
<1>2. CASE KeyIns
  <2> DEFINE m == CurNext(ToggleSel(list[focus], list[focus].cur))
             junk(sel) == [list EXCEPT ![focus].num_sel = Counted(@, sel),
                                       ![focus].dirty = 1]
  <2>1. list \in [Sides -> TuiListState] /\ focus \in Sides /\ view' = view
    BY <1>2 DEF IndInv, TypeOK, KeyIns
  <2>2. Lists([list EXCEPT ![focus] = m]) \/ \E sel \in {0, 1} : Lists(junk(sel))
    BY <1>2 DEF KeyIns
  <2>3. m.dirty = 1
    BY <2>1, InsMarks
  <2>4. \A sel \in {0, 1} : \A s \in Sides : MarkedBy(list[s], junk(sel)[s])
    BY <2>1 DEF MarkedBy, TuiListState
  <2> HIDE DEF m, junk
  <2>5. \A s \in Sides : MarkedBy(list[s], [list EXCEPT ![focus] = m][s])
    BY <2>1, <2>3 DEF MarkedBy
  <2>6. QED
    BY <2>1, <2>2, <2>4, <2>5, ListsMarked
<1>3. CASE list' = Redrawn(list)
  BY <1>3, RedrawnMarks
<1>4. CASE list' = list /\ shown' = shown /\ (view' = 1 => view = 1)
  BY <1>4 DEF Marked
<1>5. CASE KeyF3
  BY <1>3, <1>4, <1>5 DEF KeyF3
<1>6. CASE KeyCloseView
  BY <1>4, <1>6 DEF KeyCloseView
<1>7. CASE UpdateUi
  <2>1. \A s \in Sides : shown'[s]
    BY <1>7, UpdateUiShows
  <2>2. view' # 1
    BY <1>7 DEF UpdateUi
  <2>3. QED
    BY <2>1, <2>2 DEF Marked
<1>8. CASE ViewUpdate
  BY <1>8 DEF ViewUpdate, Marked
<1>9. QED
  BY <1>1, <1>2, <1>3, <1>4, <1>5, <1>6, <1>7, <1>8
     DEF Next, Keys, Net, KeyTab, KeyRedraw, KeyEnter, KeyBack, KeyF5, KeyF8,
         EndInput, NetList, NetPwd, NetXferDone, NetViewDone, EndNet, vars

\* Whatever changed the lists, and whatever the viewer painted, updateui leaves
\* the screen showing them: every writer of a list sets its dirty mark, and the
\* viewer's callers set both.
THEOREM ScreenStaysCurrent == Spec => ScreenCurrent
<1>1. Init => Marked
  BY DEF Init, Marked, NewList
<1>2. IndInv /\ Marked /\ [Next]_vars
      => [pc = "ui" /\ view = 0 /\ pc' = "input" => \A s \in Sides : shown'[s]]_vars
  <2> SUFFICES ASSUME IndInv, Marked, [Next]_vars, ~UNCHANGED vars,
                      pc = "ui", view = 0, pc' = "input"
               PROVE  \A s \in Sides : shown'[s]
    OBVIOUS
  <2>1. UpdateUi
    BY DEF Next, Keys, Net, KeyMove, KeyIns, KeyTab, KeyRedraw, KeyEnter,
           KeyBack, KeyF5, KeyF8, KeyF3, KeyCloseView, EndInput, NetList, NetPwd,
           NetXferDone, NetViewDone, EndNet, ViewUpdate, Key, ActKey, Reads
  <2>2. QED
    BY <2>1, UpdateUiShows
<1>3. QED
  BY <1>1, <1>2, NextMarked, PanelsInductive, PTL DEF Spec, ScreenCurrent

-----------------------------------------------------------------------------
(***************************************************************************)
(* Part 4: what a key acts on.  A list shows its directory unless the      *)
(* directory is marked as modified, and no directory is when the first key *)
(* of an iteration is read: then the index of a line is the index of the   *)
(* entry that the line shows.                                              *)
(***************************************************************************)
\* the lines of a list that are selected
Selected(l) == {i \in 0..(Size(l) - 1) : Entry(l, i).sel = 1}

\* q is what tui_list_get_sel has stored after the first n entries.
Stored(l, n, q) ==
    q \in Seq(Int) /\ Indices(q) = {i \in 0..(n - 1) : Entry(l, i).sel = 1}

\* tui_list_get_sel stores the selected lines, and nothing else.
LEMMA GetSelRight ==
    ASSUME NEW l, l.entries \in Seq(ListEntry)
    PROVE  GetSel(l) \in Seq(Int) /\ Indices(GetSel(l)) = Selected(l)
<1> DEFINE n == Size(l)
           Turn(q, i) == IF Entry(l, i - 1).sel = 1 THEN Append(q, i - 1) ELSE q
           step == [i \in 1..n |-> [q \in Seq(Int) |-> Turn(q, i)]]
           s0 == << >>
<1>1. n \in Nat /\ s0 \in Seq(Int)
  BY DEF Size
<1>2. \A i \in 1..n : \A q \in Seq(Int) : Turn(q, i) \in Seq(Int)
  BY <1>1, AppendProperties
<1>3. \A i \in 1..n : \A q \in Seq(Int) : step[i][q] = Turn(q, i)
  OBVIOUS
<1>4. ASSUME NEW i \in 1..n, NEW q, Stored(l, i - 1, q)
      PROVE  Stored(l, i, Turn(q, i))
  <2>1. i \in Nat /\ i - 1 \in Int
    BY <1>1
  <2>2. CASE Entry(l, i - 1).sel = 1
    <3>1. Turn(q, i) = Append(q, i - 1)
      BY <2>2
    <3>2. Indices(Append(q, i - 1)) = Indices(q) \cup {i - 1}
      <4>1. q \in Seq(Int) /\ Len(q) \in Nat
        BY <1>4 DEF Stored
      <4> DEFINE m == Append(q, i - 1)
      <4>2. Len(m) = Len(q) + 1 /\ m[Len(q) + 1] = i - 1
            /\ \A k \in 1..Len(q) : m[k] = q[k]
        BY <2>1, <4>1, AppendProperties
      <4> HIDE DEF m
      <4>3. \A k \in 1..Len(m) : k \in 1..Len(q) \/ k = Len(q) + 1
        BY <4>1, <4>2
      <4>4. \A k \in 1..Len(q) : k \in 1..Len(m)
        BY <4>1, <4>2
      <4>5. Len(q) + 1 \in 1..Len(m)
        BY <4>1, <4>2
      <4>6. Indices(m) = Indices(q) \cup {i - 1}
        BY <4>2, <4>3, <4>4, <4>5 DEF Indices
      <4>7. QED
        BY <4>6 DEF m
    <3>3. Append(q, i - 1) \in Seq(Int)
      BY <1>4, <2>1, AppendProperties DEF Stored
    <3>4. QED
      BY <1>4, <2>1, <2>2, <3>1, <3>2, <3>3 DEF Stored
  <2>3. CASE Entry(l, i - 1).sel # 1
    BY <1>4, <2>1, <2>3 DEF Stored
  <2>4. QED
    BY <2>2, <2>3
<1> HIDE DEF n, Turn, step, s0
<1>5. PICK g \in [0..n -> Seq(Int)] : g[0] = s0 /\ \A i \in 1..n : g[i] = step[i][g[i - 1]]
  <2>1. Stepping(n, Seq(Int), s0, step)
    BY <1>1, <1>2, <1>3 DEF Stepping
  <2>2. QED
    BY <2>1, StepsExist DEF StepsOf
<1>6. ASSUME NEW i \in 1..n
      PROVE  g[i] = Turn(g[i - 1], i)
  <2>1. g[i - 1] \in Seq(Int)
    BY <1>1
  <2>2. QED
    BY <1>3, <1>5, <2>1
<1> DEFINE sel[i \in 0..n] == IF i = 0 THEN s0 ELSE Turn(sel[i - 1], i)
           Rec(f) == [i \in 0..n |-> IF i = 0 THEN s0 ELSE Turn(f[i - 1], i)]
<1>7. g = Rec(g)
  <2>1. \A i \in 0..n : i = 0 \/ i \in 1..n
    BY <1>1
  <2>2. \A i \in 0..n : g[i] = IF i = 0 THEN s0 ELSE Turn(g[i - 1], i)
    BY <1>5, <1>6, <2>1
  <2>3. QED
    BY <2>2
<1>8. sel = CHOOSE f : f = Rec(f)
  OBVIOUS
<1>9. sel = Rec(sel)
  <2> HIDE DEF sel, Rec
  <2>1. QED
    BY <1>7, <1>8
<1>10. GetSel(l) = sel[n]
  BY DEF GetSel, n, s0, Turn
<1> HIDE DEF sel
<1>11. sel[0] = s0 /\ \A i \in 1..n : sel[i] = Turn(sel[i - 1], i)
  <2>1. \A i \in 0..n : sel[i] = IF i = 0 THEN s0 ELSE Turn(sel[i - 1], i)
    BY <1>9
  <2>2. 0 \in 0..n /\ \A i \in 1..n : i \in 0..n /\ i # 0
    BY <1>1
  <2>3. QED
    BY <2>1, <2>2
<1>12. \A i \in 0..n : Stored(l, i, sel[i])
  <2> DEFINE T == {i \in 0..n : Stored(l, i, sel[i])}
  <2>1. Stored(l, 0, << >>)
    BY DEF Stored, Indices
  <2>2. 0 \in T
    BY <1>1, <1>11, <2>1 DEF s0
  <2>3. \A i \in 1..n : i - 1 \in T => i \in T
    BY <1>1, <1>4, <1>11
  <2>4. \A i \in 0..n : i \in T
    <3> HIDE DEF T
    <3>1. QED
      BY <1>1, <2>2, <2>3, UpTo
  <2>5. QED
    BY <2>4
<1>13. Stored(l, n, sel[n])
  BY <1>1, <1>12
<1>14. QED
  BY <1>10, <1>13 DEF Stored, Selected, n

\* list s has the entries of directory s
Matches(s) == /\ Size(list[s]) = Len(dir[s])
              /\ \A i \in 1..Len(dir[s]) : list[s].entries[i].text = dir[s][i]

\* updateui has yet to copy directory s, or the list has it.
Synced == \A s \in Sides : modified[s] \/ Matches(s)

\* No copy is due when proc_input reads its first key: updateui ran just before.
\* The first iteration of main finds two lists without entries instead.
Fresh == pc = "input" /\ typed = 0 /\ view = 0 =>
            \A s \in Sides : ~modified[s] \/ Size(list[s]) = 0

\* m shows what l shows, in the same order.
SameTexts(l, m) == /\ Size(m) = Size(l)
                   /\ \A i \in 1..Size(l) : m.entries[i].text = l.entries[i].text

\* The cursor keys change no entry.
LEMMA MovedTexts ==
    ASSUME NEW l \in TuiListState, NEW key \in MoveKeys
    PROVE  SameTexts(l, Moved(key, l))
<1>1. CurNext(l).entries = l.entries /\ CurPrev(l).entries = l.entries
  BY DEF CurNext, CurPrev, TuiListState
<1>2. CurStart(l).entries = l.entries /\ CurEnd(l).entries = l.entries
  BY DEF CurStart, CurEnd, TuiListState
<1>3. \A i \in Int : SetCur(l, i).entries = l.entries
  BY DEF SetCur, TuiListState
<1>4. l.cur - PageStep \in Int /\ l.cur + PageStep \in Int
  BY GeometryAssumption DEF TuiListState
<1>5. Moved(key, l).entries = l.entries
  BY <1>1, <1>2, <1>3, <1>4 DEF Moved, MoveKeys
<1>6. QED
  BY <1>5 DEF SameTexts, Size

\* Ins changes the flag of an entry only.
LEMMA InsTexts ==
    ASSUME NEW l \in TuiListState, InRange(l, l.cur)
    PROVE  SameTexts(l, CurNext(ToggleSel(l, l.cur)))
<1> DEFINE m == ToggleSel(l, l.cur)
           e == l.entries[l.cur + 1]
           q == [l.entries EXCEPT ![l.cur + 1] = [e EXCEPT !.sel = 1 - e.sel]]
<1>1. l.entries \in Seq(ListEntry) /\ l.cur \in Int
  BY DEF TuiListState
<1>2. m.entries = q
  BY DEF ToggleSel, Entry, TuiListState
<1>3. Len(q) = Len(l.entries) /\ \A i \in 1..Len(l.entries) : q[i].text = l.entries[i].text
  BY <1>1 DEF ListEntry
<1>4. "entries" \in DOMAIN m
  BY DEF ToggleSel, TuiListState
<1> HIDE DEF m, q
<1>5. CurNext(m).entries = m.entries
  BY <1>4 DEF CurNext
<1>6. QED
  BY <1>2, <1>3, <1>5 DEF SameTexts, Size, m

\* updateui fills a list with the directory.
LEMMA RefillTexts ==
    ASSUME NEW l \in TuiListState, NEW texts \in Seq(Texts)
    PROVE  /\ Size(Refill(l, texts)) = Len(texts)
           /\ \A i \in 1..Len(texts) : Refill(l, texts).entries[i].text = texts[i]
<1> DEFINE q == [i \in 1..Len(texts) |-> [text |-> texts[i], sel |-> 0]]
           m == AddItems(ClearList(l), texts)
<1>1. q \in Seq(ListEntry) /\ Len(q) = Len(texts)
      /\ \A i \in 1..Len(texts) : q[i].text = texts[i]
  BY DEF ListEntry
<1>2. ClearList(l).entries = << >> /\ "entries" \in DOMAIN ClearList(l)
  BY DEF ClearList, TuiListState
<1>3. m.entries = << >> \o q /\ "entries" \in DOMAIN m
  BY <1>2 DEF AddItems
<1> HIDE DEF q
<1>4. m.entries = q
  BY <1>1, <1>3
<1>5. SetCur(m, 0).entries = m.entries
  <2> HIDE DEF m
  <2>1. QED
    BY <1>3 DEF SetCur
<1>6. QED
  BY <1>1, <1>4, <1>5 DEF Refill, Size

\* A change of the lists that keeps what they show keeps them in step.
LEMMA SameSynced ==
    ASSUME IndInv, Synced, dir' = dir, modified' = modified,
           \A s \in Sides : SameTexts(list[s], list'[s])
    PROVE  Synced'
<1> SUFFICES ASSUME NEW s \in Sides, Matches(s)
             PROVE  Matches(s)'
  BY DEF Synced
<1>1. QED
  BY DEF Matches, SameTexts

\* Marking the lists changes no entry.
LEMMA RedrawnTexts ==
    ASSUME IndInv, list' = Redrawn(list)
    PROVE  \A s \in Sides : SameTexts(list[s], list'[s])
<1>1. \A s \in Sides : list[s] \in TuiListState
  BY DEF IndInv, TypeOK
<1>2. \A s \in Sides : list'[s].entries = list[s].entries
  BY <1>1 DEF Redrawn, TuiListState
<1>3. QED
  BY <1>2 DEF SameTexts, Size

\* A change of one list leaves the other.
LEMMA FocusTexts ==
    ASSUME IndInv, NEW m, SameTexts(list[focus], m), Lists([list EXCEPT ![focus] = m])
    PROVE  \A s \in Sides : SameTexts(list[s], list'[s])
<1>1. list \in [Sides -> TuiListState] /\ focus \in Sides
  BY DEF IndInv, TypeOK
<1>2. list' = [list EXCEPT ![focus] = m]
  BY DEF Lists
<1>3. \A s \in Sides : list'[s] = IF s = focus THEN m ELSE list[s]
  BY <1>1, <1>2
<1>4. QED
  BY <1>3 DEF SameTexts

\* update_localdir marks the directory when it changes it.
LEMMA LocaldirSynced ==
    ASSUME IndInv, Synced, NEW moved \in BOOLEAN, UpdateLocaldir(moved), list' = list
    PROVE  Synced'
<1>1. dir \in [Sides -> Seq(Texts)] /\ modified \in [Sides -> BOOLEAN]
  BY DEF IndInv, TypeOK
<1>2. \A s \in Sides : modified'[s] \/ (dir'[s] = dir[s] /\ ~modified[s])
  BY <1>1 DEF UpdateLocaldir
<1>3. QED
  BY <1>2 DEF Synced, Matches

\* updateui leaves both lists in step.
LEMMA UpdateUiSynced ==
    ASSUME IndInv, Synced, UpdateUi
    PROVE  Synced' /\ Fresh'
<1>1. \A s \in Sides : ~modified'[s]
  BY DEF UpdateUi
<1>2. ASSUME NEW s \in Sides
      PROVE  Matches(s)'
  <2>1. list[s] \in TuiListState /\ dir[s] \in Seq(Texts)
    BY DEF IndInv, TypeOK
  <2>2. Updated(s) \in TuiListState /\ list'[s] = [Updated(s) EXCEPT !.dirty = 0]
    BY <2>1, RefillGood DEF UpdateUi, Updated, IndInv, Good
  <2>3. list'[s].entries = Updated(s).entries /\ dir' = dir
    BY <2>2 DEF TuiListState, UpdateUi
  <2>4. CASE modified[s]
    BY <2>1, <2>3, <2>4, RefillTexts DEF Updated, Matches, Size
  <2>5. CASE ~modified[s]
    BY <2>3, <2>5 DEF Updated, Synced, Matches, Size
  <2>6. QED
    BY <2>4, <2>5
<1>3. QED
  BY <1>1, <1>2 DEF Synced, Fresh

\* Each step keeps the lists in step with the directories that are not marked.
LEMMA NextSynced == IndInv /\ Synced /\ [Next]_vars => Synced'
<1> SUFFICES ASSUME IndInv, Synced, [Next]_vars
             PROVE  Synced'
  OBVIOUS
<1>0. /\ \A s \in Sides : list[s] \in TuiListState
      /\ modified \in [Sides -> BOOLEAN] /\ dir \in [Sides -> Seq(Texts)]
      /\ list \in [Sides -> TuiListState] /\ focus \in Sides
  BY DEF IndInv, TypeOK
<1>1. ASSUME NEW key \in MoveKeys, KeyMove(key)
      PROVE  Synced'
  <2> DEFINE m == Moved(key, list[focus])
  <2>1. SameTexts(list[focus], m)
    BY <1>0, MovedTexts
  <2>2. Lists([list EXCEPT ![focus] = m]) /\ dir' = dir /\ modified' = modified
    BY <1>1 DEF KeyMove
  <2> HIDE DEF m
  <2>3. QED
    BY <2>1, <2>2, FocusTexts, SameSynced
<1>2. CASE KeyIns
  <2> DEFINE l == list[focus]
             m == CurNext(ToggleSel(l, l.cur))
  <2>1. dir' = dir /\ modified' = modified
    BY <1>2 DEF KeyIns
  <2>2. CASE InRange(l, l.cur) /\ Lists([list EXCEPT ![focus] = m])
    <3>1. SameTexts(l, m)
      BY <1>0, <2>2, InsTexts
    <3> HIDE DEF m
    <3>2. QED
      BY <2>1, <2>2, <3>1, FocusTexts, SameSynced
  <2>3. ASSUME NEW sel \in {0, 1},
               Lists([list EXCEPT ![focus].num_sel = Counted(@, sel), ![focus].dirty = 1])
        PROVE  Synced'
    <3>1. list' = [list EXCEPT ![focus].num_sel = Counted(@, sel), ![focus].dirty = 1]
      BY <2>3 DEF Lists
    <3>2. \A s \in Sides : list'[s].entries = list[s].entries
      BY <1>0, <3>1 DEF TuiListState
    <3>3. \A s \in Sides : SameTexts(list[s], list'[s])
      BY <3>2 DEF SameTexts, Size
    <3>4. QED
      BY <2>1, <3>3, SameSynced
  <2>4. QED
    BY <1>2, <2>2, <2>3 DEF KeyIns
<1>3. CASE dir' = dir /\ modified' = modified /\ list' = Redrawn(list)
  BY <1>3, RedrawnTexts, SameSynced
<1>4. CASE /\ dir' = dir /\ list' = list
           /\ \A s \in Sides : modified[s] => modified'[s]
  BY <1>4 DEF Synced, Matches
<1>5. CASE \E moved \in BOOLEAN : UpdateLocaldir(moved) /\ list' = list
  BY <1>5, LocaldirSynced
<1>6. CASE KeyTab \/ KeyRedraw \/ NetViewDone
  BY <1>3, <1>6 DEF KeyTab, KeyRedraw, NetViewDone
<1>7. CASE KeyEnter \/ KeyBack \/ KeyF8 \/ NetXferDone
  <2>1. KeyEnter => \/ dir' = dir /\ modified' = modified /\ list' = list
                    \/ UpdateLocaldir(TRUE) /\ list' = list
    BY DEF KeyEnter
  <2>2. KeyF8 => \/ dir' = dir /\ modified' = modified /\ list' = list
                 \/ \E moved \in BOOLEAN : UpdateLocaldir(moved) /\ list' = list
    BY DEF KeyF8
  <2>3. QED
    BY <1>4, <1>5, <1>7, <2>1, <2>2 DEF KeyBack, NetXferDone
<1>8. CASE KeyF5
  BY <1>0, <1>4, <1>8 DEF KeyF5
<1>9. CASE KeyF3
  BY <1>3, <1>4, <1>9 DEF KeyF3
<1>10. CASE NetList
  <2>1. \A s \in Sides : modified'[s] \/ (dir'[s] = dir[s] /\ ~modified[s])
    BY <1>0, <1>10 DEF NetList
  <2>2. list' = list
    BY <1>10 DEF NetList
  <2>3. QED
    BY <2>1, <2>2 DEF Synced, Matches
<1>11. CASE NetPwd
  BY <1>0, <1>4, <1>11 DEF NetPwd
<1>12. CASE UpdateUi
  BY <1>12, UpdateUiSynced
<1>13. CASE KeyCloseView \/ EndInput \/ EndNet \/ ViewUpdate \/ UNCHANGED vars
  BY <1>4, <1>13 DEF KeyCloseView, EndInput, EndNet, ViewUpdate, vars
<1>14. QED
  BY <1>1, <1>2, <1>6, <1>7, <1>8, <1>9, <1>10, <1>11, <1>12, <1>13
     DEF Next, Keys, Net

\* Only updateui leads to the first key of an iteration with the viewer closed.
LEMMA NextFresh == IndInv /\ Synced /\ Fresh /\ [Next]_vars => Fresh'
<1> SUFFICES ASSUME IndInv, Synced, Fresh, [Next]_vars
             PROVE  Fresh'
  OBVIOUS
<1> USE DEF Key, ActKey, Reads
<1>1. CASE Keys
  <2>1. typed' = 1
    BY <1>1 DEF Keys, KeyMove, KeyIns, KeyTab, KeyRedraw, KeyEnter, KeyBack,
                KeyF5, KeyF8, KeyF3, KeyCloseView
  <2>2. QED
    BY <2>1 DEF Fresh
<1>2. CASE EndInput \/ Net \/ EndNet
  <2>1. pc' # "input"
    BY <1>2 DEF EndInput, Net, EndNet, NetList, NetPwd, NetXferDone, NetViewDone
  <2>2. QED
    BY <2>1 DEF Fresh
<1>3. CASE UpdateUi
  BY <1>3, UpdateUiSynced
<1>4. CASE ViewUpdate
  BY <1>4 DEF ViewUpdate, Fresh
<1>5. CASE UNCHANGED vars
  BY <1>5 DEF vars, Fresh
<1>6. QED
  BY <1>1, <1>2, <1>3, <1>4, <1>5 DEF Next

\* The entries that lines of a list name are the ones these lines show.
LEMMA NamedShown ==
    ASSUME NEW s \in Sides, dir[s] \in Seq(Texts), Matches(s),
           NEW idxs \in SUBSET (0..(Size(list[s]) - 1)),
           NEW wild, ~wild, NEW did \in Named(s, idxs, wild)
    PROVE  did = {Entry(list[s], i).text : i \in idxs}
<1> DEFINE l == list[s]
<1>1. Len(dir[s]) \in Nat /\ Size(l) = Len(dir[s])
  BY DEF Matches
<1>2. ASSUME NEW i \in idxs
      PROVE  Holds(s, i) /\ At(s, i) = Entry(l, i).text
  <2>1. i \in 0..(Size(l) - 1) /\ i + 1 \in 1..Len(dir[s])
    BY <1>1
  <2>2. QED
    BY <1>1, <2>1 DEF Holds, At, Entry, Matches
<1>3. did = {At(s, i) : i \in {j \in idxs : Holds(s, j)}}
  BY <1>2 DEF Named
<1>4. QED
  BY <1>2, <1>3

\* act_transfer and act_delete find in selv the lines that the panel shows as
\* selected, or the one under the cursor, when num_sel counts them.
LEMMA SelvShown ==
    ASSUME NEW l, Good(l), Size(l) > 0, l.num_sel = Len(GetSel(l))
    PROVE  /\ ~Unset(l) /\ l.cur # -1
           /\ Indices(Selv(l)) \in SUBSET (0..(Size(l) - 1))
           /\ Meant(l) = {Entry(l, i).text : i \in Indices(Selv(l))}
<1> DEFINE q == GetSel(l)
<1>1. l.entries \in Seq(ListEntry) /\ l.cur \in 0..(Size(l) - 1) /\ l.cur # -1
  BY GoodNumbers DEF Good, Fits
<1>2. q \in Seq(Int) /\ Indices(q) = Selected(l)
  BY <1>1, GetSelRight
<1>3. Meant(l) = {Entry(l, i).text : i \in IF Selected(l) # {} THEN Selected(l)
                                            ELSE {l.cur} \cap (0..(Size(l) - 1))}
  BY DEF Meant, Selected
<1>4. Selv(l) = IF l.num_sel = 0 THEN <<l.cur>>
                ELSE SubSeq(q, 1, IF l.num_sel < Len(q) THEN l.num_sel ELSE Len(q))
  BY DEF Selv
<1>5. Unset(l) <=> l.num_sel > Len(q)
  BY DEF Unset
<1>6. l.num_sel = Len(q)
  OBVIOUS
<1> HIDE DEF q
<1>7. Len(q) \in Nat
  BY <1>2
<1>8. ~Unset(l)
  BY <1>5, <1>6, <1>7
<1>9. CASE l.num_sel = 0
  <2>1. Selected(l) = {}
    BY <1>2, <1>6, <1>9 DEF Indices
  <2>2. Indices(Selv(l)) = {l.cur}
    BY <1>4, <1>9 DEF Indices
  <2>3. {l.cur} \cap (0..(Size(l) - 1)) = {l.cur}
    BY <1>1
  <2>4. QED
    BY <1>1, <1>3, <1>8, <2>1, <2>2, <2>3
<1>10. CASE l.num_sel # 0
  <2>1. Selv(l) = q
    BY <1>2, <1>4, <1>6, <1>7, <1>10
  <2>2. Selected(l) # {}
    <3>1. 1 \in 1..Len(q)
      BY <1>6, <1>7, <1>10
    <3>2. QED
      BY <1>2, <3>1 DEF Indices
  <2>3. Selected(l) \in SUBSET (0..(Size(l) - 1))
    BY DEF Selected
  <2>4. QED
    BY <1>1, <1>2, <1>3, <1>8, <2>1, <2>2, <2>3
<1>11. QED
  BY <1>9, <1>10

\* The first Enter, F3, F5 or F8 of an iteration of main acts on the entries that
\* the panel shows as selected, or under its cursor, however often directories
\* were read again, entered and selected from before: indices that come from the
\* list are valid in the directory.
THEOREM FirstKeyOnShown == Spec => FirstKeyActs
<1> DEFINE Acts == KeyEnter \/ KeyF3 \/ KeyF5 \/ KeyF8
           Counts == Size(list[focus]) > 0 /\ list[focus].num_sel = Len(GetSel(list[focus]))
<1>1. Init => Synced /\ Fresh
  <2> SUFFICES ASSUME Init
               PROVE  Synced /\ Fresh
    OBVIOUS
  <2>1. \A s \in Sides : Size(list[s]) = 0
    BY DEF Init, NewList, Size
  <2>2. dir[Remote] = << >> /\ modified[Local]
    BY DEF Init, Sides, Remote, Local
  <2>3. Matches(Remote)
    BY <2>1, <2>2 DEF Matches, Sides
  <2>4. QED
    BY <2>1, <2>2, <2>3 DEF Synced, Fresh, Sides
<1>2. ASSUME IndInv, Synced, Fresh, Acts, typed = 0, Counts
      PROVE  hit'
  <2> DEFINE l == list[focus]
  <2>1. Good(l) /\ focus \in Sides /\ dir[focus] \in Seq(Texts)
    BY <1>2 DEF IndInv, TypeOK
  <2>2. pc = "input" /\ view = 0
    BY <1>2 DEF KeyEnter, KeyF3, KeyF5, KeyF8, ActKey, Key, Reads
  <2>3. Matches(focus)
    BY <1>2, <2>1, <2>2, GoodNumbers DEF Fresh, Synced
  <2>4. l.cur \in 0..(Size(l) - 1)
    BY <1>2, <2>1, GoodNumbers DEF Good, Fits
  <2>5. CASE KeyEnter \/ KeyF3
    <3>1. PICK did \in Named(focus, {l.cur}, FALSE) : hit' = (did = AtCursor(l))
      BY <2>5 DEF KeyEnter, KeyF3
    <3>2. {l.cur} \in SUBSET (0..(Size(l) - 1))
      BY <2>4
    <3>3. did = {Entry(l, i).text : i \in {l.cur}}
      BY <2>1, <2>3, <3>2, NamedShown
    <3>4. {l.cur} \cap (0..(Size(l) - 1)) = {l.cur}
      BY <2>4
    <3>5. QED
      BY <3>1, <3>3, <3>4 DEF AtCursor
  <2>6. CASE KeyF5 \/ KeyF8
    <3> DEFINE idxs == Indices(Selv(l))
    <3>1. /\ ~Unset(l) /\ l.cur # -1 /\ idxs \in SUBSET (0..(Size(l) - 1))
          /\ Meant(l) = {Entry(l, i).text : i \in idxs}
      BY <1>2, <2>1, SelvShown
    <3>2. PICK did \in Named(focus, idxs, Unset(l)) : hit' = (did = Meant(l))
      BY <2>6, <3>1 DEF KeyF5, KeyF8
    <3>3. did = {Entry(l, i).text : i \in idxs}
      BY <2>1, <2>3, <3>1, <3>2, NamedShown
    <3>4. QED
      BY <3>1, <3>2, <3>3
  <2>7. QED
    BY <1>2, <2>5, <2>6
<1>3. IndInv /\ Synced /\ Fresh /\ [Next]_vars
      => [/\ KeyEnter \/ KeyF3 \/ KeyF5 \/ KeyF8
          /\ typed = 0
          /\ Size(list[focus]) > 0 /\ list[focus].num_sel = Len(GetSel(list[focus]))
          => hit']_vars
  BY <1>2
<1>4. IndInv /\ Synced /\ Fresh /\ [Next]_vars => (Synced /\ Fresh)'
  BY NextSynced, NextFresh
<1>5. QED
  BY <1>1, <1>3, <1>4, PanelsInductive, PTL DEF Spec, FirstKeyActs
=============================================================================
