------------------------------ MODULE TuiList ------------------------------
(***************************************************************************)
(* The list widget of visftp (src/tui_list.c): a darray of entries, the    *)
(* cursor bar, the first visible line and the count of selected entries.   *)
(* Every function that changes struct tui_list is an operator from a       *)
(* record to a record.  Indices are the C ones, from 0; cur is -1 when     *)
(* there is no cursor.  Widget geometry, titles and text are left out.     *)
(***************************************************************************)
EXTENDS Integers, Sequences

CONSTANTS
    Texts,      \* the texts of entries
    VisLines,   \* VISLINES: the lines inside the frame (19 in main.c)
    PageStep    \* the lines a page key moves by (16 in main.c)

ASSUME GeometryAssumption == VisLines \in Nat \ {0} /\ PageStep \in Nat \ {0}

ListEntry == [text : Texts, sel : {0, 1}]
TuiListState == [entries : Seq(ListEntry), num_sel : Nat, cur : Int,
                 view_offs : Nat, dirty : {0, 1}]

Size(l) == Len(l.entries)
Entry(l, idx) == l.entries[idx + 1]
InRange(l, idx) == 0 <= idx /\ idx < Size(l)

\* tui_list
NewList == [entries |-> << >>, num_sel |-> 0, cur |-> -1, view_offs |-> 0,
            dirty |-> 1]

\* cur, view_offs and num_sel survive
ClearList(l) == [l EXCEPT !.entries = << >>, !.dirty = 1]

\* tui_add_list_item for each text
AddItems(l, texts) ==
    [l EXCEPT !.entries = @ \o [i \in 1..Len(texts) |-> [text |-> texts[i], sel |-> 0]],
              !.dirty = IF texts = << >> THEN @ ELSE 1]

\* the scroll position that centres idx, within the list
Centred(l, idx) ==
    LET mid == idx - VisLines \div 2
        offs == IF mid + VisLines >= Size(l) THEN Size(l) - VisLines ELSE mid
    IN  IF offs < 0 THEN 0 ELSE offs

SetCur(l, idx) ==
    CASE idx = l.cur -> l
      [] idx # l.cur /\ idx < 0 -> [l EXCEPT !.cur = -1]
      [] idx # l.cur /\ idx >= Size(l) -> l
      [] OTHER -> [l EXCEPT !.cur = idx, !.dirty = 1,
                     !.view_offs = IF idx < @ \/ idx >= @ + VisLines
                                   THEN Centred(l, idx) ELSE @]

CurNext(l) ==
    IF l.cur + 1 >= Size(l) THEN l
    ELSE [l EXCEPT !.cur = @ + 1, !.dirty = 1,
            !.view_offs = IF l.cur + 1 - @ >= VisLines
                          THEN l.cur + 1 - VisLines + 1 ELSE @]

CurPrev(l) ==
    IF l.cur <= 0 THEN l
    ELSE [l EXCEPT !.cur = @ - 1, !.dirty = 1,
            !.view_offs = IF l.cur - 1 < @ THEN l.cur - 1 ELSE @]

CurStart(l) == [l EXCEPT !.cur = 0, !.view_offs = 0, !.dirty = 1]

CurEnd(l) ==
    [l EXCEPT !.cur = Size(l) - 1, !.dirty = 1,
       !.view_offs = IF Size(l) < VisLines THEN 0 ELSE Size(l) - VisLines]

\* num_sel after an entry became selected (1) or not (0).  Faulty form: it is
\* not kept from below zero.
CountedBelow(n, sel) == IF sel = 1 THEN n + 1 ELSE n - 1
Counted(n, sel) == IF sel = 1 THEN n + 1 ELSE IF n > 0 THEN n - 1 ELSE n

ToggleSel(l, idx) ==
    LET sel == 1 - Entry(l, idx).sel
    IN  [l EXCEPT !.entries[idx + 1].sel = sel, !.num_sel = Counted(@, sel),
                  !.dirty = 1]

\* the indices tui_list_get_sel stores, in order; it returns num_sel, whatever
\* their number
GetSel(l) ==
    LET sel[n \in 0..Size(l)] ==
            IF n = 0 THEN << >>
            ELSE IF Entry(l, n - 1).sel = 1 THEN Append(sel[n - 1], n - 1)
            ELSE sel[n - 1]
    IN  sel[Size(l)]

\* the entries draw_list reads
DrawnLines(l) ==
    {i + l.view_offs : i \in 0..((IF Size(l) > VisLines THEN VisLines ELSE Size(l)) - 1)}

(***************************************************************************)
(* What the widget keeps true of itself, whoever calls it.                 *)
(***************************************************************************)

\* Nothing is read outside the entries when the list is drawn.
DrawsInside(l) == \A idx \in DrawnLines(l) : InRange(l, idx)

\* The cursor of a list that has entries is on one that is drawn.
CursorOnScreen(l) == Size(l) > 0 => InRange(l, l.cur) /\ l.cur \in DrawnLines(l)
=============================================================================
