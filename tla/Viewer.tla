------------------------------- MODULE Viewer -------------------------------
(***************************************************************************)
(* The full-screen file viewer of visftp (src/viewer.c): its scroll        *)
(* position, the lines of the file, the screen and the parts of it that    *)
(* must be drawn, and the buffer it owns.  view_memopen is called from the *)
(* keys (act_view, a local file) and from the network (view_done, a remote *)
(* file); the main loop reads keys, then serves the network, then draws.   *)
(* Bytes are "tab", "nl" ('\r' or '\n') or any other, "x".  A character on *)
(* the screen is the byte it stands for, by its buffer and place.          *)
(***************************************************************************)
EXTENDS Integers, Sequences

CONSTANTS
    Files,      \* the contents files may have
    NumVis,     \* num_vislines (22 in the code); one line less is drawn
    NumCol,     \* num_viscol (78 in the code)
    Tab,        \* columns between tab stops (4 in the code)
    MaxOpens,   \* bound: how many files are opened
    MaxH        \* bound: the user scrolls no further to the right

Bytes == {"x", "tab", "nl"}

ASSUME ViewerAssumption ==
    /\ Files \subseteq Seq(Bytes)
    /\ NumVis \in Nat \ {0} /\ NumCol \in Nat \ {0} /\ Tab \in Nat \ {0}
    /\ MaxOpens \in Nat /\ MaxH \in Nat

Parts == {"text", "frame", "buttons"}
Closed == << >>
Scrolls == {"home", "end", "pgup", "pgdn", "up", "down", "left", "right"}

\* the screen within the frame, and what may be in a place of it: a byte of a
\* buffer, nothing, the panels, or whatever a read outside the lines gave
Rows == 1..(NumVis - 1)
Cols == 1..NumCol
Blank == <<"blank">>
Panel == <<"panel">>
Junk == <<"junk">>
Cells == {Blank, Panel, Junk} \cup ((1..MaxOpens) \X Nat)
Filled(cell) == [r \in Rows |-> [c \in Cols |-> cell]]
PanelsOver == [text |-> Filled(Panel), frame |-> 0, torn |-> FALSE, buttons |-> FALSE]

VARIABLES
    data,       \* Closed, or <<n, content>>: the n-th buffer handed over
    lines,      \* the spans <<start, len>> of view_memopen
    vscroll, hscroll,
    dirty,      \* the parts to draw
    screen,     \* the text, the buffer in the frame and whether a tab cut into
                \* the frame, and whether the buttons are the viewer's
    opens,      \* how many buffers were handed over
    heap,       \* the ones that were not freed
    dropped,    \* history: the ones replaced while they were shown
    pc          \* "input", "net" or "ui"; "crashed"

vars == <<data, lines, vscroll, hscroll, dirty, screen, opens, heap, dropped, pc>>

-----------------------------------------------------------------------------
\* The spans after the first i bytes, and where the next one starts.  Faulty
\* form: the next one starts at the line end.
SpanStepAtEnd(s, i, byte) ==
    IF byte # "nl" THEN s
    ELSE [start |-> i - 1,
          spans |-> IF i - 1 > s.start THEN Append(s.spans, <<s.start, i - 1 - s.start>>)
                    ELSE s.spans]
SpanStep(s, i, byte) ==
    IF byte # "nl" THEN s
    ELSE [start |-> i,
          spans |-> IF i - 1 > s.start THEN Append(s.spans, <<s.start, i - 1 - s.start>>)
                    ELSE s.spans]

Spans(file) ==
    LET scan[i \in 0..Len(file)] ==
            IF i = 0 THEN [start |-> 0, spans |-> << >>]
            ELSE SpanStep(scan[i - 1], i, file[i])
    IN  scan[Len(file)].spans

\* what view_memopen marks for drawing.  Faulty form: the text is enough.
MarkedTextOnly == {"text"}
MarkedByOpen == Parts

\* view_memopen; vscroll and hscroll stay, and the buffer before is not freed
MemOpen(file) ==
    /\ opens < MaxOpens
    /\ opens' = opens + 1
    /\ data' = <<opens + 1, file>>
    /\ heap' = heap \cup {opens + 1}
    /\ dropped' = dropped \cup (IF data = Closed THEN {} ELSE {data[1]})
    /\ lines' = Spans(file)
    /\ dirty' = MarkedByOpen
    /\ UNCHANGED <<vscroll, hscroll, screen>>

\* F3 on a local file; while the viewer is open all keys are its own
KeyOpen ==
    /\ pc = "input"
    /\ data = Closed
    /\ \E file \in Files : MemOpen(file)
    /\ UNCHANGED pc

\* view_done with a fetched file that is not empty; F3 may have been pressed on
\* several files before the first one came, or another be open by now
NetOpen ==
    /\ pc = "net"
    /\ \E file \in Files : file # << >> /\ MemOpen(file)
    /\ UNCHANGED pc

-----------------------------------------------------------------------------
\* the scroll position of the End key.  Faulty form: the last line is below.
AtEndShort(n) == IF n - NumVis < 0 THEN 0 ELSE n - NumVis
AtEnd(n) == IF n - NumVis + 1 < 0 THEN 0 ELSE n - NumVis + 1

\* Page Up and Page Down.  Faulty forms: the ends of the file are ignored.
PageUpBlind(v) == v - NumVis
PageUp(v) == IF v - NumVis < 0 THEN 0 ELSE v - NumVis
PageDownBlind(v, n) == v + NumVis
PageDown(v, n) == IF v + NumVis >= n THEN AtEnd(n) ELSE v + NumVis

\* view_input: the scroll position after a key
VScroll(key, v, n) ==
    CASE key = "home" -> 0
      [] key = "end" -> AtEnd(n)
      [] key = "pgup" -> PageUp(v)
      [] key = "pgdn" -> PageDown(v, n)
      [] key = "up" -> IF v > 0 THEN v - 1 ELSE v
      [] key = "down" -> IF v < n - 1 THEN v + 1 ELSE v
      [] OTHER -> v

HScroll(key, h) ==
    CASE key \in {"home", "end", "pgup", "pgdn"} -> 0
      [] key = "left" -> IF h > 0 THEN h - 1 ELSE h
      [] key = "right" -> h + 1
      [] OTHER -> h

KeyScroll(key) ==
    /\ pc = "input"
    /\ data # Closed
    /\ key = "right" => hscroll < MaxH
    /\ vscroll' = VScroll(key, vscroll, Len(lines))
    /\ hscroll' = HScroll(key, hscroll)
    /\ dirty' = dirty \cup {"text"}
    /\ UNCHANGED <<data, lines, screen, opens, heap, dropped, pc>>

KeyRedraw ==
    /\ pc = "input"
    /\ data # Closed
    /\ dirty' = Parts
    /\ UNCHANGED <<data, lines, vscroll, hscroll, screen, opens, heap, dropped, pc>>

\* view_close frees the buffer.  Faulty form: it does not.
HeapKept == heap
HeapFreed == heap \ {data[1]}

\* Esc, F10
KeyClose ==
    /\ pc = "input"
    /\ data # Closed
    /\ data' = Closed
    /\ lines' = << >>
    /\ heap' = HeapFreed
    /\ dirty' = dirty \cup {"text"}
    /\ UNCHANGED <<vscroll, hscroll, screen, opens, dropped, pc>>

-----------------------------------------------------------------------------
\* tg_rect in the row, without a frame
Cleared(row, from, to) == [c \in Cols |-> IF c \in from..to THEN Blank ELSE row[c]]

NextStop(x) == x + Tab - (x % Tab)

\* One byte of the n-th buffer: p has the column so far, the row, and whether a
\* tab went over its right edge.  The loop ends at column num_viscol of the
\* text, not of the screen, and a tab is cleared where it is without hscroll.
PutByte(n, file, h, p, at) ==
    IF p.x >= NumCol THEN p
    ELSE IF file[at] = "tab"
    THEN [x |-> NextStop(p.x), row |-> Cleared(p.row, p.x + 1, NextStop(p.x)),
          torn |-> p.torn \/ NextStop(p.x) > NumCol]
    ELSE [p EXCEPT !.x = @ + 1,
                   !.row = IF p.x + 1 - h > 0 THEN [@ EXCEPT ![p.x + 1 - h] = <<n, at>>] ELSE @]

\* where the row is cleared behind the end of a line.  Faulty form: hscroll is
\* left out.
EndUnscrolled(x, h) == x + 1
EndColumn(x, h) == IF x - h < 0 THEN 1 ELSE x - h + 1

\* the row as the line paints it over what was there
PaintLine(n, file, span, h, old) ==
    LET paint[i \in 0..span[2]] ==
            IF i = 0 THEN [x |-> 0, row |-> old, torn |-> FALSE]
            ELSE PutByte(n, file, h, paint[i - 1], span[1] + i)
        last == paint[span[2]]
    IN  IF last.x >= NumCol THEN last
        ELSE [last EXCEPT !.row = Cleared(@, EndColumn(last.x, h), NumCol)]

\* the rows that are drawn, one for each line that fits, though they begin at
\* vscroll
DrawnRows == 1..(IF Len(lines) < NumVis - 1 THEN Len(lines) ELSE NumVis - 1)
InFile(r) == vscroll + r <= Len(lines)
ReadsPast == "text" \in dirty /\ \E r \in DrawnRows : ~InFile(r)

\* view_update.  What lies behind the lines may be taken for a line, of any
\* length and with any tabs in it.
Update ==
    /\ pc = "ui"
    /\ data # Closed
    /\ \E junktorn \in (IF ReadsPast THEN BOOLEAN ELSE {FALSE}) :
        LET under == IF "frame" \in dirty THEN Filled(Blank) ELSE screen.text
            drawn == IF "text" \in dirty THEN DrawnRows ELSE {}
            painted == [r \in {q \in drawn : InFile(q)} |->
                            PaintLine(data[1], data[2], lines[vscroll + r], hscroll, under[r])]
        IN  screen' =
              [text |-> [r \in Rows |-> IF r \in DOMAIN painted THEN painted[r].row
                                        ELSE IF r \in drawn THEN [c \in Cols |-> Junk]
                                        ELSE under[r]],
               frame |-> IF "frame" \in dirty THEN data[1] ELSE screen.frame,
               torn |-> \/ "frame" \notin dirty /\ screen.torn
                        \/ junktorn \/ \E r \in DOMAIN painted : painted[r].torn,
               buttons |-> screen.buttons \/ "buttons" \in dirty]
    /\ dirty' = {}
    /\ pc' = "input"
    /\ UNCHANGED <<data, lines, vscroll, hscroll, opens, heap, dropped>>

\* or its start is no address
UpdateCrashes ==
    /\ pc = "ui"
    /\ data # Closed
    /\ ReadsPast
    /\ pc' = "crashed"
    /\ UNCHANGED <<data, lines, vscroll, hscroll, dirty, screen, opens, heap, dropped>>

\* updateui draws the panels over it
UpdatePanels ==
    /\ pc = "ui"
    /\ data = Closed
    /\ screen' = PanelsOver
    /\ pc' = "input"
    /\ UNCHANGED <<data, lines, vscroll, hscroll, dirty, opens, heap, dropped>>

EndInput == pc = "input" /\ pc' = "net" /\ UNCHANGED <<data, lines, vscroll,
                hscroll, dirty, screen, opens, heap, dropped>>

EndNet == pc = "net" /\ pc' = "ui" /\ UNCHANGED <<data, lines, vscroll,
                hscroll, dirty, screen, opens, heap, dropped>>

Init ==
    /\ data = Closed
    /\ lines = << >>
    /\ vscroll = 0 /\ hscroll = 0
    /\ dirty = {}
    /\ screen = PanelsOver
    /\ opens = 0
    /\ heap = {} /\ dropped = {}
    /\ pc = "input"

Next == \/ KeyOpen \/ NetOpen
        \/ \E key \in Scrolls : KeyScroll(key)
        \/ KeyRedraw \/ KeyClose
        \/ EndInput \/ EndNet \/ Update \/ UpdateCrashes \/ UpdatePanels

Spec == Init /\ [][Next]_vars

-----------------------------------------------------------------------------
Buffers == {Closed} \cup ((1..MaxOpens) \X Files)

TypeOK ==
    /\ data \in Buffers
    /\ lines \in Seq(Nat \X Nat)
    /\ vscroll \in Nat
    /\ hscroll \in 0..MaxH
    /\ dirty \subseteq Parts
    /\ screen \in [text : [Rows -> [Cols -> Cells]], frame : 0..MaxOpens,
                   torn : BOOLEAN, buttons : BOOLEAN]
    /\ opens \in 0..MaxOpens
    /\ heap \subseteq 1..opens /\ dropped \subseteq 1..MaxOpens
    /\ pc \in {"input", "net", "ui", "crashed"}

\* The lines are the non-empty runs of bytes that a line end follows, in order,
\* each once (the loop of view_memopen, which moves start along).
LinesAreRuns ==
    data # Closed =>
        LET file == data[2]
            runs == {r \in (0..Len(file)) \X (1..Len(file)) :
                        /\ r[1] + r[2] < Len(file)
                        /\ \A i \in (r[1] + 1)..(r[1] + r[2]) : file[i] # "nl"
                        /\ file[r[1] + r[2] + 1] = "nl"
                        /\ r[1] = 0 \/ file[r[1]] = "nl"}
        IN  /\ {lines[i] : i \in 1..Len(lines)} = runs
            /\ \A i, j \in 1..Len(lines) : i < j => lines[i][1] < lines[j][1]

\* In the first file the line at the top of the screen exists, whatever keys
\* scrolled there (view_input clamps vscroll in five ways).
TopLineExists ==
    opens = 1 /\ data # Closed /\ lines # << >> => vscroll < Len(lines)

\* the lines view_update reads, from 0
ReadLines == {vscroll + r - 1 : r \in DrawnRows}

\* Home, and End, and Page Down that runs into the end, leave a position where
\* only lines of the file are read, and End the last one too, whatever position
\* an earlier file left behind.
EndsInside ==
    [][\A key \in {"home", "end", "pgdn"} :
        KeyScroll(key) /\ (key = "pgdn" => vscroll + NumVis >= Len(lines))
        => /\ ReadLines' \subseteq 0..(Len(lines) - 1)
           /\ key # "home" /\ lines # << >> /\ NumVis > 1
                => Len(lines) - 1 \in ReadLines']_vars

\* the column of the text that each byte of a line ends at
Columns(file, span) ==
    LET col[i \in 0..span[2]] ==
            IF i = 0 THEN 0
            ELSE IF file[span[1] + i] = "tab" THEN NextStop(col[i - 1]) ELSE col[i - 1] + 1
    IN  col

\* The row shows the line from column h on, as far as the text is drawn: each
\* character in its place, and nothing behind the end of a line that has one
\* before num_viscol.  Without hscroll it shows nothing else.
RowRight(n, file, span, h, row) ==
    LET col == Columns(file, span)
        chars == {i \in 1..span[2] : file[span[1] + i] # "tab"}
        width == col[span[2]]
    IN  /\ \A i \in chars : col[i] > h /\ col[i] <= NumCol
                              => row[col[i] - h] = <<n, span[1] + i>>
        /\ \A c \in Cols : (h = 0 \/ (width < NumCol /\ width < c + h))
                            /\ (\A i \in chars : col[i] # c + h) => row[c] = Blank

TextRight(text) ==
    /\ \A r \in DrawnRows : InFile(r) =>
        RowRight(data[1], data[2], lines[vscroll + r], hscroll, text[r])
    /\ \A r \in Rows \ DrawnRows : text[r] = [c \in Cols |-> Blank]

\* When view_update returns, the rows that have a line show the line that
\* vscroll and hscroll say, and those below a short file show nothing, in a frame
\* of the open file, whatever the panels, an earlier file or an earlier position
\* left on the screen: a part is painted only if it is marked, and a row only
\* where the loop comes to.
ViewShown ==
    [][pc = "ui" /\ data # Closed /\ pc' = "input" =>
        /\ TextRight(screen'.text)
        /\ screen'.frame = data[1] /\ screen'.buttons]_vars

\* The viewer takes ownership of the buffer (main.c, view_done).  With fetches
\* that come while a file is shown, each buffer is freed when the viewer that
\* shows it is closed, and never one that is shown; the buffers that are lost
\* are the ones that a fetch replaced, and no others.
OwnerFrees ==
    /\ heap = dropped \cup (IF data = Closed THEN {} ELSE {data[1]})
    /\ data # Closed => data[1] \notin dropped
=============================================================================
