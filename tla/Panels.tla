------------------------------- MODULE Panels -------------------------------
(***************************************************************************)
(* The two panels of visftp (src/main.c): the directories they stand for   *)
(* (ftp->dirent, localdir), the list widgets that show them, the focus and *)
(* the full-screen viewer.  One iteration of the main loop reads the keys  *)
(* that are waiting (proc_input), serves the sockets (ftp_handle) and      *)
(* brings the screen up to date (updateui, or view_update while the viewer *)
(* is open): pc is where it is.  A directory changes under its list in the *)
(* first two and is copied to the list in the third only.                  *)
(*                                                                         *)
(* What ftp.c does between a key and a new listing is FtpClient's; here a  *)
(* listing, a pwd reply, the end of a download and of a fetch for the      *)
(* viewer just arrive.                                                     *)
(***************************************************************************)
EXTENDS TuiList

CONSTANTS
    Subdirs,    \* the texts that are directories; the others are files
    Listings,   \* the contents a directory may be found to have
    Env,        \* what the user does, and what changes
    MaxSel      \* bound: the user selects nothing when num_sel is this large

EnvFlags == {"tab", "select", "chdir", "view", "blind", "batch"}

ASSUME PanelsAssumption ==
    /\ Subdirs \subseteq Texts
    /\ Listings \subseteq Seq(Texts)
    /\ Env \subseteq EnvFlags /\ MaxSel \in Nat

Remote == 0
Local == 1
Sides == {Remote, Local}

VARIABLES
    dir,        \* ftp->dirent and localdir
    modified,   \* ftp->modified & FTP_MOD_DIR; local_modified, or the title of
                \* the local list is not curdir
    list,       \* uilist
    shown,      \* whether the screen shows the list as it is
    focus,
    view,       \* view_isopen()
    pc,         \* "input", "net" or "ui"
    typed,      \* whether proc_input has handled a key in this iteration
    hit,        \* whether the last key acted on the entries it was meant for
    fault

vars == <<dir, modified, list, shown, focus, view, pc, typed, hit, fault>>

-----------------------------------------------------------------------------
\* what draw_list puts on the screen
Rows(l) == <<l.entries, l.cur, l.view_offs>>

\* list becomes new; lines that changed are no longer what the screen shows
Lists(new) ==
    /\ list' = new
    /\ shown' = [s \in Sides |-> shown[s] /\ Rows(new[s]) = Rows(list[s])]

\* both lists are marked for drawing (act_redraw, tui_focus).  Faulty form: one is.
RedrawnRemote(ls) == [ls EXCEPT ![Remote].dirty = 1]
Redrawn(ls) == [s \in Sides |-> [ls[s] EXCEPT !.dirty = 1]]

Reads == pc = "input" /\ fault = "none" /\ (typed = 0 \/ "batch" \in Env)

\* keypress reaches the panels
Key == Reads /\ view = 0 /\ typed' = 1 /\ UNCHANGED pc

\* a key for an entry is pressed on a panel that shows none only by "blind"
ActKey == Key /\ (Size(list[focus]) > 0 \/ "blind" \in Env)

-----------------------------------------------------------------------------
(***************************************************************************)
(* keypress: moving and selecting                                          *)
(***************************************************************************)
Moved(key, l) ==
    CASE key = "up" -> CurPrev(l)
      [] key = "down" -> CurNext(l)
      [] key = "left" -> CurStart(l)
      [] key = "right" -> CurEnd(l)
      [] key = "pgup" -> IF l.cur - PageStep < 0 THEN CurStart(l)
                         ELSE SetCur(l, l.cur - PageStep)
      [] key = "pgdn" -> IF l.cur + PageStep >= Size(l) THEN CurEnd(l)
                         ELSE SetCur(l, l.cur + PageStep)

MoveKeys == {"up", "down", "left", "right", "pgup", "pgdn"}

KeyMove(key) ==
    /\ Key
    /\ Lists([list EXCEPT ![focus] = Moved(key, @)])
    /\ UNCHANGED <<dir, modified, focus, view, hit, fault>>

\* Ins.  On an entry outside the list, which an emptied panel leaves under the
\* cursor, the write is undefined: it flips a word of the heap, or is fatal.
KeyIns ==
    /\ ActKey
    /\ "select" \in Env
    /\ list[focus].num_sel < MaxSel
    /\ list[focus].cur # -1
    /\ LET l == list[focus]
       IN  \/ /\ InRange(l, l.cur)
              /\ Lists([list EXCEPT ![focus] = CurNext(ToggleSel(l, l.cur))])
              /\ UNCHANGED fault
           \/ /\ ~InRange(l, l.cur)
              /\ fault' \in {"none", "crash"}
              /\ \E sel \in {0, 1} :
                    Lists([list EXCEPT ![focus].num_sel = Counted(@, sel),
                                       ![focus].dirty = 1])
    /\ UNCHANGED <<dir, modified, focus, view, hit>>

KeyTab ==
    /\ Key
    /\ "tab" \in Env
    /\ focus' = 1 - focus
    /\ list' = Redrawn(list)
    /\ shown' = [s \in Sides |-> FALSE]
    /\ UNCHANGED <<dir, modified, view, hit, fault>>

KeyRedraw ==
    /\ Key
    /\ list' = Redrawn(list)
    /\ UNCHANGED <<dir, modified, shown, focus, view, hit, fault>>

-----------------------------------------------------------------------------
(***************************************************************************)
(* keypress: the keys that act on entries.  They take indices from the     *)
(* list and entries from the directory.                                    *)
(***************************************************************************)

\* the indices in selv that were stored there: the selected lines, or the one
\* under the cursor
Selv(l) ==
    LET sel == GetSel(l)
    IN  IF l.num_sel = 0 THEN <<l.cur>>
        ELSE SubSeq(sel, 1, IF l.num_sel < Len(sel) THEN l.num_sel ELSE Len(sel))

\* the rest of selv is not initialized
Unset(l) == l.num_sel > Len(GetSel(l))

At(s, idx) == dir[s][idx + 1]
Holds(s, idx) == 0 <= idx /\ idx < Len(dir[s])

\* the entries of side s that the indices name, which is anything when wild
Named(s, idxs, wild) ==
    LET some == {At(s, i) : i \in {j \in idxs : Holds(s, j)}}
    IN  IF wild \/ \E i \in idxs : ~Holds(s, i)
        THEN {some \cup junk : junk \in SUBSET {dir[s][i] : i \in 1..Len(dir[s])}}
        ELSE {some}

MayCrash(s, idxs, wild) ==
    IF wild \/ \E i \in idxs : ~Holds(s, i) THEN {"none", "crash"} ELSE {"none"}

\* what the panel shows for the key: its selected lines, or its cursor
Meant(l) ==
    LET sel == {i \in 0..(Size(l) - 1) : Entry(l, i).sel = 1}
    IN  {Entry(l, i).text : i \in IF sel # {} THEN sel
                                  ELSE {l.cur} \cap (0..(Size(l) - 1))}

AtCursor(l) == {Entry(l, i).text : i \in {l.cur} \cap (0..(Size(l) - 1))}

Indices(q) == {q[i] : i \in 1..Len(q)}

\* update_localdir, after chdir (moved) or not; opendir may fail.  The listing
\* is what the file system has by then.
UpdateLocaldir(moved) ==
    \/ /\ dir' = [dir EXCEPT ![Local] = @]
       /\ modified' = [modified EXCEPT ![Local] = @ \/ moved]
    \/ \E d \in Listings :
        /\ dir' = [dir EXCEPT ![Local] = d]
        /\ modified' = [modified EXCEPT ![Local] = TRUE]

\* Enter: act_activate.  A remote directory is queued (FtpClient); a local one
\* is entered, or chdir fails.
KeyEnter ==
    /\ ActKey
    /\ \E did \in Named(focus, {list[focus].cur}, FALSE) :
        /\ hit' = (did = AtCursor(list[focus]))
        /\ \/ UNCHANGED <<dir, modified>>
           \/ /\ focus = Local /\ did \cap Subdirs # {} /\ "chdir" \in Env
              /\ UpdateLocaldir(TRUE)
    /\ fault' \in MayCrash(focus, {list[focus].cur}, FALSE)
    /\ UNCHANGED <<list, shown, focus, view>>

\* Backspace: a CDUP is queued, or the parent directory entered
KeyBack ==
    /\ Key
    /\ "chdir" \in Env
    /\ focus = Local
    /\ UpdateLocaldir(TRUE)
    /\ UNCHANGED <<list, shown, focus, view, hit, fault>>

\* F5: act_transfer.  Only downloads are implemented; each marks the local panel.
KeyF5 ==
    /\ ActKey
    /\ focus = Remote
    /\ LET l == list[focus]
           idxs == Indices(Selv(l))
       IN  /\ \E did \in Named(focus, idxs, Unset(l)) : hit' = (did = Meant(l))
           /\ fault' \in MayCrash(focus, idxs, Unset(l))
    /\ modified' \in {modified, [modified EXCEPT ![Local] = TRUE]}
    /\ UNCHANGED <<dir, list, shown, focus, view>>

\* F8: act_delete.  Only local files are removed.
KeyF8 ==
    /\ ActKey
    /\ focus = Local
    /\ "chdir" \in Env
    /\ LET l == list[focus]
           idxs == IF l.num_sel = 0 /\ l.cur = -1 THEN {} ELSE Indices(Selv(l))
       IN  /\ \E did \in Named(focus, idxs, Unset(l)) : hit' = (did = Meant(l))
           /\ fault' \in MayCrash(focus, idxs, Unset(l))
           /\ IF idxs = {} /\ ~Unset(l) THEN UNCHANGED <<dir, modified>>
              ELSE \E removed \in BOOLEAN : UpdateLocaldir(removed)
    /\ UNCHANGED <<list, shown, focus, view>>

\* F3: act_view.  A remote file is queued; a local one is read and shown.
KeyF3 ==
    /\ ActKey
    /\ "view" \in Env
    /\ \E did \in Named(focus, {list[focus].cur}, FALSE) :
        /\ hit' = (did = AtCursor(list[focus]))
        /\ \/ UNCHANGED <<list, view>>
           \/ /\ focus = Local /\ did \ Subdirs # {}
              /\ view' = 1
              /\ list' = Redrawn(list)
    /\ fault' \in MayCrash(focus, {list[focus].cur}, FALSE)
    /\ UNCHANGED <<dir, modified, shown, focus>>

\* view_input: Esc or F10 closes the viewer
KeyCloseView ==
    /\ Reads
    /\ view = 1
    /\ view' = 0
    /\ typed' = 1
    /\ UNCHANGED <<dir, modified, list, shown, focus, pc, hit, fault>>

-----------------------------------------------------------------------------
(***************************************************************************)
(* The rest of the iteration                                               *)
(***************************************************************************)
EndInput ==
    /\ pc = "input" /\ fault = "none"
    /\ pc' = "net"
    /\ UNCHANGED <<dir, modified, list, shown, focus, view, typed, hit, fault>>

Relists == "chdir" \in Env \/ dir[Remote] = << >>

\* dproc_list got the whole listing
NetList ==
    /\ pc = "net"
    /\ Relists
    /\ \E d \in Listings : dir' = [dir EXCEPT ![Remote] = d]
    /\ modified' = [modified EXCEPT ![Remote] = TRUE]
    /\ UNCHANGED <<list, shown, focus, view, pc, typed, hit, fault>>

\* cproc_pwd: the directory counts as modified before its listing is here
NetPwd ==
    /\ pc = "net"
    /\ Relists
    /\ modified' = [modified EXCEPT ![Remote] = TRUE]
    /\ UNCHANGED <<dir, list, shown, focus, view, pc, typed, hit, fault>>

\* xfer_done re-reads the local directory
NetXferDone ==
    /\ pc = "net"
    /\ UpdateLocaldir(FALSE)
    /\ UNCHANGED <<list, shown, focus, view, pc, typed, hit, fault>>

\* view_done opens the viewer, unless the file is empty
NetViewDone ==
    /\ pc = "net"
    /\ "view" \in Env
    /\ view' \in {view, 1}
    /\ list' = Redrawn(list)
    /\ UNCHANGED <<dir, modified, shown, focus, pc, typed, hit, fault>>

EndNet ==
    /\ pc = "net"
    /\ pc' = "ui"
    /\ UNCHANGED <<dir, modified, list, shown, focus, view, typed, hit, fault>>

\* updateui copies a modified directory to its list.  Faulty form: the cursor
\* is left where it was.
RefillKeepCur(l, texts) == AddItems(ClearList(l), texts)
Refill(l, texts) == SetCur(AddItems(ClearList(l), texts), 0)

\* faulty form: a list that was filled once is not filled again
UpdatedOnce(s) ==
    IF modified[s] /\ Size(list[s]) = 0 THEN Refill(list[s], dir[s]) ELSE list[s]
Updated(s) == IF modified[s] THEN Refill(list[s], dir[s]) ELSE list[s]

UpdateUi ==
    /\ pc = "ui"
    /\ view = 0
    /\ LET new == [s \in Sides |-> Updated(s)]
           draws(s) == new[s].dirty = 1 \/ modified[s]
       IN  /\ list' = [s \in Sides |-> [new[s] EXCEPT !.dirty = 0]]
           /\ shown' = [s \in Sides |-> draws(s) \/ (shown[s] /\ Rows(new[s]) = Rows(list[s]))]
    /\ modified' = [s \in Sides |-> FALSE]
    /\ pc' = "input" /\ typed' = 0
    /\ UNCHANGED <<dir, focus, view, hit, fault>>

\* view_update covers the screen
ViewUpdate ==
    /\ pc = "ui"
    /\ view = 1
    /\ shown' = [s \in Sides |-> FALSE]
    /\ pc' = "input" /\ typed' = 0
    /\ UNCHANGED <<dir, modified, list, focus, view, hit, fault>>

-----------------------------------------------------------------------------
\* main before its loop: the local directory is read, the remote one is not
Init ==
    /\ \E d \in Listings : dir = [s \in Sides |-> IF s = Remote THEN << >> ELSE d]
    /\ modified = [s \in Sides |-> s = Local]
    /\ list = [s \in Sides |-> NewList]
    /\ shown = [s \in Sides |-> FALSE]
    /\ focus = Remote
    /\ view = 0
    /\ pc = "input"
    /\ typed = 0
    /\ hit = TRUE
    /\ fault = "none"

Keys == \/ \E key \in MoveKeys : KeyMove(key)
        \/ KeyIns \/ KeyTab \/ KeyRedraw \/ KeyEnter \/ KeyBack \/ KeyF5
        \/ KeyF8 \/ KeyF3 \/ KeyCloseView

Net == NetList \/ NetPwd \/ NetXferDone \/ NetViewDone

Next == Keys \/ EndInput \/ Net \/ EndNet \/ UpdateUi \/ ViewUpdate

Spec == Init /\ [][Next]_vars

-----------------------------------------------------------------------------
TypeOK ==
    /\ dir \in [Sides -> Seq(Texts)]
    /\ modified \in [Sides -> BOOLEAN]
    /\ list \in [Sides -> TuiListState]
    /\ shown \in [Sides -> BOOLEAN]
    /\ focus \in Sides
    /\ view \in {0, 1}
    /\ pc \in {"input", "net", "ui"}
    /\ typed \in {0, 1}
    /\ hit \in BOOLEAN
    /\ fault \in {"none", "crash"}

\* Nothing outside the entries is drawn, and the cursor is always on a drawn
\* entry, although tui_clear_list keeps the cursor and the scroll position of a
\* longer list and updateui's tui_list_setcur may do nothing.
ViewInside == \A s \in Sides : DrawsInside(list[s]) /\ CursorOnScreen(list[s])

\* Whenever updateui returns the screen shows both lists as they are, whatever
\* changed them since it was last drawn, and whatever the viewer painted on it.
ScreenCurrent ==
    [][pc = "ui" /\ view = 0 /\ pc' = "input" => \A s \in Sides : shown'[s]]_vars

\* The first Enter, F3, F5 or F8 of an iteration acts on the entries the panel
\* shows as selected, or under its cursor (README: copy selected, delete
\* selected), although it takes indices from the list and entries from a
\* directory that may change in every other step.  Not so for the next key of the
\* same iteration, which finds a directory that the list does not show yet, for an
\* empty panel, and when num_sel survived a refill (tui_clear_list keeps it).
FirstKeyActs ==
    [][/\ KeyEnter \/ KeyF3 \/ KeyF5 \/ KeyF8
       /\ typed = 0
       /\ Size(list[focus]) > 0 /\ list[focus].num_sel = Len(GetSel(list[focus]))
       => hit']_vars
=============================================================================
