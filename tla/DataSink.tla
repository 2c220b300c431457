------------------------------ MODULE DataSink ------------------------------
(***************************************************************************)
(* What becomes of the bytes of one data connection (src/ftp.c, and        *)
(* view_done and xfer_done in src/main.c): dproc_list collects a listing   *)
(* in a growing buffer and parses it at the end; dproc_xfer writes a file, *)
(* or keeps it in memory for the viewer, and counts.  FtpClient says when  *)
(* the callbacks are installed and called; here is what they do, however   *)
(* the stream is cut into packets and whenever the 150 reply is read.      *)
(*                                                                         *)
(* A listing's byte is a character class or a word: "d" and "-" begin      *)
(* lines, "->" is the arrow of a link, "sp" is a space, "cr", "nl" and     *)
(* "nul" are themselves.                                                   *)
(***************************************************************************)
EXTENDS Integers, Sequences, SequencesExt

CONSTANTS
    Listings,   \* the listings the server may send, sequences of Lines
    FileSizes,  \* how long a file may be
    Known,      \* what the listing may have said of its length
    PacketMax,  \* sizeof drecv (256 in the code)
    BufInit,    \* the first size of a recvbuf (1024)
    SizeAt,     \* how many fields precede the size (4)
    Fields      \* and how many the name (8)

Mode == [dir |-> "d", file |-> "-", link |-> "l", total |-> "t"]
Atoi == [w \in {"5", "6"} |-> IF w = "5" THEN 5 ELSE 6]

\* the characters, in the order of strcmp
Order == <<"nul", "nl", "cr", "sp", "-", "->", "5", "6", "a", "b", "d", "f", "l", "t">>

Lines == [type : DOMAIN Mode, size : DOMAIN Atoi, name : Seq(ToSet(Order))]

ASSUME SinkAssumption ==
    /\ Listings \subseteq Seq(Lines)
    /\ PacketMax \in Nat \ {0} /\ BufInit \in Nat /\ PacketMax <= BufInit
    /\ FileSizes \subseteq Nat /\ Known \subseteq Int
    /\ SizeAt \in Nat \ {0} /\ Fields \in Nat /\ SizeAt < Fields

Spaces == {"sp", "cr", "nl"}
LineEnds == {"cr", "nl"}

VARIABLES
    kind,       \* "list", "file" or "view"
    listing,    \* what the server lists: lines, and their line end
    src,        \* what it sends
    pos,        \* how much of it was received
    lost,       \* a packet was dropped: realloc failed
    rbuf,       \* struct recvbuf: the bytes, whose number is size, and bufsz
    dirent,     \* the directory after a listing
    xfer,       \* struct ftp_transfer: out (fp or mem), total, count
    mark,       \* the 150 reply with the size: "due", "read", "late", "none"
    view,       \* what the viewer was opened with
    pc          \* "open", then "done"

vars == <<kind, listing, src, pos, lost, rbuf, dirent, xfer, mark, view, pc>>

-----------------------------------------------------------------------------
\* the lines of a listing as "ls -l" prints them
Render(line, eol) ==
    FlattenSeq([i \in 1..Fields |-> <<IF i = 1 THEN Mode[line.type]
                                      ELSE IF i = SizeAt + 1 THEN line.size ELSE "f",
                                      "sp">>])
    \o (IF line.type = "total" THEN << >> ELSE line.name)
    \o (IF line.type = "link" THEN <<"sp", "->", "sp", "f">> ELSE << >>)
    \o eol

-----------------------------------------------------------------------------
\* the least of some places in the text, or else
Least(at, else) == IF at = {} THEN else ELSE CHOOSE k \in at : \A j \in at : k <= j

\* strchr: 0 if the character does not come before a "nul"
StrChr(m, i, c) ==
    LET k == Least({k \in i..Len(m) : m[k] \in {c, "nul"}}, 0)
    IN  IF k # 0 /\ m[k] = c THEN k ELSE 0

\* SKIP_FIELD: a word and the space after it, within the line
SkipField(m, p) ==
    LET gap == Least({k \in p..Len(m) : m[k] \in Spaces \union {"nul"}}, Len(m))
    IN  Least({k \in gap..Len(m) : m[k] \notin Spaces \/ m[k] = "nl"}, Len(m))

SkipFields(m, p, n) ==
    LET ptr[k \in 0..n] == IF k = 0 THEN p ELSE SkipField(m, ptr[k - 1])
    IN  ptr[n]

\* where the name ends: before the arrow of a link and the space before that.
\* Faulty form: before the arrow.
NameEndArrow(m, name, end) == Least({k \in name..(end - 1) : m[k] = "->"}, end)
NameEnd(m, name, end) ==
    LET arrow == Least({k \in name..(end - 1) : m[k] = "->"}, end)
    IN  IF arrow = end THEN end
        ELSE CHOOSE e \in name..arrow :
                /\ \A k \in e..(arrow - 1) : k > name /\ m[k] \in Spaces
                /\ e - 1 > name => m[e - 1] \notin Spaces

\* parse_dirent of the line at i, as a sequence of one entry or none.  The size
\* of a directory is not set.
ParseDirent(m, i) ==
    LET cr == StrChr(m, i, "cr")
        end == IF cr # 0 THEN cr ELSE StrChr(m, i, "nl")
        type == IF m[i] = "d" THEN "dir" ELSE "file"
        num == m[SkipFields(m, i, SizeAt)]
        name == SkipFields(m, i, Fields)
        to == NameEnd(m, name, end)
    IN  IF end = 0 \/ name >= end \/ to <= name THEN << >>
        ELSE <<[type |-> type, name |-> SubSeq(m, name, to - 1),
                size |-> IF type = "dir" THEN 0
                         ELSE IF num \in DOMAIN Atoi THEN Atoi[num] ELSE 0]>>

\* where the loop of dproc_list calls it
Starts(buf) ==
    {i \in DOMAIN buf : i > 1 => buf[i - 1] \in LineEnds /\ buf[i] \notin LineEnds}

\* ftp_direntcmp: directories first, then by name
Code == [b \in ToSet(Order) |-> CHOOSE i \in DOMAIN Order : Order[i] = b]

StrLess(s, t) ==
    \E k \in 1..Len(t) :
        /\ \A j \in 1..(k - 1) : j <= Len(s) /\ s[j] = t[j]
        /\ k <= Len(s) => Code[s[k]] < Code[t[k]]

DirentLess(a, b) ==
    IF a.type = b.type THEN StrLess(a.name, b.name) ELSE a.type = "dir"

\* the entries in what was received; behind it, memory holds tail
Found(buf, tail) ==
    LET starts == Starts(buf)
    IN  FlattenSeq([i \in DOMAIN buf |->
                       IF i \in starts THEN ParseDirent(buf \o tail, i) ELSE << >>])

\* what qsort may make of them: it leaves open which of two equal ones is first
Sortings(ents) ==
    {[k \in DOMAIN ents |-> ents[p[k]]] :
        p \in {q \in Bijection(DOMAIN ents, DOMAIN ents) :
                  \A i, j \in DOMAIN ents : i < j => ~DirentLess(ents[q[j]], ents[q[i]])}}

-----------------------------------------------------------------------------
\* the size of the buffer for n bytes more.  Faulty form: it grows when it is
\* full already.
GrownLate(n) == IF Len(rbuf.buf) > rbuf.bufsz THEN 2 * rbuf.bufsz ELSE rbuf.bufsz
Grown(n) == IF Len(rbuf.buf) + n > rbuf.bufsz THEN 2 * rbuf.bufsz ELSE rbuf.bufsz

\* dproc_list with n bytes; ok is whether realloc, if called, succeeds (bound:
\* it fails once)
RecvList(n, ok) ==
    /\ kind = "list"
    /\ ok \/ ~lost
    /\ pos' = pos + n
    /\ IF Grown(n) = rbuf.bufsz \/ ok
       THEN /\ rbuf' = [buf |-> rbuf.buf \o SubSeq(src, pos + 1, pos + n), bufsz |-> Grown(n)]
            /\ UNCHANGED lost
       ELSE lost' = TRUE /\ UNCHANGED rbuf
    /\ UNCHANGED <<kind, listing, src, dirent, xfer, mark, view, pc>>

\* dproc_list at the end of the data
EofList(tail) ==
    /\ kind = "list"
    /\ dirent' \in Sortings(Found(rbuf.buf, tail))
    /\ pc' = "done"
    /\ UNCHANGED <<kind, listing, src, pos, lost, rbuf, xfer, mark, view>>

-----------------------------------------------------------------------------
\* the count after n more bytes.  Faulty form: the n bytes are all there is.
CountLast(n) == IF n > xfer.total THEN xfer.total ELSE n
Count(n) == IF xfer.count + n > xfer.total THEN xfer.total ELSE xfer.count + n

\* dproc_xfer with n bytes
RecvXfer(n) ==
    /\ kind # "list"
    /\ pos' = pos + n
    /\ xfer' = [xfer EXCEPT !.out = @ \o SubSeq(src, pos + 1, pos + n), !.count = Count(n)]
    /\ UNCHANGED <<kind, listing, src, lost, rbuf, dirent, mark, view, pc>>

\* cproc_xfer: the server's 150 tells how long the file is
Reply150 ==
    /\ kind # "list"
    /\ mark = "due"
    /\ mark' = IF pos = 0 THEN "read" ELSE "late"
    /\ xfer' = [xfer EXCEPT !.total = Len(src)]
    /\ UNCHANGED <<kind, listing, src, pos, lost, rbuf, dirent, view, pc>>

\* dproc_xfer at the end of the data: the file is closed, or view_done opens
\* the viewer on what was counted.  Faulty form: on what should have come.
ViewedTotal == xfer.total
Viewed == xfer.count

EofXfer ==
    /\ kind # "list"
    /\ view' = IF kind = "view" /\ Viewed > 0
               THEN [data |-> xfer.out, size |-> Viewed] ELSE view
    /\ pc' = "done"
    /\ UNCHANGED <<kind, listing, src, pos, lost, rbuf, dirent, xfer, mark>>

-----------------------------------------------------------------------------
Eols == {<<"cr", "nl">>, <<"nl">>}

\* what memory may hold behind the buffer, as far as strchr looks
Tails == {<<"nul">>, <<"cr", "nul">>, <<"nl", "nul">>}

NoView == [data |-> << >>, size |-> 0]

\* the callback is installed and the connection open
Init ==
    /\ kind \in {"list", "file", "view"}
    /\ listing \in IF kind = "list" THEN [lines : Listings, eol : Eols]
                   ELSE {[lines |-> << >>, eol |-> << >>]}
    /\ \E size \in FileSizes :
          src = IF kind = "list"
                THEN FlattenSeq([i \in DOMAIN listing.lines |->
                                    Render(listing.lines[i], listing.eol)])
                ELSE [i \in 1..size |-> i]
    /\ \E total \in IF kind = "list" THEN {0} ELSE Known :
          xfer = [out |-> << >>, total |-> total, count |-> 0]
    /\ mark \in IF kind = "list" THEN {"none"} ELSE {"due", "none"}
    /\ rbuf = [buf |-> << >>, bufsz |-> BufInit]
    /\ pos = 0 /\ lost = FALSE /\ dirent = << >> /\ view = NoView /\ pc = "open"

\* the server may close the connection before it sent everything
Next ==
    /\ pc = "open"
    /\ \/ \E n \in 1..PacketMax : /\ pos + n <= Len(src)
                                  /\ RecvXfer(n) \/ \E ok \in BOOLEAN : RecvList(n, ok)
       \/ \E tail \in Tails : EofList(tail)
       \/ Reply150
       \/ EofXfer

Spec == Init /\ [][Next]_vars

-----------------------------------------------------------------------------
\* Types; and no packet runs over the end of the receive buffer, although it is
\* doubled once only, however long the packet is.
TypeOK ==
    /\ kind \in {"list", "file", "view"}
    /\ pos \in 0..Len(src)
    /\ lost \in BOOLEAN
    /\ rbuf.bufsz \in Nat /\ Len(rbuf.buf) <= rbuf.bufsz
    /\ xfer.total \in Int /\ xfer.count \in Int
    /\ mark \in {"due", "read", "late", "none"}
    /\ pc \in {"open", "done"}

\* the entries of lines, as the server means them
Meant(lines) ==
    FlattenSeq([i \in DOMAIN lines |->
        IF lines[i].type = "total" THEN << >>
        ELSE <<[type |-> IF lines[i].type = "dir" THEN "dir" ELSE "file",
                name |-> lines[i].name,
                size |-> IF lines[i].type = "dir" THEN 0 ELSE Atoi[lines[i].size]]>>])

\* what a name must be like to be told from the rest of its line: it is not
\* empty, does not begin with a space nor, for a link, end with one, and has no
\* arrow and no line end in it
Legible(line) ==
    line.type # "total" =>
        /\ line.name # << >> /\ line.name[1] \notin Spaces
        /\ \A k \in DOMAIN line.name : line.name[k] \notin LineEnds \union {"nul", "->"}
        /\ line.type = "link" => line.name[Len(line.name)] \notin Spaces

\* how many lines arrived with their line end
Whole ==
    CHOOSE w \in 0..Len(listing.lines) :
        LET upto(k) == Len(FlattenSeq([i \in 1..k |-> Render(listing.lines[i], listing.eol)]))
        IN  upto(w) <= pos /\ (w < Len(listing.lines) => upto(w + 1) > pos)

\* However the listing is cut into packets, and also when the connection breaks
\* within it, every line that arrived is an entry with its name, type and size,
\* links without their target, sorted; at most the broken line adds one.  This
\* is for servers that end lines with cr nl; the others' depend on memory behind
\* the buffer, which strchr looks at.
ListsAll ==
    kind = "list" /\ pc = "done" /\ ~lost /\ listing.eol = <<"cr", "nl">>
    /\ (\A i \in DOMAIN listing.lines : Legible(listing.lines[i])) =>
        LET sure == Meant(SubSeq(listing.lines, 1, Whole))
        IN  /\ \A i \in DOMAIN sure : sure[i] \in ToSet(dirent)
            /\ \A i, j \in DOMAIN dirent : i < j => ~DirentLess(dirent[j], dirent[i])
            /\ IF pos = Len(src) THEN dirent \in Sortings(sure)
               ELSE Len(dirent) <= Len(sure) + 1

\* The viewer is never given more bytes than were received.
ViewInside == view.size <= Len(view.data)

\* The viewer shows the whole file, and the progress gets to its end, if the
\* listing did not understate its size, or the server's 150 came first.
ViewWhole ==
    /\ kind = "view" /\ pc = "done"
    /\ xfer.total >= Len(src)
    /\ mark # "late"
    => xfer.count = pos /\ view = [data |-> SubSeq(src, 1, pos), size |-> pos]
=============================================================================
