------------------------------- MODULE CtlRecv -------------------------------
(***************************************************************************)
(* The buffer of the control connection (handle_control in src/ftp.c).     *)
(* recv appends what has arrived to crecv, each line end in it calls       *)
(* proc_control, and an unfinished line is kept for the next recv - if the *)
(* same recv completed a line before it.  A byte is the line it is of, its *)
(* position in it and whether it is the line end; what lines say is        *)
(* FtpClient's, whose CtlLine is ProcLine here and whose CtlNoReply        *)
(* ("split") is a fragment that EndRecv throws away.                       *)
(*                                                                         *)
(* handle_control is one loop on one buffer: FtpClient's NotReentered says *)
(* that no proc_control gets back here before it returned.                 *)
(***************************************************************************)
EXTENDS Integers, Sequences

CONSTANTS
    BufSize,    \* sizeof crecv (256 in the code)
    Lens,       \* how long lines are, line end included
    MaxLines    \* bound: how many lines the server sends

ASSUME CtlAssumption == /\ BufSize \in Nat \ {0} /\ MaxLines \in Nat
                        /\ Lens \subseteq Nat \ {0}

Byte == [line : Nat, pos : Nat, nl : BOOLEAN]

VARIABLES
    tidy,       \* lines fit crecv, and recv finds what was sent as a whole
    sent,       \* how many lines the server sent
    up,         \* the server has not closed the connection
    sock,       \* the bytes on their way
    crecv,      \* the bytes in crecv from buf on; num_crecv is their number
    lined,      \* whether this recv completed a line (buf is not crecv)
    got,        \* the lines proc_control was called with
    ctl,        \* the control socket: 1, or -1
    pc          \* "select"; "recv" or "scan" in handle_control

vars == <<tidy, sent, up, sock, crecv, lined, got, ctl, pc>>

-----------------------------------------------------------------------------
LineBytes(n, len) == [k \in 1..len |-> [line |-> n, pos |-> k, nl |-> k = len]]

\* the server writes a line
Send(len) ==
    /\ up
    /\ sent < MaxLines
    /\ tidy => len <= BufSize
    /\ sent' = sent + 1
    /\ sock' = sock \o LineBytes(sent + 1, len)
    /\ UNCHANGED <<tidy, up, crecv, lined, got, ctl, pc>>

Hangup ==
    /\ up
    /\ up' = FALSE
    /\ UNCHANGED <<tidy, sent, sock, crecv, lined, got, ctl, pc>>

-----------------------------------------------------------------------------
\* what is left of crecv when it is full: the branch that discards it
Room(buf) == IF BufSize - Len(buf) <= 0 THEN << >> ELSE buf

\* how many bytes recv may return: what has arrived, and fits.  Faulty form:
\* recv is given the size of the whole buffer.
SizesWhole(buf) == 1..(IF Len(sock) < BufSize THEN Len(sock) ELSE BufSize)
Sizes(buf) ==
    LET max == IF Len(sock) < BufSize - Len(buf) THEN Len(sock)
               ELSE BufSize - Len(buf)
    IN  IF tidy THEN {max} ELSE 1..max

\* one recv that returns bytes
Recv ==
    /\ pc # "scan"
    /\ ctl = 1
    /\ sock # << >>
    /\ LET buf == Room(crecv)
       IN  \E rd \in Sizes(buf) :
            /\ crecv' = buf \o SubSeq(sock, 1, rd)
            /\ sock' = SubSeq(sock, rd + 1, Len(sock))
    /\ lined' = FALSE
    /\ pc' = "scan"
    /\ UNCHANGED <<tidy, sent, up, got, ctl>>

Ended(buf) == \E i \in 1..Len(buf) : buf[i].nl

\* where the line ends.  Faulty form: at the last line end there is.
LastEnd(buf) ==
    CHOOSE i \in 1..Len(buf) : buf[i].nl /\ \A j \in (i + 1)..Len(buf) : ~buf[j].nl
FirstEnd(buf) ==
    CHOOSE i \in 1..Len(buf) : buf[i].nl /\ \A j \in 1..(i - 1) : ~buf[j].nl

\* the next line end: proc_control, whose callback may close the connection
\* (cproc_active); the rest of the buffer is scanned all the same
ProcLine ==
    /\ pc = "scan"
    /\ Ended(crecv)
    /\ got' = Append(got, SubSeq(crecv, 1, FirstEnd(crecv)))
    /\ crecv' = SubSeq(crecv, FirstEnd(crecv) + 1, Len(crecv))
    /\ lined' = TRUE
    /\ ctl' \in {ctl, -1}
    /\ UNCHANGED <<tidy, sent, up, sock, pc>>

\* what is kept for the next recv.  Faulty forms: a fragment is kept although it
\* may be the whole buffer; one that follows a line is dropped.
KeptAlways(buf, any) == buf
KeptNever(buf, any) == << >>
Kept(buf, any) == IF any THEN buf ELSE << >>

\* the scan is at the end of what recv returned
EndRecv ==
    /\ pc = "scan"
    /\ ~Ended(crecv)
    /\ crecv' = Kept(crecv, lined)
    /\ pc' = "recv"
    /\ UNCHANGED <<tidy, sent, up, sock, lined, got, ctl>>

\* recv has nothing for now, or the socket is closed
Again ==
    /\ pc = "recv"
    /\ ~tidy \/ sock = << >> \/ ctl = -1
    /\ pc' = "select"
    /\ UNCHANGED <<tidy, sent, up, sock, crecv, lined, got, ctl>>

\* recv says the server closed the connection: ftp_close
Eof ==
    /\ pc # "scan"
    /\ ctl = 1
    /\ sock = << >>
    /\ ~up
    /\ ctl' = -1
    /\ crecv' = << >>
    /\ pc' = "select"
    /\ UNCHANGED <<tidy, sent, up, sock, lined, got>>

-----------------------------------------------------------------------------
\* after ftp_connect
Init ==
    /\ tidy \in BOOLEAN
    /\ sent = 0
    /\ up = TRUE
    /\ sock = << >>
    /\ crecv = << >>
    /\ lined = FALSE
    /\ got = << >>
    /\ ctl = 1
    /\ pc = "select"

Client == Recv \/ ProcLine \/ EndRecv \/ Again \/ Eof

Next == (\E len \in Lens : Send(len)) \/ Hangup \/ Client

Spec == Init /\ [][Next]_vars

\* handle_control runs on, and main and ftp_waitresp select the socket again
FairSpec == Spec /\ WF_vars(Client)

-----------------------------------------------------------------------------
\* Types; and what recv writes stays within crecv.
TypeOK ==
    /\ tidy \in BOOLEAN
    /\ sent \in Nat
    /\ up \in BOOLEAN
    /\ sock \in Seq(Byte)
    /\ crecv \in Seq(Byte) /\ Len(crecv) <= BufSize
    /\ lined \in BOOLEAN
    /\ got \in Seq(Seq(Byte))
    /\ ctl \in {1, -1}
    /\ pc \in {"select", "recv", "scan"}

\* handle_control never calls recv with a full buffer, so that the branch that
\* discards it is dead: what is kept follows a line in the same buffer.
RoomLeft == pc # "scan" => Len(crecv) < BufSize

\* the byte a line that proc_control got starts at, 0 when it is not one line
From(bs) ==
    LET n == Len(bs)
    IN  IF \A i \in 1..n : bs[i] = [line |-> bs[n].line, nl |-> i = n,
                                    pos |-> bs[1].pos + i - 1]
        THEN bs[1].pos ELSE 0

Calls == [i \in 1..Len(got) |-> [line |-> got[i][Len(got[i])].line, from |-> From(got[i])]]

Lines == INSTANCE LineStream WITH got <- Calls

\* handle_control implements LineStream, however recv cuts the stream: lines
\* come in order and unmixed, and all of them whole if the connection is tidy.
DeliversLines == Lines!Spec

\* On a tidy connection every line reaches proc_control, also when the buffer's
\* end cut it in two, unless a callback closed the connection.
EveryLine ==
    \A n \in 1..MaxLines : (tidy /\ sent >= n) ~> (Len(got) >= n \/ ctl = -1)
=============================================================================
