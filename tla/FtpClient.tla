----------------------------- MODULE FtpClient -----------------------------
(***************************************************************************)
(* The FTP protocol engine of visftp (src/ftp.c), driven by the main loop  *)
(* and the key handlers that queue operations on it (src/main.c), against  *)
(* an FTP server (external, modelled from the commands ftp.c sends and the *)
(* replies it handles; the protocol is doc/ftp.txt, RFC 959).              *)
(*                                                                         *)
(* The client is one thread.  Its variable ftp is struct ftp plus what the *)
(* C stack and the kernel hold for it: the exchanges under way on the      *)
(* control connection (wire), the operations blocked in ftp_waitresp       *)
(* (wait) and whether the process died (fault).  Every C function that     *)
(* changes struct ftp is an operator from a record to a record, named and  *)
(* composed as in the source; the actions say when the main loop, or the   *)
(* nested loop of ftp_waitresp, calls them.  What a system call may answer *)
(* (sk: socket/bind, conn: connect, mem: a freed block) is a parameter the *)
(* actions quantify.                                                       *)
(***************************************************************************)
EXTENDS Integers, Sequences, FiniteSets

CONSTANTS
    Dirs,       \* the directories of the server
    Home,       \* the one a session starts in, and the parent of the others
    Names,      \* the file names every directory holds
    MaxXfer,    \* bound: how many transfers the user asks for
    StartDir,   \* the start directory of visftp.srv, or NoArg
    Env,        \* what else than a cooperative session may happen
    Pace,       \* "calm" or "eager": when the user presses keys
    RecvMax,    \* the data packets one ftp_handle call reads (4 in the code)
    MaxQueue,   \* bound: the user queues nothing behind this many operations
    Chunks      \* bound: the packets a listing or a file is sent in

NoSock == -1
Open == 1
NoArg == "none"
NoXfer == 0
Rbuf == -1      \* cproc_cls and dproc_cls point to a struct recvbuf
Ls == "ls"      \* stands for the listing among the names of a directory
Eof == <<"eof">>

EnvFlags == {"earlykeys", "reject", "abort", "nopasv", "noport", "noconn",
             "nosock", "timeout", "split", "multiline", "idle421", "drop",
             "predial", "crossed", "badlogin", "dataclose"}

ASSUME DirsAssumption == Home \in Dirs /\ NoArg \notin Dirs
                         /\ StartDir \in Dirs \cup {NoArg}
ASSUME NamesAssumption == Ls \notin Names
ASSUME EnvAssumption == Env \subseteq EnvFlags /\ Pace \in {"calm", "eager"}
ASSUME BoundAssumption == /\ MaxXfer \in Nat /\ Chunks \in Nat
                          /\ MaxQueue \in Nat /\ RecvMax \in Nat \ {0}

Xfers == 1..MaxXfer
Sources == Dirs \X (Names \cup {Ls})
Args == Dirs \cup {NoArg}

(***************************************************************************)
(* struct ftp_op: op, arg and data.                                        *)
(***************************************************************************)
OpCodes == {"TYPE", "PWD", "CHDIR", "CDUP", "MKDIR", "RMDIR", "DEL", "LIST",
            "RETR", "STORE", "XFER"}
FtpOp == {o \in [op : OpCodes, arg : Args, data : Xfers \cup {NoXfer}] :
            /\ o.op = "XFER" => o.data \in Xfers
            /\ o.op = "CHDIR" => o.arg \in Dirs}
DataOp == {o \in FtpOp : o.op \in {"LIST", "XFER"}}
Op(op, arg) == [op |-> op, arg |-> arg, data |-> NoXfer]
XferOp(x) == [op |-> "XFER", arg |-> NoArg, data |-> x]

(***************************************************************************)
(* An exchange on the control connection: the command, the state of its    *)
(* preliminary reply (mark) and its final reply code, 0 until the server   *)
(* answers.  wire holds the exchanges whose final reply the client has not *)
(* read, oldest first.                                                     *)
(***************************************************************************)
Cmds == {"greet", "user", "pass", "type", "pwd", "cwd", "cdup", "pasv",
         "port", "list", "retr", "idle"}
LoginCmds == {"greet", "user", "pass"}
Codes == {0, 200, 220, 226, 227, 230, 250, 257, 331, 421, 425, 426, 502, 530,
          550}
Exchange == {e \in [cmd : Cmds, arg : Args, data : Xfers \cup {NoXfer},
                    mark : {"none", "sent", "read"}, code : Codes] :
                /\ e.cmd = "retr" => e.data \in Xfers
                /\ e.cmd = "cwd" => e.arg \in Dirs}
Exch(cmd, arg, x) ==
    [cmd |-> cmd, arg |-> arg, data |-> x, mark |-> "none", code |-> 0]

Cprocs == {"none", "active", "pasv", "pwd", "cwd", "list", "xfer"}
Dprocs == {"none", "list", "xfer"}

FtpState ==
    [ctl : {NoSock, Open}, lis : {NoSock, Open}, data : {NoSock, Open},
     status : {"DISC", "PASV", "ACT"}, busy : Int, passive : {0, 1},
     queue : Seq(FtpOp), cproc : Cprocs, dproc : Dprocs,
     cls : Xfers \cup {NoXfer, Rbuf}, rbuf : Seq(Sources),
     curdir : Args, dirent : Seq(Sources),
     wire : Seq(Exchange), wait : Seq(DataOp),
     fault : {"none", "abort", "badfd", "crash"}]

(***************************************************************************)
(* struct ftp_transfer: the block (st), the entry the user picked (dir,    *)
(* name) and what was written to the local file (got).                     *)
(***************************************************************************)
Transfer == [st : {"none", "live", "freed", "reused"}, dir : Args,
             name : Names \cup {Ls}, got : Seq(Sources)]

SrvState == [up : {0, 1}, auth : {0, 1}, cwd : Dirs,
             conn : {"none", "listen", "open"}, src : Sources, left : Nat]

VARIABLES
    ftp,        \* struct ftp, and what stack and kernel hold for it
    xfer,       \* the blocks allocated by act_transfer
    curXfer,    \* cur_xfer, the transfer the status line shows
    pc,         \* where the thread is: in select, handle_control, handle_data
                \* or back in prepare_data after ftp_waitresp ("resume")
    nrecv,      \* i of the receive loop of handle_data
    startDir,   \* srv->dir, until main queued it
    srv,        \* the server
    dwire       \* the packets on their way on the data connection

vars == <<ftp, xfer, curXfer, pc, nrecv, startDir, srv, dwire>>

-----------------------------------------------------------------------------
(***************************************************************************)
(* ftp.c: sending commands and running operations                          *)
(***************************************************************************)

\* sendcmd counts the command in busy, and sends nothing without a connection
SendCmd(f, cmd, arg, x) ==
    IF f.ctl = NoSock THEN f
    ELSE [f EXCEPT !.busy = @ + 1, !.wire = Append(@, Exch(cmd, arg, x))]

FtpClose(f) == [f EXCEPT !.ctl = NoSock, !.lis = NoSock, !.data = NoSock]

FtpActive(f, sk) ==
    LET g == [f EXCEPT !.data = NoSock,
                       !.lis = IF sk = "ok" THEN Open ELSE NoSock]
    IN  IF sk = "ok"
        THEN [SendCmd(g, "port", NoArg, NoXfer) EXCEPT !.cproc = "active"]
        ELSE g

FtpPassive(f) ==
    LET g == [f EXCEPT !.lis = NoSock, !.data = NoSock]
    IN  [SendCmd(g, "pasv", NoArg, NoXfer) EXCEPT !.cproc = "pasv"]

\* what ftp_list and ftp_transfer do once prepare_data succeeded.  Faulty forms:
\* the data connection is not counted, cls is not set.
StartListUncounted(f) ==
    [SendCmd(f, "list", NoArg, NoXfer) EXCEPT
        !.cproc = "list", !.dproc = "list", !.cls = Rbuf, !.rbuf = << >>]

StartXferNoCls(f, x) ==
    [SendCmd(f, "retr", NoArg, x) EXCEPT
        !.cproc = "xfer", !.dproc = "xfer", !.busy = @ + 1]

StartList(f) ==
    [SendCmd(f, "list", NoArg, NoXfer) EXCEPT
        !.cproc = "list", !.dproc = "list", !.cls = Rbuf, !.rbuf = << >>,
        !.busy = @ + 1]

StartXfer(f, x) ==
    [SendCmd(f, "retr", NoArg, x) EXCEPT
        !.cproc = "xfer", !.dproc = "xfer", !.cls = x, !.busy = @ + 1]

StartTransfer(f, op) ==
    IF op.op = "LIST" THEN StartList(f) ELSE StartXfer(f, op.data)

\* prepare_data and the rest of ftp_list or ftp_transfer.  In passive mode the
\* operation goes on the stack of ftp_waitresp and is finished by Resume; in
\* active mode data is closed when prepare_data tests it, so it is dropped.
PrepareData(f, op, sk) ==
    IF f.data # NoSock THEN StartTransfer(f, op)
    ELSE IF f.passive = 1
         THEN [FtpPassive(f) EXCEPT !.wait = <<op>> \o @]
         ELSE FtpActive(f, sk)

\* the second half of prepare_data: ftp_waitresp returned to the operation on
\* top of the stack, whatever it returned
FinishPrepare(f) ==
    LET g == [f EXCEPT !.wait = Tail(@)]
    IN  IF f.data = NoSock THEN g ELSE StartTransfer(g, Head(f.wait))

FtpPwd(f) == [SendCmd(f, "pwd", NoArg, NoXfer) EXCEPT !.cproc = "pwd"]

FtpChdir(f, cmd, dir) == [SendCmd(f, cmd, dir, NoXfer) EXCEPT !.cproc = "cwd"]

\* ftp_type leaves cproc alone; mkdir, rmdir, delete, retrieve and store are
\* stubs that return -1
ExecOp(f, op, sk) ==
    CASE op.op = "TYPE" -> SendCmd(f, "type", NoArg, NoXfer)
      [] op.op = "PWD" -> FtpPwd(f)
      [] op.op = "CHDIR" -> FtpChdir(f, "cwd", op.arg)
      [] op.op = "CDUP" -> FtpChdir(f, "cdup", NoArg)
      [] op.op \in {"LIST", "XFER"} -> PrepareData(f, op, sk)
      [] OTHER -> f

ExecQueued(f, sk) ==
    IF f.queue = << >> THEN f
    ELSE ExecOp([f EXCEPT !.queue = Tail(@)], Head(f.queue), sk)

\* ftp_queue and ftp_queue_transfer: run at once when idle, else queue.
FtpQueue(f, op, sk) ==
    IF f.busy = 0 /\ f.queue = << >> THEN ExecOp(f, op, sk)
    ELSE [f EXCEPT !.queue = Append(@, op)]

\* the end of ftp_handle, after the socket was served.  Faulty form: the queue
\* runs on although commands are outstanding.
HandleTailBusy(f, sk) ==
    IF f.busy < 0 THEN [f EXCEPT !.fault = "abort"] ELSE ExecQueued(f, sk)

HandleTail(f, sk) ==
    CASE f.busy > 0 -> f
      [] f.busy < 0 -> [f EXCEPT !.fault = "abort"]
      [] OTHER -> ExecQueued(f, sk)

-----------------------------------------------------------------------------
(***************************************************************************)
(* ftp.c: reply processing.  Each Cproc is the callback of that name       *)
(* together with the decrement of busy that proc_control makes for it.     *)
(***************************************************************************)
Answered(f) == [f EXCEPT !.busy = @ - 1]

CprocActive(f, code) ==
    Answered(IF code # 200 THEN FtpClose(f) ELSE [f EXCEPT !.status = "ACT"])

\* every way out of nopasv gives passive mode up for the session.  Faulty form:
\* it does not.
CprocPasvRetry(f, code, conn, sk) ==
    Answered(IF code = 227 /\ conn = "ok"
             THEN [f EXCEPT !.data = Open, !.status = "PASV"]
             ELSE FtpActive(f, sk))

CprocPasv(f, code, conn, sk) ==
    Answered(IF code = 227 /\ conn = "ok"
             THEN [f EXCEPT !.data = Open, !.status = "PASV"]
             ELSE FtpActive([f EXCEPT !.passive = 0], sk))

CprocPwd(f, code, dir) ==
    Answered(IF code # 257 THEN f ELSE [f EXCEPT !.curdir = dir])

\* faulty form: the new directory is not listed
CprocCwdNoList(f, code, sk) ==
    Answered(IF code # 250 THEN f ELSE FtpQueue(f, Op("PWD", NoArg), sk))

CprocCwd(f, code, sk) ==
    Answered(IF code # 250 THEN f
             ELSE FtpQueue(FtpQueue(f, Op("PWD", NoArg), sk),
                           Op("LIST", NoArg), sk))

\* cproc_list and cproc_xfer expect more after a preliminary reply
CprocTransfer(f, code) == IF code < 200 THEN f ELSE Answered(f)

\* the replies that make cproc_xfer write to, or end, the transfer.  Faulty
\* form: any final reply ends it.
EndsXferFinal(code) == code >= 200
EndsXfer(code) == code >= 400

\* Faulty form of newconn: the listing is asked for first.
NewConnListFirst(f, sk) ==
    FtpQueue(FtpQueue(f, Op("LIST", NoArg), sk), Op("PWD", NoArg), sk)

NewConn(f, sk) ==
    FtpQueue(FtpQueue(FtpQueue(f, Op("TYPE", NoArg), sk),
                      Op("PWD", NoArg), sk),
             Op("LIST", NoArg), sk)

\* proc_control before any operation has set cproc.  Faulty form: busy is
\* cleared after the command was sent.
LoginClearLate(f, code, sk) ==
    CASE code = 220 -> [SendCmd(f, "user", NoArg, NoXfer) EXCEPT !.busy = 0]
      [] code = 331 -> [SendCmd(f, "pass", NoArg, NoXfer) EXCEPT !.busy = 0]
      [] code = 230 -> NewConn([f EXCEPT !.busy = 0], sk)
      [] code = 530 -> [f EXCEPT !.status = "DISC", !.busy = 0]
      [] OTHER -> [f EXCEPT !.busy = 0]

Login(f, code, sk) ==
    LET g == [f EXCEPT !.busy = 0]
    IN  CASE code = 220 -> SendCmd(g, "user", NoArg, NoXfer)
          [] code = 331 -> SendCmd(g, "pass", NoArg, NoXfer)
          [] code = 230 -> NewConn(g, sk)
          [] code = 530 -> [g EXCEPT !.status = "DISC"]
          [] OTHER -> g

ProcControl(f, code, dir, conn, sk) ==
    CASE f.cproc = "none" -> Login(f, code, sk)
      [] f.cproc = "active" -> CprocActive(f, code)
      [] f.cproc = "pasv" -> CprocPasv(f, code, conn, sk)
      [] f.cproc = "pwd" -> CprocPwd(f, code, dir)
      [] f.cproc = "cwd" -> CprocCwd(f, code, sk)
      [] OTHER -> CprocTransfer(f, code)

-----------------------------------------------------------------------------
(***************************************************************************)
(* ftp.c: the data connection.                                             *)
(***************************************************************************)
\* faulty form: the end of the listing is not counted down
DprocListKeepBusy(f, item) ==
    IF item = Eof
    THEN [f EXCEPT !.dirent = f.rbuf, !.rbuf = << >>, !.dproc = "none"]
    ELSE [f EXCEPT !.rbuf = Append(@, item)]

DprocList(f, item) ==
    IF item = Eof
    THEN [f EXCEPT !.dirent = f.rbuf, !.rbuf = << >>, !.dproc = "none",
                   !.busy = @ - 1]
    ELSE [f EXCEPT !.rbuf = Append(@, item)]

\* mem: whether the block still reads as the transfer it was
DprocXfer(f, item, mem) ==
    IF item = Eof /\ mem = "intact" THEN [f EXCEPT !.busy = @ - 1] ELSE f

\* one turn of the receive loop of handle_data: callback first, then the close
RecvData(f, item, mem) ==
    LET g == CASE f.dproc = "list" -> DprocList(f, item)
               [] f.dproc = "xfer" -> DprocXfer(f, item, mem)
               [] OTHER -> f
    IN  IF item = Eof THEN [g EXCEPT !.data = NoSock] ELSE g

-----------------------------------------------------------------------------
(***************************************************************************)
(* The transfers, which belong to main.c.                                  *)
(***************************************************************************)

\* a callback reads or writes the block of x; end: it calls xfer->done, which
\* frees it
UseXfer(x, end) ==
    [xfer EXCEPT ![x].st =
        IF @ # "live" THEN "reused" ELSE IF end THEN "freed" ELSE @]

\* dproc_xfer on the blocks: a packet is written, the end calls xfer_done.
\* Faulty form: it does not.
RecvXferNoDone(x, item) ==
    IF item # Eof /\ xfer[x].st = "live"
    THEN [xfer EXCEPT ![x].got = Append(@, item)] ELSE xfer

RecvXfer(x, item) ==
    IF item # Eof /\ xfer[x].st = "live"
    THEN [xfer EXCEPT ![x].got = Append(@, item)]
    ELSE UseXfer(x, item = Eof)

\* xfer_done clears cur_xfer, whichever transfer ends.  Faulty form: only when
\* the status line shows another one.
CurAfterDoneOther(x) == IF curXfer = x THEN curXfer ELSE NoXfer
CurAfterDone(x) == NoXfer

SockOutcomes == {"ok"} \cup (IF "nosock" \in Env THEN {"fail"} ELSE {})
ConnOutcomes == {"ok"} \cup (IF "noconn" \in Env THEN {"fail"} ELSE {})
MemOutcomes(x) == IF x \in Xfers /\ xfer[x].st # "live"
                  THEN {"intact", "garbage"} ELSE {"intact"}

-----------------------------------------------------------------------------
(***************************************************************************)
(* The thread: the main loop and the nested loop of ftp_waitresp.          *)
(***************************************************************************)
Alive == ftp.fault = "none"

\* main queues the start directory at the end of the first iteration that
\* finds the session's status set
StartDirDue == pc = "select" /\ ftp.wait = << >> /\ startDir # NoArg
               /\ ftp.status # "DISC"

AtSelect == Alive /\ pc = "select" /\ ~StartDirDue
AtMainSelect == AtSelect /\ ftp.wait = << >>

HasReply(f) == f.wire # << >> /\ (Head(f.wire).mark = "sent" \/ Head(f.wire).code # 0)

\* handle_control has something to read, or is in the middle of its loop
InControl == \/ AtSelect /\ ftp.ctl = Open
             \/ Alive /\ pc = "ctl"

\* where ftp_handle returns to: f is the state it was called in, g the result
AfterHandle(f, g) ==
    IF f.wait = << >> \/ Len(g.wait) > Len(f.wait) THEN "select" ELSE "resume"

\* a data connection the client opened (a fresh one may replace an open one) or
\* closed is seen by the server
LinkData(f, g, fresh) ==
    LET opened == g.data = Open /\ (f.data = NoSock \/ fresh)
        closed == g.data = NoSock /\ f.data = Open
    IN  /\ srv' = IF opened THEN [srv EXCEPT !.conn = "open"]
                  ELSE IF closed THEN [srv EXCEPT !.conn = "none"] ELSE srv
        /\ dwire' = IF opened \/ closed THEN << >> ELSE dwire

\* The line at the head of the wire is complete: proc_control and its callback.
\* The preliminary 150 precedes the final reply of the same exchange.
CtlLine ==
    /\ InControl
    /\ HasReply(ftp)
    /\ \E sk \in SockOutcomes, conn \in ConnOutcomes,
          mem \in MemOutcomes(ftp.cls) :
        LET e == Head(ftp.wire)
            prelim == e.mark = "sent"
            code == IF prelim THEN 150 ELSE e.code
            f == [ftp EXCEPT !.wire =
                    IF prelim THEN [@ EXCEPT ![1].mark = "read"] ELSE Tail(@)]
            ends == EndsXfer(code)
            uses == ftp.cproc = "xfer" /\ (prelim \/ ends)
            g == IF uses /\ mem = "garbage" THEN [f EXCEPT !.fault = "crash"]
                 ELSE ProcControl(f, code, e.arg, conn, sk)
        IN  /\ ftp' = g
            /\ xfer' = IF uses THEN UseXfer(ftp.cls, ends) ELSE xfer
            /\ curXfer' = IF uses /\ ends /\ mem = "intact"
                          THEN CurAfterDone(ftp.cls) ELSE curXfer
            /\ LinkData(f, g, f.cproc = "pasv")
    /\ pc' = "ctl"
    /\ UNCHANGED <<nrecv, startDir>>

\* bytes that complete no reply: a line of a multi-line reply, or a fragment
\* without a line end, which handle_control throws away with its reply
CtlNoReply ==
    /\ InControl
    /\ HasReply(ftp)
    /\ \/ /\ "multiline" \in Env
          /\ ftp' = ftp
       \/ /\ "split" \in Env
          /\ Head(ftp.wire).mark # "sent"
          /\ ftp' = [ftp EXCEPT !.wire = Tail(@)]
    /\ pc' = "ctl"
    /\ UNCHANGED <<xfer, curXfer, nrecv, startDir, srv, dwire>>

\* recv has no more for now (or the control socket is closed): ftp_handle ends
CtlAgain ==
    /\ Alive
    /\ pc = "ctl"
    /\ \E sk \in SockOutcomes :
        LET f == IF ftp.ctl = NoSock THEN [ftp EXCEPT !.wire = << >>] ELSE ftp
            g == HandleTail(f, sk)
        IN  /\ ftp' = g
            /\ pc' = AfterHandle(f, g)
            /\ LinkData(f, g, FALSE)
    /\ UNCHANGED <<xfer, curXfer, nrecv, startDir>>

\* recv says the server closed the control connection; ftp_handle returns at
\* once.  When the data socket was ready too, the main loop still calls
\* ftp_handle for it: it matches no socket, so only the end runs.
CtlEof ==
    /\ InControl
    /\ ftp.ctl = Open
    /\ srv.up = 0
    /\ ~HasReply(ftp)
    /\ \E sk \in SockOutcomes, stale \in {0, 1} :
        LET f == [FtpClose(ftp) EXCEPT !.wire = << >>]
            g == IF stale = 1 THEN HandleTail(f, sk) ELSE f
        IN  /\ stale = 1 => ftp.data = Open /\ ftp.wait = << >>
            /\ ftp' = g
            /\ pc' = AfterHandle(f, g)
            /\ LinkData(ftp, g, FALSE)
    /\ UNCHANGED <<xfer, curXfer, nrecv, startDir>>

\* ftp_waitresp gives up after TIMEOUT seconds without a reply
WaitTimeout ==
    /\ AtSelect
    /\ ftp.wait # << >>
    /\ ftp.ctl = Open
    /\ "timeout" \in Env
    /\ pc' = "resume"
    /\ UNCHANGED <<ftp, xfer, curXfer, nrecv, startDir, srv, dwire>>

\* ftp_waitresp with ctl = -1: FD_SET of a negative descriptor is undefined; it
\* aborts, or ftp_handle runs on a recv that fails
WaitClosed ==
    /\ AtSelect
    /\ ftp.wait # << >>
    /\ ftp.ctl = NoSock
    /\ \/ /\ ftp' = [ftp EXCEPT !.fault = "badfd"]
          /\ UNCHANGED <<pc, srv, dwire>>
       \/ \E sk \in SockOutcomes :
            LET g == HandleTail(ftp, sk)
            IN  /\ ftp' = g
                /\ pc' = AfterHandle(ftp, g)
                /\ LinkData(ftp, g, FALSE)
    /\ UNCHANGED <<xfer, curXfer, nrecv, startDir>>

\* ftp_waitresp leaves its loop after one ftp_handle, as last_resp is a code or
\* -1; its caller finishes, and so does the waiting operation that called it
Resume ==
    /\ Alive
    /\ pc = "resume"
    /\ ftp' = FinishPrepare(ftp)
    /\ pc' = IF Len(ftp.wait) = 1 THEN "select" ELSE "resume"
    /\ UNCHANGED <<xfer, curXfer, nrecv, startDir, srv, dwire>>

\* the receive loop of handle_data ends with this packet.  Faulty form: one
\* packet late.
LastRecvLate(item) == item = Eof \/ nrecv = RecvMax
LastRecv(item) == item = Eof \/ nrecv + 1 = RecvMax

\* One recv on the data socket, which is blocking: the loop of handle_data goes
\* on until RecvMax packets or the end.  Without "crossed" the 150 sent before
\* the data has been read, as main serves the control socket first.
DataRecv ==
    /\ AtMainSelect \/ (Alive /\ pc = "data")
    /\ ftp.data = Open
    /\ dwire # << >>
    /\ "crossed" \in Env \/ \A i \in 1..Len(ftp.wire) : ftp.wire[i].mark # "sent"
    /\ \E sk \in SockOutcomes, mem \in MemOutcomes(ftp.cls) :
        LET item == Head(dwire)
            last == LastRecv(item)
            f == RecvData(ftp, item, mem)
            g == IF last THEN HandleTail(f, sk) ELSE f
            uses == ftp.dproc = "xfer"
        IN  /\ ftp' = g
            /\ xfer' = IF uses THEN RecvXfer(ftp.cls, item) ELSE xfer
            /\ curXfer' = IF uses /\ item = Eof /\ mem = "intact"
                          THEN CurAfterDone(ftp.cls) ELSE curXfer
            /\ pc' = IF last THEN "select" ELSE "data"
            /\ nrecv' = IF last THEN 0 ELSE nrecv + 1
            /\ dwire' = IF g.data = NoSock THEN << >> ELSE Tail(dwire)
            /\ srv' = IF g.data = NoSock /\ srv.conn = "open"
                      THEN [srv EXCEPT !.conn = "none"] ELSE srv
    /\ UNCHANGED startDir

\* the listening socket: only a server that connects before it is asked for a
\* transfer gets here
LisAccept ==
    /\ AtMainSelect
    /\ ftp.lis = Open
    /\ "predial" \in Env
    /\ \E sk \in SockOutcomes :
        LET f == [ftp EXCEPT !.data = Open]
            g == HandleTail(f, sk)
        IN  ftp' = g /\ LinkData(ftp, g, FALSE)
    /\ UNCHANGED <<xfer, curXfer, pc, nrecv, startDir>>

QueueStartDir ==
    /\ Alive
    /\ StartDirDue
    /\ \E sk \in SockOutcomes :
        ftp' = FtpQueue(ftp, Op("CHDIR", startDir), sk)
    /\ startDir' = NoArg
    /\ UNCHANGED <<xfer, curXfer, pc, nrecv, srv, dwire>>

(***************************************************************************)
(* The user.  A calm one looks at the panel and waits for it: keys are     *)
(* pressed when the session is idle, and F5 also while files are being     *)
(* fetched, which is what F5 does with several selected files.  An eager   *)
(* one presses keys at any time after the greeting ("earlykeys": before    *)
(* it, too).                                                               *)
(***************************************************************************)
Idle == ftp.busy = 0 /\ ftp.queue = << >> /\ ftp.wire = << >>

Greeted == \A i \in 1..Len(ftp.wire) : ftp.wire[i].cmd # "greet"

MayPress ==
    /\ AtMainSelect
    /\ Len(ftp.queue) < MaxQueue
    /\ Greeted \/ "earlykeys" \in Env
    /\ Pace = "eager" \/ (Idle /\ ftp.dirent # << >>)

MayFetch ==
    \/ MayPress
    \/ /\ AtMainSelect
       /\ Len(ftp.queue) < MaxQueue
       /\ ftp.dproc = "xfer" /\ ftp.data = Open

\* Backspace in the remote panel
KeyCdup ==
    /\ MayPress
    /\ \E sk \in SockOutcomes : ftp' = FtpQueue(ftp, Op("CDUP", NoArg), sk)
    /\ UNCHANGED <<xfer, curXfer, pc, nrecv, startDir, srv, dwire>>

\* Enter on a directory of the remote panel
KeyChdir(d) ==
    /\ MayPress
    /\ ftp.dirent # << >>
    /\ \E sk \in SockOutcomes : ftp' = FtpQueue(ftp, Op("CHDIR", d), sk)
    /\ UNCHANGED <<xfer, curXfer, pc, nrecv, startDir, srv, dwire>>

\* F5 on a file of the remote panel (one turn of the loop of act_transfer)
KeyXfer(x, n) ==
    /\ MayFetch
    /\ ftp.dirent # << >>
    /\ xfer[x].st = "none"
    /\ \A y \in 1..(x - 1) : xfer[y].st # "none"
    /\ xfer' = [xfer EXCEPT ![x] = [st |-> "live", dir |-> Head(ftp.dirent)[1],
                                    name |-> n, got |-> << >>]]
    /\ curXfer' = x
    /\ \E sk \in SockOutcomes : ftp' = FtpQueue(ftp, XferOp(x), sk)
    /\ UNCHANGED <<pc, nrecv, startDir, srv, dwire>>

-----------------------------------------------------------------------------
(***************************************************************************)
(* The server: it answers commands in order, a transfer with a 150, its    *)
(* packets, and the final reply.                                           *)
(***************************************************************************)
Serving(i) == /\ Alive /\ srv.up = 1 /\ ftp.ctl = Open
              /\ ftp.wire[i].code = 0
              /\ \A j \in 1..(i - 1) : ftp.wire[j].code # 0

Denied == IF "reject" \in Env THEN {550} ELSE {}

Replies(cmd) ==
    IF cmd \notin LoginCmds /\ srv.auth = 0 THEN {530}
    ELSE CASE cmd = "greet" -> {220}
           [] cmd = "user" -> {331, 230} \cup (IF "badlogin" \in Env THEN {530} ELSE {})
           [] cmd = "pass" -> {230} \cup (IF "badlogin" \in Env THEN {530} ELSE {})
           [] cmd = "type" -> {200}
           [] cmd = "pwd" -> {257} \cup Denied
           [] cmd \in {"cwd", "cdup"} -> {250} \cup Denied
           [] cmd = "pasv" -> {227} \cup (IF "nopasv" \in Env THEN {502} ELSE {})
           [] cmd = "port" -> {200} \cup (IF "noport" \in Env THEN {502} ELSE {})
           [] cmd \in {"list", "retr"} -> IF srv.conn = "open" THEN Denied ELSE {425}
           [] OTHER -> {}

SrvReply(i) ==
    /\ Serving(i)
    /\ ftp.wire[i].mark = "none"
    /\ \E code \in Replies(ftp.wire[i].cmd) :
        LET e == ftp.wire[i]
            dir == IF code # 250 THEN srv.cwd
                   ELSE IF e.cmd = "cdup" THEN Home ELSE e.arg
            hangup == e.cmd \in {"list", "retr"} /\ srv.conn = "open"
        IN  /\ ftp' = [ftp EXCEPT !.wire[i] =
                        [@ EXCEPT !.code = code, !.arg = dir]]
            /\ srv' = [srv EXCEPT
                        !.auth = IF code = 230 THEN 1 ELSE @,
                        !.cwd = dir,
                        !.conn = IF code = 227 THEN "listen"
                                 ELSE IF hangup THEN "none" ELSE @]
            /\ dwire' = IF hangup THEN Append(dwire, Eof) ELSE dwire
    /\ UNCHANGED <<xfer, curXfer, pc, nrecv, startDir>>

SrvBegin(i) ==
    /\ Serving(i)
    /\ ftp.wire[i].mark = "none"
    /\ ftp.wire[i].cmd \in {"list", "retr"}
    /\ srv.auth = 1
    /\ srv.conn = "open"
    /\ ftp' = [ftp EXCEPT !.wire[i].mark = "sent"]
    /\ srv' = [srv EXCEPT !.left = Chunks,
                 !.src = <<srv.cwd, IF ftp.wire[i].cmd = "list" THEN Ls
                                    ELSE xfer[ftp.wire[i].data].name>>]
    /\ UNCHANGED <<xfer, curXfer, pc, nrecv, startDir, dwire>>

SrvChunk(i) ==
    /\ Serving(i)
    /\ ftp.wire[i].mark # "none"
    /\ srv.conn = "open"
    /\ srv.left > 0
    /\ srv' = [srv EXCEPT !.left = @ - 1]
    /\ dwire' = Append(dwire, srv.src)
    /\ UNCHANGED <<ftp, xfer, curXfer, pc, nrecv, startDir>>

\* 226, or 426 for a transfer that broke off
SrvFinish(i) ==
    /\ Serving(i)
    /\ ftp.wire[i].mark # "none"
    /\ \/ srv.left = 0 /\ ftp' = [ftp EXCEPT !.wire[i].code = 226]
       \/ /\ "abort" \in Env \/ srv.conn # "open"
          /\ ftp' = [ftp EXCEPT !.wire[i].code = 426]
    /\ srv' = [srv EXCEPT !.conn = IF @ = "open" THEN "none" ELSE @]
    /\ dwire' = IF srv.conn = "open" THEN Append(dwire, Eof) ELSE dwire
    /\ UNCHANGED <<xfer, curXfer, pc, nrecv, startDir>>

Quiet == srv.up = 1 /\ ftp.ctl = Open /\ \A i \in 1..Len(ftp.wire) : ftp.wire[i].code # 0

\* an idle session is closed with a 421 no command asked for
SrvIdle ==
    /\ Alive
    /\ "idle421" \in Env
    /\ Quiet /\ srv.auth = 1
    /\ ftp' = [ftp EXCEPT !.wire =
                Append(@, [Exch("idle", NoArg, NoXfer) EXCEPT !.code = 421])]
    /\ srv' = [srv EXCEPT !.up = 0]
    /\ UNCHANGED <<xfer, curXfer, pc, nrecv, startDir, dwire>>

SrvDrop ==
    /\ Alive
    /\ "drop" \in Env
    /\ srv.up = 1
    /\ srv' = [srv EXCEPT !.up = 0]
    /\ UNCHANGED <<ftp, xfer, curXfer, pc, nrecv, startDir, dwire>>

\* an unused data connection is closed by the server
SrvDataClose ==
    /\ Alive
    /\ "dataclose" \in Env
    /\ Quiet /\ srv.conn = "open"
    /\ srv' = [srv EXCEPT !.conn = "none"]
    /\ dwire' = Append(dwire, Eof)
    /\ UNCHANGED <<ftp, xfer, curXfer, pc, nrecv, startDir>>

-----------------------------------------------------------------------------
\* main, after ftp_alloc and ftp_connect: connected, nothing sent
Init ==
    /\ ftp = [ctl |-> Open, lis |-> NoSock, data |-> NoSock,
              status |-> "DISC", busy |-> 0, passive |-> 1, queue |-> << >>,
              cproc |-> "none", dproc |-> "none", cls |-> NoXfer,
              rbuf |-> << >>, curdir |-> NoArg, dirent |-> << >>,
              wire |-> <<Exch("greet", NoArg, NoXfer)>>, wait |-> << >>,
              fault |-> "none"]
    /\ xfer = [x \in Xfers |-> [st |-> "none", dir |-> NoArg, name |-> Ls,
                                got |-> << >>]]
    /\ curXfer = NoXfer
    /\ pc = "select"
    /\ nrecv = 0
    /\ startDir = StartDir
    /\ srv = [up |-> 1, auth |-> 0, cwd |-> Home, conn |-> "none",
              src |-> <<Home, Ls>>, left |-> 0]
    /\ dwire = << >>

Client == CtlLine \/ CtlNoReply \/ CtlAgain \/ CtlEof \/ WaitTimeout
          \/ WaitClosed \/ Resume \/ DataRecv \/ LisAccept \/ QueueStartDir

User == \/ KeyCdup
        \/ \E d \in Dirs : KeyChdir(d)
        \/ \E x \in Xfers, n \in Names : KeyXfer(x, n)

SrvAnswer == \E i \in 1..Len(ftp.wire) :
                SrvReply(i) \/ SrvBegin(i) \/ SrvChunk(i) \/ SrvFinish(i)

Server == SrvAnswer \/ SrvIdle \/ SrvDrop \/ SrvDataClose

Next == Client \/ User \/ Server

Spec == Init /\ [][Next]_vars

(***************************************************************************)
(* Fairness: the main loop keeps calling select and serves what is ready,  *)
(* and a server answers every command it got.  Keys are never owed.        *)
(***************************************************************************)
FairSpec == Spec /\ WF_vars(Client) /\ WF_vars(SrvAnswer)

-----------------------------------------------------------------------------
TypeOK ==
    /\ ftp \in FtpState
    /\ xfer \in [Xfers -> Transfer]
    /\ curXfer \in Xfers \cup {NoXfer}
    /\ pc \in {"select", "ctl", "data", "resume"}
    /\ nrecv \in 0..(RecvMax - 1)
    /\ startDir \in Args
    /\ srv \in SrvState
    /\ dwire \in Seq(Sources \cup {Eof})

\* The callbacks get the block they cast cls to: ftp_list and ftp_transfer set
\* both callbacks and both cls pointers at once, and nothing else sets these.
HandlersAgree ==
    /\ ftp.cproc = "xfer" \/ ftp.dproc = "xfer" => ftp.cls \in Xfers
    /\ ftp.dproc = "list" => ftp.cls = Rbuf

\* ftp_handle runs queued operations inside the wait of another, but a second
\* wait never nests in it while the session lasts: the reply that lets the
\* nested ftp_handle run an operation has opened data or cleared passive.
WaitShallow == ftp.ctl = Open => Len(ftp.wait) <= 1

\* proc_control starts no operation that waits for a reply: ftp_waitresp, called
\* within it, would make the nested handle_control write over the buffer that
\* the outer one is still scanning.
NotReentered == [][CtlLine => Len(ftp'.wait) <= Len(ftp.wait)]_vars

\* assert(ftp->busy == 0) at the end of ftp_handle never fails: no reply and no
\* end of data is counted down that was not counted up.
AssertBusy == ftp.fault # "abort"

\* The status line never reads a freed transfer through cur_xfer, although
\* transfers end in another order than they were asked for.
CurXferLive == curXfer # NoXfer => xfer[curXfer].st = "live"

\* No callback touches a transfer after done freed it: the replies and the end
\* of data, which come on two connections, end a transfer once.
NoUseAfterFree == \A x \in Xfers : xfer[x].st # "reused"

Content(dir, name) == [i \in 1..Chunks |-> <<dir, name>>]

\* A finished download holds the file the user picked, all of it and nothing
\* else (F5: copy selected), whatever else act_transfer queued behind it.
FaithfulCopy ==
    \A x \in Xfers : xfer[x].st = "freed" =>
        xfer[x].got = Content(xfer[x].dir, xfer[x].name)

\* the transfers as Downloads sees them
Files ==
    [x \in Xfers |->
        [xfer[x] EXCEPT !.st = CASE @ = "live" -> "asked" [] @ = "freed" -> "done"
                                 [] OTHER -> @]]

Fetching == INSTANCE Downloads WITH file <- Files

\* A cooperative session implements Downloads: through queue, busy counter and
\* the wait for the data connection, and however the end of the data and the
\* final reply come, files are fetched whole and in turn.
Fetches == Fetching!Spec

\* When nothing is under way the remote panel shows the directory the server is
\* in: every change of directory was followed by its pwd and list.
PanelMatches ==
    AtMainSelect /\ Idle /\ srv.auth = 1 =>
        ftp.curdir = srv.cwd /\ ftp.dirent = Content(srv.cwd, Ls)

\* No operation is sent while a step of the login is unanswered, though keys
\* pressed during it queue some: proc_control keeps busy up from the greeting to
\* the 230.
LoginFirst ==
    (\E i \in 1..Len(ftp.wire) : ftp.wire[i].cmd \in LoginCmds) =>
        \A i \in 1..Len(ftp.wire) : ftp.wire[i].cmd \in LoginCmds

\* The session comes to rest again and again: busy is counted down to zero and
\* the queue of operations runs empty.
Settles == []<>Idle

\* Every download the user asks for is finished.
Completes == \A x \in Xfers : xfer[x].st = "live" ~> xfer[x].st = "freed"

(***************************************************************************)
(* What comments and documents say and the code does not do.               *)
(***************************************************************************)

\* handle_data returns to the main loop between packets: inside its loop recv
\* has something to read, or says EWOULDBLOCK (comments of handle_data).
DataLoopReady == pc = "data" => dwire # << >>

\* A session in active mode gets its listing once the server is asked for it
\* (doc/ftp.txt: the server connects upon receiving the transfer request).
ActiveLists ==
    AtMainSelect /\ Idle /\ ftp.status = "ACT" => ftp.dirent # << >>
=============================================================================
