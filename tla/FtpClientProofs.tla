-------------------------- MODULE FtpClientProofs --------------------------
(***************************************************************************)
(* Theorems about FtpClient, for every server, every number of transfers   *)
(* and every bound.                                                        *)
(***************************************************************************)
EXTENDS FtpClient, SequenceTheorems, TLAPS

(***************************************************************************)
(* Part 1.  struct ftp keeps its type, and each callback the block it      *)
(* expects, through every operator of ftp.c.                               *)
(***************************************************************************)
Handlers(f) ==
    /\ f.cproc = "xfer" \/ f.dproc = "xfer" => f.cls \in Xfers
    /\ f.dproc = "list" => f.cls = Rbuf

Sound(f) == f \in FtpState /\ Handlers(f)

\* sendcmd appends one exchange and counts it: struct ftp stays sound.
LEMMA SendCmdSound ==
    ASSUME NEW f, Sound(f), NEW cmd \in Cmds, NEW arg \in Args,
           NEW x \in Xfers \cup {NoXfer}, cmd = "retr" => x \in Xfers,
           cmd = "cwd" => arg \in Dirs
    PROVE  Sound(SendCmd(f, cmd, arg, x))
<1>1. Exch(cmd, arg, x) \in Exchange
  BY DEF Exch, Exchange, Codes
<1>2. f.wire \in Seq(Exchange) /\ f.busy \in Int
  BY DEF Sound, FtpState
<1>3. Append(f.wire, Exch(cmd, arg, x)) \in Seq(Exchange) /\ f.busy + 1 \in Int
  BY <1>1, <1>2
<1>4. QED
  BY ZenonT(40), <1>3 DEF Sound, Handlers, FtpState, SendCmd

\* the fields sendcmd leaves alone
LEMMA SendCmdFrame ==
    ASSUME NEW f, Sound(f), NEW cmd, NEW arg, NEW x
    PROVE  LET g == SendCmd(f, cmd, arg, x) IN
           /\ g.ctl = f.ctl /\ g.lis = f.lis /\ g.data = f.data
           /\ g.passive = f.passive /\ g.queue = f.queue /\ g.wait = f.wait
           /\ g.cproc = f.cproc /\ g.dproc = f.dproc /\ g.cls = f.cls
           /\ g.fault = f.fault /\ g.status = f.status
           /\ f.ctl = Open => g.busy = f.busy + 1
           /\ f.ctl = NoSock => g = f
BY DEF SendCmd, Sound, FtpState, NoSock, Open

\* Assigning a control callback that reads no cls keeps struct ftp sound.
LEMMA SetCprocSound ==
    ASSUME NEW f, Sound(f), NEW c \in Cprocs \ {"xfer"}
    PROVE  Sound([f EXCEPT !.cproc = c])
BY DEF Sound, FtpState, Handlers

\* ftp_close keeps struct ftp sound.
LEMMA FtpCloseSound ==
    ASSUME NEW f, Sound(f)
    PROVE  Sound(FtpClose(f))
BY DEF Sound, FtpState, Handlers, FtpClose

\* ftp_active keeps struct ftp sound, whether or not the socket is made.
LEMMA FtpActiveSound ==
    ASSUME NEW f, Sound(f), NEW sk
    PROVE  Sound(FtpActive(f, sk))
<1> DEFINE g == [f EXCEPT !.data = NoSock,
                          !.lis = IF sk = "ok" THEN Open ELSE NoSock]
<1>1. Sound(g)
  BY DEF Sound, FtpState, Handlers
<1>2. Sound(SendCmd(g, "port", NoArg, NoXfer))
  BY <1>1, SendCmdSound DEF Cmds, Args
<1>3. Sound([SendCmd(g, "port", NoArg, NoXfer) EXCEPT !.cproc = "active"])
  BY <1>2, SetCprocSound DEF Cprocs
<1>4. QED
  BY <1>1, <1>3 DEF FtpActive

\* ftp_passive keeps struct ftp sound.
LEMMA FtpPassiveSound ==
    ASSUME NEW f, Sound(f)
    PROVE  Sound(FtpPassive(f))
<1> DEFINE g == [f EXCEPT !.lis = NoSock, !.data = NoSock]
<1>1. Sound(g)
  BY DEF Sound, FtpState, Handlers
<1>2. Sound(SendCmd(g, "pasv", NoArg, NoXfer))
  BY <1>1, SendCmdSound DEF Cmds, Args
<1>3. QED
  BY <1>2, SetCprocSound DEF Cprocs, FtpPassive

\* ftp_list and ftp_transfer set callbacks and cls together.
LEMMA StartTransferSound ==
    ASSUME NEW f, Sound(f), NEW op \in DataOp
    PROVE  Sound(StartTransfer(f, op))
<1>1. CASE op.op = "LIST"
  <2> DEFINE g == SendCmd(f, "list", NoArg, NoXfer)
  <2>1. Sound(g)
    BY SendCmdSound DEF Cmds, Args
  <2>2. g.busy + 1 \in Int /\ << >> \in Seq(Sources)
    BY <2>1 DEF Sound, FtpState
  <2>3. QED
    BY ZenonT(40), <1>1, <2>1, <2>2 DEF StartTransfer, StartList, Sound, FtpState, Handlers, Cprocs, Dprocs, Rbuf
<1>2. CASE op.op # "LIST"
  <2> DEFINE g == SendCmd(f, "retr", NoArg, op.data)
  <2>1. op.data \in Xfers
    BY <1>2 DEF DataOp, FtpOp
  <2>2. Sound(g)
    BY <2>1, SendCmdSound DEF Cmds, Args
  <2>3. g.busy + 1 \in Int
    BY <2>2 DEF Sound, FtpState
  <2>4. QED
    BY ZenonT(40), <1>2, <2>1, <2>2, <2>3 DEF StartTransfer, StartXfer, Sound, FtpState, Handlers, Cprocs, Dprocs
<1>3. QED
  BY <1>1, <1>2

\* prepare_data keeps struct ftp sound, pushing the operation or running it.
LEMMA PrepareDataSound ==
    ASSUME NEW f, Sound(f), NEW op \in DataOp, NEW sk
    PROVE  Sound(PrepareData(f, op, sk))
<1>1. Sound(StartTransfer(f, op)) /\ Sound(FtpActive(f, sk))
  BY StartTransferSound, FtpActiveSound
<1> DEFINE g == FtpPassive(f)
<1>2. Sound(g)
  BY FtpPassiveSound
<1>3. <<op>> \o g.wait \in Seq(DataOp)
  BY <1>2 DEF Sound, FtpState
<1>4. Sound([g EXCEPT !.wait = <<op>> \o @])
  BY <1>2, <1>3 DEF Sound, FtpState, Handlers
<1>5. QED
  BY <1>1, <1>4 DEF PrepareData

\* The return from ftp_waitresp keeps struct ftp sound.
LEMMA FinishPrepareSound ==
    ASSUME NEW f, Sound(f), f.wait # << >>
    PROVE  Sound(FinishPrepare(f))
<1> DEFINE g == [f EXCEPT !.wait = Tail(@)]
<1>1. f.wait \in Seq(DataOp)
  BY DEF Sound, FtpState
<1>2. Head(f.wait) \in DataOp /\ Tail(f.wait) \in Seq(DataOp)
  BY <1>1
<1>3. Sound(g)
  BY <1>2 DEF Sound, FtpState, Handlers
<1>4. Sound(StartTransfer(g, Head(f.wait)))
  BY <1>2, <1>3, StartTransferSound
<1>5. QED
  BY <1>3, <1>4 DEF FinishPrepare

\* exec_op keeps struct ftp sound for every operation.
LEMMA ExecOpSound ==
    ASSUME NEW f, Sound(f), NEW op \in FtpOp, NEW sk
    PROVE  Sound(ExecOp(f, op, sk))
<1>0. op.arg \in Args /\ op.op \in OpCodes /\ (op.op = "CHDIR" => op.arg \in Dirs)
  BY DEF FtpOp
<1>1. Sound(SendCmd(f, "type", NoArg, NoXfer)) /\ Sound(SendCmd(f, "pwd", NoArg, NoXfer))
  BY SendCmdSound DEF Cmds, Args
<1>2. /\ op.op = "CHDIR" => Sound(SendCmd(f, "cwd", op.arg, NoXfer))
      /\ Sound(SendCmd(f, "cdup", NoArg, NoXfer))
  BY <1>0, SendCmdSound DEF Cmds, Args
<1>3. /\ op.op = "CHDIR" => Sound(FtpChdir(f, "cwd", op.arg))
      /\ Sound(FtpPwd(f)) /\ Sound(FtpChdir(f, "cdup", NoArg))
  BY <1>1, <1>2, SetCprocSound DEF FtpPwd, FtpChdir, Cprocs
<1>4. op.op \in {"LIST", "XFER"} => Sound(PrepareData(f, op, sk))
  BY PrepareDataSound DEF DataOp
<1>5. QED
  BY <1>0, <1>1, <1>3, <1>4 DEF ExecOp, OpCodes

\* exec_queued keeps struct ftp sound.
LEMMA ExecQueuedSound ==
    ASSUME NEW f, Sound(f), NEW sk
    PROVE  Sound(ExecQueued(f, sk))
<1>1. CASE f.queue = << >>
  BY <1>1 DEF ExecQueued
<1>2. CASE f.queue # << >>
  <2>1. f.queue \in Seq(FtpOp)
    BY DEF Sound, FtpState
  <2>2. Head(f.queue) \in FtpOp /\ Tail(f.queue) \in Seq(FtpOp)
    BY <1>2, <2>1
  <2>3. Sound([f EXCEPT !.queue = Tail(@)])
    BY <2>2 DEF Sound, FtpState, Handlers
  <2>4. QED
    BY <1>2, <2>2, <2>3, ExecOpSound DEF ExecQueued
<1>3. QED
  BY <1>1, <1>2

\* ftp_queue keeps struct ftp sound.
LEMMA FtpQueueSound ==
    ASSUME NEW f, Sound(f), NEW op \in FtpOp, NEW sk
    PROVE  Sound(FtpQueue(f, op, sk))
<1>1. Append(f.queue, op) \in Seq(FtpOp)
  BY DEF Sound, FtpState
<1>2. Sound([f EXCEPT !.queue = Append(@, op)])
  BY <1>1 DEF Sound, FtpState, Handlers
<1>3. QED
  BY <1>2, ExecOpSound DEF FtpQueue

\* The end of ftp_handle keeps struct ftp sound.
LEMMA HandleTailSound ==
    ASSUME NEW f, Sound(f), NEW sk
    PROVE  Sound(HandleTail(f, sk))
<1>1. Sound([f EXCEPT !.fault = "abort"])
  BY DEF Sound, FtpState, Handlers
<1>2. f.busy \in Int
  BY DEF Sound, FtpState
<1>3. QED
  BY <1>1, <1>2, ExecQueuedSound DEF HandleTail

\* The operations ftp.c queues for itself, and those of the keys, are operations.
LEMMA OpTypes ==
    /\ Op("TYPE", NoArg) \in FtpOp
    /\ Op("PWD", NoArg) \in FtpOp
    /\ Op("LIST", NoArg) \in FtpOp
    /\ Op("CDUP", NoArg) \in FtpOp
    /\ \A d \in Dirs : Op("CHDIR", d) \in FtpOp
    /\ \A x \in Xfers : XferOp(x) \in FtpOp
BY DEF Op, XferOp, FtpOp, OpCodes, Args

\* Counting a reply down (proc_control) keeps struct ftp sound.
LEMMA AnsweredSound ==
    ASSUME NEW f, Sound(f)
    PROVE  Sound(Answered(f))
<1>1. f.busy - 1 \in Int
  BY DEF Sound, FtpState
<1>2. QED
  BY <1>1 DEF Answered, Sound, FtpState, Handlers

\* proc_control and its callbacks
LEMMA ProcControlSound ==
    ASSUME NEW f, Sound(f), NEW code, NEW dir \in Args, NEW conn, NEW sk
    PROVE  Sound(ProcControl(f, code, dir, conn, sk))
<1>1. Sound(CprocActive(f, code))
  <2>1. Sound([f EXCEPT !.status = "ACT"])
    BY DEF Sound, FtpState, Handlers
  <2>2. QED
    BY <2>1, FtpCloseSound, AnsweredSound DEF CprocActive
<1>2. Sound(CprocPasv(f, code, conn, sk))
  <2>1. Sound([f EXCEPT !.data = Open, !.status = "PASV"]) /\ Sound([f EXCEPT !.passive = 0])
    BY ZenonT(40) DEF Sound, FtpState, Handlers
  <2>2. QED
    BY <2>1, FtpActiveSound, AnsweredSound DEF CprocPasv
<1>3. Sound(CprocPwd(f, code, dir))
  <2>1. Sound([f EXCEPT !.curdir = dir])
    BY DEF Sound, FtpState, Handlers
  <2>2. QED
    BY <2>1, AnsweredSound DEF CprocPwd
<1>4. Sound(CprocCwd(f, code, sk))
  BY FtpQueueSound, OpTypes, AnsweredSound DEF CprocCwd
<1>5. Sound(CprocTransfer(f, code))
  BY AnsweredSound DEF CprocTransfer
<1>6. Sound(Login(f, code, sk))
  <2> DEFINE g == [f EXCEPT !.busy = 0]
  <2>0. Sound(g)
    <3>1. 0 \in Int
      OBVIOUS
    <3>2. QED
      BY <3>1 DEF Sound, FtpState, Handlers
  <2>1. Sound(g) /\ Sound([g EXCEPT !.status = "DISC"])
    <3> HIDE DEF g
    <3> QED
      BY <2>0 DEF Sound, FtpState, Handlers
  <2>2. Sound(SendCmd(g, "user", NoArg, NoXfer)) /\ Sound(SendCmd(g, "pass", NoArg, NoXfer))
    BY <2>1, SendCmdSound DEF Cmds, Args
  <2>3. Sound(NewConn(g, sk))
    BY <2>1, FtpQueueSound, OpTypes DEF NewConn
  <2>4. QED
    BY <2>1, <2>2, <2>3 DEF Login
<1>7. QED
  BY <1>1, <1>2, <1>3, <1>4, <1>5, <1>6 DEF ProcControl

\* handle_data and its callbacks
LEMMA RecvDataSound ==
    ASSUME NEW f, Sound(f), NEW item \in Sources \cup {Eof}, NEW mem
    PROVE  Sound(RecvData(f, item, mem))
<1>1. f.busy - 1 \in Int /\ f.rbuf \in Seq(Sources) /\ << >> \in Seq(Sources)
  BY DEF Sound, FtpState
<1>2. item # Eof => Append(f.rbuf, item) \in Seq(Sources)
  BY <1>1
<1>3. Sound(DprocList(f, item))
  <2>1. Sound([f EXCEPT !.dirent = f.rbuf, !.rbuf = << >>, !.dproc = "none",
                        !.busy = @ - 1])
    BY <1>1 DEF Sound, FtpState, Handlers, Dprocs
  <2>2. item # Eof => Sound([f EXCEPT !.rbuf = Append(@, item)])
    BY <1>2 DEF Sound, FtpState, Handlers
  <2>3. QED
    BY <2>1, <2>2 DEF DprocList
<1>4. Sound(DprocXfer(f, item, mem))
  BY ZenonT(40), <1>1 DEF DprocXfer, Sound, FtpState, Handlers
<1>5. \A g : Sound(g) => Sound([g EXCEPT !.data = NoSock])
  BY DEF Sound, FtpState, Handlers
<1>6. QED
  BY <1>3, <1>4, <1>5 DEF RecvData

(***************************************************************************)
(* Part 2.  How an operation starts to wait.  Runs(f, g) is what running   *)
(* at most one operation in f may do to the stack of ftp_waitresp: nothing,*)
(* or push one operation after a PASV, which needs data closed and passive *)
(* mode, and leaves the reply to that PASV outstanding.                    *)
(***************************************************************************)
Pushed(f, g) ==
    /\ Len(g.wait) = Len(f.wait) + 1
    /\ f.data = NoSock /\ f.passive = 1
    /\ g.cproc = "pasv" /\ (g.ctl = Open => g.busy > 0)

Runs(f, g) ==
    /\ g.ctl = f.ctl /\ g.passive = f.passive
    /\ g.cproc = "active" => f.cproc = "active" \/ f.passive = 0
    /\ g.wait = f.wait \/ Pushed(f, g)

\* exec_op, called when idle, waits at most once.
LEMMA ExecOpRuns ==
    ASSUME NEW f, Sound(f), f.busy = 0, NEW op \in FtpOp, NEW sk
    PROVE  Runs(f, ExecOp(f, op, sk))
<1> DEFINE e == ExecOp(f, op, sk)
<1>0. op.op \in OpCodes /\ f \in FtpState /\ f.busy \in Int
  BY DEF FtpOp, Sound, FtpState
<1>1. CASE op.op \in {"TYPE", "PWD", "CHDIR", "CDUP"}
  <2>1. \A c \in Cmds, a \in Args :
            c # "retr" /\ (c = "cwd" => a \in Dirs) =>
                LET g == SendCmd(f, c, a, NoXfer)
                IN  /\ g \in FtpState /\ g.ctl = f.ctl /\ g.passive = f.passive
                    /\ g.wait = f.wait /\ g.cproc = f.cproc
    BY SendCmdFrame, SendCmdSound DEF Sound
  <2>2. CASE op.op = "TYPE"
    BY <2>1, <2>2 DEF Runs, ExecOp, Cmds, Args
  <2>3. CASE op.op = "PWD"
    BY <2>1, <2>3 DEF Runs, ExecOp, FtpPwd, Cmds, Args, FtpState
  <2>4. CASE op.op = "CHDIR"
    <3>1. op.arg \in Args /\ op.arg \in Dirs
      BY <2>4 DEF FtpOp
    <3>2. QED
      BY <2>1, <2>4, <3>1 DEF Runs, ExecOp, FtpChdir, Cmds, FtpState
  <2>5. CASE op.op = "CDUP"
    BY <2>1, <2>5 DEF Runs, ExecOp, FtpChdir, Cmds, Args, FtpState
  <2>6. QED
    BY <1>1, <2>2, <2>3, <2>4, <2>5
<1>2. CASE op.op \in {"LIST", "XFER"} /\ f.data # NoSock
  <2>1. op \in DataOp /\ e = StartTransfer(f, op)
    BY <1>2 DEF DataOp, ExecOp, PrepareData
  <2>2. CASE op.op = "LIST"
    <3> DEFINE g == SendCmd(f, "list", NoArg, NoXfer)
    <3>1. g \in FtpState /\ g.ctl = f.ctl /\ g.passive = f.passive /\ g.wait = f.wait
      BY SendCmdFrame, SendCmdSound DEF Sound, Cmds, Args
    <3>2. QED
      BY <2>1, <2>2, <3>1 DEF StartTransfer, StartList, Runs, FtpState
  <2>3. CASE op.op = "XFER"
    <3> DEFINE g == SendCmd(f, "retr", NoArg, op.data)
    <3>0. op.data \in Xfers
      BY <2>3 DEF FtpOp
    <3>1. g \in FtpState /\ g.ctl = f.ctl /\ g.passive = f.passive /\ g.wait = f.wait
      BY <3>0, SendCmdFrame, SendCmdSound DEF Sound, Cmds, Args
    <3>2. QED
      BY <2>1, <2>3, <3>1 DEF StartTransfer, StartXfer, Runs, FtpState
  <2>4. QED
    BY <1>2, <2>2, <2>3
<1>3. CASE op.op \in {"LIST", "XFER"} /\ f.data = NoSock /\ f.passive = 1
  <2> DEFINE h == [f EXCEPT !.lis = NoSock, !.data = NoSock]
             g == SendCmd(h, "pasv", NoArg, NoXfer)
  <2>1. Sound(h) /\ h.ctl = f.ctl /\ h.passive = f.passive /\ h.wait = f.wait
        /\ h.busy = f.busy
    BY DEF Sound, FtpState, Handlers
  <2>2. g \in FtpState /\ g.ctl = f.ctl /\ g.passive = f.passive
        /\ g.wait = f.wait /\ (f.ctl = Open => g.busy = 1)
    <3> HIDE DEF h
    <3>1. Sound(g)
      BY <2>1, SendCmdSound DEF Cmds, Args
    <3>2. g.ctl = h.ctl /\ g.passive = h.passive /\ g.wait = h.wait
          /\ (h.ctl = Open => g.busy = h.busy + 1)
      BY <2>1, SendCmdFrame
    <3>3. QED
      BY <2>1, <3>1, <3>2 DEF Sound
  <2>3. FtpPassive(f) = [g EXCEPT !.cproc = "pasv"]
    BY DEF FtpPassive
  <2>4. e = [[g EXCEPT !.cproc = "pasv"] EXCEPT !.wait = <<op>> \o @]
    BY <1>3, <2>3 DEF ExecOp, PrepareData
  <2>5. /\ e.ctl = f.ctl /\ e.passive = f.passive /\ e.cproc = "pasv"
        /\ e.busy = g.busy /\ e.wait = <<op>> \o f.wait
    <3> HIDE DEF g
    <3> QED
      BY <2>2, <2>4 DEF FtpState
  <2>6. Len(e.wait) = Len(f.wait) + 1
    <3>1. f.wait \in Seq(DataOp) /\ op \in DataOp
      BY <1>0, <1>3 DEF FtpState, DataOp
    <3>2. QED
      BY <2>5, <3>1
  <2>7. QED
    BY <1>3, <2>2, <2>5, <2>6 DEF Runs, Pushed
<1>4. CASE op.op \in {"LIST", "XFER"} /\ f.data = NoSock /\ f.passive # 1
  <2> DEFINE h == [f EXCEPT !.data = NoSock,
                            !.lis = IF sk = "ok" THEN Open ELSE NoSock]
             g == SendCmd(h, "port", NoArg, NoXfer)
  <2>1. Sound(h) /\ h.ctl = f.ctl /\ h.passive = f.passive /\ h.wait = f.wait
        /\ h.cproc = f.cproc
    BY ZenonT(40) DEF Sound, FtpState, Handlers
  <2>2. g \in FtpState /\ g.ctl = f.ctl /\ g.passive = f.passive /\ g.wait = f.wait
    <3> HIDE DEF h
    <3>1. Sound(g)
      BY <2>1, SendCmdSound DEF Cmds, Args
    <3>2. g.ctl = h.ctl /\ g.passive = h.passive /\ g.wait = h.wait
      BY <2>1, SendCmdFrame
    <3>3. QED
      BY <2>1, <3>1, <3>2 DEF Sound
  <2>3. e = IF sk = "ok" THEN [g EXCEPT !.cproc = "active"] ELSE h
    BY <1>4 DEF ExecOp, PrepareData, FtpActive
  <2>4. f.passive = 0
    BY <1>0, <1>4 DEF FtpState
  <2>5. QED
    <3> HIDE DEF g, h
    <3> QED
      BY <2>1, <2>2, <2>3, <2>4 DEF Runs, FtpState
<1>5. CASE op.op \notin {"TYPE", "PWD", "CHDIR", "CDUP", "LIST", "XFER"}
  BY <1>5 DEF ExecOp, Runs
<1>6. QED
  BY <1>1, <1>2, <1>3, <1>4, <1>5

\* exec_queued, called when idle, waits at most once.
LEMMA ExecQueuedRuns ==
    ASSUME NEW f, Sound(f), f.busy = 0, NEW sk
    PROVE  Runs(f, ExecQueued(f, sk))
<1>1. CASE f.queue = << >>
  BY <1>1 DEF ExecQueued, Runs
<1>2. CASE f.queue # << >>
  <2> DEFINE h == [f EXCEPT !.queue = Tail(@)]
             op == Head(f.queue)
  <2>1. f.queue \in Seq(FtpOp) /\ f \in FtpState
    BY DEF Sound, FtpState
  <2>2. op \in FtpOp /\ Tail(f.queue) \in Seq(FtpOp)
    BY <1>2, <2>1
  <2>3. Sound(h) /\ h.busy = 0 /\ h.ctl = f.ctl /\ h.passive = f.passive
        /\ h.cproc = f.cproc /\ h.wait = f.wait /\ h.data = f.data
    BY <2>2 DEF Sound, FtpState, Handlers
  <2>4. Runs(h, ExecOp(h, op, sk))
    <3> HIDE DEF h, op
    <3> QED
      BY <2>2, <2>3, ExecOpRuns
  <2>5. ExecQueued(f, sk) = ExecOp(h, op, sk)
    BY <1>2 DEF ExecQueued
  <2>6. QED
    <3> HIDE DEF h, op
    <3> QED
      BY <2>3, <2>4, <2>5 DEF Runs, Pushed
<1>3. QED
  BY <1>1, <1>2

\* ftp_queue waits at most once.
LEMMA FtpQueueRuns ==
    ASSUME NEW f, Sound(f), NEW op \in FtpOp, NEW sk
    PROVE  Runs(f, FtpQueue(f, op, sk))
<1>1. CASE f.busy = 0 /\ f.queue = << >>
  BY <1>1, ExecOpRuns DEF FtpQueue
<1>2. CASE ~(f.busy = 0 /\ f.queue = << >>)
  <2>1. FtpQueue(f, op, sk) = [f EXCEPT !.queue = Append(@, op)]
    BY <1>2 DEF FtpQueue
  <2>2. QED
    BY <2>1 DEF Runs, Sound, FtpState
<1>3. QED
  BY <1>1, <1>2

\* The end of ftp_handle waits at most once.
LEMMA HandleTailRuns ==
    ASSUME NEW f, Sound(f), NEW sk
    PROVE  /\ Runs(f, HandleTail(f, sk))
           /\ f.busy > 0 => HandleTail(f, sk) = f
<1>0. f.busy \in Int /\ f \in FtpState
  BY DEF Sound, FtpState
<1>1. CASE f.busy > 0
  <2>1. HandleTail(f, sk) = f
    BY <1>0, <1>1 DEF HandleTail
  <2>2. QED
    BY <2>1 DEF Runs
<1>2. CASE f.busy < 0
  <2>1. HandleTail(f, sk) = [f EXCEPT !.fault = "abort"] /\ ~(f.busy > 0)
    BY <1>0, <1>2 DEF HandleTail
  <2>2. QED
    BY <1>0, <2>1 DEF Runs, FtpState
<1>3. CASE f.busy = 0
  BY <1>3, ExecQueuedRuns DEF HandleTail
<1>4. QED
  BY <1>0, <1>1, <1>2, <1>3

\* With the control connection open, the operations that a reply queues never
\* start to wait: the first is a command, and counts in busy for the next.
LEMMA QueueTwice ==
    ASSUME NEW f, Sound(f), f.ctl = Open, NEW sk,
           NEW o1 \in {Op("TYPE", NoArg), Op("PWD", NoArg)},
           NEW o2 \in FtpOp
    PROVE  LET g == FtpQueue(f, o1, sk)
               h == FtpQueue(g, o2, sk)
           IN  /\ Sound(g) /\ g.ctl = Open /\ g.wait = f.wait
               /\ g.cproc \in {f.cproc, "pwd"} /\ g.passive = f.passive
               /\ Sound(h) /\ h.ctl = Open /\ h.wait = f.wait
               /\ h.cproc = g.cproc /\ h.passive = f.passive
               /\ h.queue # << >>
<1> DEFINE g == FtpQueue(f, o1, sk)
           h == FtpQueue(g, o2, sk)
<1>1. o1 \in FtpOp /\ f \in FtpState /\ f.busy \in Int
  BY OpTypes DEF Sound, FtpState
<1>2. Sound(g) /\ g.ctl = Open /\ g.wait = f.wait /\ g.cproc \in {f.cproc, "pwd"}
      /\ g.passive = f.passive /\ ~(g.busy = 0 /\ g.queue = << >>)
  <2>1. Sound(g)
    BY <1>1, FtpQueueSound
  <2>2. CASE f.busy = 0 /\ f.queue = << >> /\ o1.op = "TYPE"
    <3>1. g = SendCmd(f, "type", NoArg, NoXfer)
      BY <2>2 DEF FtpQueue, ExecOp
    <3>2. QED
      BY <1>1, <2>1, <2>2, <3>1, SendCmdFrame
  <2>3. CASE f.busy = 0 /\ f.queue = << >> /\ o1.op = "PWD"
    <3> DEFINE k == SendCmd(f, "pwd", NoArg, NoXfer)
    <3>1. g = [k EXCEPT !.cproc = "pwd"]
      BY <2>3 DEF FtpQueue, ExecOp, FtpPwd
    <3>2. k \in FtpState
      BY SendCmdSound DEF Sound, Cmds, Args
    <3>3. k.ctl = Open /\ k.wait = f.wait /\ k.passive = f.passive /\ k.busy = 1
      BY <1>1, <2>3, SendCmdFrame
    <3>4. g.ctl = Open /\ g.wait = f.wait /\ g.passive = f.passive /\ g.busy = 1 /\ g.cproc = "pwd"
      <4> HIDE DEF k
      <4> QED
        BY <3>1, <3>2, <3>3 DEF FtpState
    <3>5. QED
      BY <2>1, <3>4
  <2>4. CASE ~(f.busy = 0 /\ f.queue = << >>)
    <3>1. g = [f EXCEPT !.queue = Append(@, o1)]
      BY <2>4 DEF FtpQueue
    <3>2. f.queue \in Seq(FtpOp)
      BY <1>1 DEF FtpState
    <3>3. Append(f.queue, o1) # << >>
      BY <1>1, <3>2
    <3>4. QED
      BY <1>1, <2>1, <3>1, <3>3 DEF FtpState
  <2>5. o1.op = "TYPE" \/ o1.op = "PWD"
    BY DEF Op
  <2>6. QED
    BY <2>2, <2>3, <2>4, <2>5
<1>3. h = [g EXCEPT !.queue = Append(@, o2)]
  BY <1>2 DEF FtpQueue
<1>4. Sound(h)
  BY <1>2, FtpQueueSound
<1>5. h.ctl = g.ctl /\ h.wait = g.wait /\ h.cproc = g.cproc /\ h.passive = g.passive
      /\ h.queue # << >>
  <2> HIDE DEF g
  <2>1. g \in FtpState /\ g.queue \in Seq(FtpOp)
    BY <1>2 DEF Sound, FtpState
  <2>2. Append(g.queue, o2) # << >>
    BY <2>1
  <2>3. QED
    BY <1>3, <2>1, <2>2 DEF FtpState
<1>6. QED
  BY <1>2, <1>4, <1>5

(***************************************************************************)
(* Part 3.  The inductive invariant: the types, the callbacks, and what is *)
(* true of the thread while an operation waits.                            *)
(***************************************************************************)

\* Why waits do not nest.  While one operation waits on an open connection the
\* callback is cproc_pasv or cproc_active, and either the PASV is unanswered,
\* so that the nested ftp_handle runs nothing, or data is open or passive mode
\* given up, so that no other operation sends a PASV.
WaitInv ==
    /\ pc = "resume" => ftp.wait # << >>
    /\ pc = "data" => ftp.wait = << >>
    /\ ftp.cproc = "active" => ftp.passive = 0
    /\ pc = "ctl" /\ ftp.ctl = NoSock => ftp.cproc = "active"
    /\ ftp.ctl = Open /\ ftp.wait # << >> =>
        /\ Len(ftp.wait) = 1
        /\ pc \in {"select", "ctl"} =>
            /\ ftp.cproc \in {"pasv", "active"}
            /\ \/ ftp.cproc = "pasv" /\ ftp.busy > 0
               \/ ftp.data = Open
               \/ ftp.passive = 0

IndInv == TypeOK /\ HandlersAgree /\ WaitInv

\* IndInv says that struct ftp is sound.
LEMMA IndInvSound ==
    ASSUME IndInv
    PROVE  Sound(ftp)
BY DEF IndInv, TypeOK, HandlersAgree, Sound, Handlers

\* the rest of TypeOK, for the next state
OthersOK ==
    /\ xfer' \in [Xfers -> Transfer]
    /\ curXfer' \in Xfers \cup {NoXfer}
    /\ pc' \in {"select", "ctl", "data", "resume"}
    /\ nrecv' \in 0..(RecvMax - 1)
    /\ startDir' \in Args
    /\ srv' \in SrvState
    /\ dwire' \in Seq(Sources \cup {Eof})

\* IndInv holds next when its three parts do.
LEMMA FromParts ==
    ASSUME Sound(ftp'), OthersOK, WaitInv'
    PROVE  IndInv'
BY DEF IndInv, TypeOK, HandlersAgree, Sound, Handlers, OthersOK

\* A callback that touches or ends a transfer keeps the transfers' type.
LEMMA UseXferType ==
    ASSUME xfer \in [Xfers -> Transfer], NEW x, NEW end
    PROVE  UseXfer(x, end) \in [Xfers -> Transfer]
BY ZenonT(40) DEF UseXfer, Transfer

\* dproc_xfer keeps the transfers' type.
LEMMA RecvXferType ==
    ASSUME xfer \in [Xfers -> Transfer], NEW x \in Xfers,
           NEW item \in Sources \cup {Eof}
    PROVE  RecvXfer(x, item) \in [Xfers -> Transfer]
<1>1. xfer[x].got \in Seq(Sources)
  BY DEF Transfer
<1>2. item # Eof => Append(xfer[x].got, item) \in Seq(Sources)
  BY <1>1
<1>3. item # Eof => [xfer EXCEPT ![x].got = Append(@, item)] \in [Xfers -> Transfer]
  BY <1>2 DEF Transfer
<1>4. QED
  BY <1>3, UseXferType DEF RecvXfer

\* Opening and closing the data connection keeps the server's type.
LEMMA LinkDataType ==
    ASSUME srv \in SrvState, dwire \in Seq(Sources \cup {Eof}),
           NEW f, NEW g, NEW fresh, LinkData(f, g, fresh)
    PROVE  srv' \in SrvState /\ dwire' \in Seq(Sources \cup {Eof})
BY DEF LinkData, SrvState

\* where ftp_handle returns to, when it ran at most one operation
LEMMA AfterHandleWait ==
    ASSUME NEW f, NEW g, Sound(f), Sound(g), Runs(f, g)
    PROVE  /\ AfterHandle(f, g) \in {"select", "resume"}
           /\ AfterHandle(f, g) = "resume" =>
                f.wait # << >> /\ g.wait = f.wait
           /\ AfterHandle(f, g) = "select" =>
                f.wait = << >> \/ Pushed(f, g)
           /\ f.wait = << >> /\ g.wait # << >> => Len(g.wait) = 1 /\ Pushed(f, g)
<1>1. f.wait \in Seq(DataOp) /\ g.wait \in Seq(DataOp)
  BY DEF Sound, FtpState
<1>2. Pushed(f, g) => Len(g.wait) = Len(f.wait) + 1 /\ Len(g.wait) > Len(f.wait)
  BY <1>1 DEF Pushed
<1>3. g.wait = f.wait => ~(Len(g.wait) > Len(f.wait))
  BY <1>1
<1>4. f.wait = << >> => Len(f.wait) = 0
  OBVIOUS
<1>5. g.wait = f.wait \/ Pushed(f, g)
  BY DEF Runs
<1>6. f.wait = << >> /\ g.wait # << >> => Len(g.wait) = 1 /\ Pushed(f, g)
  BY <1>2, <1>4, <1>5
<1>7. CASE f.wait = << >> \/ Len(g.wait) > Len(f.wait)
  <2>1. AfterHandle(f, g) = "select"
    BY <1>7 DEF AfterHandle
  <2>2. QED
    BY <1>3, <1>5, <1>6, <1>7, <2>1
<1>8. CASE ~(f.wait = << >> \/ Len(g.wait) > Len(f.wait))
  <2>1. AfterHandle(f, g) = "resume"
    BY <1>8 DEF AfterHandle
  <2>2. QED
    BY <1>2, <1>5, <1>6, <1>8, <2>1
<1>9. QED
  BY <1>7, <1>8

\* The connection main has just made satisfies IndInv.
THEOREM InitInd == Init => IndInv
<1> SUFFICES ASSUME Init PROVE IndInv
  OBVIOUS
<1>1. Exch("greet", NoArg, NoXfer) \in Exchange
  BY DEF Exch, Exchange, Codes, Cmds, Args
<1>2. ftp \in FtpState
  <2>1. <<Exch("greet", NoArg, NoXfer)>> \in Seq(Exchange) /\ << >> \in Seq(FtpOp)
        /\ << >> \in Seq(DataOp) /\ << >> \in Seq(Sources) /\ 0 \in Int
    BY <1>1
  <2>2. QED
    BY <2>1 DEF Init, FtpState, Cprocs, Dprocs, Args
<1>3. xfer \in [Xfers -> Transfer] /\ curXfer \in Xfers \cup {NoXfer}
  BY DEF Init, Transfer, Args
<1>4. /\ pc \in {"select", "ctl", "data", "resume"}
      /\ nrecv \in 0..(RecvMax - 1) /\ startDir \in Args
      /\ dwire \in Seq(Sources \cup {Eof})
  BY DirsAssumption, BoundAssumption DEF Init, Args
<1>5. srv \in SrvState
  BY DirsAssumption DEF Init, SrvState, Sources
<1>6. HandlersAgree /\ WaitInv
  BY DEF Init, HandlersAgree, WaitInv, Open, NoSock
<1>7. QED
  BY <1>2, <1>3, <1>4, <1>5, <1>6 DEF IndInv, TypeOK

\* back in the select of the main loop after at most one operation was run
LEMMA WaitAtMain ==
    ASSUME NEW f, NEW g, Sound(f), Sound(g), Runs(f, g), f.wait = << >>,
           f.cproc = "active" => f.passive = 0, ftp' = g, pc' = "select"
    PROVE  WaitInv'
<1>1. g.cproc = "active" => g.passive = 0
  BY DEF Runs
<1>2. g.wait # << >> => Len(g.wait) = 1 /\ Pushed(f, g)
  BY AfterHandleWait
<1>3. QED
  BY <1>1, <1>2 DEF WaitInv, Pushed

\* The end of ftp_handle, after the control socket was read, keeps IndInv.
LEMMA CtlAgainInd ==
    ASSUME IndInv, CtlAgain
    PROVE  IndInv'
<1> DEFINE f == IF ftp.ctl = NoSock THEN [ftp EXCEPT !.wire = << >>] ELSE ftp
<1>1. PICK sk \in SockOutcomes : LET g == HandleTail(f, sk) IN
        ftp' = g /\ pc' = AfterHandle(f, g) /\ LinkData(f, g, FALSE)
  BY DEF CtlAgain
<1> DEFINE g == HandleTail(f, sk)
<1>2. Sound(f) /\ f.wait = ftp.wait /\ f.ctl = ftp.ctl /\ f.cproc = ftp.cproc
      /\ f.passive = ftp.passive /\ f.data = ftp.data /\ f.busy = ftp.busy
  <2>1. Sound(ftp) /\ << >> \in Seq(Exchange)
    BY IndInvSound
  <2>2. QED
    BY ZenonT(40), <2>1 DEF Sound, FtpState, Handlers
<1> HIDE DEF f
<1>3. Sound(g) /\ Runs(f, g) /\ (f.busy > 0 => g = f)
  BY <1>2, HandleTailSound, HandleTailRuns
<1> HIDE DEF g
<1>4. ftp' = g /\ pc' = AfterHandle(f, g) /\ pc' \in {"select", "resume"}
  BY <1>1, <1>2, <1>3, AfterHandleWait DEF g
<1>5. OthersOK
  <2>1. srv' \in SrvState /\ dwire' \in Seq(Sources \cup {Eof})
    BY <1>1, LinkDataType DEF IndInv, TypeOK, g
  <2>2. QED
    BY <2>1, <1>4 DEF CtlAgain, IndInv, TypeOK, OthersOK
<1>6. WaitInv'
  <2>1. CASE f.wait = << >>
    <3>1. pc' = "select"
      BY <2>1, <1>4 DEF AfterHandle
    <3>2. QED
      BY <1>2, <1>3, <1>4, <2>1, <3>1, WaitAtMain DEF IndInv, WaitInv
  <2>2. CASE f.wait # << >> /\ f.ctl = Open
    <3>1. ~Pushed(f, g)
      <4>1. pc = "ctl" /\ f.busy \in Int
        BY <1>2 DEF CtlAgain, Sound, FtpState
      <4>2. (f.cproc = "pasv" /\ f.busy > 0) \/ f.data = Open \/ f.passive = 0
        BY <1>2, <2>2, <4>1 DEF IndInv, WaitInv
      <4>3. f.busy > 0 => Len(g.wait) # Len(f.wait) + 1
        <5>1. f.wait \in Seq(DataOp)
          BY <1>2 DEF Sound, FtpState
        <5>2. QED
          BY <1>3, <5>1
      <4>4. QED
        BY <4>2, <4>3 DEF Pushed, Open, NoSock
    <3>2. g.wait = f.wait /\ pc' = "resume"
      BY <1>2, <1>3, <1>4, <2>2, <3>1, AfterHandleWait DEF Runs
    <3>3. QED
      BY <1>2, <1>3, <1>4, <2>2, <3>2 DEF IndInv, WaitInv, Runs
  <2>3. CASE f.wait # << >> /\ f.ctl # Open
    <3>1. g.ctl # Open /\ (g.cproc = "active" => g.passive = 0)
      BY <1>2, <1>3, <2>3 DEF IndInv, WaitInv, Runs
    <3>2. pc' = "resume" => g.wait # << >>
      BY <1>2, <1>3, <1>4, AfterHandleWait
    <3>3. QED
      BY <1>4, <3>1, <3>2 DEF WaitInv
  <2>4. QED
    BY <2>1, <2>2, <2>3
<1>7. QED
  BY <1>3, <1>4, <1>5, <1>6, FromParts

\* The server closing the control connection (handle_control) keeps IndInv.
LEMMA CtlEofInd ==
    ASSUME IndInv, CtlEof
    PROVE  IndInv'
<1> DEFINE f == [FtpClose(ftp) EXCEPT !.wire = << >>]
<1>1. PICK sk \in SockOutcomes, stale \in {0, 1} :
        LET g == IF stale = 1 THEN HandleTail(f, sk) ELSE f IN
        /\ stale = 1 => ftp.data = Open /\ ftp.wait = << >>
        /\ ftp' = g /\ pc' = AfterHandle(f, g) /\ LinkData(ftp, g, FALSE)
  BY DEF CtlEof
<1> DEFINE g == IF stale = 1 THEN HandleTail(f, sk) ELSE f
<1>2. Sound(f) /\ f.wait = ftp.wait /\ f.ctl = NoSock /\ f.cproc = ftp.cproc
      /\ f.passive = ftp.passive
  <2>1. Sound(ftp) /\ << >> \in Seq(Exchange)
    BY IndInvSound
  <2>2. QED
    BY <2>1 DEF Sound, FtpState, Handlers, FtpClose
<1> HIDE DEF f
<1>3. Sound(g) /\ Runs(f, g)
  BY <1>2, HandleTailSound, HandleTailRuns DEF Runs
<1> HIDE DEF g
<1>4. ftp' = g /\ pc' = AfterHandle(f, g) /\ pc' \in {"select", "resume"}
  BY <1>1, <1>2, <1>3, AfterHandleWait DEF g
<1>5. OthersOK
  <2>1. srv' \in SrvState /\ dwire' \in Seq(Sources \cup {Eof})
    BY <1>1, LinkDataType DEF IndInv, TypeOK, g
  <2>2. QED
    BY <2>1, <1>4 DEF CtlEof, IndInv, TypeOK, OthersOK
<1>6. WaitInv'
  <2>1. g.ctl # Open /\ (g.cproc = "active" => g.passive = 0)
    BY <1>2, <1>3 DEF IndInv, WaitInv, Runs, Open, NoSock
  <2>2. pc' = "resume" => g.wait # << >>
    BY <1>2, <1>3, <1>4, AfterHandleWait
  <2>3. QED
    BY <1>4, <2>1, <2>2 DEF WaitInv
<1>7. QED
  BY <1>3, <1>4, <1>5, <1>6, FromParts

\* Lines that are no reply, and a reply lost in fragments, keep IndInv.
LEMMA CtlNoReplyInd ==
    ASSUME IndInv, CtlNoReply
    PROVE  IndInv'
<1>1. Sound(ftp) /\ ftp.wire # << >> /\ ftp.wire \in Seq(Exchange)
  BY IndInvSound DEF CtlNoReply, HasReply, Sound, FtpState
<1>2. Tail(ftp.wire) \in Seq(Exchange)
  BY <1>1
<1>3. /\ Sound(ftp')
      /\ ftp'.wait = ftp.wait /\ ftp'.ctl = ftp.ctl /\ ftp'.cproc = ftp.cproc
      /\ ftp'.passive = ftp.passive /\ ftp'.data = ftp.data /\ ftp'.busy = ftp.busy
  <2>1. ftp' = ftp \/ ftp' = [ftp EXCEPT !.wire = Tail(@)]
    BY DEF CtlNoReply
  <2>2. QED
    BY ZenonT(40), <1>1, <1>2, <2>1 DEF Sound, FtpState, Handlers
<1>4. OthersOK
  BY DEF CtlNoReply, OthersOK, IndInv, TypeOK
<1>5. WaitInv'
  <2>1. pc' = "ctl" /\ (pc = "ctl" \/ (pc = "select" /\ ftp.ctl = Open))
    BY DEF CtlNoReply, InControl, AtSelect
  <2>2. QED
    BY <1>3, <2>1 DEF IndInv, WaitInv, Open, NoSock
<1>6. QED
  BY <1>3, <1>4, <1>5, FromParts

\* ftp_waitresp giving up keeps IndInv.
LEMMA WaitTimeoutInd ==
    ASSUME IndInv, WaitTimeout
    PROVE  IndInv'
<1>1. Sound(ftp') /\ ftp' = ftp /\ ftp.wait # << >> /\ pc' = "resume"
  BY IndInvSound DEF WaitTimeout
<1>2. OthersOK
  BY DEF WaitTimeout, OthersOK, IndInv, TypeOK
<1>3. WaitInv'
  BY <1>1 DEF IndInv, WaitInv
<1>4. QED
  BY <1>1, <1>2, <1>3, FromParts

\* ftp_waitresp on a closed connection keeps IndInv.
LEMMA WaitClosedInd ==
    ASSUME IndInv, WaitClosed
    PROVE  IndInv'
<1>0. Sound(ftp) /\ ftp.ctl = NoSock /\ ftp.wait # << >> /\ pc = "select"
  BY IndInvSound DEF WaitClosed, AtSelect
<1>1. CASE ftp' = [ftp EXCEPT !.fault = "badfd"] /\ UNCHANGED <<pc, srv, dwire>>
  <2>1. Sound(ftp') /\ ftp'.ctl = NoSock /\ ftp'.cproc = ftp.cproc
        /\ ftp'.passive = ftp.passive
    BY <1>0, <1>1 DEF Sound, FtpState, Handlers
  <2>2. OthersOK
    BY <1>1 DEF WaitClosed, OthersOK, IndInv, TypeOK
  <2>3. WaitInv'
    BY <1>0, <1>1, <2>1 DEF IndInv, WaitInv, Open, NoSock
  <2>4. QED
    BY <2>1, <2>2, <2>3, FromParts
<1>2. CASE \E sk \in SockOutcomes : LET g == HandleTail(ftp, sk) IN
            ftp' = g /\ pc' = AfterHandle(ftp, g) /\ LinkData(ftp, g, FALSE)
  <2>1. PICK sk \in SockOutcomes : LET g == HandleTail(ftp, sk) IN
            ftp' = g /\ pc' = AfterHandle(ftp, g) /\ LinkData(ftp, g, FALSE)
    BY <1>2
  <2> DEFINE g == HandleTail(ftp, sk)
  <2>2. Sound(g) /\ Runs(ftp, g)
    BY <1>0, HandleTailSound, HandleTailRuns
  <2> HIDE DEF g
  <2>3. ftp' = g /\ pc' = AfterHandle(ftp, g) /\ pc' \in {"select", "resume"}
    BY <1>0, <2>1, <2>2, AfterHandleWait DEF g
  <2>4. OthersOK
    <3>1. srv' \in SrvState /\ dwire' \in Seq(Sources \cup {Eof})
      BY <2>1, LinkDataType DEF IndInv, TypeOK
    <3>2. QED
      BY <3>1, <2>3 DEF WaitClosed, IndInv, TypeOK, OthersOK
  <2>5. WaitInv'
    <3>1. g.ctl # Open /\ (g.cproc = "active" => g.passive = 0)
      BY <1>0, <2>2 DEF IndInv, WaitInv, Runs, Open, NoSock
    <3>2. pc' = "resume" => g.wait # << >>
      BY <1>0, <2>2, <2>3, AfterHandleWait
    <3>3. QED
      BY <2>3, <3>1, <3>2 DEF WaitInv
  <2>6. QED
    BY <2>2, <2>3, <2>4, <2>5, FromParts
<1>3. QED
  BY <1>1, <1>2 DEF WaitClosed

\* what the end of prepare_data does to the fields that WaitInv reads
LEMMA FinishPrepareFrame ==
    ASSUME NEW f, Sound(f), f.wait # << >>
    PROVE  LET g == FinishPrepare(f) IN
           /\ g.wait = Tail(f.wait) /\ g.ctl = f.ctl /\ g.passive = f.passive
           /\ g.cproc \in {f.cproc, "list", "xfer"}
<1> DEFINE h == [f EXCEPT !.wait = Tail(@)]
           op == Head(f.wait)
<1>1. f.wait \in Seq(DataOp) /\ f \in FtpState
  BY DEF Sound, FtpState
<1>2. op \in DataOp /\ Tail(f.wait) \in Seq(DataOp)
  BY <1>1
<1>3. Sound(h) /\ h.wait = Tail(f.wait) /\ h.ctl = f.ctl /\ h.passive = f.passive
      /\ h.cproc = f.cproc
  BY <1>2 DEF Sound, FtpState, Handlers
<1> HIDE DEF h, op
<1>4. FinishPrepare(f) = IF f.data = NoSock THEN h ELSE StartTransfer(h, op)
  BY DEF FinishPrepare, h, op
<1>5. CASE op.op = "LIST"
  <2> DEFINE k == SendCmd(h, "list", NoArg, NoXfer)
  <2>1. Sound(k) /\ k.wait = h.wait /\ k.ctl = h.ctl /\ k.passive = h.passive
    BY <1>3, SendCmdSound, SendCmdFrame DEF Cmds, Args
  <2>2. StartTransfer(h, op) = [k EXCEPT !.cproc = "list", !.dproc = "list",
                                  !.cls = Rbuf, !.rbuf = << >>, !.busy = @ + 1]
    BY <1>5 DEF StartTransfer, StartList
  <2> HIDE DEF k
  <2>3. {"wait", "ctl", "passive", "cproc"} \subseteq DOMAIN k
    BY <2>1 DEF Sound, FtpState
  <2> DEFINE g == StartTransfer(h, op)
  <2>4. g.wait = k.wait /\ g.ctl = k.ctl /\ g.passive = k.passive /\ g.cproc = "list"
    BY <2>2, <2>3
  <2> HIDE DEF g
  <2>5. QED
    BY <1>3, <1>4, <2>1, <2>4 DEF g
<1>6. CASE op.op # "LIST"
  <2> DEFINE k == SendCmd(h, "retr", NoArg, op.data)
  <2>0. op.data \in Xfers
    BY <1>2, <1>6 DEF DataOp, FtpOp
  <2>1. Sound(k) /\ k.wait = h.wait /\ k.ctl = h.ctl /\ k.passive = h.passive
    BY <1>3, <2>0, SendCmdSound, SendCmdFrame DEF Cmds, Args
  <2>2. StartTransfer(h, op) = [k EXCEPT !.cproc = "xfer", !.dproc = "xfer",
                                  !.cls = op.data, !.busy = @ + 1]
    BY <1>6 DEF StartTransfer, StartXfer
  <2> HIDE DEF k
  <2>3. {"wait", "ctl", "passive", "cproc"} \subseteq DOMAIN k
    BY <2>1 DEF Sound, FtpState
  <2> DEFINE g == StartTransfer(h, op)
  <2>4. g.wait = k.wait /\ g.ctl = k.ctl /\ g.passive = k.passive /\ g.cproc = "xfer"
    BY <2>2, <2>3
  <2> HIDE DEF g
  <2>5. QED
    BY <1>3, <1>4, <2>1, <2>4 DEF g
<1>7. QED
  BY <1>5, <1>6

\* popping the only element, or one of several
LEMMA TailEmpty ==
    ASSUME NEW S, NEW q \in Seq(S), q # << >>
    PROVE  Tail(q) = << >> <=> Len(q) = 1
<1>1. Len(q) \in Nat /\ Len(q) > 0 /\ Tail(q) \in Seq(S) /\ Len(Tail(q)) = Len(q) - 1
  BY EmptySeq, HeadTailProperties
<1>2. Tail(q) = << >> <=> Len(Tail(q)) = 0
  BY <1>1, EmptySeq
<1>3. QED
  BY <1>1, <1>2

\* The return from ftp_waitresp keeps IndInv, the waiting operation finished.
LEMMA ResumeInd ==
    ASSUME IndInv, Resume
    PROVE  IndInv'
<1>1. Sound(ftp) /\ ftp.wait # << >> /\ ftp.wait \in Seq(DataOp)
  BY IndInvSound DEF Resume, IndInv, WaitInv, Sound, FtpState
<1> DEFINE g == FinishPrepare(ftp)
<1>2. Sound(g) /\ g.wait = Tail(ftp.wait) /\ g.ctl = ftp.ctl
      /\ g.passive = ftp.passive /\ g.cproc \in {ftp.cproc, "list", "xfer"}
  BY <1>1, FinishPrepareSound, FinishPrepareFrame
<1> HIDE DEF g
<1>3. ftp' = g /\ pc' = IF Len(ftp.wait) = 1 THEN "select" ELSE "resume"
  BY DEF Resume, g
<1>4. OthersOK
  BY <1>3 DEF Resume, OthersOK, IndInv, TypeOK
<1>5. WaitInv'
  <2>1. Len(ftp.wait) # 1 => g.wait # << >>
    BY <1>1, <1>2, TailEmpty
  <2>2. ftp.ctl = Open => g.wait = << >>
    BY <1>1, <1>2, TailEmpty DEF IndInv, WaitInv
  <2>3. QED
    BY <1>2, <1>3, <2>1, <2>2 DEF IndInv, WaitInv
<1>6. QED
  BY <1>2, <1>3, <1>4, <1>5, FromParts

\* Accepting on the listening socket keeps IndInv.
LEMMA LisAcceptInd ==
    ASSUME IndInv, LisAccept
    PROVE  IndInv'
<1> DEFINE f == [ftp EXCEPT !.data = Open]
<1>1. PICK sk \in SockOutcomes :
        ftp' = HandleTail(f, sk) /\ LinkData(ftp, HandleTail(f, sk), FALSE)
  BY DEF LisAccept
<1>2. Sound(f) /\ f.wait = << >> /\ (f.cproc = "active" => f.passive = 0)
  <2>1. Sound(ftp) /\ ftp.wait = << >> /\ (ftp.cproc = "active" => ftp.passive = 0)
    BY IndInvSound DEF LisAccept, AtMainSelect, IndInv, WaitInv
  <2>2. QED
    BY ZenonT(40), <2>1 DEF Sound, FtpState, Handlers
<1> HIDE DEF f
<1>3. Sound(ftp') /\ Runs(f, ftp')
  BY <1>1, <1>2, HandleTailSound, HandleTailRuns
<1>4. OthersOK
  <2>1. srv' \in SrvState /\ dwire' \in Seq(Sources \cup {Eof})
    BY <1>1, LinkDataType DEF IndInv, TypeOK
  <2>2. QED
    BY <2>1 DEF LisAccept, OthersOK, IndInv, TypeOK
<1>5. pc' = "select"
  BY DEF LisAccept, AtMainSelect, AtSelect
<1>6. QED
  BY <1>2, <1>3, <1>4, <1>5, WaitAtMain, FromParts

\* ftp_queue called from the main loop keeps IndInv.
LEMMA QueueInd ==
    ASSUME IndInv, pc = "select", ftp.wait = << >>, NEW op \in FtpOp, NEW sk,
           ftp' = FtpQueue(ftp, op, sk), pc' = pc, OthersOK
    PROVE  IndInv'
<1>1. Sound(ftp) /\ (ftp.cproc = "active" => ftp.passive = 0)
  BY IndInvSound DEF IndInv, WaitInv
<1>2. Sound(ftp') /\ Runs(ftp, ftp')
  BY <1>1, FtpQueueSound, FtpQueueRuns
<1>3. QED
  BY <1>1, <1>2, WaitAtMain, FromParts

\* Queueing the start directory (main) keeps IndInv.
LEMMA QueueStartDirInd ==
    ASSUME IndInv, QueueStartDir
    PROVE  IndInv'
<1>1. PICK sk \in SockOutcomes : ftp' = FtpQueue(ftp, Op("CHDIR", startDir), sk)
  BY DEF QueueStartDir
<1>2. Op("CHDIR", startDir) \in FtpOp
  BY OpTypes DEF QueueStartDir, StartDirDue, IndInv, TypeOK, Args
<1>3. pc = "select" /\ ftp.wait = << >> /\ pc' = pc
  BY DEF QueueStartDir, StartDirDue
<1>4. OthersOK
  BY DEF QueueStartDir, OthersOK, IndInv, TypeOK, Args
<1>5. QED
  BY <1>1, <1>2, <1>3, <1>4, QueueInd

\* The keys keep IndInv.
LEMMA UserInd ==
    ASSUME IndInv, User
    PROVE  IndInv'
<1>1. CASE KeyCdup
  <2>1. PICK sk \in SockOutcomes : ftp' = FtpQueue(ftp, Op("CDUP", NoArg), sk)
    BY <1>1 DEF KeyCdup
  <2>2. pc = "select" /\ ftp.wait = << >> /\ pc' = pc
    BY <1>1 DEF KeyCdup, MayPress, AtMainSelect, AtSelect
  <2>3. OthersOK
    BY <1>1 DEF KeyCdup, OthersOK, IndInv, TypeOK
  <2>4. QED
    BY <2>1, <2>2, <2>3, OpTypes, QueueInd
<1>2. ASSUME NEW d \in Dirs, KeyChdir(d)
      PROVE  IndInv'
  <2>1. PICK sk \in SockOutcomes : ftp' = FtpQueue(ftp, Op("CHDIR", d), sk)
    BY <1>2 DEF KeyChdir
  <2>2. pc = "select" /\ ftp.wait = << >> /\ pc' = pc
    BY <1>2 DEF KeyChdir, MayPress, AtMainSelect, AtSelect
  <2>3. OthersOK
    BY <1>2 DEF KeyChdir, OthersOK, IndInv, TypeOK
  <2>4. Op("CHDIR", d) \in FtpOp
    BY OpTypes
  <2>5. QED
    BY <2>1, <2>2, <2>3, <2>4, QueueInd
<1>3. ASSUME NEW x \in Xfers, NEW n \in Names, KeyXfer(x, n)
      PROVE  IndInv'
  <2>1. PICK sk \in SockOutcomes : ftp' = FtpQueue(ftp, XferOp(x), sk)
    BY <1>3 DEF KeyXfer
  <2>2. pc = "select" /\ ftp.wait = << >> /\ pc' = pc
    BY <1>3 DEF KeyXfer, MayFetch, MayPress, AtMainSelect, AtSelect
  <2>3. OthersOK
    <3>1. ftp.dirent \in Seq(Sources) /\ ftp.dirent # << >>
      BY <1>3, IndInvSound DEF Sound, FtpState, KeyXfer
    <3>2. Head(ftp.dirent) \in Sources
      BY <3>1
    <3>3. Head(ftp.dirent)[1] \in Args
      BY <3>2 DEF Sources, Args
    <3>4. [st |-> "live", dir |-> Head(ftp.dirent)[1], name |-> n, got |-> << >>] \in Transfer
      BY <3>3 DEF Transfer
    <3>5. xfer' \in [Xfers -> Transfer]
      BY <1>3, <3>4 DEF KeyXfer, IndInv, TypeOK
    <3>6. QED
      BY <1>3, <3>5 DEF KeyXfer, OthersOK, IndInv, TypeOK
  <2>4. XferOp(x) \in FtpOp
    BY OpTypes
  <2>5. QED
    BY <2>1, <2>2, <2>3, <2>4, QueueInd
<1>4. QED
  BY <1>1, <1>2, <1>3 DEF User

\* handle_data leaves the control side of struct ftp alone
LEMMA RecvDataFrame ==
    ASSUME NEW f, Sound(f), NEW item, NEW mem
    PROVE  LET g == RecvData(f, item, mem) IN
           /\ g.wait = f.wait /\ g.ctl = f.ctl /\ g.passive = f.passive
           /\ g.cproc = f.cproc
<1> DEFINE h == CASE f.dproc = "list" -> DprocList(f, item)
                  [] f.dproc = "xfer" -> DprocXfer(f, item, mem)
                  [] OTHER -> f
<1>1. f \in FtpState
  BY DEF Sound
<1>2. /\ DprocList(f, item).wait = f.wait /\ DprocList(f, item).ctl = f.ctl
      /\ DprocList(f, item).passive = f.passive /\ DprocList(f, item).cproc = f.cproc
      /\ DOMAIN DprocList(f, item) = DOMAIN f
  BY <1>1 DEF DprocList, FtpState
<1>3. /\ DprocXfer(f, item, mem).wait = f.wait /\ DprocXfer(f, item, mem).ctl = f.ctl
      /\ DprocXfer(f, item, mem).passive = f.passive
      /\ DprocXfer(f, item, mem).cproc = f.cproc
      /\ DOMAIN DprocXfer(f, item, mem) = DOMAIN f
  BY <1>1 DEF DprocXfer, FtpState
<1>4. h.wait = f.wait /\ h.ctl = f.ctl /\ h.passive = f.passive /\ h.cproc = f.cproc
      /\ DOMAIN h = DOMAIN f
  BY <1>2, <1>3
<1> HIDE DEF h
<1>5. RecvData(f, item, mem) = IF item = Eof THEN [h EXCEPT !.data = NoSock] ELSE h
  BY DEF RecvData, h
<1>6. QED
  BY <1>4, <1>5

\* A packet or the end of data (handle_data) keeps IndInv.
LEMMA DataRecvInd ==
    ASSUME IndInv, DataRecv
    PROVE  IndInv'
<1> DEFINE item == Head(dwire)
           last == LastRecv(item)
           uses == ftp.dproc = "xfer"
<1>1. PICK sk \in SockOutcomes, mem \in MemOutcomes(ftp.cls) :
        LET f == RecvData(ftp, item, mem)
            g == IF last THEN HandleTail(f, sk) ELSE f
        IN  /\ ftp' = g
            /\ xfer' = IF uses THEN RecvXfer(ftp.cls, item) ELSE xfer
            /\ curXfer' = IF uses /\ item = Eof /\ mem = "intact"
                          THEN CurAfterDone(ftp.cls) ELSE curXfer
            /\ pc' = IF last THEN "select" ELSE "data"
            /\ nrecv' = IF last THEN 0 ELSE nrecv + 1
            /\ dwire' = IF g.data = NoSock THEN << >> ELSE Tail(dwire)
            /\ srv' = IF g.data = NoSock /\ srv.conn = "open"
                      THEN [srv EXCEPT !.conn = "none"] ELSE srv
  BY DEF DataRecv
<1> DEFINE f == RecvData(ftp, item, mem)
           g == IF last THEN HandleTail(f, sk) ELSE f
<1>2. item \in Sources \cup {Eof} /\ Tail(dwire) \in Seq(Sources \cup {Eof})
  BY DEF DataRecv, IndInv, TypeOK
<1>3. Sound(ftp) /\ ftp.wait = << >> /\ (ftp.cproc = "active" => ftp.passive = 0)
  BY IndInvSound DEF DataRecv, AtMainSelect, IndInv, WaitInv
<1> HIDE DEF item
<1>4. Sound(f) /\ f.wait = << >> /\ (f.cproc = "active" => f.passive = 0)
  BY <1>2, <1>3, RecvDataSound, RecvDataFrame
<1> HIDE DEF f, last
<1>5. Sound(g) /\ Runs(f, g)
  BY <1>4, HandleTailSound, HandleTailRuns DEF Runs
<1>6. ftp' = g
  BY <1>1 DEF f
<1>7. OthersOK
  <2>1. xfer' \in [Xfers -> Transfer]
    <3>1. uses => ftp.cls \in Xfers
      BY DEF IndInv, HandlersAgree
    <3>2. QED
      BY <1>1, <1>2, <3>1, RecvXferType DEF IndInv, TypeOK
  <2>2. curXfer' \in Xfers \cup {NoXfer}
    BY <1>1 DEF CurAfterDone, IndInv, TypeOK
  <2>3. pc' \in {"select", "data"} /\ startDir' = startDir
    BY <1>1 DEF DataRecv
  <2>4. nrecv' \in 0..(RecvMax - 1)
    <3>1. nrecv \in 0..(RecvMax - 1) /\ RecvMax \in Nat \ {0}
      BY BoundAssumption DEF IndInv, TypeOK
    <3>2. ~last => nrecv + 1 # RecvMax
      BY DEF last, LastRecv
    <3>3. QED
      BY <1>1, <3>1, <3>2
  <2>5. srv' \in SrvState
    BY <1>1 DEF IndInv, TypeOK, SrvState
  <2>6. dwire' \in Seq(Sources \cup {Eof})
    <3>1. dwire' = << >> \/ dwire' = Tail(dwire)
      BY <1>1
    <3>2. << >> \in Seq(Sources \cup {Eof})
      OBVIOUS
    <3>3. QED
      BY <1>2, <3>1, <3>2
  <2>7. QED
    BY <2>1, <2>2, <2>3, <2>4, <2>5, <2>6 DEF OthersOK, IndInv, TypeOK
<1>8. WaitInv'
  <2>1. CASE last
    <3>1. pc' = "select"
      BY <1>1, <2>1
    <3>2. QED
      BY <1>4, <1>5, <1>6, <3>1, WaitAtMain
  <2>2. CASE ~last
    <3>1. pc' = "data" /\ g = f
      BY <1>1, <2>2
    <3>2. QED
      BY <1>4, <1>6, <3>1 DEF WaitInv
  <2>3. QED
    BY <2>1, <2>2
<1>9. QED
  BY <1>5, <1>6, <1>7, <1>8, FromParts

\* What a reply does to the fields that WaitInv reads.  The callbacks other
\* than cproc_pasv and cproc_active leave them alone on an open connection.
LEMMA ProcControlWait ==
    ASSUME NEW f, Sound(f), NEW code, NEW dir \in Args, NEW conn, NEW sk,
           f.ctl = Open \/ f.cproc = "active",
           f.cproc = "active" => f.passive = 0,
           NEW r, r = ProcControl(f, code, dir, conn, sk)
    PROVE  /\ r.wait = f.wait
           /\ r.cproc = "active" => r.passive = 0
           /\ r.ctl = NoSock => r.cproc = "active"
           /\ f.cproc = "active" => r.cproc = "active"
           /\ f.cproc = "pasv" => /\ r.cproc \in {"pasv", "active"}
                                  /\ r.data = Open \/ r.passive = 0
<1> DEFINE g == ProcControl(f, code, dir, conn, sk)
<1> SUFFICES /\ g.wait = f.wait
             /\ g.cproc = "active" => g.passive = 0
             /\ g.ctl = NoSock => g.cproc = "active"
             /\ f.cproc = "active" => g.cproc = "active"
             /\ f.cproc = "pasv" => /\ g.cproc \in {"pasv", "active"}
                                    /\ g.data = Open \/ g.passive = 0
  OBVIOUS
<1>0. f \in FtpState /\ f.cproc \in Cprocs /\ f.ctl \in {NoSock, Open} /\ f.busy \in Int
  BY DEF Sound, FtpState
<1>1. CASE f.cproc = "none"
  <2> DEFINE h == [f EXCEPT !.busy = 0]
  <2>1. Sound(h) /\ h.wait = f.wait /\ h.ctl = Open /\ h.cproc = "none" /\ h.passive = f.passive
    <3>1. 0 \in Int
      OBVIOUS
    <3>2. QED
      BY <1>0, <1>1, <3>1 DEF Sound, FtpState, Handlers
  <2>2. g = Login(f, code, sk)
    BY <1>1 DEF ProcControl
  <2>3. g.wait = f.wait /\ g.ctl = Open /\ g.cproc \in {"none", "pwd"}
    <3>1. CASE code = 220 \/ code = 331
      <4>1. g = SendCmd(h, "user", NoArg, NoXfer) \/ g = SendCmd(h, "pass", NoArg, NoXfer)
        BY <2>2, <3>1 DEF Login
      <4> HIDE DEF h, g
      <4>2. QED
        BY <2>1, <4>1, SendCmdFrame
    <3>2. CASE code = 230
      <4> DEFINE a == FtpQueue(h, Op("TYPE", NoArg), sk)
                 b == FtpQueue(a, Op("PWD", NoArg), sk)
                 c == FtpQueue(b, Op("LIST", NoArg), sk)
      <4>1. g = c
        BY <2>2, <3>2 DEF Login, NewConn
      <4> HIDE DEF h, g
      <4>2. /\ Sound(a) /\ a.ctl = Open /\ a.wait = h.wait /\ a.cproc \in {"none", "pwd"}
            /\ Sound(b) /\ b.ctl = Open /\ b.wait = h.wait /\ b.cproc = a.cproc
            /\ b.queue # << >>
        BY <2>1, OpTypes, QueueTwice
      <4> HIDE DEF a, b
      <4>3. c = [b EXCEPT !.queue = Append(@, Op("LIST", NoArg))]
        BY <4>2 DEF FtpQueue
      <4>4. c.ctl = b.ctl /\ c.wait = b.wait /\ c.cproc = b.cproc
        BY <4>2, <4>3 DEF Sound, FtpState
      <4>5. QED
        BY <2>1, <4>1, <4>2, <4>4
    <3>3. CASE code = 530
      <4>1. g = [h EXCEPT !.status = "DISC"]
        BY <2>2, <3>3 DEF Login
      <4> HIDE DEF h
      <4>2. QED
        BY <2>1, <4>1 DEF Sound, FtpState
    <3>4. CASE code \notin {220, 331, 230, 530}
      <4>1. g = h
        BY <2>2, <3>4 DEF Login
      <4> HIDE DEF h, g
      <4>2. QED
        BY <2>1, <4>1
    <3>5. QED
      BY <3>1, <3>2, <3>3, <3>4
  <2>4. QED
    <3> HIDE DEF g, h
    <3> QED
      BY <1>1, <2>3 DEF g, Open, NoSock
<1>2. CASE f.cproc = "active"
  <2>1. g = CprocActive(f, code)
    BY <1>2 DEF ProcControl
  <2>2. QED
    BY <1>0, <1>2, <2>1 DEF CprocActive, Answered, FtpClose, FtpState
<1>3. CASE f.cproc = "pasv"
  <2>0. f.ctl = Open
    BY <1>3
  <2>1. g = CprocPasv(f, code, conn, sk)
    BY <1>3 DEF ProcControl
  <2>2. CASE code = 227 /\ conn = "ok"
    BY <1>0, <1>3, <2>0, <2>1, <2>2 DEF CprocPasv, Answered, FtpState, Open, NoSock
  <2>3. CASE ~(code = 227 /\ conn = "ok")
    <3> DEFINE s == IF sk = "ok" THEN Open ELSE NoSock
               e == [f EXCEPT !.passive = 0]
               h == [e EXCEPT !.data = NoSock, !.lis = s]
               k == SendCmd(h, "port", NoArg, NoXfer)
               a == IF sk = "ok" THEN [k EXCEPT !.cproc = "active"] ELSE h
    <3>1. g = [a EXCEPT !.busy = @ - 1]
      BY <2>1, <2>3 DEF CprocPasv, Answered, FtpActive
    <3>2. Sound(h) /\ h.wait = f.wait /\ h.ctl = Open /\ h.passive = 0 /\ h.cproc = "pasv"
      <4>1. s \in {NoSock, Open}
        OBVIOUS
      <4> HIDE DEF s
      <4>2. /\ e \in FtpState /\ e.wait = f.wait /\ e.ctl = f.ctl /\ e.passive = 0
            /\ e.cproc = f.cproc /\ e.dproc = f.dproc /\ e.cls = f.cls
        BY <1>0 DEF FtpState
      <4> HIDE DEF e
      <4>3. /\ h \in FtpState /\ h.wait = e.wait /\ h.ctl = e.ctl /\ h.passive = e.passive
            /\ h.cproc = e.cproc /\ h.dproc = e.dproc /\ h.cls = e.cls
        BY <4>1, <4>2 DEF FtpState
      <4> HIDE DEF h
      <4>4. QED
        BY <1>3, <2>0, <4>2, <4>3 DEF Sound, Handlers
    <3> HIDE DEF h
    <3>3. Sound(k) /\ k.wait = f.wait /\ k.ctl = Open /\ k.passive = 0
      BY <3>2, SendCmdSound, SendCmdFrame DEF Cmds, Args
    <3> HIDE DEF k
    <3>4. a \in FtpState /\ a.wait = f.wait /\ a.ctl = Open /\ a.passive = 0
          /\ a.cproc \in {"pasv", "active"}
      <4>1. LET b == [k EXCEPT !.cproc = "active"] IN
            b \in FtpState /\ b.wait = f.wait /\ b.ctl = Open /\ b.passive = 0
            /\ b.cproc = "active"
        BY ZenonT(40), <3>3 DEF Sound, FtpState, Cprocs
      <4>2. QED
        BY <3>2, <4>1 DEF Sound
    <3> HIDE DEF a, g
    <3>5. g.wait = f.wait /\ g.ctl = Open /\ g.passive = 0 /\ g.cproc \in {"pasv", "active"}
      BY <3>1, <3>4 DEF FtpState
    <3>6. QED
      BY <1>3, <3>5 DEF g, Open, NoSock
  <2>4. QED
    BY <2>2, <2>3
<1>4. CASE f.cproc = "pwd"
  <2>1. g = CprocPwd(f, code, dir)
    BY <1>4 DEF ProcControl
  <2>2. QED
    BY <1>0, <1>4, <2>1 DEF CprocPwd, Answered, FtpState, Open, NoSock
<1>5. CASE f.cproc = "cwd"
  <2> DEFINE a == FtpQueue(f, Op("PWD", NoArg), sk)
             b == FtpQueue(a, Op("LIST", NoArg), sk)
             h == IF code # 250 THEN f ELSE b
  <2>1. g = [h EXCEPT !.busy = @ - 1]
    BY <1>5 DEF ProcControl, CprocCwd, Answered
  <2>2. Sound(b) /\ b.ctl = Open /\ b.wait = f.wait /\ b.cproc \in {"cwd", "pwd"}
    BY <1>5, OpTypes, QueueTwice
  <2> HIDE DEF b
  <2>3. h \in FtpState /\ h.ctl = Open /\ h.wait = f.wait /\ h.cproc \in {"cwd", "pwd"}
    BY <1>0, <1>5, <2>2 DEF Sound
  <2> HIDE DEF h, g
  <2>4. g.ctl = Open /\ g.wait = f.wait /\ g.cproc \in {"cwd", "pwd"}
    BY <2>1, <2>3 DEF FtpState
  <2>5. QED
    BY <1>5, <2>4 DEF g, Open, NoSock
<1>6. CASE f.cproc \in {"list", "xfer"}
  <2>1. g = CprocTransfer(f, code)
    BY <1>6 DEF ProcControl
  <2>2. QED
    BY <1>0, <1>6, <2>1 DEF CprocTransfer, Answered, FtpState, Open, NoSock
<1>7. QED
  BY <1>0, <1>1, <1>2, <1>3, <1>4, <1>5, <1>6 DEF Cprocs

\* A reply line (proc_control and its callback) keeps IndInv, and what waits.
LEMMA CtlLineInd ==
    ASSUME IndInv, CtlLine
    PROVE  IndInv' /\ ftp'.wait = ftp.wait
<1> DEFINE e == Head(ftp.wire)
           prelim == e.mark = "sent"
           code == IF prelim THEN 150 ELSE e.code
           f == [ftp EXCEPT !.wire =
                    IF prelim THEN [@ EXCEPT ![1].mark = "read"] ELSE Tail(@)]
           ends == EndsXfer(code)
           uses == ftp.cproc = "xfer" /\ (prelim \/ ends)
<1>1. PICK sk \in SockOutcomes, conn \in ConnOutcomes, mem \in MemOutcomes(ftp.cls) :
        LET g == IF uses /\ mem = "garbage" THEN [f EXCEPT !.fault = "crash"]
                 ELSE ProcControl(f, code, e.arg, conn, sk)
        IN  /\ ftp' = g
            /\ xfer' = IF uses THEN UseXfer(ftp.cls, ends) ELSE xfer
            /\ curXfer' = IF uses /\ ends /\ mem = "intact"
                          THEN CurAfterDone(ftp.cls) ELSE curXfer
            /\ LinkData(f, g, f.cproc = "pasv")
  BY DEF CtlLine
<1> DEFINE g == IF uses /\ mem = "garbage" THEN [f EXCEPT !.fault = "crash"]
                ELSE ProcControl(f, code, e.arg, conn, sk)
<1>2. Sound(ftp) /\ ftp.wire \in Seq(Exchange) /\ ftp.wire # << >>
  BY IndInvSound DEF CtlLine, HasReply, Sound, FtpState
<1>3. e \in Exchange /\ e.arg \in Args
  <2>1. e \in Exchange
    BY <1>2
  <2>2. QED
    BY <2>1 DEF Exchange
<1>4. Sound(f) /\ f.wait = ftp.wait /\ f.ctl = ftp.ctl /\ f.cproc = ftp.cproc
      /\ f.passive = ftp.passive /\ f.data = ftp.data /\ f.busy = ftp.busy
  <2> DEFINE w == IF prelim THEN [ftp.wire EXCEPT ![1].mark = "read"] ELSE Tail(ftp.wire)
  <2>1. 1 \in 1..Len(ftp.wire) /\ ftp.wire[1] = e
    BY <1>2
  <2>2. [e EXCEPT !.mark = "read"] \in Exchange
    BY <1>3 DEF Exchange
  <2>3. [ftp.wire EXCEPT ![1].mark = "read"] = [ftp.wire EXCEPT ![1] = [e EXCEPT !.mark = "read"]]
    BY <2>1
  <2>4. w \in Seq(Exchange)
    BY <1>2, <2>1, <2>2, <2>3, ExceptSeq
  <2> HIDE DEF w
  <2>5. f = [ftp EXCEPT !.wire = w]
    BY DEF w
  <2>6. QED
    BY <1>2, <2>4, <2>5 DEF Sound, FtpState, Handlers
<1>5. (ftp.ctl = Open \/ ftp.cproc = "active") /\ (ftp.cproc = "active" => ftp.passive = 0)
  <2>1. pc = "ctl" \/ ftp.ctl = Open
    BY DEF CtlLine, InControl
  <2>2. ftp.ctl \in {NoSock, Open}
    BY <1>2 DEF Sound, FtpState
  <2>3. QED
    BY <2>1, <2>2 DEF IndInv, WaitInv
<1> HIDE DEF f, e, code, uses
<1>6. /\ Sound(g) /\ g.wait = f.wait
      /\ g.cproc = "active" => g.passive = 0
      /\ g.ctl = NoSock => g.cproc = "active"
      /\ f.wait # << >> /\ g.ctl = Open =>
            g.cproc \in {"pasv", "active"} /\ (g.data = Open \/ g.passive = 0)
  <2>1. CASE uses /\ mem = "garbage"
    <3>1. g = [f EXCEPT !.fault = "crash"] /\ f.cproc = "xfer"
      BY <1>4, <2>1 DEF uses
    <3>2. Sound(g) /\ g.wait = f.wait /\ g.cproc = "xfer" /\ g.ctl = f.ctl
      BY ZenonT(40), <1>4, <3>1 DEF Sound, FtpState, Handlers
    <3>3. f.ctl = Open
      BY <1>4, <1>5, <3>1
    <3>4. f.wait = << >>
      <4>1. pc \in {"select", "ctl"}
        BY DEF CtlLine, InControl, AtSelect
      <4>2. QED
        BY <1>4, <3>1, <3>3, <4>1 DEF IndInv, WaitInv
    <3>5. QED
      BY <3>2, <3>3, <3>4 DEF Open, NoSock
  <2>2. CASE ~(uses /\ mem = "garbage")
    <3>1. g = ProcControl(f, code, e.arg, conn, sk)
      BY <2>2
    <3>2. Sound(g)
      BY <1>3, <1>4, <3>1, ProcControlSound
    <3>3. /\ g.wait = f.wait
          /\ g.cproc = "active" => g.passive = 0
          /\ g.ctl = NoSock => g.cproc = "active"
          /\ f.cproc = "active" => g.cproc = "active"
          /\ f.cproc = "pasv" => g.cproc \in {"pasv", "active"} /\ (g.data = Open \/ g.passive = 0)
      <4>1. /\ f.ctl = Open \/ f.cproc = "active"
            /\ f.cproc = "active" => f.passive = 0
        BY <1>4, <1>5
      <4> HIDE DEF g
      <4>2. QED
        BY <1>3, <1>4, <3>1, <4>1, ProcControlWait
    <3>4. f.wait # << >> /\ f.ctl = Open => f.cproc \in {"pasv", "active"}
      <4>1. pc \in {"select", "ctl"}
        BY DEF CtlLine, InControl, AtSelect
      <4>2. QED
        BY <1>4, <4>1 DEF IndInv, WaitInv
    <3>5. f.ctl = Open \/ f.cproc = "active"
      BY <1>4, <1>5
    <3>6. QED
      BY <3>2, <3>3, <3>4, <3>5
  <2>3. QED
    BY <2>1, <2>2
<1>7. ftp' = g /\ pc' = "ctl"
  BY <1>1 DEF CtlLine
<1> HIDE DEF g
<1>8. OthersOK
  <2>1. srv' \in SrvState /\ dwire' \in Seq(Sources \cup {Eof})
    BY <1>1, LinkDataType DEF IndInv, TypeOK
  <2>2. xfer' \in [Xfers -> Transfer]
    BY <1>1, UseXferType DEF IndInv, TypeOK
  <2>3. curXfer' \in Xfers \cup {NoXfer}
    BY <1>1 DEF CurAfterDone, IndInv, TypeOK
  <2>4. QED
    BY <1>7, <2>1, <2>2, <2>3 DEF CtlLine, OthersOK, IndInv, TypeOK
<1>9. WaitInv'
  <2>1. f.wait # << >> /\ g.ctl = Open => Len(g.wait) = 1
    <3>1. g.ctl = Open => ftp.ctl = Open
      <4>1. ftp.cproc = "active" /\ ftp.ctl = NoSock => g.ctl = NoSock
        <5>1. ASSUME ftp.cproc = "active", ftp.ctl = NoSock PROVE g.ctl = NoSock
          <6>1. g = CprocActive(f, code)
            BY <1>4, <5>1 DEF g, uses, ProcControl
          <6>2. QED
            BY <1>4, <5>1, <6>1 DEF CprocActive, Answered, FtpClose, Sound, FtpState
        <5>2. QED
          BY <5>1
      <4>2. ftp.ctl \in {NoSock, Open}
        BY <1>2 DEF Sound, FtpState
      <4>3. QED
        BY <1>5, <4>1, <4>2 DEF Open, NoSock
    <3>2. QED
      BY <1>4, <1>6, <3>1 DEF IndInv, WaitInv
  <2>2. QED
    BY <1>6, <1>7, <2>1 DEF WaitInv
<1>10. IndInv'
  BY <1>6, <1>7, <1>8, <1>9, FromParts
<1>11. ftp'.wait = ftp.wait
  BY <1>4, <1>6, <1>7
<1>12. QED
  BY <1>10, <1>11

\* A step of the server changes at most the exchanges of ftp: what WaitInv and
\* HandlersAgree read stays as it was.
LEMMA SrvStepInd ==
    ASSUME IndInv, NEW w \in Seq(Exchange), ftp' = [ftp EXCEPT !.wire = w],
           srv' \in SrvState, dwire' \in Seq(Sources \cup {Eof}),
           UNCHANGED <<xfer, curXfer, pc, nrecv, startDir>>
    PROVE  IndInv'
<1>1. Sound(ftp)
  BY IndInvSound
<1>2. Sound(ftp') /\ ftp'.wait = ftp.wait /\ ftp'.ctl = ftp.ctl
      /\ ftp'.cproc = ftp.cproc /\ ftp'.passive = ftp.passive
      /\ ftp'.data = ftp.data /\ ftp'.busy = ftp.busy
  BY <1>1 DEF Sound, FtpState, Handlers
<1>3. OthersOK
  BY DEF OthersOK, IndInv, TypeOK
<1>4. WaitInv'
  BY <1>2 DEF IndInv, WaitInv
<1>5. QED
  BY <1>2, <1>3, <1>4, FromParts

\* the replies of the server are reply codes
LEMMA RepliesType ==
    ASSUME NEW cmd \in Cmds
    PROVE  Replies(cmd) \subseteq Codes
BY DEF Replies, LoginCmds, Codes, Cmds, Denied

\* the exchange the server is serving
LEMMA ServedExchange ==
    ASSUME IndInv, NEW i \in 1..Len(ftp.wire)
    PROVE  /\ ftp \in FtpState /\ ftp.wire \in Seq(Exchange)
           /\ ftp.wire[i] \in Exchange
           /\ \A e \in Exchange : [ftp.wire EXCEPT ![i] = e] \in Seq(Exchange)
<1>1. ftp \in FtpState
  BY DEF IndInv, TypeOK
<1>2. ftp.wire \in Seq(Exchange)
  BY <1>1 DEF FtpState
<1>3. QED
  BY <1>1, <1>2, ExceptSeq

\* the server answers a command
LEMMA SrvReplyInd ==
    ASSUME IndInv, NEW i \in 1..Len(ftp.wire), SrvReply(i)
    PROVE  IndInv'
<1> DEFINE e == ftp.wire[i]
<1>1. PICK code \in Replies(e.cmd) :
        LET dir == IF code # 250 THEN srv.cwd
                   ELSE IF e.cmd = "cdup" THEN Home ELSE e.arg
            hangup == e.cmd \in {"list", "retr"} /\ srv.conn = "open"
        IN  /\ ftp' = [ftp EXCEPT !.wire[i] =
                        [@ EXCEPT !.code = code, !.arg = dir]]
            /\ srv' = [srv EXCEPT
                        !.auth = IF code = 230 THEN 1 ELSE @,
                        !.cwd = dir,
                        !.conn = IF code = 227 THEN "listen"
                                 ELSE IF hangup THEN "none" ELSE @]
            /\ dwire' = IF hangup THEN Append(dwire, Eof) ELSE dwire
  BY DEF SrvReply
<1> DEFINE dir == IF code # 250 THEN srv.cwd
                  ELSE IF e.cmd = "cdup" THEN Home ELSE e.arg
           d == [e EXCEPT !.code = code, !.arg = dir]
<1>2. e \in Exchange /\ e.cmd \in Cmds /\ srv \in SrvState
      /\ dwire \in Seq(Sources \cup {Eof})
  BY ServedExchange DEF Exchange, IndInv, TypeOK
<1>3. code \in Codes
  BY <1>2, RepliesType
<1>4. dir \in Dirs
  <2>1. code = 250 => e.cmd \in {"cwd", "cdup"}
    BY <1>2 DEF Replies, LoginCmds, Denied, Cmds
  <2>2. srv.cwd \in Dirs /\ (e.cmd = "cwd" => e.arg \in Dirs)
    BY <1>2 DEF SrvState, Exchange
  <2>3. QED
    BY <2>1, <2>2, DirsAssumption
<1> HIDE DEF dir
<1>5. d \in Exchange
  BY <1>2, <1>3, <1>4 DEF Exchange, Args
<1>6. ftp' = [ftp EXCEPT !.wire = [ftp.wire EXCEPT ![i] = d]]
  BY <1>1, ServedExchange DEF dir
<1>7. srv' \in SrvState
  <2> DEFINE hangup == e.cmd \in {"list", "retr"} /\ srv.conn = "open"
             au == IF code = 230 THEN 1 ELSE srv.auth
             cn == IF code = 227 THEN "listen" ELSE IF hangup THEN "none" ELSE srv.conn
  <2>1. srv' = [srv EXCEPT !.auth = au, !.cwd = dir, !.conn = cn]
    BY <1>1 DEF dir
  <2>2. au \in {0, 1} /\ cn \in {"none", "listen", "open"}
    BY <1>2 DEF SrvState
  <2> HIDE DEF au, cn
  <2>3. QED
    BY <1>2, <1>4, <2>1, <2>2 DEF SrvState
<1>8. dwire' \in Seq(Sources \cup {Eof})
  <2>1. Append(dwire, Eof) \in Seq(Sources \cup {Eof})
    BY <1>2
  <2>2. QED
    BY <1>1, <1>2, <2>1
<1>9. [ftp.wire EXCEPT ![i] = d] \in Seq(Exchange)
  BY <1>5, ServedExchange
<1>10. UNCHANGED <<xfer, curXfer, pc, nrecv, startDir>>
  BY DEF SrvReply
<1> HIDE DEF d
<1>11. QED
  BY <1>6, <1>7, <1>8, <1>9, <1>10, SrvStepInd

\* the server opens a transfer with its preliminary reply
LEMMA SrvBeginInd ==
    ASSUME IndInv, NEW i \in 1..Len(ftp.wire), SrvBegin(i)
    PROVE  IndInv'
<1> DEFINE e == ftp.wire[i]
           d == [e EXCEPT !.mark = "sent"]
           src == <<srv.cwd, IF e.cmd = "list" THEN Ls ELSE xfer[e.data].name>>
<1>1. e \in Exchange /\ srv \in SrvState /\ xfer \in [Xfers -> Transfer]
      /\ dwire \in Seq(Sources \cup {Eof})
  BY ServedExchange DEF IndInv, TypeOK
<1>2. d \in Exchange
  BY <1>1 DEF Exchange
<1>3. src \in Sources
  <2>1. srv.cwd \in Dirs
    BY <1>1 DEF SrvState
  <2>2. e.cmd # "list" => e.data \in Xfers
    BY <1>1 DEF SrvBegin, Exchange
  <2>3. e.cmd # "list" => xfer[e.data].name \in Names \cup {Ls}
    BY <1>1, <2>2 DEF Transfer
  <2>4. QED
    BY <2>1, <2>3 DEF Sources
<1>4. ftp' = [ftp EXCEPT !.wire = [ftp.wire EXCEPT ![i] = d]]
  BY ServedExchange DEF SrvBegin
<1>5. srv' \in SrvState
  <2>1. srv' = [srv EXCEPT !.left = Chunks, !.src = src]
    BY DEF SrvBegin
  <2> HIDE DEF src
  <2>2. QED
    BY <1>1, <1>3, <2>1, BoundAssumption DEF SrvState
<1>6. [ftp.wire EXCEPT ![i] = d] \in Seq(Exchange)
  BY <1>2, ServedExchange
<1>7. UNCHANGED <<xfer, curXfer, pc, nrecv, startDir, dwire>>
  BY DEF SrvBegin
<1> HIDE DEF d
<1>8. QED
  BY <1>1, <1>4, <1>5, <1>6, <1>7, SrvStepInd

\* a step of the server that leaves the control connection alone
LEMMA SrvDataInd ==
    ASSUME IndInv, ftp' = ftp, srv' \in SrvState,
           dwire' \in Seq(Sources \cup {Eof}),
           UNCHANGED <<xfer, curXfer, pc, nrecv, startDir>>
    PROVE  IndInv'
<1>1. ftp \in FtpState
  BY DEF IndInv, TypeOK
<1>2. ftp.wire \in Seq(Exchange) /\ ftp' = [ftp EXCEPT !.wire = ftp.wire]
  BY <1>1 DEF FtpState
<1>3. QED
  BY <1>2, SrvStepInd

\* the packets of a transfer
LEMMA SrvChunkInd ==
    ASSUME IndInv, NEW i \in 1..Len(ftp.wire), SrvChunk(i)
    PROVE  IndInv'
<1>1. srv \in SrvState /\ dwire \in Seq(Sources \cup {Eof})
  BY DEF IndInv, TypeOK
<1>2. srv.left - 1 \in Nat /\ srv.src \in Sources
  BY <1>1 DEF SrvChunk, SrvState
<1>3. srv' \in SrvState
  BY <1>1, <1>2 DEF SrvChunk, SrvState
<1>4. dwire' \in Seq(Sources \cup {Eof})
  <2>1. srv.src \in Sources \cup {Eof}
    BY <1>2
  <2>2. QED
    BY <1>1, <2>1 DEF SrvChunk
<1>5. QED
  BY <1>3, <1>4, SrvDataInd DEF SrvChunk

\* the final reply of a transfer
LEMMA SrvFinishInd ==
    ASSUME IndInv, NEW i \in 1..Len(ftp.wire), SrvFinish(i)
    PROVE  IndInv'
<1> DEFINE e == ftp.wire[i]
           d(c) == [e EXCEPT !.code = c]
<1>1. e \in Exchange /\ srv \in SrvState /\ dwire \in Seq(Sources \cup {Eof})
  BY ServedExchange DEF IndInv, TypeOK
<1>2. PICK c \in {226, 426} : ftp' = [ftp EXCEPT !.wire[i].code = c]
  BY DEF SrvFinish
<1>3. d(c) \in Exchange
  BY <1>1 DEF Exchange, Codes
<1>4. ftp' = [ftp EXCEPT !.wire = [ftp.wire EXCEPT ![i] = d(c)]]
  BY <1>2, ServedExchange
<1>5. [ftp.wire EXCEPT ![i] = d(c)] \in Seq(Exchange)
  BY <1>3, ServedExchange
<1>6. srv' \in SrvState
  BY SMTT(30), <1>1 DEF SrvFinish, SrvState
<1>7. dwire' \in Seq(Sources \cup {Eof})
  <2>1. Append(dwire, Eof) \in Seq(Sources \cup {Eof})
    BY <1>1
  <2>2. QED
    BY <1>1, <2>1 DEF SrvFinish
<1>8. UNCHANGED <<xfer, curXfer, pc, nrecv, startDir>>
  BY DEF SrvFinish
<1> HIDE DEF d
<1>9. QED
  BY <1>4, <1>5, <1>6, <1>7, <1>8, SrvStepInd

\* the server ends the session with a 421
LEMMA SrvIdleInd ==
    ASSUME IndInv, SrvIdle
    PROVE  IndInv'
<1> DEFINE d == [Exch("idle", NoArg, NoXfer) EXCEPT !.code = 421]
<1>1. d \in Exchange
  BY DEF Exch, Exchange, Codes, Cmds, Args
<1> HIDE DEF d
<1>2. ftp \in FtpState /\ srv \in SrvState /\ dwire \in Seq(Sources \cup {Eof})
  BY DEF IndInv, TypeOK
<1>3. Append(ftp.wire, d) \in Seq(Exchange)
  BY <1>1, <1>2 DEF FtpState
<1>4. ftp' = [ftp EXCEPT !.wire = Append(ftp.wire, d)]
  BY DEF SrvIdle, d
<1>5. srv' \in SrvState /\ dwire' = dwire
  BY <1>2 DEF SrvIdle, SrvState
<1>6. UNCHANGED <<xfer, curXfer, pc, nrecv, startDir>>
  BY DEF SrvIdle
<1>7. QED
  BY <1>2, <1>3, <1>4, <1>5, <1>6, SrvStepInd

\* every step of the server
LEMMA ServerInd ==
    ASSUME IndInv, Server
    PROVE  IndInv'
<1>1. CASE SrvAnswer
  BY <1>1, SrvReplyInd, SrvBeginInd, SrvChunkInd, SrvFinishInd DEF SrvAnswer
<1>2. CASE SrvIdle
  BY <1>2, SrvIdleInd
<1>3. srv \in SrvState /\ dwire \in Seq(Sources \cup {Eof})
  BY DEF IndInv, TypeOK
<1>4. CASE SrvDrop
  BY <1>3, <1>4, SrvDataInd DEF SrvDrop, SrvState
<1>5. CASE SrvDataClose
  <2>1. Append(dwire, Eof) \in Seq(Sources \cup {Eof})
    BY <1>3
  <2>2. srv' \in SrvState /\ dwire' \in Seq(Sources \cup {Eof})
    BY <1>3, <1>5, <2>1 DEF SrvDataClose, SrvState
  <2>3. QED
    BY <1>5, <2>2, SrvDataInd DEF SrvDataClose
<1>6. QED
  BY <1>1, <1>2, <1>4, <1>5 DEF Server

\* every step of the client
LEMMA ClientInd ==
    ASSUME IndInv, Client
    PROVE  IndInv'
BY CtlLineInd, CtlNoReplyInd, CtlAgainInd, CtlEofInd, WaitTimeoutInd,
   WaitClosedInd, ResumeInd, DataRecvInd, LisAcceptInd, QueueStartDirInd
   DEF Client

-----------------------------------------------------------------------------
(***************************************************************************)
(* Part 4.  The theorems.                                                  *)
(***************************************************************************)

\* IndInv is an invariant of ftp.c and main.c against any server of the model,
\* for every Env, every number of transfers and every bound.
THEOREM Inductive == Spec => []IndInv
<1>1. Init => IndInv
  BY InitInd
<1>2. IndInv /\ [Next]_vars => IndInv'
  <2>1. ASSUME IndInv, Next PROVE IndInv'
    BY <2>1, ClientInd, UserInd, ServerInd DEF Next
  <2>2. ASSUME IndInv, UNCHANGED vars PROVE IndInv'
    BY <2>2 DEF vars, IndInv, TypeOK, HandlersAgree, WaitInv
  <2>3. QED
    BY <2>1, <2>2
<1>3. QED
  BY <1>1, <1>2, PTL DEF Spec

\* Every field of struct ftp, the transfers, the thread and the server keep
\* their types, whatever the server answers and whichever system call fails.
THEOREM TypeCorrect == Spec => []TypeOK
<1>1. IndInv => TypeOK
  BY DEF IndInv
<1>2. QED
  BY <1>1, Inductive, PTL

\* The callback that a reply or a packet reaches gets the block it casts its
\* cls argument to (ftp_list, ftp_transfer, proc_control, handle_data).
THEOREM CallbacksAgree == Spec => []HandlersAgree
<1>1. IndInv => HandlersAgree
  BY DEF IndInv
<1>2. QED
  BY <1>1, Inductive, PTL

\* While the control connection is open, ftp_waitresp is never called from
\* within itself, although it runs ftp_handle, which runs queued operations.
THEOREM WaitsDoNotNest == Spec => []WaitShallow
<1>1. ASSUME IndInv PROVE WaitShallow
  <2>1. ftp.wait = << >> => Len(ftp.wait) = 0
    OBVIOUS
  <2>2. ftp.ctl = Open => Len(ftp.wait) = 0 \/ Len(ftp.wait) = 1
    BY <1>1, <2>1 DEF IndInv, WaitInv
  <2>3. 0 <= 1 /\ 1 <= 1
    OBVIOUS
  <2>4. QED
    BY <2>2, <2>3 DEF WaitShallow
<1>2. QED
  BY <1>1, Inductive, PTL

\* proc_control starts no operation that waits for a reply, whatever the server
\* sends: handle_control is never called from within itself, while it scans its
\* buffer.
THEOREM ControlNotReentered == Spec => NotReentered
<1>1. IndInv /\ [Next]_vars => [CtlLine => Len(ftp'.wait) <= Len(ftp.wait)]_vars
  <2> SUFFICES ASSUME IndInv, CtlLine
               PROVE  Len(ftp'.wait) <= Len(ftp.wait)
    BY DEF vars
  <2>1. ftp'.wait = ftp.wait
    BY CtlLineInd
  <2>2. Len(ftp.wait) \in Nat
    BY DEF IndInv, TypeOK, FtpState
  <2>3. QED
    BY <2>1, <2>2
<1>2. QED
  BY <1>1, Inductive, PTL DEF Spec, NotReentered

\* A callback that uses the transfer that the status line shows finds it intact,
\* and when it ends the transfer, xfer_done clears cur_xfer.
LEMMA UseKeepsCur ==
    ASSUME CurXferLive, xfer \in [Xfers -> Transfer], NEW x, NEW end \in BOOLEAN,
           NEW mem \in MemOutcomes(x), xfer' = UseXfer(x, end),
           curXfer' = IF end /\ mem = "intact" THEN CurAfterDone(x) ELSE curXfer
    PROVE  CurXferLive'
<1> SUFFICES ASSUME curXfer' # NoXfer PROVE xfer'[curXfer'].st = "live"
  BY DEF CurXferLive
<1>1. curXfer' = curXfer /\ curXfer # NoXfer /\ ~(end /\ mem = "intact")
  BY DEF CurAfterDone
<1>2. xfer[curXfer].st = "live"
  BY <1>1 DEF CurXferLive
<1>3. CASE curXfer = x /\ x \in Xfers
  <2>1. mem = "intact"
    BY <1>2, <1>3 DEF MemOutcomes
  <2>2. xfer'[x].st = "live"
    BY <1>1, <1>2, <1>3, <2>1 DEF UseXfer, Transfer
  <2>3. QED
    BY <1>1, <1>3, <2>2
<1>4. CASE curXfer # x \/ x \notin Xfers
  <2>1. xfer'[curXfer] = xfer[curXfer]
    BY <1>4 DEF UseXfer
  <2>2. QED
    BY <1>1, <1>2, <2>1
<1>5. QED
  BY <1>3, <1>4

\* The status line never shows a transfer that was freed, in any session: every
\* callback that ends a transfer clears cur_xfer, whichever transfer it is of.
THEOREM StatusLineLive == Spec => []CurXferLive
<1>1. Init => CurXferLive
  BY DEF Init, CurXferLive
<1>2. IndInv /\ CurXferLive /\ [Next]_vars => CurXferLive'
  <2> SUFFICES ASSUME IndInv, CurXferLive, [Next]_vars PROVE CurXferLive'
    OBVIOUS
  <2>1. xfer \in [Xfers -> Transfer] /\ curXfer \in Xfers \union {NoXfer}
    BY DEF IndInv, TypeOK
  <2>2. ASSUME UNCHANGED <<xfer, curXfer>> PROVE CurXferLive'
    BY <2>2 DEF CurXferLive
  <2>3. CASE CtlLine
    <3> DEFINE e == Head(ftp.wire)
               prelim == e.mark = "sent"
               code == IF prelim THEN 150 ELSE e.code
               ends == EndsXfer(code)
               uses == ftp.cproc = "xfer" /\ (prelim \/ ends)
    <3>1. PICK mem \in MemOutcomes(ftp.cls) :
            /\ xfer' = IF uses THEN UseXfer(ftp.cls, ends) ELSE xfer
            /\ curXfer' = IF uses /\ ends /\ mem = "intact"
                          THEN CurAfterDone(ftp.cls) ELSE curXfer
      BY <2>3 DEF CtlLine
    <3>2. ends \in BOOLEAN
      BY DEF EndsXfer
    <3> HIDE DEF ends, uses
    <3>3. CASE uses
      BY <2>1, <3>1, <3>2, <3>3, UseKeepsCur
    <3>4. CASE ~uses
      BY <2>2, <3>1, <3>4
    <3>5. QED
      BY <3>3, <3>4
  <2>4. CASE DataRecv
    <3> DEFINE item == Head(dwire)
               uses == ftp.dproc = "xfer"
               x == ftp.cls
    <3>1. PICK mem \in MemOutcomes(x) :
            /\ xfer' = IF uses THEN RecvXfer(x, item) ELSE xfer
            /\ curXfer' = IF uses /\ item = Eof /\ mem = "intact"
                          THEN CurAfterDone(x) ELSE curXfer
      BY <2>4 DEF DataRecv
    <3> HIDE DEF uses, x, item
    <3>2. CASE ~uses
      BY <2>2, <3>1, <3>2
    <3>3. CASE uses /\ item # Eof /\ xfer[x].st = "live"
      <4>1. xfer' = [xfer EXCEPT ![x].got = Append(@, item)] /\ curXfer' = curXfer
        BY <3>1, <3>3 DEF RecvXfer
      <4>2. \A y \in Xfers : xfer'[y].st = xfer[y].st
        BY <2>1, <4>1 DEF Transfer
      <4>3. QED
        BY <2>1, <4>1, <4>2 DEF CurXferLive
    <3>4. CASE uses /\ ~(item # Eof /\ xfer[x].st = "live")
      <4> DEFINE end == item = Eof
      <4>1. xfer' = UseXfer(x, end)
        BY <3>1, <3>4 DEF RecvXfer
      <4>2. curXfer' = IF end /\ mem = "intact" THEN CurAfterDone(x) ELSE curXfer
        BY <3>1, <3>4
      <4>3. end \in BOOLEAN
        OBVIOUS
      <4> HIDE DEF end
      <4>4. QED
        BY <2>1, <4>1, <4>2, <4>3, UseKeepsCur
    <3>5. QED
      BY <3>2, <3>3, <3>4
  <2>5. ASSUME NEW x \in Xfers, NEW n \in Names, KeyXfer(x, n) PROVE CurXferLive'
    <3>1. curXfer' = x /\ xfer' = [xfer EXCEPT ![x] =
                [st |-> "live", dir |-> Head(ftp.dirent)[1], name |-> n, got |-> << >>]]
      BY <2>5 DEF KeyXfer
    <3>2. xfer'[x].st = "live"
      BY <2>1, <3>1
    <3>3. QED
      BY <3>1, <3>2 DEF CurXferLive
  <2>6. CASE CtlNoReply \/ CtlAgain \/ CtlEof \/ WaitTimeout \/ WaitClosed \/ Resume
             \/ LisAccept \/ QueueStartDir
    BY <2>2, <2>6 DEF CtlNoReply, CtlAgain, CtlEof, WaitTimeout, WaitClosed, Resume,
                      LisAccept, QueueStartDir
  <2>7. CASE KeyCdup \/ \E d \in Dirs : KeyChdir(d)
    BY <2>2, <2>7 DEF KeyCdup, KeyChdir
  <2>8. CASE Server
    BY <2>2, <2>8 DEF Server, SrvAnswer, SrvReply, SrvBegin, SrvChunk, SrvFinish, SrvIdle,
                      SrvDrop, SrvDataClose
  <2>9. CASE UNCHANGED vars
    BY <2>2, <2>9 DEF vars
  <2>10. QED
    BY <2>3, <2>4, <2>5, <2>6, <2>7, <2>8, <2>9 DEF Next, Client, User
<1>3. QED
  BY <1>1, <1>2, Inductive, PTL DEF Spec

(***************************************************************************)
(* Part 5.  The login and the count.  BusyInv says what busy is worth:     *)
(* once the first operation has installed a callback, every exchange whose *)
(* reply is not read is counted, and so is the end of data when the client *)
(* may still receive it.  No calm user is needed: operations run only at   *)
(* busy 0, where the wire is empty and the data connection silent.         *)
(***************************************************************************)

\* Before that operation at most one command of the login is on its way, and
\* there is no data connection.
Entering(f) ==
    /\ f.cproc = "none" /\ f.data = NoSock /\ f.lis = NoSock
    /\ f.wait = << >> /\ f.status = "DISC"
    /\ \/ f.wire = << >> /\ f.busy \in {0, 1}
       \/ /\ Len(f.wire) = 1 /\ f.wire[1].mark = "none"
          /\ \/ f.wire[1].cmd = "greet" /\ f.busy = 0 /\ f.queue = << >>
             \/ f.wire[1].cmd \in {"user", "pass", "type"} /\ f.busy = 1

\* After it no command of the login is.
NoLogin(w) == \A i \in 1..Len(w) : w[i].cmd \notin LoginCmds
Entered(f) == f.cproc # "none" /\ NoLogin(f.wire)

LoginOK(f) == Entering(f) \/ Entered(f)

\* the server has yet to end a transfer
Unserved(w) == \E i \in 1..Len(w) : w[i].cmd \in {"list", "retr"} /\ w[i].code = 0

\* the end of data may be received and counted down
Exposed(f, dw) == f.data = Open /\ (dw # << >> \/ Unserved(f.wire))

Ended(dw) == \E i \in 1..Len(dw) : dw[i] = Eof

\* a transfer has its callback, and nothing else a preliminary reply
Marks(f) == \A i \in 1..Len(f.wire) :
    /\ f.wire[i].cmd \in {"list", "retr"} => f.cproc \in {"list", "xfer"}
    /\ f.wire[i].mark # "none" => f.wire[i].cmd \in {"list", "retr"}

\* what is outstanding is counted in busy
Covered(f, dw) ==
    /\ f.busy >= Len(f.wire)
    /\ Exposed(f, dw) => f.busy > Len(f.wire)

\* PASV is alone on its way and closed the listening socket; a server that
\* connects to that one before it is asked finds no transfer under way
Links(f, dw) ==
    /\ f.cproc = "pasv" => f.lis = NoSock /\ Len(f.wire) <= 1
    /\ f.lis = Open =>
        /\ Len(f.wire) <= 1
        /\ f.data = Open => f.wait = << >>
        /\ f.data = NoSock \/ Ended(dw) => ~Unserved(f.wire)

Counted(f, dw) == Entered(f) => Marks(f) /\ Covered(f, dw) /\ Links(f, dw)

LoginInv == LoginOK(ftp)
BusyInv == LoginInv /\ Counted(ftp, dwire)

\* the greeting is not on its way
NoGreet(f) == \A i \in 1..Len(f.wire) : f.wire[i].cmd # "greet"

\* At most one command is sent, and counted; extra is what busy gets besides.
Sent(f, g, cmds, extra) ==
    \/ g.wire = f.wire /\ g.busy = f.busy + extra
    \/ /\ Len(g.wire) = Len(f.wire) + 1 /\ g.busy = f.busy + 1 + extra
       /\ \A i \in 1..Len(f.wire) : g.wire[i] = f.wire[i]
       /\ g.wire[Len(g.wire)].cmd \in cmds
       /\ g.wire[Len(g.wire)].mark = "none"

Same(f, g) == /\ g.lis = f.lis /\ g.data = f.data /\ g.wait = f.wait
              /\ g.status = f.status /\ g.fault = f.fault

Commands == {"pwd", "cwd", "cdup"}
TransferCmds == {"list", "retr"}

\* ftp_active listens and sends PORT, or has no socket
Listens(f, g) ==
    /\ g.wait = f.wait /\ g.status = f.status /\ g.fault = f.fault
    /\ g.data = NoSock
    /\ \/ Sent(f, g, {"port"}, 0) /\ g.cproc = "active" /\ g.lis = Open
       \/ /\ g.wire = f.wire /\ g.busy = f.busy /\ g.cproc = f.cproc
          /\ g.lis = NoSock

\* ftp_list and ftp_transfer
Starts(f, g) ==
    /\ Sent(f, g, TransferCmds, 1) /\ Same(f, g)
    /\ g.cproc \in {"list", "xfer"} /\ f.data = Open

\* what running an operation does
Effect(f, g) ==
    \/ g = f
    \/ Sent(f, g, {"type"}, 0) /\ Same(f, g) /\ g.cproc = f.cproc
    \/ Sent(f, g, Commands, 0) /\ Same(f, g) /\ g.cproc \in {"pwd", "cwd"}
    \/ Starts(f, g)
    \/ /\ Sent(f, g, {"pasv"}, 0) /\ g.cproc = "pasv"
       /\ g.lis = NoSock /\ g.data = NoSock /\ g.fault = f.fault
    \/ Listens(f, g)

\* ftp_send_cmd sends one command, or none without a connection.
LEMMA SendCmdSent ==
    ASSUME NEW f, Sound(f), NEW cmd, NEW arg, NEW x,
           NEW g, g = SendCmd(f, cmd, arg, x)
    PROVE  /\ Sent(f, g, {cmd}, 0)
           /\ Same(f, g) /\ g.cproc = f.cproc /\ DOMAIN g = DOMAIN f
<1>1. Same(f, g) /\ g.cproc = f.cproc
  BY SendCmdFrame DEF Same
<1>2. CASE f.ctl = NoSock
  <2>1. g = f /\ f.busy \in Int
    BY <1>2, SendCmdFrame DEF Sound, FtpState
  <2>2. QED
    BY <1>1, <2>1 DEF Sent
<1>3. CASE f.ctl # NoSock
  <2> DEFINE e == Exch(cmd, arg, x)
  <2>1. e.cmd = cmd /\ e.mark = "none"
    BY DEF Exch
  <2> HIDE DEF e
  <2>2. g = [f EXCEPT !.busy = @ + 1, !.wire = Append(@, e)]
    BY <1>3 DEF SendCmd, e
  <2>3. f.busy \in Int /\ f.wire \in Seq(Exchange)
    BY DEF Sound, FtpState
  <2>4. g.busy = f.busy + 1 /\ g.wire = Append(f.wire, e) /\ DOMAIN g = DOMAIN f
    BY <2>2 DEF Sound, FtpState
  <2>5. /\ Len(Append(f.wire, e)) = Len(f.wire) + 1
        /\ \A i \in 1..Len(f.wire) : Append(f.wire, e)[i] = f.wire[i]
        /\ Append(f.wire, e)[Len(f.wire) + 1] = e
    BY <2>3
  <2>6. QED
    BY <1>1, <2>1, <2>3, <2>4, <2>5 DEF Sent
<1>4. QED
  BY <1>2, <1>3

\* ftp_list and ftp_transfer send their command and count the data, too.
LEMMA StartTransferEffect ==
    ASSUME NEW f, Sound(f), f.data = Open, NEW op \in DataOp,
           NEW g, g = StartTransfer(f, op)
    PROVE  Starts(f, g)
<1>1. ASSUME NEW cmd \in TransferCmds, NEW x, NEW k, k = SendCmd(f, cmd, NoArg, x),
             g.busy = k.busy + 1, g.wire = k.wire, Same(k, g), g.cproc \in {"list", "xfer"}
      PROVE  Starts(f, g)
  <2>1. Sent(f, k, {cmd}, 0) /\ Same(f, k)
    BY <1>1, SendCmdSent
  <2>2. f.busy \in Int
    BY DEF Sound, FtpState
  <2>3. Sent(f, g, TransferCmds, 1) /\ Same(f, g)
    BY <1>1, <2>1, <2>2 DEF Sent, Same
  <2>4. QED
    BY <1>1, <2>3 DEF Starts
<1>2. CASE op.op = "LIST"
  <2> DEFINE k == SendCmd(f, "list", NoArg, NoXfer)
  <2>1. Sent(f, k, {"list"}, 0) /\ DOMAIN k = DOMAIN f
    BY SendCmdSent
  <2>2. g = [k EXCEPT !.cproc = "list", !.dproc = "list", !.cls = Rbuf,
                      !.rbuf = << >>, !.busy = @ + 1]
    BY <1>2 DEF StartTransfer, StartList
  <2> HIDE DEF k
  <2>3. /\ g.busy = k.busy + 1 /\ g.wire = k.wire /\ Same(k, g)
        /\ g.cproc = "list"
    BY <2>1, <2>2 DEF Sound, FtpState, Same
  <2>4. QED
    BY <1>1, <2>3 DEF k, TransferCmds
<1>3. CASE op.op # "LIST"
  <2> DEFINE k == SendCmd(f, "retr", NoArg, op.data)
  <2>1. Sent(f, k, {"retr"}, 0) /\ DOMAIN k = DOMAIN f
    BY SendCmdSent
  <2>2. g = [k EXCEPT !.cproc = "xfer", !.dproc = "xfer", !.cls = op.data, !.busy = @ + 1]
    BY <1>3 DEF StartTransfer, StartXfer
  <2> HIDE DEF k
  <2>3. /\ g.busy = k.busy + 1 /\ g.wire = k.wire /\ Same(k, g)
        /\ g.cproc = "xfer"
    BY <2>1, <2>2 DEF Sound, FtpState, Same
  <2>4. QED
    BY <1>1, <2>3 DEF k, TransferCmds
<1>4. QED
  BY <1>2, <1>3

\* ftp_active listens and sends PORT, or does neither.
LEMMA FtpActiveEffect ==
    ASSUME NEW f, Sound(f), NEW sk, NEW g, g = FtpActive(f, sk)
    PROVE  Listens(f, g)
<1> DEFINE h == [f EXCEPT !.data = NoSock,
                          !.lis = IF sk = "ok" THEN Open ELSE NoSock]
           k == SendCmd(h, "port", NoArg, NoXfer)
<1>1. Sound(h)
  BY DEF Sound, FtpState, Handlers
<1>2. /\ h.data = NoSock /\ h.wire = f.wire /\ h.busy = f.busy /\ h.wait = f.wait
      /\ h.status = f.status /\ h.cproc = f.cproc /\ h.fault = f.fault
      /\ h.lis = IF sk = "ok" THEN Open ELSE NoSock
  BY DEF Sound, FtpState
<1>3. CASE sk = "ok"
  <2>1. g = [k EXCEPT !.cproc = "active"]
    BY <1>3 DEF FtpActive
  <2> HIDE DEF h
  <2>2. Sent(h, k, {"port"}, 0) /\ Same(h, k) /\ DOMAIN k = DOMAIN h
    BY <1>1, SendCmdSent
  <2> HIDE DEF k
  <2>3. g.wire = k.wire /\ g.busy = k.busy /\ Same(k, g) /\ g.cproc = "active"
    BY <1>1, <2>1, <2>2 DEF Sound, FtpState, Same
  <2>4. QED
    BY <1>2, <1>3, <2>2, <2>3 DEF Listens, Sent, Same
<1>4. CASE sk # "ok"
  <2>1. g = h
    BY <1>4 DEF FtpActive
  <2>2. QED
    BY <1>2, <1>4, <2>1 DEF Listens
<1>5. QED
  BY <1>3, <1>4

\* exec_op does one of the things Effect lists.
LEMMA ExecOpEffect ==
    ASSUME NEW f, Sound(f), NEW op \in FtpOp, NEW sk, NEW g, g = ExecOp(f, op, sk)
    PROVE  Effect(f, g)
<1>1. CASE op.op = "TYPE"
  <2>1. g = SendCmd(f, "type", NoArg, NoXfer)
    BY <1>1 DEF ExecOp
  <2>2. QED
    BY <2>1, SendCmdSent DEF Effect
<1>2. ASSUME NEW cmd \in Commands, NEW arg, NEW c \in {"pwd", "cwd"},
             g = [SendCmd(f, cmd, arg, NoXfer) EXCEPT !.cproc = c]
      PROVE  Effect(f, g)
  <2> DEFINE k == SendCmd(f, cmd, arg, NoXfer)
  <2>1. Sent(f, k, {cmd}, 0) /\ Same(f, k) /\ DOMAIN k = DOMAIN f
    BY SendCmdSent
  <2>2. g = [k EXCEPT !.cproc = c]
    BY <1>2
  <2> HIDE DEF k
  <2>3. g.wire = k.wire /\ g.busy = k.busy /\ Same(k, g) /\ g.cproc = c
    BY <2>1, <2>2 DEF Sound, FtpState, Same
  <2>4. Sent(f, g, Commands, 0) /\ Same(f, g)
    BY <2>1, <2>3 DEF Sent, Same
  <2>5. QED
    BY <2>3, <2>4 DEF Effect
<1>3. CASE op.op = "PWD"
  BY <1>2, <1>3 DEF ExecOp, FtpPwd, Commands
<1>4. CASE op.op = "CHDIR"
  BY <1>2, <1>4 DEF ExecOp, FtpChdir, Commands
<1>5. CASE op.op = "CDUP"
  BY <1>2, <1>5 DEF ExecOp, FtpChdir, Commands
<1>6. CASE op.op \in {"LIST", "XFER"}
  <2>1. g = PrepareData(f, op, sk) /\ op \in DataOp
    BY <1>6 DEF ExecOp, DataOp
  <2>2. CASE f.data # NoSock
    <3>1. f.data = Open /\ g = StartTransfer(f, op)
      BY <2>1, <2>2 DEF PrepareData, Sound, FtpState
    <3>2. QED
      BY <2>1, <3>1, StartTransferEffect DEF Effect
  <2>3. CASE f.data = NoSock /\ f.passive = 1
    <3> DEFINE h == [f EXCEPT !.lis = NoSock, !.data = NoSock]
               k == SendCmd(h, "pasv", NoArg, NoXfer)
               m == [k EXCEPT !.cproc = "pasv"]
    <3>1. /\ Sound(h) /\ h.wire = f.wire /\ h.busy = f.busy /\ h.lis = NoSock
          /\ h.data = NoSock /\ h.fault = f.fault
      BY DEF Sound, FtpState, Handlers
    <3>2. g = [m EXCEPT !.wait = <<op>> \o @]
      BY <2>1, <2>3 DEF PrepareData, FtpPassive
    <3> HIDE DEF h
    <3>3. Sent(h, k, {"pasv"}, 0) /\ Same(h, k) /\ DOMAIN k = DOMAIN h
      BY <3>1, SendCmdSent
    <3> HIDE DEF k
    <3>4. /\ g.wire = k.wire /\ g.busy = k.busy /\ g.cproc = "pasv"
          /\ g.lis = k.lis /\ g.data = k.data /\ g.fault = k.fault
      BY <3>1, <3>2, <3>3 DEF Sound, FtpState
    <3>5. /\ Sent(f, g, {"pasv"}, 0) /\ g.lis = NoSock /\ g.data = NoSock
          /\ g.fault = f.fault
      BY <3>1, <3>3, <3>4 DEF Sent, Same
    <3>6. QED
      BY <3>4, <3>5 DEF Effect
  <2>4. CASE f.data = NoSock /\ f.passive # 1
    BY <2>1, <2>4, FtpActiveEffect DEF PrepareData, Effect
  <2>5. QED
    BY <2>2, <2>3, <2>4
<1>7. CASE op.op \notin {"TYPE", "PWD", "CHDIR", "CDUP", "LIST", "XFER"}
  BY <1>7 DEF ExecOp, Effect
<1>8. QED
  BY <1>1, <1>3, <1>4, <1>5, <1>6, <1>7

\* A command that is none of the login puts none of the login on the wire.
LEMMA SentNoLogin ==
    ASSUME NEW f, Sound(f), NoLogin(f.wire), NEW cmds, cmds \cap LoginCmds = {},
           NEW extra, NEW g, Sent(f, g, cmds, extra)
    PROVE  NoLogin(g.wire)
<1>1. Len(f.wire) \in Nat
  BY DEF Sound, FtpState
<1>2. CASE g.wire = f.wire
  BY <1>2 DEF NoLogin
<1>3. CASE /\ Len(g.wire) = Len(f.wire) + 1
           /\ \A i \in 1..Len(f.wire) : g.wire[i] = f.wire[i]
           /\ g.wire[Len(g.wire)].cmd \in cmds
  <2>1. ASSUME NEW i \in 1..Len(g.wire) PROVE g.wire[i].cmd \notin LoginCmds
    <3>1. CASE i = Len(g.wire)
      BY <1>3, <3>1
    <3>2. CASE i # Len(g.wire)
      <4>1. i \in 1..Len(f.wire)
        BY <1>1, <1>3, <3>2
      <4>2. QED
        BY <1>3, <4>1 DEF NoLogin
    <3>3. QED
      BY <3>1, <3>2
  <2>2. QED
    BY <2>1 DEF NoLogin
<1>4. QED
  BY <1>2, <1>3 DEF Sent

\* Running an operation when no login command is unanswered sends none, and
\* either leaves the login (cproc is set) or sends at most TYPE.
LEMMA EffectLogin ==
    ASSUME NEW f, Sound(f), NEW g, Effect(f, g), LoginOK(f),
           Entering(f) => f.wire = << >> /\ f.busy = 0
    PROVE  LoginOK(g) /\ NoGreet(g)
<1>1. ASSUME Entered(g) PROVE LoginOK(g) /\ NoGreet(g)
  BY <1>1 DEF LoginOK, Entered, NoLogin, NoGreet, LoginCmds
<1>2. f.wire = << >> => Len(f.wire) = 0
  OBVIOUS
<1>3. NoLogin(f.wire)
  BY <1>2 DEF LoginOK, Entered, NoLogin
<1>4. ASSUME NEW cmds, NEW extra, Sent(f, g, cmds, extra), cmds \cap LoginCmds = {},
             g.cproc # "none"
      PROVE  LoginOK(g) /\ NoGreet(g)
  BY <1>1, <1>3, <1>4, SentNoLogin DEF Entered
<1>5. CASE g = f
  BY <1>2, <1>5, <1>1 DEF LoginOK, NoGreet
<1>6. CASE Sent(f, g, {"type"}, 0) /\ Same(f, g) /\ g.cproc = f.cproc
  <2>1. CASE Entered(f)
    <3>1. g.cproc # "none" /\ {"type"} \cap LoginCmds = {}
      BY <1>6, <2>1 DEF Entered, LoginCmds
    <3>2. QED
      BY <1>4, <1>6, <3>1
  <2>2. CASE Entering(f)
    <3>1. f.wire = << >> /\ f.busy = 0 /\ Len(f.wire) = 0
      BY <2>2, <1>2
    <3>2. \/ g.wire = << >> /\ g.busy = 0 /\ Len(g.wire) = 0
          \/ /\ Len(g.wire) = 1 /\ g.busy = 1
             /\ g.wire[1].cmd = "type" /\ g.wire[1].mark = "none"
      BY <1>6, <3>1 DEF Sent
    <3>3. Entering(g)
      BY <1>6, <2>2, <3>2 DEF Entering, Same
    <3>4. NoGreet(g)
      BY <3>2 DEF NoGreet
    <3>5. QED
      BY <3>3, <3>4 DEF LoginOK
  <2>3. QED
    BY <2>1, <2>2 DEF LoginOK
<1>7. CASE Sent(f, g, Commands, 0) /\ g.cproc \in {"pwd", "cwd"}
  BY <1>4, <1>7 DEF Commands, LoginCmds
<1>8. CASE Starts(f, g)
  BY <1>4, <1>8 DEF Starts, TransferCmds, LoginCmds
<1>9. CASE Sent(f, g, {"pasv"}, 0) /\ g.cproc = "pasv"
  BY <1>4, <1>9 DEF LoginCmds
<1>10. CASE Listens(f, g)
  <2>1. CASE Sent(f, g, {"port"}, 0) /\ g.cproc = "active"
    BY <1>4, <2>1 DEF LoginCmds
  <2>2. CASE g.wire = f.wire /\ g.busy = f.busy /\ g.cproc = f.cproc /\ g.lis = NoSock
    <3>1. CASE Entered(f)
      BY <1>1, <2>2, <3>1 DEF Entered
    <3>2. CASE Entering(f)
      BY <1>2, <1>10, <2>2, <3>2 DEF Entering, Listens, LoginOK, NoGreet
    <3>3. QED
      BY <3>1, <3>2 DEF LoginOK
  <2>3. QED
    BY <1>10, <2>1, <2>2 DEF Listens
<1>11. QED
  BY <1>5, <1>6, <1>7, <1>8, <1>9, <1>10 DEF Effect

\* The head of the queue may run while the greeting is awaited only if there is
\* one, and nothing is queued then.
LEMMA ExecQueuedLogin ==
    ASSUME NEW f, Sound(f), LoginOK(f), f.busy = 0, NEW sk
    PROVE  LoginOK(ExecQueued(f, sk))
<1>1. CASE f.queue = << >>
  BY <1>1 DEF ExecQueued
<1>2. CASE f.queue # << >>
  <2> DEFINE h == [f EXCEPT !.queue = Tail(@)]
             op == Head(f.queue)
             g == ExecOp(h, op, sk)
  <2>1. f.queue \in Seq(FtpOp)
    BY DEF Sound, FtpState
  <2>2. op \in FtpOp /\ Tail(f.queue) \in Seq(FtpOp)
    BY <1>2, <2>1
  <2>3. /\ Sound(h) /\ h.wire = f.wire /\ h.busy = f.busy /\ h.cproc = f.cproc
        /\ h.data = f.data /\ h.lis = f.lis /\ h.wait = f.wait /\ h.status = f.status
    BY <2>2 DEF Sound, FtpState, Handlers
  <2> HIDE DEF h, op
  <2>4. Effect(h, g)
    BY <2>2, <2>3, ExecOpEffect
  <2>5. Entering(f) => f.wire = << >>
    BY <1>2 DEF Entering
  <2>6. LoginOK(h) /\ (Entering(h) => h.wire = << >> /\ h.busy = 0)
    BY <1>2, <2>3, <2>5 DEF LoginOK, Entering, Entered
  <2>7. LoginOK(g)
    BY <2>3, <2>4, <2>6, EffectLogin
  <2>8. QED
    BY <1>2, <2>7 DEF ExecQueued, h, op
<1>3. QED
  BY <1>1, <1>2

\* The end of ftp_handle sends nothing into the login.
LEMMA HandleTailLogin ==
    ASSUME NEW f, Sound(f), LoginOK(f), NEW sk
    PROVE  LoginOK(HandleTail(f, sk))
<1>0. f.busy \in Int
  BY DEF Sound, FtpState
<1>1. CASE f.busy > 0
  BY <1>0, <1>1 DEF HandleTail
<1>2. CASE f.busy = 0
  BY <1>0, <1>2, ExecQueuedLogin DEF HandleTail
<1>3. CASE f.busy < 0
  <2> DEFINE g == [f EXCEPT !.fault = "abort"]
  <2>1. /\ g.wire = f.wire /\ g.busy = f.busy /\ g.cproc = f.cproc /\ g.queue = f.queue
        /\ g.data = f.data /\ g.lis = f.lis /\ g.wait = f.wait /\ g.status = f.status
    BY DEF Sound, FtpState
  <2>2. HandleTail(f, sk) = g
    BY <1>0, <1>3 DEF HandleTail
  <2> HIDE DEF g
  <2>3. QED
    BY <2>1, <2>2 DEF LoginOK, Entering, Entered
<1>4. QED
  BY <1>0, <1>1, <1>2, <1>3

\* Once the greeting was answered, ftp_queue sends nothing into the login.
LEMMA FtpQueueLogin ==
    ASSUME NEW f, Sound(f), LoginOK(f), NoGreet(f), NEW op \in FtpOp, NEW sk,
           NEW g, g = FtpQueue(f, op, sk)
    PROVE  Sound(g) /\ LoginOK(g) /\ NoGreet(g)
<1>1. Sound(g)
  BY FtpQueueSound
<1>2. CASE f.busy = 0 /\ f.queue = << >>
  <2>1. g = ExecOp(f, op, sk)
    BY <1>2 DEF FtpQueue
  <2>2. Effect(f, g)
    BY <2>1, ExecOpEffect
  <2>3. Entering(f) => f.wire = << >> /\ f.busy = 0
    <3>1. ASSUME Entering(f), Len(f.wire) = 1, f.wire[1].cmd = "greet" PROVE FALSE
      BY <3>1 DEF NoGreet
    <3>2. QED
      BY <1>2, <3>1 DEF Entering
  <2>4. QED
    BY <1>1, <2>2, <2>3, EffectLogin
<1>3. CASE ~(f.busy = 0 /\ f.queue = << >>)
  <2>1. g = [f EXCEPT !.queue = Append(@, op)]
    BY <1>3 DEF FtpQueue
  <2>2. /\ g.wire = f.wire /\ g.busy = f.busy /\ g.cproc = f.cproc
        /\ g.data = f.data /\ g.lis = f.lis /\ g.wait = f.wait /\ g.status = f.status
    BY <2>1 DEF Sound, FtpState
  <2>3. ~(Len(f.wire) = 1 /\ f.wire[1].cmd = "greet")
    BY DEF NoGreet
  <2>4. QED
    BY <1>1, <2>2, <2>3 DEF LoginOK, Entering, Entered, NoGreet
<1>4. QED
  BY <1>2, <1>3

\* An operation that runs after the login never brings it back.
LEMMA EffectStays ==
    ASSUME NEW f, NEW g, Effect(f, g), Entered(f), LoginOK(g)
    PROVE  Entered(g)
<1>1. g.cproc # "none"
  BY DEF Effect, Starts, Listens, Entered, Commands
<1>2. QED
  BY <1>1 DEF LoginOK, Entering

\* Nor does ftp_queue.
LEMMA FtpQueueStays ==
    ASSUME NEW f, Sound(f), Entered(f), NEW op \in FtpOp, NEW sk,
           NEW g, g = FtpQueue(f, op, sk)
    PROVE  Sound(g) /\ Entered(g)
<1>1. LoginOK(f) /\ NoGreet(f)
  BY DEF LoginOK, Entered, NoLogin, NoGreet, LoginCmds
<1>2. Sound(g) /\ LoginOK(g)
  BY <1>1, FtpQueueLogin
<1>3. CASE f.busy = 0 /\ f.queue = << >>
  <2>1. Effect(f, g)
    BY <1>3, ExecOpEffect DEF FtpQueue
  <2>2. QED
    BY <1>2, <2>1, EffectStays
<1>4. CASE ~(f.busy = 0 /\ f.queue = << >>)
  <2>1. g = [f EXCEPT !.queue = Append(@, op)]
    BY <1>4 DEF FtpQueue
  <2>2. g.cproc = f.cproc
    BY <2>1 DEF Sound, FtpState
  <2>3. QED
    BY <1>2, <2>2 DEF LoginOK, Entering, Entered
<1>5. QED
  BY <1>3, <1>4

\* The assignments of the callbacks, field by field.
LEMMA SetField ==
    ASSUME NEW f, Sound(f)
    PROVE  /\ LET g == [f EXCEPT !.busy = 0]
              IN  /\ Sound(g) /\ g.wire = f.wire /\ g.cproc = f.cproc
                  /\ Same(f, g) /\ g.busy = 0
           /\ LET g == [f EXCEPT !.status = "ACT"]
              IN  /\ Sound(g) /\ g.wire = f.wire /\ g.cproc = f.cproc
                  /\ g.busy = f.busy /\ g.lis = f.lis /\ g.data = f.data
                  /\ g.wait = f.wait /\ g.fault = f.fault
           /\ LET g == [f EXCEPT !.data = Open, !.status = "PASV"]
              IN  /\ Sound(g) /\ g.wire = f.wire /\ g.cproc = f.cproc
                  /\ g.busy = f.busy /\ g.lis = f.lis /\ g.data = Open
                  /\ g.wait = f.wait /\ g.fault = f.fault
           /\ LET g == [f EXCEPT !.passive = 0]
              IN  /\ Sound(g) /\ g.wire = f.wire /\ g.cproc = f.cproc
                  /\ g.busy = f.busy /\ Same(f, g)
           /\ LET g == FtpClose(f)
              IN  /\ Sound(g) /\ g.wire = f.wire /\ g.cproc = f.cproc
                  /\ g.busy = f.busy /\ g.lis = NoSock /\ g.data = NoSock
                  /\ g.wait = f.wait /\ g.status = f.status /\ g.fault = f.fault
           /\ LET g == Answered(f)
              IN  /\ Sound(g) /\ g.wire = f.wire /\ g.cproc = f.cproc
                  /\ g.busy = f.busy - 1 /\ Same(f, g)
<1>1. LET g == [f EXCEPT !.busy = 0]
      IN  /\ Sound(g) /\ g.wire = f.wire /\ g.cproc = f.cproc
          /\ Same(f, g) /\ g.busy = 0
  <2> DEFINE g == [f EXCEPT !.busy = 0]
  <2>1. g.wire = f.wire /\ g.cproc = f.cproc /\ Same(f, g) /\ g.busy = 0
    BY DEF Sound, FtpState, Same
  <2>2. 0 \in Int
    OBVIOUS
  <2>3. Sound(g)
    BY <2>2 DEF Sound, FtpState, Handlers
  <2>4. QED
    BY <2>1, <2>3
<1>2. LET g == [f EXCEPT !.status = "ACT"]
      IN  /\ Sound(g) /\ g.wire = f.wire /\ g.cproc = f.cproc
          /\ g.busy = f.busy /\ g.lis = f.lis /\ g.data = f.data
          /\ g.wait = f.wait /\ g.fault = f.fault
  BY DEF Sound, FtpState, Handlers
<1>3. LET g == [f EXCEPT !.data = Open, !.status = "PASV"]
      IN  /\ Sound(g) /\ g.wire = f.wire /\ g.cproc = f.cproc
          /\ g.busy = f.busy /\ g.lis = f.lis /\ g.data = Open
          /\ g.wait = f.wait /\ g.fault = f.fault
  BY DEF Sound, FtpState, Handlers
<1>4. LET g == [f EXCEPT !.passive = 0]
      IN  /\ Sound(g) /\ g.wire = f.wire /\ g.cproc = f.cproc
          /\ g.busy = f.busy /\ Same(f, g)
  BY DEF Sound, FtpState, Handlers, Same
<1>5. LET g == FtpClose(f)
      IN  /\ Sound(g) /\ g.wire = f.wire /\ g.cproc = f.cproc
          /\ g.busy = f.busy /\ g.lis = NoSock /\ g.data = NoSock
          /\ g.wait = f.wait /\ g.status = f.status /\ g.fault = f.fault
  BY DEF Sound, FtpState, Handlers, FtpClose
<1>6. LET g == Answered(f)
      IN  /\ Sound(g) /\ g.wire = f.wire /\ g.cproc = f.cproc
          /\ g.busy = f.busy - 1 /\ Same(f, g)
  BY AnsweredSound DEF Sound, FtpState, Same, Answered
<1>7. QED
  BY <1>1, <1>2, <1>3, <1>4, <1>5, <1>6

\* cproc_pwd sets the directory and nothing else.
LEMMA SetCurdir ==
    ASSUME NEW f, Sound(f), NEW dir \in Args, NEW g, g = [f EXCEPT !.curdir = dir]
    PROVE  /\ Sound(g) /\ g.wire = f.wire /\ g.cproc = f.cproc
           /\ g.busy = f.busy /\ Same(f, g)
BY DEF Sound, FtpState, Handlers, Same

\* proc_control without a callback: it answers the server with the next command
\* of the login, or queues the first operations.
LEMMA LoginAnswers ==
    ASSUME NEW f, Sound(f), Entering(f), f.wire = << >>, NEW code, NEW sk
    PROVE  LoginOK(Login(f, code, sk))
<1> DEFINE g == [f EXCEPT !.busy = 0]
<1>1. Sound(g) /\ g.wire = << >> /\ g.busy = 0 /\ Entering(g) /\ NoGreet(g)
  <2>1. /\ Sound(g) /\ g.wire = << >> /\ g.busy = 0 /\ g.cproc = f.cproc
        /\ Same(f, g)
    BY SetField
  <2>2. Len(<< >>) = 0
    OBVIOUS
  <2> HIDE DEF g
  <2>3. Len(g.wire) = 0
    BY <2>1, <2>2
  <2>4. QED
    BY <2>1, <2>3 DEF Entering, NoGreet, Same
<1>2. ASSUME NEW cmd \in {"user", "pass"}
      PROVE  Entering(SendCmd(g, cmd, NoArg, NoXfer))
  <2> DEFINE k == SendCmd(g, cmd, NoArg, NoXfer)
  <2> HIDE DEF g
  <2>1. Sent(g, k, {cmd}, 0) /\ Same(g, k) /\ k.cproc = g.cproc
    BY <1>1, SendCmdSent
  <2> HIDE DEF k
  <2>2. Len(g.wire) = 0
    BY <1>1
  <2>3. \/ k.wire = << >> /\ k.busy = 0
        \/ /\ Len(k.wire) = 1 /\ k.busy = 1
           /\ k.wire[1].cmd = cmd /\ k.wire[1].mark = "none"
    BY <1>1, <2>1, <2>2 DEF Sent
  <2>4. Entering(k)
    BY <1>1, <2>1, <2>3 DEF Entering, Same
  <2>5. QED
    BY <2>4 DEF k
<1>3. LoginOK(NewConn(g, sk))
  <2> DEFINE a == FtpQueue(g, Op("TYPE", NoArg), sk)
             b == FtpQueue(a, Op("PWD", NoArg), sk)
             c == FtpQueue(b, Op("LIST", NoArg), sk)
  <2>1. /\ Op("TYPE", NoArg) \in FtpOp /\ Op("PWD", NoArg) \in FtpOp
        /\ Op("LIST", NoArg) \in FtpOp
    BY OpTypes
  <2> HIDE DEF g
  <2>2. Sound(a) /\ LoginOK(a) /\ NoGreet(a)
    BY <1>1, <2>1, FtpQueueLogin DEF LoginOK
  <2> HIDE DEF a
  <2>3. Sound(b) /\ LoginOK(b) /\ NoGreet(b)
    BY <2>1, <2>2, FtpQueueLogin
  <2> HIDE DEF b
  <2>4. LoginOK(c)
    BY <2>1, <2>3, FtpQueueLogin
  <2>5. QED
    BY <2>4 DEF NewConn, a, b, c
<1>4. LoginOK([g EXCEPT !.status = "DISC"])
  BY <1>1 DEF Sound, FtpState, LoginOK, Entering
<1>5. QED
  BY <1>1, <1>2, <1>3, <1>4 DEF Login, LoginOK

\* A reply leads to the next command of the login, or out of it.
LEMMA ProcControlLogin ==
    ASSUME NEW f, Sound(f), Entered(f) \/ (Entering(f) /\ f.wire = << >>),
           NEW code, NEW dir \in Args, NEW conn, NEW sk,
           NEW r, r = ProcControl(f, code, dir, conn, sk)
    PROVE  LoginOK(r)
<1>1. CASE Entering(f) /\ f.wire = << >>
  BY <1>1, LoginAnswers DEF ProcControl, Entering
<1>2. CASE Entered(f)
  <2>1. ASSUME NEW h, Sound(h), Entered(h) PROVE LoginOK(Answered(h))
    <3>1. Answered(h).cproc = h.cproc /\ Answered(h).wire = h.wire
      BY <2>1 DEF Answered, Sound, FtpState
    <3>2. QED
      BY <2>1, <3>1 DEF LoginOK, Entered
  <2>2. f.cproc \in Cprocs \ {"none"}
    BY <1>2 DEF Entered, Sound, FtpState
  <2>3. CASE f.cproc = "active"
    <3> DEFINE h == IF code # 200 THEN FtpClose(f) ELSE [f EXCEPT !.status = "ACT"]
    <3>1. Sound(h) /\ h.cproc = f.cproc /\ h.wire = f.wire
      <4>1. CASE code # 200
        BY <4>1, SetField
      <4>2. CASE code = 200
        BY <4>2, SetField
      <4>3. QED
        BY <4>1, <4>2
    <3> HIDE DEF h
    <3>2. Entered(h)
      BY <1>2, <3>1 DEF Entered
    <3>3. r = Answered(h)
      BY <2>3 DEF ProcControl, CprocActive, h
    <3>4. QED
      BY <2>1, <3>1, <3>2, <3>3
  <2>4. CASE f.cproc = "pasv"
    <3>1. r = CprocPasv(f, code, conn, sk)
      BY <2>4 DEF ProcControl
    <3>2. CASE code = 227 /\ conn = "ok"
      <4> DEFINE h == [f EXCEPT !.data = Open, !.status = "PASV"]
      <4>1. Sound(h) /\ h.cproc = f.cproc /\ h.wire = f.wire
        BY DEF Sound, FtpState, Handlers
      <4>2. r = Answered(h)
        BY <3>1, <3>2 DEF CprocPasv
      <4> HIDE DEF h
      <4>3. Entered(h)
        BY <1>2, <4>1 DEF Entered
      <4>4. QED
        BY <2>1, <4>1, <4>2, <4>3
    <3>3. CASE ~(code = 227 /\ conn = "ok")
      <4> DEFINE k == [f EXCEPT !.passive = 0]
                 h == FtpActive(k, sk)
      <4>1. Sound(k) /\ k.cproc = f.cproc /\ k.wire = f.wire
        BY DEF Sound, FtpState, Handlers
      <4>2. r = Answered(h)
        BY <3>1, <3>3 DEF CprocPasv
      <4> HIDE DEF k
      <4>3. Entered(k) /\ LoginOK(k)
        BY <1>2, <4>1 DEF Entered, LoginOK
      <4>4. Sound(h) /\ Listens(k, h)
        BY <4>1, FtpActiveSound, FtpActiveEffect
      <4> HIDE DEF h
      <4>5. Effect(k, h) /\ ~Entering(k)
        BY <2>4, <4>1, <4>4 DEF Effect, Entering
      <4>6. Entered(h)
        BY <4>1, <4>3, <4>5, EffectLogin, EffectStays
      <4>7. QED
        BY <2>1, <4>2, <4>4, <4>6
    <3>4. QED
      BY <3>2, <3>3
  <2>5. CASE f.cproc = "pwd"
    <3> DEFINE h == IF code # 257 THEN f ELSE [f EXCEPT !.curdir = dir]
    <3>1. Sound(h) /\ h.cproc = f.cproc /\ h.wire = f.wire
      <4>1. CASE code # 257
        BY <4>1
      <4>2. CASE code = 257
        BY <4>2, SetCurdir
      <4>3. QED
        BY <4>1, <4>2
    <3> HIDE DEF h
    <3>2. Entered(h)
      BY <1>2, <3>1 DEF Entered
    <3>3. r = Answered(h)
      BY <2>5 DEF ProcControl, CprocPwd, h
    <3>4. QED
      BY <2>1, <3>1, <3>2, <3>3
  <2>6. CASE f.cproc = "cwd"
    <3> DEFINE a == FtpQueue(f, Op("PWD", NoArg), sk)
               b == FtpQueue(a, Op("LIST", NoArg), sk)
    <3>1. Op("PWD", NoArg) \in FtpOp /\ Op("LIST", NoArg) \in FtpOp
      BY OpTypes
    <3>2. Sound(a) /\ Entered(a)
      BY <1>2, <3>1, FtpQueueStays
    <3> HIDE DEF a
    <3>3. Sound(b) /\ Entered(b)
      BY <3>1, <3>2, FtpQueueStays
    <3> HIDE DEF b
    <3>4. r = Answered(f) \/ r = Answered(b)
      BY <2>6 DEF ProcControl, CprocCwd, a, b
    <3>5. QED
      BY <1>2, <2>1, <3>3, <3>4
  <2>7. CASE f.cproc \in {"list", "xfer"}
    <3>1. r = f \/ r = Answered(f)
      BY <2>7 DEF ProcControl, CprocTransfer
    <3>2. QED
      BY <1>2, <2>1, <3>1 DEF LoginOK
  <2>8. QED
    BY <2>2, <2>3, <2>4, <2>5, <2>6, <2>7 DEF Cprocs
<1>3. QED
  BY <1>1, <1>2

\* what a complete line does: the preliminary reply is marked as read, or the
\* exchange is over, and proc_control gets the client with that wire
LineOutcome(f, code, dir, conn, sk) ==
    /\ Sound(f) /\ dir \in Args /\ code \in Codes \cup {150} /\ code # 0
    /\ f.busy = ftp.busy /\ f.cproc = ftp.cproc /\ f.queue = ftp.queue
    /\ f.ctl = ftp.ctl /\ Same(ftp, f) /\ f.dproc = ftp.dproc /\ f.cls = ftp.cls
    /\ f.dirent = ftp.dirent
    /\ ftp.wire # << >>
    /\ \/ /\ code = 150 /\ ftp.wire[1].mark = "sent"
          /\ Len(f.wire) = Len(ftp.wire)
          /\ \A i \in 1..Len(ftp.wire) :
                /\ f.wire[i].cmd = ftp.wire[i].cmd
                /\ f.wire[i].code = ftp.wire[i].code
                /\ f.wire[i].mark = IF i = 1 THEN "read" ELSE ftp.wire[i].mark
       \/ /\ code # 150 /\ ftp.wire[1].mark # "sent" /\ code = ftp.wire[1].code
          /\ f.wire = Tail(ftp.wire)
    /\ \/ ftp' = ProcControl(f, code, dir, conn, sk)
       \/ f.cproc = "xfer" /\ ftp' = [f EXCEPT !.fault = "crash"]
    /\ LinkData(f, ftp', f.cproc = "pasv")
    /\ xfer' = IF ftp.cproc = "xfer" /\ (code = 150 \/ EndsXfer(code))
               THEN UseXfer(ftp.cls, EndsXfer(code)) ELSE xfer

\* handle_control on a complete line.
LEMMA LineRead ==
    ASSUME IndInv, CtlLine
    PROVE  \E f, code, dir, conn, sk : LineOutcome(f, code, dir, conn, sk)
<1> DEFINE e == Head(ftp.wire)
           prelim == e.mark = "sent"
           code == IF prelim THEN 150 ELSE e.code
           f == [ftp EXCEPT !.wire =
                    IF prelim THEN [@ EXCEPT ![1].mark = "read"] ELSE Tail(@)]
           ends == EndsXfer(code)
           uses == ftp.cproc = "xfer" /\ (prelim \/ ends)
<1>1. PICK sk \in SockOutcomes, conn \in ConnOutcomes, mem \in MemOutcomes(ftp.cls) :
        LET g == IF uses /\ mem = "garbage" THEN [f EXCEPT !.fault = "crash"]
                 ELSE ProcControl(f, code, e.arg, conn, sk)
        IN  /\ ftp' = g /\ LinkData(f, g, f.cproc = "pasv")
            /\ xfer' = IF uses THEN UseXfer(ftp.cls, ends) ELSE xfer
  BY DEF CtlLine
<1>2. Sound(ftp) /\ ftp.wire \in Seq(Exchange) /\ ftp.wire # << >>
  BY IndInvSound DEF CtlLine, HasReply, Sound, FtpState
<1>3. e \in Exchange /\ e.arg \in Args /\ e.code \in Codes /\ e = ftp.wire[1]
  <2>1. e \in Exchange /\ e = ftp.wire[1]
    BY <1>2
  <2>2. QED
    BY <2>1 DEF Exchange
<1>4. code \in Codes \cup {150} /\ code # 0 /\ (code = 150 <=> prelim)
  <2>1. prelim \/ e.code # 0
    BY DEF CtlLine, HasReply
  <2>2. 150 \notin Codes
    BY DEF Codes
  <2>3. QED
    BY <1>3, <2>1, <2>2
<1> DEFINE w == IF prelim THEN [ftp.wire EXCEPT ![1].mark = "read"] ELSE Tail(ftp.wire)
           d == [e EXCEPT !.mark = "read"]
<1>5. 1 \in 1..Len(ftp.wire)
  BY <1>2
<1>6. d \in Exchange /\ d.cmd = e.cmd /\ d.code = e.code /\ d.mark = "read"
  BY <1>3 DEF Exchange
<1>7. [ftp.wire EXCEPT ![1].mark = "read"] = [ftp.wire EXCEPT ![1] = d]
  BY <1>3, <1>5
<1> HIDE DEF d
<1>8. w \in Seq(Exchange)
  BY <1>2, <1>5, <1>6, <1>7, ExceptSeq
<1>9. \/ /\ prelim /\ Len(w) = Len(ftp.wire)
         /\ \A i \in 1..Len(ftp.wire) :
                /\ w[i].cmd = ftp.wire[i].cmd
                /\ w[i].code = ftp.wire[i].code
                /\ w[i].mark = IF i = 1 THEN "read" ELSE ftp.wire[i].mark
      \/ ~prelim /\ w = Tail(ftp.wire)
  <2>1. CASE prelim
    <3>1. w = [ftp.wire EXCEPT ![1] = d]
      BY <1>7, <2>1
    <3> HIDE DEF w
    <3>2. Len(w) = Len(ftp.wire) /\ w[1] = d
          /\ \A i \in 1..Len(ftp.wire) : i # 1 => w[i] = ftp.wire[i]
      BY <1>2, <1>5, <1>6, <3>1, ExceptSeq
    <3>3. QED
      BY <1>3, <1>6, <2>1, <3>2
  <2>2. CASE ~prelim
    BY <2>2
  <2>3. QED
    BY <2>1, <2>2
<1>10. f = [ftp EXCEPT !.wire = w]
  BY DEF w
<1> HIDE DEF w
<1>11. /\ Sound(f) /\ f.wire = w /\ f.busy = ftp.busy /\ f.cproc = ftp.cproc
       /\ f.queue = ftp.queue /\ f.ctl = ftp.ctl /\ Same(ftp, f)
  BY <1>2, <1>8, <1>10 DEF Sound, FtpState, Handlers, Same
<1>12. f.dproc = ftp.dproc /\ f.cls = ftp.cls /\ f.dirent = ftp.dirent
  BY <1>2, <1>10 DEF Sound, FtpState
<1>13. ~prelim => code = e.code
  OBVIOUS
<1> HIDE DEF f, code
<1>14. xfer' = IF ftp.cproc = "xfer" /\ (code = 150 \/ EndsXfer(code))
               THEN UseXfer(ftp.cls, EndsXfer(code)) ELSE xfer
  BY <1>1, <1>4 DEF uses, ends
<1> HIDE DEF uses, ends
<1>15. /\ \/ ftp' = ProcControl(f, code, e.arg, conn, sk)
          \/ f.cproc = "xfer" /\ ftp' = [f EXCEPT !.fault = "crash"]
       /\ LinkData(f, ftp', f.cproc = "pasv")
  BY <1>1, <1>11 DEF uses
<1>16. \/ /\ code = 150 /\ ftp.wire[1].mark = "sent"
          /\ Len(f.wire) = Len(ftp.wire)
          /\ \A i \in 1..Len(ftp.wire) :
                /\ f.wire[i].cmd = ftp.wire[i].cmd
                /\ f.wire[i].code = ftp.wire[i].code
                /\ f.wire[i].mark = IF i = 1 THEN "read" ELSE ftp.wire[i].mark
       \/ /\ code # 150 /\ ftp.wire[1].mark # "sent" /\ code = ftp.wire[1].code
          /\ f.wire = Tail(ftp.wire)
  BY <1>3, <1>4, <1>9, <1>11, <1>13
<1>17. LineOutcome(f, code, e.arg, conn, sk)
  BY <1>2, <1>3, <1>4, <1>11, <1>12, <1>14, <1>15, <1>16 DEF LineOutcome
<1>18. QED
  BY <1>17

\* Less data on its way leaves less to count.
LEMMA CountedLess ==
    ASSUME NEW f, NEW dw, Counted(f, dw)
    PROVE  Counted(f, << >>)
<1>1. Ended(<< >>) = FALSE
  BY DEF Ended
<1>2. Exposed(f, << >>) => Exposed(f, dw)
  BY DEF Exposed
<1>3. QED
  BY <1>1, <1>2 DEF Counted, Covered, Links

\* Without a data connection no data counts.
LEMMA CountedAny ==
    ASSUME NEW f, NEW dw, NEW dx, Counted(f, dw), f.data = NoSock
    PROVE  Counted(f, dx)
BY DEF Counted, Covered, Links, Exposed, NoSock, Open

\* what a new or lost data connection leaves on it
LEMMA LinkCounted ==
    ASSUME NEW f, NEW g, NEW fresh \in BOOLEAN, LinkData(f, g, fresh), Sound(g),
           f.data \in {NoSock, Open}, Counted(g, << >>),
           fresh \/ g.data # f.data \/ Counted(g, dwire)
    PROVE  Counted(g, dwire')
<1>1. g.data \in {NoSock, Open} /\ NoSock # Open
  BY DEF Sound, FtpState, NoSock, Open
<1>2. CASE g.data = NoSock
  BY <1>2, CountedAny
<1>3. CASE g.data = Open /\ (fresh \/ g.data # f.data)
  <2>1. dwire' = << >>
    BY <1>1, <1>3 DEF LinkData
  <2>2. QED
    BY <2>1
<1>4. CASE g.data = Open /\ ~fresh /\ g.data = f.data
  <2>1. dwire' = dwire
    BY <1>1, <1>4 DEF LinkData
  <2>2. QED
    BY <1>4, <2>1
<1>5. QED
  BY <1>1, <1>2, <1>3, <1>4

\* the client with nothing outstanding
Resting(f, dw) ==
    /\ f.wire = << >> /\ f.busy = 0 /\ Len(f.wire) = 0
    /\ f.data = Open => dw = << >>
    /\ f.lis = Open /\ f.data = Open => f.wait = << >>
    /\ f.cproc = "pasv" => f.lis = NoSock

\* That is what busy = 0 means: the wire is empty and the data connection
\* silent.
LEMMA RestAtZero ==
    ASSUME NEW f, Sound(f), NEW dw, LoginOK(f), Counted(f, dw), f.busy = 0,
           Entering(f) => f.wire = << >>
    PROVE  Resting(f, dw)
<1>1. CASE Entering(f)
  <2>1. f.wire = << >> => Len(f.wire) = 0
    OBVIOUS
  <2>2. QED
    BY <1>1, <2>1 DEF Resting, Entering, NoSock, Open
<1>2. CASE Entered(f)
  <2>1. f.wire \in Seq(Exchange)
    BY DEF Sound, FtpState
  <2>2. Covered(f, dw) /\ Links(f, dw)
    BY <1>2 DEF Counted
  <2>3. Len(f.wire) = 0
    BY <2>1, <2>2 DEF Covered
  <2>4. f.wire = << >>
    BY <2>1, <2>3
  <2>5. f.data = Open => dw = << >>
    BY <2>2, <2>3 DEF Covered, Exposed
  <2>6. QED
    BY <2>2, <2>3, <2>4, <2>5 DEF Resting, Links, NoSock, Open
<1>3. QED
  BY <1>1, <1>2 DEF LoginOK

\* One command, or none.
LEMMA AtMostOne ==
    ASSUME NEW n \in {0, 1}
    PROVE  n <= 1 /\ (\A i \in 1..n : i = 1) /\ n >= n /\ n + 1 > n /\ n + 1 >= n
OBVIOUS

\* The last one leaves none.
LEMMA OneLeft ==
    ASSUME NEW n \in Nat \ {0}
    PROVE  (n <= 1 <=> n = 1) /\ (n = 1 => n - 1 = 0)
OBVIOUS

\* Running an operation on a client at rest counts what it sends.
LEMMA EffectCounted ==
    ASSUME NEW f, Sound(f), NEW g, Sound(g), Effect(f, g), NEW dw, Resting(f, dw),
           Counted(f, dw)
    PROVE  Counted(g, dw) /\ g.fault = f.fault
<1>0. g.fault = f.fault
  BY DEF Effect, Same, Starts, Listens
<1>1. SUFFICES ASSUME Entered(g) PROVE Marks(g) /\ Covered(g, dw) /\ Links(g, dw)
  BY <1>0 DEF Counted
<1>2. ASSUME NEW cmds, NEW extra \in {0, 1}, Sent(f, g, cmds, extra)
      PROVE  /\ Len(g.wire) \in {0, 1} /\ g.busy = Len(g.wire) + extra
             /\ Len(g.wire) = 0 \/ (g.wire[1].cmd \in cmds /\ g.wire[1].mark = "none")
  <2>1. CASE g.wire = f.wire /\ g.busy = f.busy + extra
    <3>1. Len(g.wire) = 0 /\ g.busy = extra
      BY <2>1 DEF Resting
    <3>2. QED
      BY <3>1
  <2>2. CASE /\ Len(g.wire) = Len(f.wire) + 1 /\ g.busy = f.busy + 1 + extra
             /\ g.wire[Len(g.wire)].cmd \in cmds
             /\ g.wire[Len(g.wire)].mark = "none"
    <3>1. Len(g.wire) = 1 /\ g.busy = 1 + extra
      BY <2>2 DEF Resting
    <3>2. QED
      BY <2>2, <3>1
  <2>3. QED
    BY <1>2, <2>1, <2>2 DEF Sent
<1>3. ASSUME NEW cmds, Sent(f, g, cmds, 0), cmds \cap TransferCmds = {}
      PROVE  /\ Marks(g) /\ ~Unserved(g.wire) /\ Len(g.wire) <= 1
             /\ g.busy >= Len(g.wire)
  <2>1. /\ Len(g.wire) \in {0, 1} /\ g.busy = Len(g.wire) + 0
        /\ Len(g.wire) = 0 \/ (g.wire[1].cmd \in cmds /\ g.wire[1].mark = "none")
    BY <1>2, <1>3
  <2>2. Len(g.wire) <= 1 /\ \A i \in 1..Len(g.wire) : i = 1
    BY <2>1, AtMostOne
  <2>3. QED
    BY <1>3, <2>1, <2>2 DEF Marks, Unserved, TransferCmds
<1>4. CASE g = f
  BY <1>1, <1>4 DEF Counted
<1>5. ASSUME NEW cmds, Sent(f, g, cmds, 0), cmds \cap TransferCmds = {}, Same(f, g),
             g.cproc = "pasv" => f.cproc = "pasv"
      PROVE  Marks(g) /\ Covered(g, dw) /\ Links(g, dw)
  <2>1. /\ Marks(g) /\ ~Unserved(g.wire) /\ Len(g.wire) <= 1
        /\ g.busy >= Len(g.wire)
    BY <1>3, <1>5
  <2>2. g.data = f.data /\ g.lis = f.lis /\ g.wait = f.wait
    BY <1>5 DEF Same
  <2>3. ~Exposed(g, dw)
    BY <2>1, <2>2 DEF Exposed, Resting
  <2>4. Covered(g, dw)
    BY <2>1, <2>3 DEF Covered
  <2>5. /\ g.cproc = "pasv" => g.lis = NoSock
        /\ g.lis = Open /\ g.data = Open => g.wait = << >>
    BY <1>5, <2>2 DEF Resting
  <2>6. QED
    BY <2>1, <2>4, <2>5 DEF Links
<1>6. CASE Sent(f, g, {"type"}, 0) /\ Same(f, g) /\ g.cproc = f.cproc
  <2>1. {"type"} \cap TransferCmds = {}
    BY DEF TransferCmds
  <2>2. QED
    BY <1>5, <1>6, <2>1
<1>7. CASE Sent(f, g, Commands, 0) /\ Same(f, g) /\ g.cproc \in {"pwd", "cwd"}
  <2>1. Commands \cap TransferCmds = {} /\ g.cproc # "pasv"
    BY <1>7 DEF TransferCmds, Commands
  <2>2. QED
    BY <1>5, <1>7, <2>1
<1>8. CASE Starts(f, g)
  <2>1. /\ Len(g.wire) \in {0, 1} /\ g.busy = Len(g.wire) + 1
        /\ \/ Len(g.wire) = 0
           \/ g.wire[1].cmd \in TransferCmds /\ g.wire[1].mark = "none"
    BY <1>2, <1>8 DEF Starts
  <2>2. Len(g.wire) <= 1 /\ \A i \in 1..Len(g.wire) : i = 1
    BY <2>1, AtMostOne
  <2>3. Marks(g)
    BY <1>8, <2>1, <2>2 DEF Marks, Starts
  <2>4. g.data = Open /\ g.data # NoSock /\ g.lis = f.lis /\ g.wait = f.wait
    BY <1>8 DEF Starts, Same, NoSock, Open
  <2>5. Covered(g, dw)
    BY <2>1, AtMostOne DEF Covered
  <2>6. g.cproc # "pasv" /\ ~Ended(dw) /\ (g.lis = Open => g.wait = << >>)
    <3>1. f.data = Open
      BY <1>8 DEF Starts
    <3>2. ~Ended(dw)
      BY <3>1 DEF Resting, Ended
    <3>3. g.lis = Open => g.wait = << >>
      BY <2>4, <3>1 DEF Resting
    <3>4. QED
      BY <1>8, <3>2, <3>3 DEF Starts
  <2>7. QED
    BY <2>2, <2>3, <2>4, <2>5, <2>6 DEF Links
<1>9. CASE /\ Sent(f, g, {"pasv"}, 0) /\ g.cproc = "pasv"
           /\ g.lis = NoSock /\ g.data = NoSock
  <2>1. {"pasv"} \cap TransferCmds = {}
    BY DEF TransferCmds
  <2>2. Marks(g) /\ Len(g.wire) <= 1 /\ g.busy >= Len(g.wire)
    BY <1>3, <1>9, <2>1
  <2>3. ~Exposed(g, dw) /\ g.lis # Open
    BY <1>9 DEF Exposed, NoSock, Open
  <2>4. QED
    BY <1>9, <2>2, <2>3 DEF Covered, Links
<1>10. CASE Listens(f, g)
  <2>1. /\ Marks(g) /\ ~Unserved(g.wire) /\ Len(g.wire) <= 1
        /\ g.busy >= Len(g.wire)
    <3>1. Sent(f, g, {"port"}, 0)
      <4>1. f.busy \in Int
        BY DEF Sound, FtpState
      <4>2. QED
        BY <1>10, <4>1 DEF Listens, Sent
    <3>2. {"port"} \cap TransferCmds = {}
      BY DEF TransferCmds
    <3>3. QED
      BY <1>3, <3>1, <3>2
  <2>2. g.data = NoSock /\ (g.cproc = "pasv" => g.lis = NoSock)
    BY <1>10 DEF Listens
  <2>3. ~Exposed(g, dw) /\ g.data # Open
    BY <2>2 DEF Exposed, NoSock, Open
  <2>4. QED
    BY <2>1, <2>2, <2>3 DEF Covered, Links
<1>11. QED
  BY <1>4, <1>6, <1>7, <1>8, <1>9, <1>10 DEF Effect

\* the fields the count is about
Alike(f, g) ==
    /\ g.wire = f.wire /\ g.busy = f.busy /\ g.cproc = f.cproc
    /\ g.data = f.data /\ g.lis = f.lis /\ g.wait = f.wait

\* The count is about nothing else.
LEMMA CountedAlike ==
    ASSUME NEW f, NEW g, Alike(f, g), NEW dw, Counted(f, dw)
    PROVE  Counted(g, dw) /\ (Resting(f, dw) => Resting(g, dw))
<1>1. Marks(f) => Marks(g)
  BY DEF Alike, Marks
<1>2. Covered(f, dw) => Covered(g, dw)
  BY DEF Alike, Covered, Exposed
<1>3. Links(f, dw) => Links(g, dw)
  BY DEF Alike, Links
<1>4. Resting(f, dw) => Resting(g, dw)
  BY DEF Alike, Resting
<1>5. Entered(g) => Entered(f)
  BY DEF Alike, Entered
<1>6. QED
  BY <1>1, <1>2, <1>3, <1>4, <1>5 DEF Counted

\* The queue moves on when nothing is outstanding: what it sends is counted.
LEMMA ExecQueuedCounted ==
    ASSUME NEW f, Sound(f), LoginOK(f), NEW dw, Counted(f, dw), f.busy = 0, NEW sk,
           NEW g, g = ExecQueued(f, sk)
    PROVE  Counted(g, dw) /\ g.fault = f.fault
<1>1. CASE f.queue = << >>
  BY <1>1 DEF ExecQueued
<1>2. CASE f.queue # << >>
  <2> DEFINE h == [f EXCEPT !.queue = Tail(@)]
             op == Head(f.queue)
  <2>1. f.queue \in Seq(FtpOp)
    BY DEF Sound, FtpState
  <2>2. op \in FtpOp /\ Tail(f.queue) \in Seq(FtpOp)
    BY <1>2, <2>1
  <2>3. Sound(h) /\ Alike(f, h) /\ h.fault = f.fault
    BY <2>2 DEF Sound, FtpState, Handlers, Alike
  <2>4. Entering(f) => f.wire = << >>
    BY <1>2 DEF Entering
  <2>5. Resting(f, dw)
    BY <2>4, RestAtZero
  <2>6. g = ExecOp(h, op, sk)
    BY <1>2 DEF ExecQueued
  <2> HIDE DEF h, op
  <2>7. Resting(h, dw) /\ Counted(h, dw)
    BY <2>3, <2>5, CountedAlike
  <2>8. Effect(h, g) /\ Sound(g)
    BY <2>2, <2>3, <2>6, ExecOpEffect, ExecOpSound
  <2>9. QED
    BY <2>3, <2>7, <2>8, EffectCounted
<1>3. QED
  BY <1>1, <1>2

\* The assertion at the end of ftp_handle holds.
LEMMA HandleTailCounted ==
    ASSUME NEW f, Sound(f), LoginOK(f), NEW dw, Counted(f, dw), NEW sk,
           NEW g, g = HandleTail(f, sk)
    PROVE  Counted(g, dw) /\ g.fault = f.fault /\ LoginOK(g) /\ Sound(g)
<1>1. f.busy \in Int /\ Len(f.wire) \in Nat
  BY DEF Sound, FtpState
<1>2. f.busy >= 0
  <2>1. CASE Entering(f)
    BY <2>1, <1>1 DEF Entering
  <2>2. CASE Entered(f)
    BY <2>2, <1>1 DEF Counted, Covered
  <2>3. QED
    BY <2>1, <2>2 DEF LoginOK
<1>3. LoginOK(g) /\ Sound(g)
  BY HandleTailLogin, HandleTailSound
<1>4. CASE f.busy > 0
  BY <1>1, <1>3, <1>4 DEF HandleTail
<1>5. CASE f.busy = 0
  <2>1. g = ExecQueued(f, sk)
    BY <1>1, <1>5 DEF HandleTail
  <2>2. QED
    BY <1>3, <1>5, <2>1, ExecQueuedCounted
<1>6. QED
  BY <1>1, <1>2, <1>4, <1>5

\* What ftp_queue sends is counted.
LEMMA FtpQueueCounted ==
    ASSUME NEW f, Sound(f), LoginOK(f), NoGreet(f), NEW dw, Counted(f, dw),
           NEW op \in FtpOp, NEW sk, NEW g, g = FtpQueue(f, op, sk)
    PROVE  Counted(g, dw) /\ g.fault = f.fault
<1>1. CASE f.busy = 0 /\ f.queue = << >>
  <2>1. g = ExecOp(f, op, sk)
    BY <1>1 DEF FtpQueue
  <2>2. Effect(f, g) /\ Sound(g)
    BY <2>1, ExecOpEffect, ExecOpSound
  <2>3. Entering(f) => f.wire = << >>
    <3>1. ASSUME Entering(f), Len(f.wire) = 1, f.wire[1].cmd = "greet" PROVE FALSE
      BY <3>1 DEF NoGreet
    <3>2. QED
      BY <1>1, <3>1 DEF Entering
  <2>4. Resting(f, dw)
    BY <1>1, <2>3, RestAtZero
  <2>5. QED
    BY <2>2, <2>4, EffectCounted
<1>2. CASE ~(f.busy = 0 /\ f.queue = << >>)
  <2>1. g = [f EXCEPT !.queue = Append(@, op)]
    BY <1>2 DEF FtpQueue
  <2>2. Alike(f, g) /\ g.fault = f.fault
    BY <2>1 DEF Sound, FtpState, Alike
  <2>3. QED
    BY <2>2, CountedAlike
<1>3. QED
  BY <1>1, <1>2

\* The steps of the login count what they send.
LEMMA LoginCounted ==
    ASSUME NEW f, Sound(f), Entering(f), f.wire = << >>, NEW code, NEW sk, NEW dw,
           NEW r, r = Login(f, code, sk)
    PROVE  Counted(r, dw) /\ r.fault = f.fault
<1> DEFINE g == [f EXCEPT !.busy = 0]
<1>1. /\ Sound(g) /\ g.cproc = "none" /\ g.fault = f.fault /\ LoginOK(g) /\ NoGreet(g)
  <2>1. /\ Sound(g) /\ g.wire = << >> /\ g.busy = 0 /\ g.cproc = f.cproc
        /\ Same(f, g)
    BY SetField
  <2>2. Len(<< >>) = 0
    OBVIOUS
  <2> HIDE DEF g
  <2>3. Len(g.wire) = 0
    BY <2>1, <2>2
  <2>4. QED
    BY <2>1, <2>3 DEF LoginOK, Entering, NoGreet, Same
<1>2. ASSUME NEW h, h.cproc = "none" PROVE Counted(h, dw)
  BY <1>2 DEF Counted, Entered
<1>3. ASSUME NEW cmd, r = SendCmd(g, cmd, NoArg, NoXfer)
      PROVE  Counted(r, dw) /\ r.fault = f.fault
  <2> HIDE DEF g
  <2>1. Sent(g, r, {cmd}, 0) /\ Same(g, r) /\ r.cproc = g.cproc
    BY <1>1, <1>3, SendCmdSent
  <2>2. QED
    BY <1>1, <1>2, <2>1 DEF Same
<1>4. CASE r = NewConn(g, sk)
  <2> DEFINE a == FtpQueue(g, Op("TYPE", NoArg), sk)
             b == FtpQueue(a, Op("PWD", NoArg), sk)
             c == FtpQueue(b, Op("LIST", NoArg), sk)
  <2>1. /\ Op("TYPE", NoArg) \in FtpOp /\ Op("PWD", NoArg) \in FtpOp
        /\ Op("LIST", NoArg) \in FtpOp
    BY OpTypes
  <2>0. Counted(g, dw)
    BY <1>1, <1>2
  <2> HIDE DEF g
  <2>2. Sound(a) /\ LoginOK(a) /\ NoGreet(a) /\ Counted(a, dw) /\ a.fault = g.fault
    BY <1>1, <2>0, <2>1, FtpQueueLogin, FtpQueueCounted
  <2> HIDE DEF a
  <2>3. Sound(b) /\ LoginOK(b) /\ NoGreet(b) /\ Counted(b, dw) /\ b.fault = a.fault
    BY <2>1, <2>2, FtpQueueLogin, FtpQueueCounted
  <2> HIDE DEF b
  <2>4. Counted(c, dw) /\ c.fault = b.fault
    BY <2>1, <2>3, FtpQueueCounted
  <2>5. r = c
    BY <1>4 DEF NewConn, a, b, c
  <2>6. QED
    BY <1>1, <2>2, <2>3, <2>4, <2>5
<1>5. CASE r = [g EXCEPT !.status = "DISC"]
  <2>1. r.cproc = "none" /\ r.fault = f.fault
    BY <1>1, <1>5 DEF Sound, FtpState
  <2>2. QED
    BY <1>2, <2>1
<1>6. CASE r = g
  BY <1>1, <1>2, <1>6
<1>7. \/ r = SendCmd(g, "user", NoArg, NoXfer)
      \/ r = SendCmd(g, "pass", NoArg, NoXfer)
      \/ r = NewConn(g, sk)
      \/ r = [g EXCEPT !.status = "DISC"]
      \/ r = g
  <2> HIDE DEF g
  <2>1. CASE code = 220
    BY <2>1 DEF Login, g
  <2>2. CASE code = 331
    BY <2>2 DEF Login, g
  <2>3. CASE code = 230
    BY <2>3 DEF Login, g
  <2>4. CASE code = 530
    BY <2>4 DEF Login, g
  <2>5. CASE code \notin {220, 331, 230, 530}
    BY <2>5 DEF Login, g
  <2>6. QED
    BY <2>1, <2>2, <2>3, <2>4, <2>5
<1> HIDE DEF g
<1>8. QED
  BY <1>3, <1>4, <1>5, <1>6, <1>7

\* ftp_queue only queues while something is outstanding.
LEMMA FtpQueueWaits ==
    ASSUME NEW f, Sound(f), f.busy # 0, NEW op \in FtpOp, NEW sk,
           NEW g, g = FtpQueue(f, op, sk)
    PROVE  Sound(g) /\ Alike(f, g) /\ g.fault = f.fault
<1>1. g = [f EXCEPT !.queue = Append(@, op)]
  BY DEF FtpQueue
<1>2. Alike(f, g) /\ g.fault = f.fault
  BY <1>1 DEF Sound, FtpState, Alike
<1>3. QED
  BY <1>2, FtpQueueSound

\* a callback that leaves these fields as the count of the reply left them
LEMMA AnsweredAlike ==
    ASSUME NEW f, Sound(f), NEW h, Sound(h), Alike(f, h)
    PROVE  /\ Alike(Answered(f), Answered(h)) /\ Answered(h).fault = h.fault
           /\ Sound(Answered(h)) /\ Sound(Answered(f))
<1>1. /\ Sound(Answered(f)) /\ Answered(f).wire = f.wire /\ Answered(f).cproc = f.cproc
      /\ Answered(f).busy = f.busy - 1 /\ Same(f, Answered(f))
  BY SetField
<1>2. /\ Sound(Answered(h)) /\ Answered(h).wire = h.wire /\ Answered(h).cproc = h.cproc
      /\ Answered(h).busy = h.busy - 1 /\ Same(h, Answered(h))
  BY SetField
<1>3. QED
  BY <1>1, <1>2 DEF Alike, Same

\* Falling back to active mode sends PORT in the place of the reply.
LEMMA FallbackCounted ==
    ASSUME NEW f, Sound(f), Entered(f), NEW dw, Counted(Answered(f), dw),
           Len(f.wire) = 0, NEW k, Sound(k), Alike(f, k), k.fault = f.fault,
           NEW h, Sound(h), Listens(k, h), NEW r, r = Answered(h)
    PROVE  Counted(r, dw) /\ r.fault = f.fault
<1>1. /\ Sound(r) /\ r.wire = h.wire /\ r.cproc = h.cproc
      /\ r.busy = h.busy - 1 /\ Same(h, r)
  BY SetField
<1>2. /\ Answered(f).wire = f.wire /\ Answered(f).cproc = f.cproc
      /\ Answered(f).busy = f.busy - 1
  BY SetField
<1>3. f.busy \in Int /\ h.busy \in Int /\ k.busy = f.busy /\ Len(k.wire) = 0
      /\ k.cproc = f.cproc /\ k.wire = f.wire
  BY DEF Sound, FtpState, Alike
<1>4. Covered(Answered(f), dw) /\ Marks(Answered(f)) /\ Links(Answered(f), dw)
  BY <1>2 DEF Counted, Entered
<1>5. f.busy >= 1
  BY <1>2, <1>3, <1>4 DEF Covered
<1>6. r.data = NoSock /\ r.fault = f.fault /\ r.lis = h.lis
  BY <1>1 DEF Listens, Same
<1>7. r.data # Open /\ ~Exposed(r, dw)
  BY <1>6 DEF Exposed, NoSock, Open
<1>8. CASE Sent(k, h, {"port"}, 0) /\ h.cproc = "active"
  <2>1. \/ Len(h.wire) = 0 /\ h.busy = f.busy
        \/ /\ Len(h.wire) = 1 /\ h.busy = f.busy + 1
           /\ h.wire[1].cmd = "port" /\ h.wire[1].mark = "none"
    BY <1>3, <1>8 DEF Sent
  <2>2. Len(h.wire) \in {0, 1} /\ (Len(h.wire) = 0 \/ (h.wire[1].cmd = "port" /\ h.wire[1].mark = "none"))
    BY <2>1
  <2>3. Len(h.wire) <= 1 /\ \A i \in 1..Len(h.wire) : i = 1
    BY <2>2, AtMostOne
  <2>4. Marks(r) /\ ~Unserved(r.wire)
    BY <1>1, <2>2, <2>3 DEF Marks, Unserved
  <2>5. r.busy >= Len(r.wire)
    <3>0. f.busy - 1 >= 0 /\ f.busy + 1 - 1 >= 1
      BY <1>3, <1>5
    <3>1. CASE Len(h.wire) = 0 /\ h.busy = f.busy
      <4>1. Len(r.wire) = 0 /\ r.busy = f.busy - 1
        BY <3>1, <1>1
      <4>2. QED
        BY <3>0, <4>1
    <3>2. CASE Len(h.wire) = 1 /\ h.busy = f.busy + 1
      <4>1. Len(r.wire) = 1 /\ r.busy = h.busy - 1
        BY <3>2, <1>1
      <4>2. h.busy = f.busy + 1
        BY <3>2
      <4>3. h.busy - 1 >= 1
        BY <1>3, <1>5, <4>2
      <4>4. QED
        BY <4>1, <4>3
    <3>3. QED
      BY <2>1, <3>1, <3>2
  <2>6. Covered(r, dw)
    BY <1>7, <2>5 DEF Covered
  <2>7. Links(r, dw)
    BY <1>1, <1>7, <1>8, <2>3, <2>4 DEF Links
  <2>8. QED
    BY <1>6, <2>4, <2>6, <2>7 DEF Counted
<1>9. CASE h.wire = k.wire /\ h.busy = k.busy /\ h.cproc = k.cproc /\ h.lis = NoSock
  <2>1. r.wire = f.wire /\ r.cproc = f.cproc /\ r.busy = f.busy - 1 /\ Len(r.wire) = 0
    BY <1>1, <1>3, <1>9
  <2>2. Marks(r)
    BY <1>2, <1>4, <2>1 DEF Marks
  <2>3. Covered(r, dw)
    BY <1>3, <1>5, <1>7, <2>1 DEF Covered
  <2>4. r.lis = NoSock /\ r.lis # Open
    BY <1>6, <1>9 DEF NoSock, Open
  <2>5. Links(r, dw)
    BY <2>1, <2>4 DEF Links
  <2>6. QED
    BY <1>6, <2>2, <2>3, <2>5 DEF Counted
<1>10. QED
  BY <1>8, <1>9 DEF Listens

\* The callback of a final reply leaves everything counted; a data connection
\* it opens has no data on it.
LEMMA ProcCounted ==
    ASSUME NEW f, Sound(f), Entered(f), NEW dw, Counted(Answered(f), dw),
           f.cproc = "pasv" => Len(f.wire) = 0 /\ f.lis = NoSock,
           NEW code \in Int, code >= 200, NEW dir \in Args, NEW conn, NEW sk,
           NEW r, r = ProcControl(f, code, dir, conn, sk)
    PROVE  /\ r.fault = f.fault /\ Counted(r, << >>)
           /\ Counted(r, dw) \/ f.cproc = "pasv"
<1>1. /\ Sound(Answered(f)) /\ Answered(f).wire = f.wire /\ Answered(f).cproc = f.cproc
      /\ Answered(f).busy = f.busy - 1 /\ Same(f, Answered(f))
  BY SetField
<1>2. ASSUME Counted(r, dw), r.fault = f.fault
      PROVE  /\ r.fault = f.fault /\ Counted(r, << >>)
             /\ Counted(r, dw) \/ f.cproc = "pasv"
  BY <1>2, CountedLess
<1>3. ASSUME NEW h, Sound(h), Alike(f, h), h.fault = f.fault, r = Answered(h)
      PROVE  Counted(r, dw) /\ r.fault = f.fault
  <2>1. Alike(Answered(f), r) /\ r.fault = h.fault
    BY <1>3, AnsweredAlike
  <2>2. QED
    BY <1>3, <2>1, CountedAlike
<1>4. Alike(f, f)
  BY DEF Alike
<1>5. f.cproc \in Cprocs \ {"none"} /\ f.busy \in Int /\ Len(f.wire) \in Nat
  BY DEF Entered, Sound, FtpState
<1>6. Covered(Answered(f), dw) /\ Marks(Answered(f)) /\ Links(Answered(f), dw)
  BY <1>1 DEF Counted, Entered
<1>7. f.busy - 1 >= Len(f.wire)
  BY <1>1, <1>6 DEF Covered
<1>8. CASE f.cproc = "active"
  <2>1. CASE code = 200
    <3> DEFINE h == [f EXCEPT !.status = "ACT"]
    <3>1. Sound(h) /\ Alike(f, h) /\ h.fault = f.fault
      BY SetField DEF Alike
    <3>2. r = Answered(h)
      BY <1>8, <2>1 DEF ProcControl, CprocActive
    <3> HIDE DEF h
    <3>3. QED
      BY <1>2, <1>3, <3>1, <3>2
  <2>2. CASE code # 200
    <3> DEFINE h == FtpClose(f)
    <3>1. /\ Sound(h) /\ h.wire = f.wire /\ h.cproc = f.cproc
          /\ h.busy = f.busy /\ h.lis = NoSock /\ h.data = NoSock
          /\ h.fault = f.fault
      BY SetField
    <3>2. r = Answered(h)
      BY <1>8, <2>2 DEF ProcControl, CprocActive
    <3> HIDE DEF h
    <3>3. /\ r.wire = f.wire /\ r.cproc = f.cproc
          /\ r.busy = f.busy - 1 /\ r.lis = NoSock /\ r.data = NoSock
          /\ r.fault = f.fault
      <4>1. /\ r.wire = h.wire /\ r.cproc = h.cproc
            /\ r.busy = h.busy - 1 /\ Same(h, r)
        BY ZenonT(40), <3>1, <3>2, SetField
      <4>2. QED
        BY <3>1, <4>1 DEF Same
    <3>4. r.lis # Open /\ r.data # Open
      BY <3>3 DEF NoSock, Open
    <3>5. Marks(r)
      BY <1>1, <1>6, <3>3 DEF Marks
    <3>6. Covered(r, dw) /\ Links(r, dw)
      BY <1>7, <1>8, <3>3, <3>4 DEF Covered, Links, Exposed
    <3>7. Counted(r, dw)
      BY <3>5, <3>6 DEF Counted
    <3>8. QED
      BY <1>2, <3>3, <3>7
  <2>3. QED
    BY <2>1, <2>2
<1>9. CASE f.cproc = "pasv"
  <2>1. r = CprocPasv(f, code, conn, sk)
    BY <1>9 DEF ProcControl
  <2>2. CASE code = 227 /\ conn = "ok"
    <3> DEFINE h == [f EXCEPT !.data = Open, !.status = "PASV"]
    <3>1. /\ Sound(h) /\ h.wire = f.wire /\ h.cproc = f.cproc
          /\ h.busy = f.busy /\ h.lis = f.lis /\ h.fault = f.fault
      BY SetField
    <3>2. r = Answered(h)
      BY <2>1, <2>2 DEF CprocPasv
    <3> HIDE DEF h
    <3>3. /\ r.wire = f.wire /\ r.cproc = f.cproc
          /\ r.busy = f.busy - 1 /\ r.lis = f.lis /\ r.fault = f.fault
      <4>1. /\ r.wire = h.wire /\ r.cproc = h.cproc
            /\ r.busy = h.busy - 1 /\ Same(h, r)
        BY ZenonT(40), <3>1, <3>2, SetField
      <4>2. QED
        BY <3>1, <4>1 DEF Same
    <3>4. Len(r.wire) = 0 /\ r.lis = NoSock
      BY <1>9, <3>3
    <3>5. ~Unserved(r.wire) /\ r.lis # Open
      BY <3>4 DEF Unserved, NoSock, Open
    <3>6. ~Exposed(r, << >>)
      BY <3>5 DEF Exposed
    <3>7. Marks(r)
      BY <1>1, <1>6, <3>3 DEF Marks
    <3>8. Covered(r, << >>) /\ Links(r, << >>)
      BY <1>7, <3>3, <3>4, <3>5, <3>6 DEF Covered, Links
    <3>9. QED
      BY <1>9, <3>3, <3>7, <3>8 DEF Counted
  <2>3. CASE ~(code = 227 /\ conn = "ok")
    <3> DEFINE k == [f EXCEPT !.passive = 0]
               h == FtpActive(k, sk)
    <3>1. Sound(k) /\ Alike(f, k) /\ k.fault = f.fault
      BY SetField DEF Alike, Same
    <3>2. r = Answered(h)
      BY <2>1, <2>3 DEF CprocPasv
    <3> HIDE DEF k
    <3>3. Sound(h) /\ Listens(k, h)
      BY <3>1, FtpActiveSound, FtpActiveEffect
    <3> HIDE DEF h
    <3>4. Counted(r, dw) /\ r.fault = f.fault
      BY <1>9, <3>1, <3>2, <3>3, FallbackCounted
    <3>5. QED
      BY <1>2, <3>4
  <2>4. QED
    BY <2>2, <2>3
<1>10. CASE f.cproc = "pwd"
  <2>1. CASE code # 257
    <3>1. r = Answered(f)
      BY <1>10, <2>1 DEF ProcControl, CprocPwd
    <3>2. QED
      BY <1>2, <1>3, <1>4, <3>1
  <2>2. CASE code = 257
    <3> DEFINE h == [f EXCEPT !.curdir = dir]
    <3>1. Sound(h) /\ Alike(f, h) /\ h.fault = f.fault
      BY SetCurdir DEF Alike, Same
    <3>2. r = Answered(h)
      BY <1>10, <2>2 DEF ProcControl, CprocPwd
    <3> HIDE DEF h
    <3>3. QED
      BY <1>2, <1>3, <3>1, <3>2
  <2>3. QED
    BY <2>1, <2>2
<1>11. CASE f.cproc = "cwd"
  <2> DEFINE a == FtpQueue(f, Op("PWD", NoArg), sk)
             b == FtpQueue(a, Op("LIST", NoArg), sk)
  <2>1. Op("PWD", NoArg) \in FtpOp /\ Op("LIST", NoArg) \in FtpOp
    BY OpTypes
  <2>2. f.busy # 0
    BY <1>5, <1>7
  <2>3. Sound(a) /\ Alike(f, a) /\ a.fault = f.fault
    BY <2>1, <2>2, FtpQueueWaits
  <2>4. a.busy # 0
    BY <2>2, <2>3 DEF Alike
  <2>5. r = Answered(f) \/ r = Answered(b)
    BY <1>11 DEF ProcControl, CprocCwd, a, b
  <2> HIDE DEF a
  <2>6. Sound(b) /\ Alike(a, b) /\ b.fault = a.fault
    BY <2>1, <2>3, <2>4, FtpQueueWaits
  <2> HIDE DEF b
  <2>7. Alike(f, b) /\ b.fault = f.fault
    BY <2>3, <2>6 DEF Alike
  <2>8. QED
    BY <1>2, <1>3, <1>4, <2>5, <2>6, <2>7
<1>12. CASE f.cproc \in {"list", "xfer"}
  <2>1. r = Answered(f)
    BY <1>12 DEF ProcControl, CprocTransfer
  <2>2. QED
    BY <1>2, <1>3, <1>4, <2>1
<1>13. QED
  BY <1>5, <1>8, <1>9, <1>10, <1>11, <1>12 DEF Cprocs

\* what a step keeps: the order of the login, and the count
Keeps ==
    /\ LoginOK(ftp')
    /\ Counted(ftp, dwire) => Counted(ftp', dwire') /\ ftp'.fault # "abort"

\* An exchange that leaves the wire leaves the rest as it was.
LEMMA Dropped ==
    ASSUME NEW f, Sound(f), f.wire # << >>, NEW g, Sound(g), g.wire = Tail(f.wire),
           g.busy = f.busy, g.cproc = f.cproc, Same(f, g)
    PROVE  /\ Len(g.wire) = Len(f.wire) - 1 /\ (Len(f.wire) <= 1 => Len(g.wire) = 0)
           /\ Entering(f) => Entering(g) /\ g.wire = << >>
           /\ Entered(f) => Entered(g)
           /\ Unserved(g.wire) => Unserved(f.wire)
           /\ Marks(f) => Marks(g)
<1>1. f.wire \in Seq(Exchange) /\ Len(f.wire) \in Nat \ {0}
  BY DEF Sound, FtpState
<1>2. /\ Len(g.wire) = Len(f.wire) - 1
      /\ \A i \in 1..Len(g.wire) : i + 1 \in 1..Len(f.wire) /\ g.wire[i] = f.wire[i + 1]
  BY <1>1
<1>3. Len(f.wire) <= 1 => Len(g.wire) = 0
  <2>1. Len(f.wire) <= 1 => Len(f.wire) = 1 /\ Len(f.wire) - 1 = 0
    BY <1>1, OneLeft
  <2>2. Len(g.wire) = Len(f.wire) - 1
    BY <1>2
  <2>3. QED
    BY <2>1, <2>2
<1>4. Len(f.wire) <= 1 => g.wire = << >>
  BY <1>1
<1>5. Entering(f) => Entering(g) /\ g.wire = << >>
  <2>1. ASSUME Entering(f) PROVE g.wire = << >> /\ f.busy \in {0, 1}
    <3>1. Len(f.wire) = 1 /\ f.busy \in {0, 1}
      BY <2>1 DEF Entering
    <3>2. QED
      BY <1>1, <1>4, <3>1, OneLeft
  <2>2. QED
    BY <2>1 DEF Entering, Same
<1>6. Entered(f) => Entered(g)
  BY <1>2 DEF Entered, NoLogin
<1>7. Unserved(g.wire) => Unserved(f.wire)
  BY <1>2 DEF Unserved
<1>8. Marks(f) => Marks(g)
  BY <1>2 DEF Marks
<1>9. QED
  BY <1>2, <1>3, <1>5, <1>6, <1>7, <1>8

\* Reading a final reply, and dropping it unread, keep the count.
LEMMA DroppedCounted ==
    ASSUME NEW f, Sound(f), f.wire # << >>, NEW g, Sound(g), g.wire = Tail(f.wire),
           g.busy = f.busy, g.cproc = f.cproc, Same(f, g), Entered(f),
           NEW dw, Counted(f, dw)
    PROVE  /\ Counted(g, dw) /\ Counted(Answered(g), dw)
           /\ f.cproc = "pasv" => Len(g.wire) = 0 /\ g.lis = NoSock
<1>1. /\ Len(g.wire) = Len(f.wire) - 1 /\ (Len(f.wire) <= 1 => Len(g.wire) = 0)
      /\ (Unserved(g.wire) => Unserved(f.wire)) /\ (Marks(f) => Marks(g))
  BY Dropped
<1>2. Marks(f) /\ Covered(f, dw) /\ Links(f, dw) /\ Marks(g)
  BY <1>1 DEF Counted
<1>3. f.busy \in Int /\ Len(f.wire) \in Nat
  BY DEF Sound, FtpState
<1>4. g.data = f.data /\ g.lis = f.lis /\ g.wait = f.wait
  BY DEF Same
<1>5. Exposed(g, dw) => Exposed(f, dw)
  BY <1>1, <1>4 DEF Exposed
<1>6. g.busy - 1 >= Len(g.wire) /\ (Exposed(g, dw) => g.busy - 1 > Len(g.wire))
  BY <1>1, <1>2, <1>3, <1>5 DEF Covered
<1>7. Len(f.wire) <= 1 => Len(g.wire) <= 1
  BY <1>1
<1>8. f.cproc = "pasv" => Len(g.wire) = 0 /\ g.lis = NoSock
  BY <1>1, <1>2, <1>4 DEF Links
<1>9. Links(g, dw)
  BY <1>1, <1>2, <1>4, <1>7 DEF Links
<1>10. Covered(g, dw)
  BY <1>1, <1>3, <1>6 DEF Covered
<1> DEFINE a == Answered(g)
<1>11. /\ a.wire = g.wire /\ a.cproc = g.cproc /\ a.busy = g.busy - 1 /\ Same(g, a)
  BY SetField
<1> HIDE DEF a
<1>12. Marks(a) /\ Links(a, dw)
  BY <1>2, <1>9, <1>11 DEF Marks, Links, Same
<1>13. Covered(a, dw)
  BY <1>6, <1>11 DEF Covered, Exposed, Same
<1>14. Counted(g, dw) /\ Counted(a, dw)
  BY <1>2, <1>9, <1>10, <1>12, <1>13 DEF Counted
<1>15. QED
  BY <1>8, <1>14 DEF a

\* The end of ftp_handle keeps the login and the count.
LEMMA TailKeeps ==
    ASSUME NEW f, Sound(f), LoginOK(f), f.fault # "abort", NEW sk,
           NEW g, g = HandleTail(f, sk)
    PROVE  /\ LoginOK(g) /\ Sound(g)
           /\ Counted(f, dwire) => Counted(g, dwire) /\ g.fault # "abort"
BY HandleTailLogin, HandleTailSound, HandleTailCounted

\* what the server sees of a data connection that no callback opened
Linked(h, g) == LinkData(h, g, FALSE)

\* It keeps the count.
LEMMA LinkKeeps ==
    ASSUME NEW h, h.data \in {NoSock, Open}, NEW g, Sound(g), Linked(h, g),
           Counted(g, dwire)
    PROVE  Counted(g, dwire')
<1> DEFINE fresh == FALSE
<1>1. fresh \in BOOLEAN /\ LinkData(h, g, fresh)
  BY DEF Linked
<1> HIDE DEF fresh
<1>2. QED
  BY <1>1, CountedLess, LinkCounted

\* With the connection gone nothing is outstanding on it.
LEMMA Emptied ==
    ASSUME NEW f, Sound(f), LoginOK(f), NEW g, g.wire = << >>,
           g.busy = f.busy, g.cproc = f.cproc, g.wait = f.wait, g.status = f.status,
           g.data \in {f.data, NoSock}, g.lis \in {f.lis, NoSock}
    PROVE  LoginOK(g) /\ \A dw : Counted(f, dw) => Counted(g, dw)
<1>1. Len(g.wire) = 0 /\ f.busy \in Int /\ Len(f.wire) \in Nat
  <2>1. Len(<< >>) = 0
    OBVIOUS
  <2>2. QED
    BY <2>1 DEF Sound, FtpState
<1>2. NoLogin(g.wire) /\ ~Unserved(g.wire) /\ Marks(g)
  BY <1>1 DEF NoLogin, Unserved, Marks
<1>3. LoginOK(g)
  <2>1. Entering(f) => Entering(g)
    BY DEF Entering
  <2>2. Entered(f) => Entered(g)
    BY <1>2 DEF Entered
  <2>3. QED
    BY <2>1, <2>2 DEF LoginOK
<1>4. ASSUME NEW dw, Counted(f, dw), Entered(g) PROVE Covered(g, dw) /\ Links(g, dw)
  <2>1. Entered(f)
    BY <1>4 DEF LoginOK, Entered, Entering
  <2>2. Covered(f, dw) /\ Links(f, dw)
    BY <1>4, <2>1 DEF Counted
  <2>3. Exposed(g, dw) => Exposed(f, dw)
    BY <1>2 DEF Exposed, NoSock, Open
  <2>4. Covered(g, dw)
    BY <1>1, <2>2, <2>3 DEF Covered
  <2>5. Links(g, dw)
    BY <1>1, <1>2, <2>2 DEF Links, NoSock, Open
  <2>6. QED
    BY <2>4, <2>5
<1>5. QED
  BY <1>2, <1>3, <1>4 DEF Counted

\* an exchange that advances: commands stay, an answer is not taken back, and
\* only transfers get preliminary replies
Rewired(f, g, i) ==
    /\ Len(g.wire) = Len(f.wire) /\ i \in 1..Len(f.wire)
    /\ g.busy = f.busy /\ g.cproc = f.cproc /\ g.queue = f.queue /\ Same(f, g)
    /\ \A j \in 1..Len(f.wire) :
        /\ g.wire[j].cmd = f.wire[j].cmd
        /\ g.wire[j].code = 0 => f.wire[j].code = 0
        /\ j # i => g.wire[j].mark = f.wire[j].mark
    /\ \/ g.wire[i].mark = f.wire[i].mark
       \/ f.wire[i].mark # "none"
       \/ f.wire[i].cmd \in {"list", "retr"}

\* A server that answers, and a preliminary reply that is read, keep the order
\* of the login and the count.
LEMMA RewiredKeeps ==
    ASSUME NEW f, Sound(f), LoginOK(f), NEW g, NEW i, Rewired(f, g, i)
    PROVE  /\ LoginOK(g) /\ (Entered(g) => Entered(f))
           /\ Unserved(g.wire) => Unserved(f.wire)
           /\ \A dw : Counted(f, dw) => Counted(g, dw)
<1>1. f.wire \in Seq(Exchange) /\ Len(g.wire) = Len(f.wire)
  BY DEF Sound, FtpState, Rewired
<1>2. Entering(f) => Entering(g)
  <2>1. CASE f.wire = << >>
    <3>1. Len(f.wire) = 0
      BY <2>1
    <3>2. QED
      BY <3>1 DEF Rewired
  <2>2. CASE f.wire # << >>
    <3>1. SUFFICES ASSUME Entering(f) PROVE Entering(g)
      OBVIOUS
    <3>2. /\ Len(f.wire) = 1 /\ f.wire[1].mark = "none"
          /\ \/ f.wire[1].cmd = "greet" /\ f.busy = 0 /\ f.queue = << >>
             \/ f.wire[1].cmd \in {"user", "pass", "type"} /\ f.busy = 1
      BY <2>2, <3>1 DEF Entering
    <3>3. i = 1 /\ f.wire[1].cmd \notin {"list", "retr"}
      BY <3>2, AtMostOne DEF Rewired
    <3>4. g.wire[1].mark = "none" /\ g.wire[1].cmd = f.wire[1].cmd /\ Len(g.wire) = 1
      BY <1>1, <3>2, <3>3 DEF Rewired
    <3>5. /\ g.cproc = f.cproc /\ g.data = f.data /\ g.lis = f.lis
          /\ g.wait = f.wait /\ g.status = f.status
          /\ g.busy = f.busy /\ g.queue = f.queue
      BY DEF Rewired, Same
    <3>6. QED
      BY <3>1, <3>2, <3>4, <3>5 DEF Entering
  <2>3. QED
    BY <2>1, <2>2
<1>3. Entered(f) => Entered(g)
  BY <1>1 DEF Entered, NoLogin, Rewired
<1>4. Entered(g) => Entered(f)
  BY DEF LoginOK, Entered, Entering, Rewired
<1>5. Unserved(g.wire) => Unserved(f.wire)
  BY <1>1 DEF Unserved, Rewired
<1>6. g.data = f.data /\ g.lis = f.lis /\ g.wait = f.wait
      /\ g.busy = f.busy /\ g.cproc = f.cproc
  BY DEF Rewired, Same
<1>7. Marks(f) => Marks(g)
  <2>1. SUFFICES ASSUME Marks(f), NEW j \in 1..Len(f.wire)
                 PROVE  /\ g.wire[j].cmd \in {"list", "retr"} => g.cproc \in {"list", "xfer"}
                        /\ g.wire[j].mark # "none" => g.wire[j].cmd \in {"list", "retr"}
    BY <1>1 DEF Marks
  <2>2. g.wire[j].cmd = f.wire[j].cmd
    BY DEF Rewired
  <2>3. g.wire[j].mark # "none" =>
            f.wire[j].mark # "none" \/ f.wire[j].cmd \in {"list", "retr"}
    BY DEF Rewired
  <2>4. QED
    BY <1>6, <2>1, <2>2, <2>3 DEF Marks
<1>8. ASSUME NEW dw, Counted(f, dw), Entered(f)
      PROVE  Marks(g) /\ Covered(g, dw) /\ Links(g, dw)
  <2>1. Marks(f) /\ Covered(f, dw) /\ Links(f, dw)
    BY <1>8 DEF Counted
  <2>2. Exposed(g, dw) => Exposed(f, dw)
    BY <1>5, <1>6 DEF Exposed
  <2>3. Covered(g, dw)
    BY <1>1, <1>6, <2>1, <2>2 DEF Covered
  <2>4. Links(g, dw)
    BY <1>1, <1>5, <1>6, <2>1 DEF Links
  <2>5. QED
    BY <1>7, <2>1, <2>3, <2>4
<1>9. \A dw : Counted(f, dw) => Counted(g, dw)
  BY <1>4, <1>8 DEF Counted
<1>10. QED
  BY <1>2, <1>3, <1>4, <1>5, <1>9 DEF LoginOK

\* A complete line: the step of the login, the preliminary reply, or the final
\* reply, which is counted down once.
LEMMA CtlLineKeeps ==
    ASSUME IndInv, LoginInv, CtlLine
    PROVE  Keeps
<1>1. PICK f, code, dir, conn, sk : LineOutcome(f, code, dir, conn, sk)
  BY LineRead
<1>2. /\ Sound(ftp) /\ LoginOK(ftp) /\ Alive /\ ftp.fault = "none"
      /\ Sound(ftp') /\ f.data \in {NoSock, Open}
  <2>1. Sound(ftp) /\ LoginOK(ftp) /\ Alive /\ ftp.fault = "none"
    BY IndInvSound DEF LoginInv, CtlLine, InControl, AtSelect, Alive
  <2>2. Sound(ftp')
    BY CtlLineInd DEF IndInv, TypeOK, HandlersAgree, Sound, Handlers
  <2>3. QED
    BY <1>1, <2>1, <2>2 DEF LineOutcome, Sound, FtpState
<1>3. /\ Sound(f) /\ dir \in Args /\ code # 0 /\ f.fault = "none"
      /\ LinkData(f, ftp', f.cproc = "pasv")
      /\ \/ ftp' = ProcControl(f, code, dir, conn, sk)
         \/ f.cproc = "xfer" /\ ftp' = [f EXCEPT !.fault = "crash"]
      /\ f.busy = ftp.busy /\ f.cproc = ftp.cproc /\ Same(ftp, f) /\ ftp.wire # << >>
  BY <1>1, <1>2 DEF LineOutcome, Same
<1>4. ASSUME ftp' = [f EXCEPT !.fault = "crash"]
      PROVE  /\ LoginOK(ftp') <=> LoginOK(f)
             /\ Alike(f, ftp') /\ ftp'.fault # "abort"
  <2>1. Alike(f, ftp') /\ ftp'.fault = "crash" /\ ftp'.queue = f.queue /\ ftp'.status = f.status
    BY <1>3, <1>4 DEF Alike, Sound, FtpState
  <2>2. QED
    BY <2>1 DEF Alike, LoginOK, Entering, Entered
<1>5. CASE code = 150
  <2>1. Rewired(ftp, f, 1) /\ ftp.wire[1].mark = "sent"
    <3>1. 1 \in 1..Len(ftp.wire)
      BY <1>2, <1>3 DEF Sound, FtpState
    <3>2. QED
      BY <1>1, <1>5, <3>1 DEF LineOutcome, Rewired
  <2>2. LoginOK(f) /\ \A dw : Counted(ftp, dw) => Counted(f, dw)
    BY <1>2, <2>1, RewiredKeeps
  <2>3. Entered(ftp) /\ Entered(f)
    <3>1. ~Entering(ftp)
      BY <1>3, <2>1 DEF Entering
    <3>2. Entered(ftp) /\ f.cproc # "none"
      BY <1>2, <1>3, <3>1 DEF LoginOK, Entered
    <3>3. QED
      BY <2>2, <3>2 DEF LoginOK, Entering
  <2>4. LoginOK(ftp')
    BY <1>3, <1>4, <2>2, <2>3, ProcControlLogin
  <2>5. ASSUME Counted(ftp, dwire) PROVE Counted(ftp', dwire') /\ ftp'.fault # "abort"
    <3>1. 1 \in 1..Len(ftp.wire)
      BY <1>2, <1>3 DEF Sound, FtpState
    <3>2. f.cproc \in {"list", "xfer"}
      BY <1>3, <2>1, <2>3, <2>5, <3>1 DEF Counted, Marks
    <3>3. ftp' = f \/ ftp' = [f EXCEPT !.fault = "crash"]
      BY <1>3, <1>5, <3>2 DEF ProcControl, CprocTransfer
    <3>4. Alike(f, ftp') /\ ftp'.fault # "abort"
      <4>1. CASE ftp' = f
        BY <4>1, <1>3 DEF Alike
      <4>2. QED
        BY <1>4, <3>3, <4>1
    <3>5. Counted(ftp', dwire) /\ Counted(ftp', << >>)
      BY <2>2, <2>5, <3>4, CountedAlike, CountedLess
    <3>6. Counted(ftp', dwire')
      BY <1>2, <1>3, <3>5, LinkCounted
    <3>7. QED
      BY <3>4, <3>6
  <2>6. QED
    BY <2>4, <2>5 DEF Keeps
<1>6. CASE code # 150
  <2>1. f.wire = Tail(ftp.wire) /\ code \in Codes
    BY <1>1, <1>6 DEF LineOutcome
  <2>2. code \in Int /\ code >= 200
    BY <1>3, <2>1 DEF Codes
  <2>3. /\ Entering(ftp) => Entering(f) /\ f.wire = << >>
        /\ Entered(ftp) => Entered(f)
    BY <1>2, <1>3, <2>1, Dropped
  <2>4. LoginOK(f)
    BY <1>2, <2>3 DEF LoginOK
  <2>5. LoginOK(ftp')
    BY <1>2, <1>3, <1>4, <2>3, <2>4, ProcControlLogin DEF LoginOK
  <2>6. ASSUME Counted(ftp, dwire) PROVE Counted(ftp', dwire') /\ ftp'.fault # "abort"
    <3>1. CASE Entering(ftp)
      <4>1. f.cproc = "none"
        BY <2>3, <3>1 DEF Entering
      <4>2. ftp' = Login(f, code, sk)
        BY <1>3, <4>1 DEF ProcControl
      <4>3. Counted(ftp', dwire') /\ ftp'.fault = f.fault
        BY <1>3, <2>3, <3>1, <4>2, LoginCounted
      <4>4. QED
        BY <1>3, <4>3
    <3>2. CASE Entered(ftp)
      <4>1. /\ Counted(f, dwire) /\ Counted(Answered(f), dwire)
            /\ f.cproc = "pasv" => Len(f.wire) = 0 /\ f.lis = NoSock
        <5>1. /\ Sound(ftp) /\ ftp.wire # << >> /\ Sound(f) /\ f.wire = Tail(ftp.wire)
              /\ f.busy = ftp.busy /\ f.cproc = ftp.cproc /\ Same(ftp, f)
          BY <1>2, <1>3, <2>1
        <5>2. /\ Counted(f, dwire) /\ Counted(Answered(f), dwire)
              /\ ftp.cproc = "pasv" => Len(f.wire) = 0 /\ f.lis = NoSock
          BY <5>1, <2>6, <3>2, DroppedCounted
        <5>3. QED
          BY <5>1, <5>2
      <4>2. Entered(f)
        BY <2>3, <3>2
      <4>3. CASE ftp' = ProcControl(f, code, dir, conn, sk)
        <5>1. /\ ftp'.fault = f.fault /\ Counted(ftp', << >>)
              /\ Counted(ftp', dwire) \/ f.cproc = "pasv"
          BY <1>3, <2>2, <4>1, <4>2, <4>3, ProcCounted
        <5>2. Counted(ftp', dwire')
          BY <1>2, <1>3, <5>1, LinkCounted
        <5>3. QED
          BY <1>3, <5>1, <5>2
      <4>4. CASE f.cproc = "xfer" /\ ftp' = [f EXCEPT !.fault = "crash"]
        <5>1. Alike(f, ftp') /\ ftp'.fault # "abort"
          BY <1>4, <4>4
        <5>2. Counted(ftp', dwire) /\ Counted(ftp', << >>)
          BY <4>1, <5>1, CountedAlike, CountedLess
        <5>3. Counted(ftp', dwire')
          BY <1>2, <1>3, <5>2, LinkCounted
        <5>4. QED
          BY <5>1, <5>3
      <4>5. QED
        BY <1>3, <4>3, <4>4
    <3>3. QED
      BY <1>2, <3>1, <3>2 DEF LoginOK
  <2>7. QED
    BY <2>5, <2>6 DEF Keeps
<1>7. QED
  BY <1>5, <1>6

\* closing the sockets, and forgetting what the closed one had to say
LEMMA Unwired ==
    ASSUME NEW f, Sound(f), NEW g, g = [f EXCEPT !.wire = << >>]
    PROVE  /\ Sound(g) /\ g.wire = << >> /\ g.busy = f.busy /\ g.cproc = f.cproc
           /\ Same(f, g)
<1>1. << >> \in Seq(Exchange)
  OBVIOUS
<1>2. Sound(g)
  BY <1>1 DEF Sound, FtpState, Handlers
<1>3. QED
  BY <1>2 DEF Sound, FtpState, Same

\* A step that leaves the client as far as the count goes, and the data.
LEMMA AlikeKeeps ==
    ASSUME LoginInv, Alike(ftp, ftp'), ftp'.queue = ftp.queue,
           ftp'.status = ftp.status, ftp'.fault # "abort", dwire' = dwire
    PROVE  Keeps
<1>1. LoginOK(ftp')
  BY DEF LoginInv, LoginOK, Entering, Entered, Alike
<1>2. QED
  BY <1>1, CountedAlike DEF Keeps

\* A fragment or a line of a multi-line reply.
LEMMA CtlNoReplyKeeps ==
    ASSUME IndInv, LoginInv, CtlNoReply
    PROVE  Keeps
<1>1. /\ Sound(ftp) /\ Sound(ftp') /\ ftp.fault = "none" /\ dwire' = dwire
      /\ ftp.wire # << >> /\ LoginOK(ftp)
  BY IndInvSound, CtlNoReplyInd
  DEF CtlNoReply, InControl, AtSelect, Alive, HasReply, LoginInv, IndInv, TypeOK,
      HandlersAgree, Sound, Handlers
<1>2. CASE ftp' = ftp
  BY <1>1, <1>2, AlikeKeeps DEF Alike
<1>3. CASE ftp' = [ftp EXCEPT !.wire = Tail(@)]
  <2>1. ftp'.wire = Tail(ftp.wire) /\ ftp'.busy = ftp.busy /\ ftp'.cproc = ftp.cproc
        /\ Same(ftp, ftp')
    BY <1>1, <1>3 DEF Sound, FtpState, Same
  <2>2. LoginOK(ftp')
    BY <1>1, <2>1, Dropped DEF LoginOK
  <2>3. ASSUME Counted(ftp, dwire) PROVE Counted(ftp', dwire)
    <3>1. CASE Entered(ftp)
      BY <1>1, <2>1, <2>3, <3>1, DroppedCounted
    <3>2. CASE Entering(ftp)
      BY <2>1, <3>2 DEF Entering, Entered, Counted
    <3>3. QED
      BY <1>1, <3>1, <3>2 DEF LoginOK
  <2>4. ftp'.fault # "abort"
    BY <1>1, <2>1 DEF Same
  <2>5. QED
    BY <1>1, <2>2, <2>3, <2>4 DEF Keeps
<1>4. QED
  BY <1>2, <1>3 DEF CtlNoReply

\* The end of ftp_handle after the control connection was served.
LEMMA CtlAgainKeeps ==
    ASSUME IndInv, LoginInv, CtlAgain
    PROVE  Keeps
<1> DEFINE f == IF ftp.ctl = NoSock THEN [ftp EXCEPT !.wire = << >>] ELSE ftp
<1>1. PICK sk \in SockOutcomes : /\ ftp' = HandleTail(f, sk)
                                 /\ Linked(f, ftp')
  BY DEF CtlAgain, Linked
<1>2. Sound(ftp) /\ ftp.fault = "none" /\ LoginOK(ftp)
  BY IndInvSound DEF CtlAgain, Alive, LoginInv
<1>3. Sound(f) /\ Same(ftp, f) /\ f.fault = "none"
  <2>1. CASE ftp.ctl = NoSock
    BY <1>2, <2>1, Unwired DEF Same
  <2>2. CASE ftp.ctl # NoSock
    BY <1>2, <2>2 DEF Same
  <2>3. QED
    BY <2>1, <2>2
<1>7. f.data \in {NoSock, Open} /\ f.fault # "abort"
  BY <1>3 DEF Sound, FtpState
<1>4. LoginOK(f) /\ (Counted(ftp, dwire) => Counted(f, dwire))
  <2>1. CASE ftp.ctl = NoSock
    <3>1. /\ f.wire = << >> /\ f.busy = ftp.busy /\ f.cproc = ftp.cproc
          /\ f.wait = ftp.wait /\ f.status = ftp.status
          /\ f.data = ftp.data /\ f.lis = ftp.lis
      BY <1>2, <2>1 DEF Sound, FtpState
    <3> HIDE DEF f
    <3>2. QED
      BY <1>2, <3>1, Emptied
  <2>2. CASE ftp.ctl # NoSock
    BY <1>2, <2>2
  <2>3. QED
    BY <2>1, <2>2
<1> HIDE DEF f
<1>5. /\ LoginOK(ftp')
      /\ Counted(f, dwire) => Counted(ftp', dwire') /\ ftp'.fault # "abort"
  <2>1. /\ LoginOK(ftp') /\ Sound(ftp')
        /\ Counted(f, dwire) => Counted(ftp', dwire) /\ ftp'.fault # "abort"
    BY <1>1, <1>3, <1>4, <1>7, TailKeeps
  <2>2. Counted(ftp', dwire) => Counted(ftp', dwire')
    BY <1>1, <1>7, <2>1, LinkKeeps
  <2>3. QED
    BY <2>1, <2>2
<1>6. QED
  BY <1>4, <1>5 DEF Keeps

\* The server closed the control connection.
LEMMA CtlEofKeeps ==
    ASSUME IndInv, LoginInv, CtlEof
    PROVE  Keeps
<1> DEFINE f == [FtpClose(ftp) EXCEPT !.wire = << >>]
<1>1. PICK sk \in SockOutcomes, stale \in {0, 1} :
        /\ ftp' = IF stale = 1 THEN HandleTail(f, sk) ELSE f
        /\ Linked(ftp, ftp')
  BY DEF CtlEof, Linked
<1>2. Sound(ftp) /\ ftp.fault = "none" /\ LoginOK(ftp) /\ ftp.data \in {NoSock, Open}
  BY IndInvSound DEF CtlEof, InControl, AtSelect, Alive, LoginInv, Sound, FtpState
<1>3. /\ Sound(f) /\ f.fault = "none" /\ f.wire = << >> /\ f.busy = ftp.busy
      /\ f.cproc = ftp.cproc /\ f.wait = ftp.wait /\ f.status = ftp.status
      /\ f.data = NoSock /\ f.lis = NoSock
  <2> DEFINE h == FtpClose(ftp)
  <2>1. /\ Sound(h) /\ h.cproc = ftp.cproc /\ h.busy = ftp.busy /\ h.lis = NoSock
        /\ h.data = NoSock /\ h.wait = ftp.wait /\ h.status = ftp.status
        /\ h.fault = ftp.fault
    BY <1>2, SetField
  <2>2. f = [h EXCEPT !.wire = << >>]
    OBVIOUS
  <2> HIDE DEF h, f
  <2>3. /\ Sound(f) /\ f.wire = << >> /\ f.busy = h.busy /\ f.cproc = h.cproc
        /\ Same(h, f)
    BY <2>1, <2>2, Unwired
  <2>4. QED
    BY <1>2, <2>1, <2>3 DEF Same
<1> HIDE DEF f
<1>4. LoginOK(f) /\ (Counted(ftp, dwire) => Counted(f, dwire))
  BY <1>2, <1>3, Emptied
<1>5. CASE stale = 1
  <2>1. ftp' = HandleTail(f, sk)
    BY <1>1, <1>5
  <2>2. /\ LoginOK(ftp')
        /\ Counted(f, dwire) => Counted(ftp', dwire') /\ ftp'.fault # "abort"
    <3>1. f.fault # "abort"
      BY <1>3
    <3>2. /\ LoginOK(ftp') /\ Sound(ftp')
          /\ Counted(f, dwire) => Counted(ftp', dwire) /\ ftp'.fault # "abort"
      BY <1>3, <1>4, <2>1, <3>1, TailKeeps
    <3>3. Counted(ftp', dwire) => Counted(ftp', dwire')
      BY <1>1, <1>2, <3>2, LinkKeeps
    <3>4. QED
      BY <3>2, <3>3
  <2>3. QED
    BY <1>4, <2>2 DEF Keeps
<1>6. CASE stale # 1
  <2>1. ftp' = f
    BY <1>1, <1>6
  <2>2. Counted(f, dwire) => Counted(f, dwire')
    BY <1>3, CountedAny
  <2>3. QED
    BY <1>3, <1>4, <2>1, <2>2 DEF Keeps
<1>7. QED
  BY <1>5, <1>6

\* ftp_waitresp gives up: nothing of the count changes.
LEMMA WaitTimeoutKeeps ==
    ASSUME LoginInv, WaitTimeout
    PROVE  Keeps
BY AlikeKeeps DEF WaitTimeout, AtSelect, Alive, Alike

\* ftp_waitresp on a closed connection.
LEMMA WaitClosedKeeps ==
    ASSUME IndInv, LoginInv, WaitClosed
    PROVE  Keeps
<1>1. Sound(ftp) /\ ftp.fault = "none" /\ LoginOK(ftp) /\ ftp.data \in {NoSock, Open}
  BY IndInvSound DEF WaitClosed, AtSelect, Alive, LoginInv, Sound, FtpState
<1>2. CASE ftp' = [ftp EXCEPT !.fault = "badfd"] /\ dwire' = dwire
  <2>1. Alike(ftp, ftp') /\ ftp'.queue = ftp.queue /\ ftp'.status = ftp.status
        /\ ftp'.fault = "badfd"
    BY <1>1, <1>2 DEF Alike, Sound, FtpState
  <2>2. QED
    BY <1>2, <2>1, AlikeKeeps
<1>3. ASSUME NEW sk, ftp' = HandleTail(ftp, sk), Linked(ftp, ftp') PROVE Keeps
  <2>1. ftp.fault # "abort"
    BY <1>1
  <2>2. /\ LoginOK(ftp') /\ Sound(ftp')
        /\ Counted(ftp, dwire) => Counted(ftp', dwire) /\ ftp'.fault # "abort"
    BY <1>1, <1>3, <2>1, TailKeeps
  <2>3. Counted(ftp', dwire) => Counted(ftp', dwire')
    BY <1>1, <1>3, <2>2, LinkKeeps
  <2>4. QED
    BY <2>2, <2>3 DEF Keeps
<1>4. QED
  BY <1>2, <1>3 DEF WaitClosed, Linked

\* The operation that waited goes on.
LEMMA ResumeKeeps ==
    ASSUME IndInv, LoginInv, Resume
    PROVE  Keeps
<1> DEFINE g == [ftp EXCEPT !.wait = Tail(@)]
           op == Head(ftp.wait)
<1>1. /\ Sound(ftp) /\ ftp.fault = "none" /\ LoginOK(ftp) /\ ftp.wait # << >>
      /\ ftp' = FinishPrepare(ftp) /\ dwire' = dwire
  BY IndInvSound DEF Resume, Alive, LoginInv, IndInv, WaitInv
<1>2. Entered(ftp) /\ NoLogin(ftp.wire)
  BY <1>1 DEF LoginOK, Entering, Entered
<1>3. op \in DataOp /\ Tail(ftp.wait) \in Seq(DataOp)
  BY <1>1 DEF Sound, FtpState
<1>4. /\ Sound(g) /\ g.wire = ftp.wire /\ g.busy = ftp.busy /\ g.cproc = ftp.cproc
      /\ g.data = ftp.data /\ g.lis = ftp.lis /\ g.fault = "none"
  BY <1>1, <1>3 DEF Sound, FtpState, Handlers
<1> HIDE DEF op
<1>5. CASE ftp.data = NoSock
  <2>1. ftp' = g
    BY <1>1, <1>5 DEF FinishPrepare
  <2> HIDE DEF g
  <2>2. LoginOK(g)
    BY <1>2, <1>4 DEF LoginOK, Entered
  <2>3. ASSUME Counted(ftp, dwire) PROVE Counted(g, dwire)
    <3>1. Marks(ftp) /\ Covered(ftp, dwire) /\ Links(ftp, dwire)
      BY <1>2, <2>3 DEF Counted
    <3>2. g.data # Open
      BY <1>4, <1>5 DEF NoSock, Open
    <3>3. Marks(g) /\ Covered(g, dwire) /\ Links(g, dwire)
      BY <1>4, <3>1, <3>2 DEF Marks, Covered, Exposed, Links
    <3>4. QED
      BY <3>3 DEF Counted
  <2>4. QED
    BY <1>1, <1>4, <2>1, <2>2, <2>3 DEF Keeps
<1>6. CASE ftp.data # NoSock
  <2>1. ftp' = StartTransfer(g, op) /\ g.data = Open
    BY <1>1, <1>4, <1>6 DEF FinishPrepare, op, Sound, FtpState
  <2> HIDE DEF g
  <2>2. Starts(g, ftp')
    BY <1>3, <1>4, <2>1, StartTransferEffect
  <2>3. Sent(g, ftp', TransferCmds, 1) /\ Same(g, ftp') /\ ftp'.cproc \in {"list", "xfer"}
    BY <2>2 DEF Starts
  <2>4. NoLogin(ftp'.wire)
    <3>1. TransferCmds \cap LoginCmds = {} /\ NoLogin(g.wire)
      BY <1>2, <1>4 DEF TransferCmds, LoginCmds
    <3>2. QED
      BY <1>4, <2>3, <3>1, SentNoLogin
  <2>5. LoginOK(ftp')
    BY <2>3, <2>4 DEF LoginOK, Entered
  <2>6. ASSUME Counted(ftp, dwire) PROVE Counted(ftp', dwire)
    <3>1. Marks(ftp) /\ Covered(ftp, dwire) /\ Links(ftp, dwire)
      BY <1>2, <2>6 DEF Counted
    <3>2. ftp.lis # Open
      BY <1>1, <1>4, <2>1, <3>1 DEF Links
    <3>3. ftp'.lis # Open /\ ftp'.cproc # "pasv"
      BY <1>4, <2>3, <3>2 DEF Same
    <3>4. Links(ftp', dwire)
      BY <3>3 DEF Links
    <3>5. g.busy \in Int /\ Len(g.wire) \in Nat /\ g.busy >= Len(g.wire)
      BY <1>4, <3>1 DEF Sound, FtpState, Covered
    <3>6. ftp'.busy >= Len(ftp'.wire) /\ ftp'.busy > Len(ftp'.wire)
      <4>1. CASE ftp'.wire = g.wire /\ ftp'.busy = g.busy + 1
        <5>1. Len(ftp'.wire) = Len(g.wire)
          BY <4>1
        <5>2. QED
          BY <3>5, <4>1, <5>1
      <4>2. CASE Len(ftp'.wire) = Len(g.wire) + 1 /\ ftp'.busy = g.busy + 1 + 1
        BY <3>5, <4>2
      <4>3. QED
        BY <2>3, <4>1, <4>2 DEF Sent
    <3>7. Covered(ftp', dwire)
      BY <3>6 DEF Covered
    <3>8. Marks(ftp')
      <4>1. SUFFICES ASSUME NEW i \in 1..Len(ftp'.wire)
                     PROVE  ftp'.wire[i].mark # "none" => ftp'.wire[i].cmd \in {"list", "retr"}
        BY <2>3 DEF Marks
      <4>2. CASE ftp'.wire = g.wire
        BY <1>4, <3>1, <4>2 DEF Marks
      <4>3. CASE /\ Len(ftp'.wire) = Len(g.wire) + 1
                 /\ \A j \in 1..Len(g.wire) : ftp'.wire[j] = g.wire[j]
                 /\ ftp'.wire[Len(ftp'.wire)].mark = "none"
        <5>1. CASE i = Len(ftp'.wire)
          BY <4>3, <5>1
        <5>2. CASE i # Len(ftp'.wire)
          <6>1. i \in 1..Len(g.wire)
            BY <3>5, <4>3, <5>2
          <6>2. ftp'.wire[i] = ftp.wire[i] /\ i \in 1..Len(ftp.wire)
            BY <1>4, <4>3, <6>1
          <6>3. QED
            BY <3>1, <6>2 DEF Marks
        <5>3. QED
          BY <5>1, <5>2
      <4>4. QED
        BY <2>3, <4>2, <4>3 DEF Sent
    <3>9. QED
      BY <3>4, <3>7, <3>8 DEF Counted
  <2>7. ftp'.fault # "abort"
    BY <1>4, <2>3 DEF Same
  <2>8. QED
    BY <1>1, <2>5, <2>6, <2>7 DEF Keeps
<1>7. QED
  BY <1>5, <1>6

\* What handle_data does to the fields of the count.
LEMMA RecvDataCount ==
    ASSUME NEW f, Sound(f), NEW item, NEW mem, NEW g, g = RecvData(f, item, mem)
    PROVE  /\ g.wire = f.wire /\ g.cproc = f.cproc /\ g.lis = f.lis /\ g.wait = f.wait
           /\ g.status = f.status /\ g.fault = f.fault /\ g.queue = f.queue
           /\ item # Eof => g.data = f.data /\ g.busy = f.busy
           /\ item = Eof => g.data = NoSock /\ g.busy \in {f.busy, f.busy - 1}
<1> DEFINE h == CASE f.dproc = "list" -> DprocList(f, item)
                  [] f.dproc = "xfer" -> DprocXfer(f, item, mem)
                  [] OTHER -> f
           Kept(k) == /\ k.wire = f.wire /\ k.cproc = f.cproc /\ k.lis = f.lis
                      /\ k.wait = f.wait /\ k.status = f.status /\ k.fault = f.fault
                      /\ k.queue = f.queue /\ k.data = f.data
                      /\ item # Eof => k.busy = f.busy
                      /\ k.busy \in {f.busy, f.busy - 1}
                      /\ DOMAIN k = DOMAIN f
<1>1. f \in FtpState
  BY DEF Sound
<1>2. Kept(f)
  OBVIOUS
<1>3. Kept(DprocList(f, item))
  BY <1>1 DEF DprocList, FtpState
<1>4. Kept(DprocXfer(f, item, mem))
  BY <1>1 DEF DprocXfer, FtpState
<1>5. Kept(h)
  <2>1. h = f \/ h = DprocList(f, item) \/ h = DprocXfer(f, item, mem)
    OBVIOUS
  <2> HIDE DEF h, Kept
  <2>2. QED
    BY <1>2, <1>3, <1>4, <2>1
<1> HIDE DEF h
<1>6. g = IF item = Eof THEN [h EXCEPT !.data = NoSock] ELSE h
  BY DEF RecvData, h
<1>7. CASE item = Eof
  BY <1>1, <1>5, <1>6, <1>7 DEF FtpState
<1>8. CASE item # Eof
  BY <1>5, <1>6, <1>8
<1>9. QED
  BY <1>7, <1>8

\* A packet that was received counts no more.
LEMMA CountedTail ==
    ASSUME NEW f, NEW dw \in Seq(Sources \cup {Eof}), dw # << >>, Counted(f, dw)
    PROVE  Counted(f, Tail(dw))
<1> DEFINE dx == Tail(dw)
<1>1. Ended(dx) => Ended(dw)
  <2>1. \A i \in 1..Len(dx) : i + 1 \in 1..Len(dw) /\ dx[i] = dw[i + 1]
    OBVIOUS
  <2>2. QED
    BY <2>1 DEF Ended
<1> HIDE DEF dx
<1>2. Exposed(f, dx) => Exposed(f, dw)
  BY DEF Exposed
<1>3. Counted(f, dx)
  BY <1>1, <1>2 DEF Counted, Covered, Links
<1>4. QED
  BY <1>3 DEF dx

\* The end of the data closes the connection, and is counted down at most once.
LEMMA EndCounted ==
    ASSUME NEW f, Sound(f), Entered(f), f.data = Open, NEW dw, Ended(dw), Counted(f, dw),
           NEW g, g.wire = f.wire, g.cproc = f.cproc, g.lis = f.lis, g.wait = f.wait,
           g.data = NoSock, g.busy \in {f.busy, f.busy - 1}
    PROVE  Counted(g, dw)
<1>1. Marks(f) /\ Covered(f, dw) /\ Links(f, dw)
  BY DEF Counted
<1>2. g.data # Open
  BY DEF NoSock, Open
<1>3. dw # << >>
  <2>1. dw = << >> => Len(dw) = 0
    OBVIOUS
  <2>2. QED
    BY <2>1 DEF Ended
<1>4. f.busy > Len(f.wire) /\ f.busy \in Int /\ Len(f.wire) \in Nat
  BY <1>1, <1>3 DEF Covered, Exposed, Sound, FtpState
<1>5. g.busy >= Len(g.wire)
  <2>1. f.busy - 1 >= Len(f.wire) /\ f.busy >= Len(f.wire)
    BY <1>4
  <2>2. QED
    BY <2>1
<1>6. Covered(g, dw)
  BY <1>2, <1>5 DEF Covered, Exposed
<1>7. Marks(g)
  BY <1>1 DEF Marks
<1>8. Links(g, dw)
  BY <1>1, <1>2 DEF Links
<1>9. QED
  BY <1>6, <1>7, <1>8 DEF Counted

\* A packet, or the end of the data, which is counted down once.
LEMMA DataRecvKeeps ==
    ASSUME IndInv, LoginInv, DataRecv
    PROVE  Keeps
<1> DEFINE item == Head(dwire)
           last == LastRecv(item)
<1>1. PICK sk \in SockOutcomes, mem \in MemOutcomes(ftp.cls) :
        LET f == RecvData(ftp, item, mem)
            g == IF last THEN HandleTail(f, sk) ELSE f
        IN  /\ ftp' = g
            /\ dwire' = IF g.data = NoSock THEN << >> ELSE Tail(dwire)
  BY DEF DataRecv
<1> DEFINE f == RecvData(ftp, item, mem)
<1>2. /\ Sound(ftp) /\ LoginOK(ftp) /\ ftp.fault = "none" /\ ftp.data = Open
      /\ dwire \in Seq(Sources \cup {Eof}) /\ dwire # << >>
  BY IndInvSound DEF DataRecv, AtMainSelect, AtSelect, Alive, LoginInv, IndInv, TypeOK
<1>3. item \in Sources \cup {Eof} /\ (item = Eof => Ended(dwire))
  <2>1. 1 \in 1..Len(dwire) /\ item = dwire[1] /\ item \in Sources \cup {Eof}
    BY <1>2
  <2>2. QED
    BY <2>1 DEF Ended
<1>4. Entered(ftp)
  BY <1>2 DEF LoginOK, Entering, NoSock, Open
<1> HIDE DEF item
<1>5. /\ Sound(f) /\ f.wire = ftp.wire /\ f.cproc = ftp.cproc /\ f.lis = ftp.lis
      /\ f.wait = ftp.wait /\ f.fault = "none"
      /\ item # Eof => f.data = ftp.data /\ f.busy = ftp.busy
      /\ item = Eof => f.data = NoSock /\ f.busy \in {ftp.busy, ftp.busy - 1}
  BY <1>2, <1>3, RecvDataSound, RecvDataCount
<1>6. ftp' = (IF last THEN HandleTail(f, sk) ELSE f)
      /\ dwire' = IF ftp'.data = NoSock THEN << >> ELSE Tail(dwire)
  BY <1>1
<1> HIDE DEF f, last
<1>7. LoginOK(f)
  BY <1>4, <1>5 DEF LoginOK, Entered
<1>8. ASSUME Counted(ftp, dwire) PROVE Counted(f, dwire)
  <2>1. CASE item # Eof
    <3>1. Alike(ftp, f)
      BY <1>5, <2>1 DEF Alike
    <3>2. QED
      BY <1>8, <3>1, CountedAlike
  <2>2. CASE item = Eof
    BY <1>2, <1>3, <1>4, <1>5, <1>8, <2>2, EndCounted
  <2>3. QED
    BY <2>1, <2>2
<1>9. /\ LoginOK(ftp')
      /\ Counted(ftp, dwire) => Counted(ftp', dwire) /\ ftp'.fault # "abort"
  <2>1. f.fault # "abort"
    BY <1>5
  <2>2. CASE last
    <3>1. ftp' = HandleTail(f, sk)
      BY <1>6, <2>2
    <3>2. /\ LoginOK(ftp') /\ Sound(ftp')
          /\ Counted(f, dwire) => Counted(ftp', dwire) /\ ftp'.fault # "abort"
      BY <1>5, <1>7, <2>1, <3>1, TailKeeps
    <3>3. QED
      BY <1>8, <3>2
  <2>3. CASE ~last
    BY <1>6, <1>7, <1>8, <2>1, <2>3
  <2>4. QED
    BY <2>2, <2>3
<1>10. ASSUME Counted(ftp', dwire) PROVE Counted(ftp', dwire')
  <2>1. Counted(ftp', << >>)
    BY <1>10, CountedLess
  <2>2. Counted(ftp', Tail(dwire))
    BY <1>2, <1>10, CountedTail
  <2>3. dwire' = << >> \/ dwire' = Tail(dwire)
    BY <1>6
  <2>4. QED
    BY <2>1, <2>2, <2>3
<1>11. QED
  BY <1>9, <1>10 DEF Keeps

\* A data connection that a server opens by itself is not under use.
LEMMA AcceptCounted ==
    ASSUME NEW f, Entered(f), f.data = NoSock, f.lis = Open, f.wait = << >>,
           NEW dw, Counted(f, dw),
           NEW g, g.wire = f.wire, g.busy = f.busy, g.cproc = f.cproc, g.lis = f.lis,
           g.wait = f.wait, g.data = Open
    PROVE  Counted(g, << >>)
<1>1. Marks(f) /\ Covered(f, dw) /\ Links(f, dw)
  BY DEF Counted
<1>2. ~Unserved(g.wire) /\ Len(g.wire) <= 1
  BY <1>1 DEF Links
<1>3. ~Exposed(g, << >>) /\ ~Ended(<< >>)
  BY <1>2 DEF Exposed, Ended
<1>4. Covered(g, << >>)
  BY <1>1, <1>3 DEF Covered
<1>5. Marks(g)
  BY <1>1 DEF Marks
<1>6. g.cproc # "pasv" /\ g.data # NoSock
  BY <1>1 DEF Links, NoSock, Open
<1>7. Links(g, << >>)
  BY <1>2, <1>3, <1>6 DEF Links
<1>8. QED
  BY <1>4, <1>5, <1>7 DEF Counted

\* A server that connects by itself: nothing else is under way then.
LEMMA LisAcceptKeeps ==
    ASSUME IndInv, LoginInv, LisAccept
    PROVE  Keeps
<1> DEFINE f == [ftp EXCEPT !.data = Open]
<1>1. PICK sk \in SockOutcomes : ftp' = HandleTail(f, sk) /\ Linked(ftp, ftp')
  BY DEF LisAccept, Linked
<1>2. /\ Sound(ftp) /\ LoginOK(ftp) /\ ftp.fault = "none" /\ ftp.lis = Open
      /\ ftp.wait = << >> /\ ftp.data \in {NoSock, Open}
  BY IndInvSound DEF LisAccept, AtMainSelect, AtSelect, Alive, LoginInv, Sound, FtpState
<1>3. /\ Sound(f) /\ f.wire = ftp.wire /\ f.busy = ftp.busy /\ f.cproc = ftp.cproc
      /\ f.lis = ftp.lis /\ f.wait = ftp.wait /\ f.data = Open /\ f.fault # "abort"
  BY ZenonT(40), <1>2 DEF Sound, FtpState, Handlers
<1> HIDE DEF f
<1>4. Entered(ftp) /\ Entered(f) /\ LoginOK(f)
  <2>1. Entered(ftp)
    BY <1>2 DEF LoginOK, Entering, NoSock, Open
  <2>2. QED
    BY <1>3, <2>1 DEF LoginOK, Entered
<1>5. LoginOK(ftp') /\ Sound(ftp')
  BY <1>1, <1>3, <1>4, TailKeeps
<1>6. ASSUME Counted(ftp, dwire) PROVE Counted(ftp', dwire') /\ ftp'.fault # "abort"
  <2>1. CASE ftp.data = Open
    <3>1. Alike(ftp, f)
      BY <1>3, <2>1 DEF Alike
    <3>2. Counted(f, dwire)
      BY <1>6, <3>1, CountedAlike
    <3>3. Counted(ftp', dwire) /\ ftp'.fault # "abort"
      BY <1>1, <1>3, <1>4, <3>2, TailKeeps
    <3>4. QED
      BY <1>1, <1>2, <1>5, <3>3, LinkKeeps
  <2>2. CASE ftp.data = NoSock
    <3>1. Counted(f, << >>)
      BY <1>2, <1>3, <1>4, <1>6, <2>2, AcceptCounted
    <3>2. Counted(ftp', << >>) /\ ftp'.fault # "abort"
      BY <1>1, <1>3, <1>4, <3>1, HandleTailCounted
    <3>3. ftp'.data # ftp.data \/ Counted(ftp', dwire)
      BY <2>2, <3>2, CountedAny
    <3>4. Counted(ftp', dwire')
      <4> DEFINE fresh == FALSE
      <4>1. fresh \in BOOLEAN /\ LinkData(ftp, ftp', fresh)
        BY <1>1 DEF Linked
      <4> HIDE DEF fresh
      <4>2. QED
        BY <1>2, <1>5, <3>2, <3>3, <4>1, LinkCounted
    <3>5. QED
      BY <3>2, <3>4
  <2>3. QED
    BY <1>2, <2>1, <2>2
<1>7. QED
  BY <1>5, <1>6 DEF Keeps

\* An operation that is queued after the greeting.
LEMMA QueueKeeps ==
    ASSUME IndInv, LoginInv, ftp.fault = "none", NoGreet(ftp), NEW op \in FtpOp,
           NEW sk, ftp' = FtpQueue(ftp, op, sk), dwire' = dwire
    PROVE  Keeps
<1>1. Sound(ftp) /\ LoginOK(ftp)
  BY IndInvSound DEF LoginInv
<1>2. Sound(ftp') /\ LoginOK(ftp') /\ NoGreet(ftp')
  BY <1>1, FtpQueueLogin
<1>3. ASSUME Counted(ftp, dwire) PROVE Counted(ftp', dwire) /\ ftp'.fault = ftp.fault
  BY <1>1, <1>3, FtpQueueCounted
<1>4. QED
  BY <1>2, <1>3 DEF Keeps

\* The start directory is queued once the session has a status.
LEMMA QueueStartDirKeeps ==
    ASSUME IndInv, LoginInv, QueueStartDir
    PROVE  Keeps
<1>1. PICK sk \in SockOutcomes : ftp' = FtpQueue(ftp, Op("CHDIR", startDir), sk)
  BY DEF QueueStartDir
<1>2. Op("CHDIR", startDir) \in FtpOp
  BY OpTypes DEF QueueStartDir, StartDirDue, IndInv, TypeOK, Args
<1>3. ftp.fault = "none" /\ dwire' = dwire /\ ftp.status # "DISC"
  BY DEF QueueStartDir, Alive, StartDirDue
<1>4. NoGreet(ftp)
  BY <1>3 DEF LoginInv, LoginOK, Entering, Entered, NoLogin, NoGreet, LoginCmds
<1>5. QED
  BY <1>1, <1>2, <1>3, <1>4, QueueKeeps

\* The keys are pressed after the greeting.
LEMMA UserKeeps ==
    ASSUME IndInv, LoginInv, User, "earlykeys" \notin Env
    PROVE  Keeps
<1>1. ASSUME AtMainSelect, NoGreet(ftp), NEW op \in FtpOp, NEW sk \in SockOutcomes,
             ftp' = FtpQueue(ftp, op, sk), dwire' = dwire
      PROVE  Keeps
  BY <1>1, QueueKeeps DEF AtMainSelect, AtSelect, Alive
<1>2. MayPress => AtMainSelect /\ NoGreet(ftp)
  BY DEF MayPress, Greeted, NoGreet
<1>3. MayFetch => AtMainSelect /\ NoGreet(ftp)
  <2>1. ftp.data = Open => NoGreet(ftp)
    BY DEF LoginInv, LoginOK, Entering, Entered, NoLogin, NoGreet, LoginCmds, NoSock, Open
  <2>2. QED
    BY <1>2, <2>1 DEF MayFetch
<1>4. CASE KeyCdup
  BY <1>1, <1>2, <1>4, OpTypes DEF KeyCdup
<1>5. ASSUME NEW d \in Dirs, KeyChdir(d) PROVE Keeps
  BY <1>1, <1>2, <1>5, OpTypes DEF KeyChdir
<1>6. ASSUME NEW x \in Xfers, NEW n \in Names, KeyXfer(x, n) PROVE Keeps
  BY <1>1, <1>3, <1>6, OpTypes DEF KeyXfer
<1>7. QED
  BY <1>4, <1>5, <1>6 DEF User

\* A server that answers is not taking an answer back.
LEMMA ServedRewired ==
    ASSUME IndInv, NEW i \in 1..Len(ftp.wire), NEW d \in Exchange,
           d.cmd = ftp.wire[i].cmd, d.code = 0 => ftp.wire[i].code = 0,
           \/ d.mark = ftp.wire[i].mark
           \/ ftp.wire[i].cmd \in {"list", "retr"},
           NEW g, g = [ftp EXCEPT !.wire = [ftp.wire EXCEPT ![i] = d]]
    PROVE  Rewired(ftp, g, i) /\ g.fault = ftp.fault /\ g.wire[i] = d
<1> DEFINE w == [ftp.wire EXCEPT ![i] = d]
<1>1. Sound(ftp) /\ ftp.wire \in Seq(Exchange)
  BY IndInvSound DEF Sound, FtpState
<1>2. /\ Len(w) = Len(ftp.wire) /\ w[i] = d
      /\ \A j \in 1..Len(ftp.wire) : j # i => w[j] = ftp.wire[j]
  BY <1>1, ExceptSeq
<1>3. g = [ftp EXCEPT !.wire = w]
  OBVIOUS
<1> HIDE DEF w
<1>4. /\ g.wire = w /\ g.busy = ftp.busy /\ g.cproc = ftp.cproc /\ g.queue = ftp.queue
      /\ Same(ftp, g)
  BY <1>1, <1>3 DEF Sound, FtpState, Same
<1>5. \A j \in 1..Len(ftp.wire) :
        /\ w[j].cmd = ftp.wire[j].cmd
        /\ w[j].code = 0 => ftp.wire[j].code = 0
        /\ j # i => w[j].mark = ftp.wire[j].mark
  BY <1>2
<1>6. QED
  BY <1>2, <1>4, <1>5 DEF Rewired, Same

\* A transfer that ends takes no more room than it had: its data was counted.
LEMMA HangupCounted ==
    ASSUME IndInv, LoginInv, NEW i \in 1..Len(ftp.wire), Rewired(ftp, ftp', i),
           ftp.wire[i].code = 0, ftp.wire[i].cmd \in {"list", "retr"},
           ftp'.wire[i].code # 0, dwire' = Append(dwire, Eof),
           Counted(ftp, dwire)
    PROVE  Counted(ftp', dwire')
<1>1. Sound(ftp) /\ LoginOK(ftp) /\ Len(ftp'.wire) = Len(ftp.wire)
  BY IndInvSound DEF LoginInv, Rewired
<1>2. Counted(ftp', dwire) /\ (Entered(ftp') => Entered(ftp))
  BY <1>1, RewiredKeeps
<1>3. SUFFICES ASSUME Entered(ftp'), Entered(ftp)
               PROVE  Counted(ftp', dwire')
  BY <1>2 DEF Counted
<1>4. /\ Marks(ftp') /\ Covered(ftp', dwire) /\ Links(ftp', dwire)
      /\ Covered(ftp, dwire)
  BY <1>2, <1>3 DEF Counted
<1>5. ftp'.data = ftp.data /\ ftp'.busy = ftp.busy
  BY DEF Rewired, Same
<1>6. Unserved(ftp.wire)
  BY DEF Unserved
<1>7. Covered(ftp', dwire')
  <2>1. Exposed(ftp', dwire') => Exposed(ftp, dwire)
    BY <1>5, <1>6 DEF Exposed
  <2>2. QED
    BY <1>1, <1>4, <1>5, <2>1 DEF Covered
<1>8. Len(ftp'.wire) <= 1 => ~Unserved(ftp'.wire)
  <2>1. SUFFICES ASSUME Len(ftp'.wire) <= 1, NEW j \in 1..Len(ftp'.wire)
                 PROVE  ftp'.wire[j].code # 0
    BY DEF Unserved
  <2>2. Len(ftp.wire) \in Nat
    BY <1>1 DEF Sound, FtpState
  <2>3. j = i
    BY <1>1, <2>1, <2>2
  <2>4. QED
    BY <2>3
<1>9. Links(ftp', dwire')
  BY <1>4, <1>8 DEF Links
<1>10. QED
  BY <1>4, <1>7, <1>9 DEF Counted

\* The server answers a command.
LEMMA SrvReplyKeeps ==
    ASSUME IndInv, LoginInv, NEW i \in 1..Len(ftp.wire), SrvReply(i)
    PROVE  Keeps
<1> DEFINE e == ftp.wire[i]
<1>1. PICK code \in Replies(e.cmd) :
        LET dir == IF code # 250 THEN srv.cwd
                   ELSE IF e.cmd = "cdup" THEN Home ELSE e.arg
            hangup == e.cmd \in {"list", "retr"} /\ srv.conn = "open"
        IN  /\ ftp' = [ftp EXCEPT !.wire[i] =
                        [@ EXCEPT !.code = code, !.arg = dir]]
            /\ srv' = [srv EXCEPT
                        !.auth = IF code = 230 THEN 1 ELSE @,
                        !.cwd = dir,
                        !.conn = IF code = 227 THEN "listen"
                                 ELSE IF hangup THEN "none" ELSE @]
            /\ dwire' = IF hangup THEN Append(dwire, Eof) ELSE dwire
  BY DEF SrvReply
<1> DEFINE dir == IF code # 250 THEN srv.cwd
                  ELSE IF e.cmd = "cdup" THEN Home ELSE e.arg
           d == [e EXCEPT !.code = code, !.arg = dir]
<1>2. e \in Exchange /\ e.cmd \in Cmds /\ srv \in SrvState /\ e.code = 0
  BY ServedExchange DEF Exchange, IndInv, TypeOK, SrvReply, Serving
<1>3. code \in Codes /\ code # 0
  <2>1. code \in Codes
    BY <1>2, RepliesType
  <2>2. code # 0
    BY <1>2 DEF Replies, LoginCmds, Denied, Cmds
  <2>3. QED
    BY <2>1, <2>2
<1>4. dir \in Dirs
  <2>1. code = 250 => e.cmd \in {"cwd", "cdup"}
    BY <1>2 DEF Replies, LoginCmds, Denied, Cmds
  <2>2. srv.cwd \in Dirs /\ (e.cmd = "cwd" => e.arg \in Dirs)
    BY <1>2 DEF SrvState, Exchange
  <2>3. QED
    BY <2>1, <2>2, DirsAssumption
<1> HIDE DEF dir
<1>5. d \in Exchange /\ d.cmd = e.cmd /\ d.mark = e.mark /\ d.code # 0
  BY <1>2, <1>3, <1>4 DEF Exchange, Args
<1>6. ftp' = [ftp EXCEPT !.wire = [ftp.wire EXCEPT ![i] = d]]
  BY <1>1, ServedExchange DEF dir
<1> HIDE DEF d
<1>7. Rewired(ftp, ftp', i) /\ ftp'.fault = ftp.fault /\ ftp'.wire[i] = d
  BY <1>5, <1>6, ServedRewired
<1>8. Sound(ftp) /\ LoginOK(ftp) /\ ftp.fault = "none"
  BY IndInvSound DEF LoginInv, SrvReply, Serving, Alive
<1>9. LoginOK(ftp') /\ (Counted(ftp, dwire) => Counted(ftp', dwire))
  BY <1>7, <1>8, RewiredKeeps
<1>10. ASSUME Counted(ftp, dwire) PROVE Counted(ftp', dwire')
  <2>1. CASE e.cmd \in {"list", "retr"} /\ dwire' = Append(dwire, Eof)
    BY <1>2, <1>5, <1>7, <1>10, <2>1, HangupCounted
  <2>2. CASE dwire' = dwire
    BY <1>9, <1>10, <2>2
  <2>3. QED
    BY <1>1, <2>1, <2>2
<1>11. QED
  BY <1>7, <1>8, <1>9, <1>10 DEF Keeps

\* The server opens a transfer with its preliminary reply.
LEMMA SrvBeginKeeps ==
    ASSUME IndInv, LoginInv, NEW i \in 1..Len(ftp.wire), SrvBegin(i)
    PROVE  Keeps
<1> DEFINE e == ftp.wire[i]
           d == [e EXCEPT !.mark = "sent"]
<1>1. e \in Exchange /\ e.cmd \in {"list", "retr"}
  BY ServedExchange DEF SrvBegin
<1>2. d \in Exchange /\ d.cmd = e.cmd /\ d.code = e.code
  BY <1>1 DEF Exchange
<1>3. ftp' = [ftp EXCEPT !.wire = [ftp.wire EXCEPT ![i] = d]] /\ dwire' = dwire
  BY ServedExchange DEF SrvBegin
<1> HIDE DEF d
<1>4. Rewired(ftp, ftp', i) /\ ftp'.fault = ftp.fault
  BY <1>1, <1>2, <1>3, ServedRewired
<1>5. Sound(ftp) /\ LoginOK(ftp) /\ ftp.fault = "none"
  BY IndInvSound DEF LoginInv, SrvBegin, Serving, Alive
<1>6. LoginOK(ftp') /\ (Counted(ftp, dwire) => Counted(ftp', dwire))
  BY <1>4, <1>5, RewiredKeeps
<1>7. QED
  BY <1>3, <1>4, <1>5, <1>6 DEF Keeps

\* What the server marked is a transfer, once the login is over.
LEMMA MarkedUnserved ==
    ASSUME LoginInv, NEW i \in 1..Len(ftp.wire), Serving(i), ftp.wire[i].mark # "none",
           Counted(ftp, dwire), Entered(ftp)
    PROVE  ftp.wire[i].cmd \in {"list", "retr"} /\ Unserved(ftp.wire)
<1>1. ftp.wire[i].cmd \in {"list", "retr"} /\ ftp.wire[i].code = 0
  BY DEF Counted, Marks, Serving
<1>2. QED
  BY <1>1 DEF Unserved

\* A packet of a transfer that is counted.
LEMMA SrvChunkKeeps ==
    ASSUME IndInv, LoginInv, NEW i \in 1..Len(ftp.wire), SrvChunk(i)
    PROVE  Keeps
<1>1. /\ ftp' = ftp /\ ftp.fault = "none" /\ dwire' = Append(dwire, srv.src)
      /\ dwire \in Seq(Sources \cup {Eof}) /\ srv.src \in Sources
      /\ Serving(i) /\ ftp.wire[i].mark # "none"
  BY DEF SrvChunk, Serving, Alive, IndInv, TypeOK, SrvState
<1>2. srv.src # Eof
  <2>1. Len(srv.src) = 2 /\ Len(Eof) = 1
    BY <1>1 DEF Sources, Eof
  <2>2. QED
    BY <2>1
<1>3. Ended(dwire') => Ended(dwire)
  <2>1. Len(dwire') = Len(dwire) + 1 /\ dwire'[Len(dwire) + 1] = srv.src
        /\ Len(dwire) \in Nat
        /\ \A j \in 1..Len(dwire) : dwire'[j] = dwire[j]
    BY <1>1
  <2>2. QED
    BY <1>2, <2>1 DEF Ended
<1>4. ASSUME Counted(ftp, dwire), Entered(ftp) PROVE Counted(ftp, dwire')
  <2>1. Marks(ftp) /\ Covered(ftp, dwire) /\ Links(ftp, dwire) /\ Unserved(ftp.wire)
    BY <1>1, <1>4, MarkedUnserved DEF Counted
  <2>2. Exposed(ftp, dwire') => Exposed(ftp, dwire)
    BY <2>1 DEF Exposed
  <2>3. Covered(ftp, dwire')
    BY <2>1, <2>2 DEF Covered
  <2>4. Links(ftp, dwire')
    BY <1>3, <2>1 DEF Links
  <2>5. QED
    BY <2>1, <2>3, <2>4 DEF Counted
<1>5. Counted(ftp, dwire) => Counted(ftp, dwire')
  BY <1>4 DEF Counted
<1>6. QED
  BY <1>1, <1>5 DEF Keeps, LoginInv

\* The final reply of a transfer, and the end of its data.
LEMMA SrvFinishKeeps ==
    ASSUME IndInv, LoginInv, NEW i \in 1..Len(ftp.wire), SrvFinish(i)
    PROVE  Keeps
<1> DEFINE e == ftp.wire[i]
           d(c) == [e EXCEPT !.code = c]
<1>1. e \in Exchange
  BY ServedExchange
<1>2. PICK c \in {226, 426} : ftp' = [ftp EXCEPT !.wire[i].code = c]
  BY DEF SrvFinish
<1>3. d(c) \in Exchange /\ d(c).cmd = e.cmd /\ d(c).mark = e.mark /\ d(c).code # 0
  BY <1>1 DEF Exchange, Codes
<1>4. ftp' = [ftp EXCEPT !.wire = [ftp.wire EXCEPT ![i] = d(c)]]
  BY <1>2, ServedExchange
<1> HIDE DEF d
<1>5. Rewired(ftp, ftp', i) /\ ftp'.fault = ftp.fault /\ ftp'.wire[i] = d(c)
  BY <1>3, <1>4, ServedRewired
<1>6. /\ Sound(ftp) /\ LoginOK(ftp) /\ ftp.fault = "none" /\ Serving(i)
      /\ e.mark # "none" /\ e.code = 0
      /\ dwire' = dwire \/ dwire' = Append(dwire, Eof)
  BY IndInvSound DEF LoginInv, SrvFinish, Serving, Alive
<1>7. LoginOK(ftp') /\ (Counted(ftp, dwire) => Counted(ftp', dwire))
      /\ (Entered(ftp') => Entered(ftp))
  BY <1>5, <1>6, RewiredKeeps
<1>8. ASSUME Counted(ftp, dwire) PROVE Counted(ftp', dwire')
  <2>1. CASE dwire' = dwire
    BY <1>7, <1>8, <2>1
  <2>2. CASE dwire' = Append(dwire, Eof) /\ Entered(ftp)
    <3>1. e.cmd \in {"list", "retr"}
      BY <1>6, <1>8, <2>2, MarkedUnserved
    <3>2. QED
      BY <1>3, <1>5, <1>6, <1>8, <2>2, <3>1, HangupCounted
  <2>3. CASE ~Entered(ftp)
    BY <1>7, <2>3 DEF Counted
  <2>4. QED
    BY <1>6, <2>1, <2>2, <2>3
<1>9. QED
  BY <1>5, <1>6, <1>7, <1>8 DEF Keeps

\* A server that sends no 421 unasked keeps the order of the login; one that
\* does not close a data connection by itself keeps the count, too.
LEMMA ServerKeeps ==
    ASSUME IndInv, LoginInv, Server, "idle421" \notin Env
    PROVE  LoginInv' /\ ("dataclose" \notin Env => Keeps)
<1>1. Keeps => LoginInv'
  BY DEF Keeps, LoginInv
<1>2. CASE SrvAnswer
  BY <1>1, <1>2, SrvReplyKeeps, SrvBeginKeeps, SrvChunkKeeps, SrvFinishKeeps
  DEF SrvAnswer
<1>3. CASE SrvDrop
  <2>1. ftp' = ftp /\ dwire' = dwire /\ ftp.fault = "none"
    BY <1>3 DEF SrvDrop, Alive
  <2>2. QED
    BY <1>1, <2>1, AlikeKeeps DEF Alike
<1>4. CASE SrvDataClose
  BY <1>4 DEF SrvDataClose, LoginInv
<1>5. QED
  BY <1>2, <1>3, <1>4 DEF Server, SrvIdle

\* A step of the client keeps both.
LEMMA ClientKeeps ==
    ASSUME IndInv, LoginInv, Client
    PROVE  Keeps
BY CtlLineKeeps, CtlNoReplyKeeps, CtlAgainKeeps, CtlEofKeeps, WaitTimeoutKeeps,
   WaitClosedKeeps, ResumeKeeps, DataRecvKeeps, LisAcceptKeeps, QueueStartDirKeeps
DEF Client

\* The session starts with the greeting under way and nothing counted.
LEMMA InitBusy ==
    ASSUME Init
    PROVE  LoginInv /\ BusyInv /\ ftp.fault = "none"
<1>1. /\ ftp.cproc = "none" /\ ftp.data = NoSock /\ ftp.lis = NoSock
      /\ ftp.wait = << >> /\ ftp.status = "DISC" /\ ftp.busy = 0 /\ ftp.queue = << >>
      /\ ftp.wire = <<Exch("greet", NoArg, NoXfer)>> /\ ftp.fault = "none"
  BY DEF Init
<1>2. Len(ftp.wire) = 1 /\ ftp.wire[1].mark = "none" /\ ftp.wire[1].cmd = "greet"
  BY <1>1 DEF Exch
<1>3. Entering(ftp)
  BY <1>1, <1>2 DEF Entering
<1>4. QED
  BY <1>1, <1>3 DEF LoginInv, LoginOK, BusyInv, Counted, Entered

\* No operation is sent while a step of the login is unanswered (proc_control,
\* ftp_queue), whatever else goes wrong, when the user waits for the greeting
\* and the server sends nothing unasked.
THEOREM LoginComesFirst ==
    ASSUME Env \cap {"earlykeys", "idle421"} = {}
    PROVE  Spec => []LoginFirst
<1>1. Init => LoginInv
  BY InitBusy
<1>2. IndInv /\ LoginInv /\ [Next]_vars => LoginInv'
  <2>1. ASSUME IndInv, LoginInv, Next PROVE LoginInv'
    BY <2>1, ClientKeeps, UserKeeps, ServerKeeps DEF Next, Keeps, LoginInv
  <2>2. ASSUME LoginInv, UNCHANGED vars PROVE LoginInv'
    BY <2>2 DEF vars, LoginInv
  <2>3. QED
    BY <2>1, <2>2
<1>3. IndInv /\ LoginInv => LoginFirst
  <2>1. SUFFICES ASSUME Sound(ftp), LoginOK(ftp) PROVE LoginFirst
    BY IndInvSound DEF LoginInv
  <2>2. CASE Entered(ftp)
    BY <2>2 DEF Entered, NoLogin, LoginFirst
  <2>3. CASE Entering(ftp)
    <3>1. ftp.wire = << >> => Len(ftp.wire) = 0
      OBVIOUS
    <3>2. Len(ftp.wire) \in {0, 1}
      BY <2>3, <3>1 DEF Entering
    <3>3. \A i \in 1..Len(ftp.wire) : i = 1
      BY <3>2, AtMostOne
    <3>4. QED
      BY <3>3 DEF LoginFirst
  <2>4. QED
    BY <2>1, <2>2, <2>3 DEF LoginOK
<1>4. QED
  BY Inductive, <1>1, <1>2, <1>3, PTL DEF Spec

\* assert(ftp->busy == 0) at the end of ftp_handle never fails, when in addition
\* the server ends no data connection it was not asked to use: whatever the
\* server refuses, breaks off or loses, and whatever keys are pressed meanwhile.
THEOREM BusyNeverNegative ==
    ASSUME Env \cap {"earlykeys", "idle421", "dataclose"} = {}
    PROVE  Spec => []AssertBusy
<1> DEFINE Inv == BusyInv /\ ftp.fault # "abort"
<1>1. Init => Inv
  BY InitBusy
<1>2. IndInv /\ Inv /\ [Next]_vars => Inv'
  <2>1. ASSUME IndInv, BusyInv, Next PROVE Inv'
    <3>1. LoginInv /\ Counted(ftp, dwire)
      BY <2>1 DEF BusyInv
    <3>2. Keeps
      BY <2>1, <3>1, ClientKeeps, UserKeeps, ServerKeeps DEF Next
    <3>3. QED
      BY <3>1, <3>2 DEF Keeps, BusyInv, LoginInv
  <2>2. ASSUME Inv, UNCHANGED vars PROVE Inv'
    BY <2>2 DEF vars, BusyInv, LoginInv
  <2>3. QED
    BY <2>1, <2>2
<1>3. Inv => AssertBusy
  BY DEF AssertBusy
<1> HIDE DEF Inv
<1>4. QED
  BY Inductive, <1>1, <1>2, <1>3, PTL DEF Spec

(***************************************************************************)
(* Part 6.  A transfer ends once, whatever keys an eager user presses and  *)
(* however the session fails, as long as the server ends what it began.    *)
(***************************************************************************)
DataOps == {"LIST", "XFER"}
Plain == {"type", "pwd", "cwd", "cdup"}

\* what the exchanges of w ask for, and how they were answered
Asks(w, c) == \E i \in 1..Len(w) : w[i].cmd = c
NoneAsked(w) == \A i \in 1..Len(w) : w[i].cmd \notin TransferCmds
OneAsked(w) == \A i, j \in 1..Len(w) :
    w[i].cmd \in TransferCmds /\ w[j].cmd \in TransferCmds => i = j
Marked(w) == \E i \in 1..Len(w) : w[i].mark = "sent"
Polite(w) == \A i \in 1..Len(w) :
    w[i].cmd \notin LoginCmds \cup {"pasv", "port"} => w[i].code < 400
Dismissed(w) == \A i \in 1..Len(w) : w[i].code \in {0, 220, 331, 530}

\* v asks for nothing that w does not ask for
Within(v, w) ==
    /\ NoneAsked(w) => NoneAsked(v)
    /\ OneAsked(w) => OneAsked(v)
    /\ Polite(w) => Polite(v)
    /\ Dismissed(w) => Dismissed(v)
    /\ Marked(v) => Marked(w)
    /\ Unserved(v) => Unserved(w)
    /\ \A c : Asks(v, c) => Asks(w, c)

\* w with one more command, or none without a connection
Adds(w, v, cmds) ==
    v = w \/ \E e \in Exchange : /\ e.cmd \in cmds /\ e.mark = "none" /\ e.code = 0
                                 /\ v = Append(w, e)

\* An exchange whose reply is read leaves the others.
LEMMA WithinTail ==
    ASSUME NEW w \in Seq(Exchange), w # << >>, NEW v, v = Tail(w)
    PROVE  Within(v, w) /\ (w[1].code # 0 /\ Unserved(w) => Unserved(v))
<1>1. /\ Len(w) \in Nat /\ Len(v) = Len(w) - 1
      /\ \A i \in 1..Len(v) : i + 1 \in 1..Len(w) /\ v[i] = w[i + 1]
  OBVIOUS
<1>2. \A j \in 1..Len(w) : j # 1 => \E i \in 1..Len(v) : v[i] = w[j]
  <2>1. \A j \in 1..Len(w) : j # 1 => j - 1 \in 1..Len(v) /\ v[j - 1] = w[j]
    OBVIOUS
  <2>2. QED
    BY <2>1
<1>3. \A i \in 1..Len(v) : \E j \in 1..Len(w) : v[i] = w[j]
  BY <1>1
<1>4. OneAsked(w) => OneAsked(v)
  <2>1. \A i, j \in 1..Len(v) : i + 1 = j + 1 => i = j
    BY <1>1
  <2>2. QED
    BY <1>1, <2>1 DEF OneAsked
<1>5. /\ NoneAsked(w) => NoneAsked(v)
      /\ Polite(w) => Polite(v)
      /\ Dismissed(w) => Dismissed(v)
  BY <1>3 DEF NoneAsked, Polite, Dismissed
<1>6. /\ Marked(v) => Marked(w)
      /\ Unserved(v) => Unserved(w)
      /\ \A c : Asks(v, c) => Asks(w, c)
  BY Zenon, <1>3 DEF Marked, Unserved, Asks
<1>7. w[1].code # 0 /\ Unserved(w) => Unserved(v)
  BY Zenon, <1>2 DEF Unserved
<1>8. QED
  BY <1>4, <1>5, <1>6, <1>7 DEF Within

\* A preliminary reply that is read leaves them all.
LEMMA WithinRead ==
    ASSUME NEW w, NEW v, Len(v) = Len(w),
           \A i \in 1..Len(w) : /\ v[i].cmd = w[i].cmd /\ v[i].code = w[i].code
                                /\ v[i].mark = "sent" => w[i].mark = "sent"
    PROVE  Within(v, w) /\ (Unserved(w) => Unserved(v))
<1>1. /\ NoneAsked(w) => NoneAsked(v)
      /\ OneAsked(w) => OneAsked(v)
      /\ Polite(w) => Polite(v)
      /\ Dismissed(w) => Dismissed(v)
  BY DEF NoneAsked, Polite, Dismissed, OneAsked
<1>2. /\ Marked(v) => Marked(w)
      /\ Unserved(v) <=> Unserved(w)
      /\ \A c : Asks(v, c) => Asks(w, c)
  BY DEF Marked, Unserved, Asks
<1>3. QED
  BY <1>1, <1>2 DEF Within

\* An empty wire asks for nothing.
LEMMA NothingAsked ==
    ASSUME NEW v, v = << >>
    PROVE  /\ NoneAsked(v) /\ OneAsked(v) /\ Polite(v) /\ Dismissed(v)
           /\ ~Marked(v) /\ ~Unserved(v) /\ \A c : ~Asks(v, c)
<1>1. Len(v) = 0
  OBVIOUS
<1>2. \A i \in 1..Len(v) : FALSE
  BY <1>1
<1>3. QED
  BY Zenon, <1>2 DEF NoneAsked, OneAsked, Polite, Dismissed, Marked, Unserved, Asks

\* One command more, on a wire that asks for no transfer.
LEMMA AddsOne ==
    ASSUME NEW w \in Seq(Exchange), NoneAsked(w), NEW v, NEW cmds, Adds(w, v, cmds)
    PROVE  /\ OneAsked(v) /\ (Polite(w) => Polite(v)) /\ (Dismissed(w) => Dismissed(v))
           /\ Marked(v) => Marked(w)
           /\ \A c : Asks(v, c) => Asks(w, c) \/ c \in cmds
           /\ cmds \cap TransferCmds = {} => NoneAsked(v) /\ ~Unserved(v)
<1>1. CASE v = w
  BY <1>1 DEF NoneAsked, OneAsked, Unserved, TransferCmds
<1>2. ASSUME NEW e \in Exchange, e.cmd \in cmds, e.mark = "none", e.code = 0,
             v = Append(w, e)
      PROVE  /\ OneAsked(v) /\ (Polite(w) => Polite(v)) /\ (Dismissed(w) => Dismissed(v))
             /\ Marked(v) => Marked(w)
             /\ \A c : Asks(v, c) => Asks(w, c) \/ c \in cmds
             /\ cmds \cap TransferCmds = {} => NoneAsked(v) /\ ~Unserved(v)
  <2>1. /\ Len(w) \in Nat /\ Len(v) = Len(w) + 1 /\ v[Len(v)] = e
        /\ \A i \in 1..Len(v) : i # Len(v) => i \in 1..Len(w) /\ v[i] = w[i]
    BY <1>2
  <2>2. OneAsked(v)
    BY <2>1 DEF OneAsked, NoneAsked
  <2>3. Polite(w) => Polite(v)
    BY <1>2, <2>1 DEF Polite
  <2>4. Dismissed(w) => Dismissed(v)
    BY <1>2, <2>1 DEF Dismissed
  <2>5. Marked(v) => Marked(w)
    <3>1. "sent" # "none"
      OBVIOUS
    <3>2. QED
      BY Zenon, <1>2, <2>1, <3>1 DEF Marked
  <2>6. \A c : Asks(v, c) => Asks(w, c) \/ c \in cmds
    BY Zenon, <1>2, <2>1 DEF Asks
  <2>7. cmds \cap TransferCmds = {} => NoneAsked(v)
    BY Zenon, <1>2, <2>1 DEF NoneAsked
  <2>8. NoneAsked(v) => ~Unserved(v)
    BY DEF NoneAsked, Unserved, TransferCmds
  <2>9. QED
    BY <2>2, <2>3, <2>4, <2>5, <2>6, <2>7, <2>8
<1>3. QED
  BY <1>1, <1>2 DEF Adds

\* before the 230 a server refuses what it is asked, and there is nothing to
\* receive
Stranger(f) ==
    /\ f.dirent = << >> /\ f.dproc = "none" /\ f.cproc \in {"none", "pwd", "cwd"}
    /\ f.wait = << >> /\ f.data = NoSock /\ f.lis = NoSock
    /\ \A i \in 1..Len(f.queue) : f.queue[i].op \notin DataOps
    /\ Dismissed(f.wire)

\* at most one transfer is asked for, and the data connection is the one it
\* uses: the server has it open for the client, or ended it
Channel(f, conn, dw) ==
    /\ OneAsked(f.wire)
    /\ Unserved(f.wire) => conn = "open"
    /\ conn = "open" => f.data = Open /\ ~Ended(dw)
    /\ f.data = NoSock => dw = << >>
    /\ f.data = Open => conn = "open" \/ Ended(dw)
    /\ dw # << >> => Unserved(f.wire) \/ Ended(dw)
    /\ Asks(f.wire, "pasv") => f.cproc = "pasv" /\ f.data = NoSock
    /\ Asks(f.wire, "port") => f.cproc = "active" /\ (f.wait # << >> => f.data = NoSock)
    /\ f.wait # << >> =>
        dw = << >> /\ NoneAsked(f.wire) /\ (f.data = Open => f.ctl = Open)

\* no operation that needs the data connection is queued right behind another,
\* and the user's is the first of all
Lined(f) ==
    /\ \A i \in 1..(Len(f.queue) - 1) :
         f.queue[i].op \in DataOps => f.queue[i + 1].op \notin DataOps
    /\ \A i \in 1..Len(f.queue) : f.queue[i].op = "XFER" => i = 1 /\ f.wait = << >>
    /\ \A i \in 1..Len(f.wait) : f.wait[i].op = "XFER" => i = Len(f.wait)

\* the operation that would run while another waits needs no data connection
Behind(f) ==
    f.ctl = Open /\ f.wait # << >> /\ f.queue # << >> => f.queue[1].op \notin DataOps

\* the transfers of q are not finished, and none of them is under way
Mine(xf, c, q) == \A i \in 1..Len(q) :
    q[i].op = "XFER" => xf[q[i].data].st = "live" /\ q[i].data # c

\* nor is the one under way finished, as long as a callback may still get it
Owned(f, xf, dw) ==
    /\ f.cproc = "xfer" => f.dproc = "xfer"
    /\ f.cls \in Xfers => xf[f.cls].st # "none"
    /\ f.dproc = "xfer" /\ (Unserved(f.wire) \/ Marked(f.wire) \/ dw # << >>) =>
            xf[f.cls].st = "live"
    /\ Mine(xf, f.cls, f.queue) /\ Mine(xf, f.cls, f.wait)

Safe(f, xf, auth, conn, dw) ==
    /\ auth = 0 => Stranger(f)
    /\ auth = 1 => Polite(f.wire)
    /\ Channel(f, conn, dw)
    /\ Lined(f)
    /\ Owned(f, xf, dw)

OnceInv == /\ Safe(ftp, xfer, srv.auth, srv.conn, dwire)
           /\ pc # "resume" => Behind(ftp)
           /\ NoUseAfterFree

\* what Safe is about is the same
Still(f, g) ==
    /\ g.ctl = f.ctl /\ g.lis = f.lis /\ g.data = f.data /\ g.wait = f.wait
    /\ g.queue = f.queue /\ g.wire = f.wire /\ g.cproc = f.cproc
    /\ g.dproc = f.dproc /\ g.cls = f.cls /\ g.dirent = f.dirent

LEMMA StillSafe ==
    ASSUME NEW f, NEW g, Still(f, g), NEW xf, NEW auth, NEW conn, NEW dw,
           Safe(f, xf, auth, conn, dw)
    PROVE  Safe(g, xf, auth, conn, dw) /\ (Behind(f) => Behind(g))
<1>1. (Stranger(f) => Stranger(g)) /\ (Polite(f.wire) => Polite(g.wire))
  BY Zenon DEF Still, Stranger
<1>2. Channel(f, conn, dw) => Channel(g, conn, dw)
  BY DEF Still, Channel
<1>3. Lined(f) => Lined(g)
  BY DEF Still, Lined
<1>4. Owned(f, xf, dw) => Owned(g, xf, dw)
  BY DEF Still, Owned
<1>5. Behind(f) => Behind(g)
  BY DEF Still, Behind
<1>6. QED
  BY <1>1, <1>2, <1>3, <1>4, <1>5 DEF Safe

\* the elements of s are elements of t
Among(s, t) == \A i \in 1..Len(s) : \E j \in 1..Len(t) : s[i] = t[j]

\* none of them is a transfer of the user
Unfetching(q) == \A i \in 1..Len(q) : q[i].op # "XFER"

\* The first of the queue is taken out of it.
LEMMA QueueMoves ==
    ASSUME NEW f, Sound(f), f.queue # << >>, Lined(f), NEW g,
           g.queue = Tail(f.queue), g.wait = f.wait, NEW xf, Mine(xf, f.cls, f.queue)
    PROVE  /\ Lined(g) /\ Mine(xf, f.cls, g.queue)
           /\ Among(g.queue, f.queue) /\ Unfetching(g.queue)
           /\ Head(f.queue) = f.queue[1] /\ Head(f.queue) \in FtpOp /\ 1 \in 1..Len(f.queue)
           /\ Head(f.queue).op \in DataOps /\ g.queue # << >> =>
                g.queue[1].op \notin DataOps
<1> DEFINE q == f.queue
           t == Tail(f.queue)
<1>1. q \in Seq(FtpOp) /\ q # << >>
  BY DEF Sound, FtpState
<1>2. /\ Len(q) \in Nat /\ Len(t) = Len(q) - 1
      /\ \A i \in 1..Len(t) : i + 1 \in 1..Len(q) /\ t[i] = q[i + 1] /\ i + 1 # 1
      /\ \A i \in 1..(Len(t) - 1) : i + 1 \in 1..Len(t) /\ i \in 1..Len(t)
                                    /\ i + 1 \in 1..(Len(q) - 1)
      /\ t # << >> => 1 \in 1..(Len(q) - 1) /\ t[1] = q[1 + 1]
      /\ Head(q) = q[1] /\ q[1] \in FtpOp /\ 1 \in 1..Len(q)
  BY <1>1
<1>3. \A i \in 1..Len(t) : t[i].op # "XFER"
  BY <1>2 DEF Lined
<1>4. \A i \in 1..(Len(t) - 1) : t[i].op \in DataOps => t[i + 1].op \notin DataOps
  BY <1>2 DEF Lined
<1>5. Lined(g)
  BY <1>3, <1>4 DEF Lined
<1>6. Mine(xf, f.cls, t)
  BY <1>3 DEF Mine
<1>7. Head(q).op \in DataOps /\ t # << >> => t[1].op \notin DataOps
  BY <1>2 DEF Lined
<1>8. Among(t, q) /\ Unfetching(t)
  BY <1>2, <1>3 DEF Among, Unfetching
<1>9. QED
  BY <1>2, <1>5, <1>6, <1>7, <1>8

\* the last of the queue needs no data connection
Follows(q) == q # << >> => q[Len(q)].op \notin DataOps

\* An operation is queued behind the others.
LEMMA QueueGrows ==
    ASSUME NEW f, Sound(f), Lined(f), f.wait = << >>, NEW op \in FtpOp,
           op.op \in DataOps => Follows(f.queue), NEW xf, Mine(xf, f.cls, f.queue),
           op.op = "XFER" => f.queue = << >> /\ xf[op.data].st = "live" /\ op.data # f.cls,
           NEW g, g.queue = Append(f.queue, op), g.wait = f.wait
    PROVE  /\ Lined(g) /\ Mine(xf, f.cls, g.queue)
           /\ Among(g.queue, f.queue \o <<op>>)
           /\ op.op \notin DataOps => Follows(g.queue)
<1> DEFINE q == f.queue
           t == Append(f.queue, op)
<1>1. q \in Seq(FtpOp)
  BY DEF Sound, FtpState
<1>2. /\ Len(q) \in Nat /\ Len(t) = Len(q) + 1 /\ t[Len(t)] = op
      /\ \A i \in 1..Len(t) : i # Len(t) => i \in 1..Len(q) /\ t[i] = q[i]
      /\ \A i \in 1..(Len(t) - 1) : i \in 1..Len(q) /\ t[i] = q[i] /\ i + 1 \in 1..Len(t)
      /\ \A i \in 1..(Len(t) - 1) : i + 1 # Len(t) =>
            t[i + 1] = q[i + 1] /\ i \in 1..(Len(q) - 1)
      /\ \A i \in 1..(Len(t) - 1) : i + 1 = Len(t) => i = Len(q) /\ q # << >>
      /\ q = << >> => Len(t) = 1
  BY <1>1
<1>3. \A i \in 1..(Len(t) - 1) : t[i].op \in DataOps => t[i + 1].op \notin DataOps
  <2>1. SUFFICES ASSUME NEW i \in 1..(Len(t) - 1), t[i].op \in DataOps
                 PROVE  t[i + 1].op \notin DataOps
    OBVIOUS
  <2>2. CASE i + 1 # Len(t)
    BY <1>2, <2>1, <2>2 DEF Lined
  <2>3. CASE i + 1 = Len(t)
    BY <1>2, <2>1, <2>3 DEF Follows
  <2>4. QED
    BY <2>2, <2>3
<1>4. \A i \in 1..Len(t) : t[i].op = "XFER" => i = 1
  BY <1>2 DEF Lined
<1>5. Lined(g)
  BY <1>3, <1>4 DEF Lined
<1>6. Mine(xf, f.cls, t)
  BY <1>2 DEF Mine
<1>7. op.op \notin DataOps => Follows(t)
  BY <1>2 DEF Follows
<1>8. Among(t, q \o <<op>>)
  BY <1>1 DEF Among
<1>9. QED
  BY <1>5, <1>6, <1>7, <1>8

\* what running op does: a plain command is sent,
Unmoved(f, g) == g.data = f.data /\ g.lis = f.lis /\ g.wait = f.wait

SendsPlain(f, g, op) ==
    /\ op.op \notin DataOps
    /\ Adds(f.wire, g.wire, Plain) /\ Unmoved(f, g)
    /\ g.cproc \in {f.cproc, "pwd", "cwd"} /\ g.dproc = f.dproc /\ g.cls = f.cls

\* a transfer begins,
Begins(f, g, op) ==
    /\ op.op \in DataOps /\ f.data = Open
    /\ Adds(f.wire, g.wire, TransferCmds) /\ Unmoved(f, g)
    /\ \/ op.op = "LIST" /\ g.cproc = "list" /\ g.dproc = "list" /\ g.cls = Rbuf
       \/ op.op = "XFER" /\ g.cproc = "xfer" /\ g.dproc = "xfer" /\ g.cls = op.data

\* or it needs a data connection, waits for the passive one or is dropped
Prepares(f, g, op) ==
    /\ op.op \in DataOps /\ f.data = NoSock /\ g.data = NoSock
    /\ g.dproc = f.dproc /\ g.cls = f.cls
    /\ \/ Adds(f.wire, g.wire, {"pasv"}) /\ g.cproc = "pasv" /\ g.wait = <<op>> \o f.wait
       \/ Adds(f.wire, g.wire, {"port"}) /\ g.cproc = "active" /\ g.wait = f.wait
       \/ g.wire = f.wire /\ g.cproc = f.cproc /\ g.wait = f.wait

Does(f, g, op) ==
    /\ g.ctl = f.ctl /\ g.queue = f.queue /\ g.dirent = f.dirent
    /\ SendsPlain(f, g, op) \/ Begins(f, g, op) \/ Prepares(f, g, op)

\* ftp_send_cmd adds an exchange.
LEMMA SendCmdAdds ==
    ASSUME NEW f, Sound(f), NEW cmd \in Cmds, NEW arg \in Args,
           NEW x \in Xfers \cup {NoXfer}, cmd = "retr" => x \in Xfers,
           cmd = "cwd" => arg \in Dirs, NEW g, g = SendCmd(f, cmd, arg, x),
           NEW cmds, cmd \in cmds
    PROVE  /\ Sound(g) /\ Adds(f.wire, g.wire, cmds) /\ Unmoved(f, g)
           /\ g.ctl = f.ctl /\ g.queue = f.queue /\ g.dirent = f.dirent
           /\ g.cproc = f.cproc /\ g.dproc = f.dproc /\ g.cls = f.cls
<1>1. Sound(g)
  BY SendCmdSound
<1>2. /\ Unmoved(f, g) /\ g.ctl = f.ctl /\ g.queue = f.queue
      /\ g.cproc = f.cproc /\ g.dproc = f.dproc /\ g.cls = f.cls
  BY SendCmdFrame DEF Unmoved
<1> DEFINE e == Exch(cmd, arg, x)
<1>3. e \in Exchange /\ e.cmd = cmd /\ e.mark = "none" /\ e.code = 0
  BY DEF Exch, Exchange, Codes
<1> HIDE DEF e
<1>4. CASE f.ctl = NoSock
  BY <1>1, <1>2, <1>4 DEF SendCmd, Adds
<1>5. CASE f.ctl # NoSock
  <2>1. g = [f EXCEPT !.busy = @ + 1, !.wire = Append(@, e)]
    BY <1>5 DEF SendCmd, e
  <2>2. g.wire = Append(f.wire, e) /\ g.dirent = f.dirent
    BY <2>1 DEF Sound, FtpState
  <2>3. Adds(f.wire, g.wire, cmds)
    BY <1>3, <2>2 DEF Adds
  <2>4. QED
    BY <1>1, <1>2, <2>2, <2>3
<1>6. QED
  BY <1>4, <1>5

\* ftp_list and ftp_transfer begin a transfer.
LEMMA StartTransferBegins ==
    ASSUME NEW f, Sound(f), f.data = Open, NEW op \in DataOp,
           NEW g, g = StartTransfer(f, op)
    PROVE  /\ Begins(f, g, op)
           /\ g.ctl = f.ctl /\ g.queue = f.queue /\ g.dirent = f.dirent
<1>1. op.op \in DataOps /\ (op.op = "XFER" => op.data \in Xfers) /\ op \in FtpOp
  BY DEF DataOp, FtpOp, DataOps
<1>2. CASE op.op = "LIST"
  <2> DEFINE k == SendCmd(f, "list", NoArg, NoXfer)
  <2>1. /\ Sound(k) /\ Adds(f.wire, k.wire, TransferCmds) /\ Unmoved(f, k)
        /\ k.ctl = f.ctl /\ k.queue = f.queue /\ k.dirent = f.dirent
    BY SendCmdAdds DEF Cmds, Args, TransferCmds
  <2>2. g = [k EXCEPT !.cproc = "list", !.dproc = "list", !.cls = Rbuf,
                      !.rbuf = << >>, !.busy = @ + 1]
    BY <1>2 DEF StartTransfer, StartList
  <2> HIDE DEF k
  <2>3. /\ g.wire = k.wire /\ Unmoved(k, g) /\ g.ctl = k.ctl /\ g.queue = k.queue
        /\ g.dirent = k.dirent /\ g.cproc = "list" /\ g.dproc = "list" /\ g.cls = Rbuf
    BY <2>1, <2>2 DEF Sound, FtpState, Unmoved
  <2>4. QED
    BY <1>1, <1>2, <2>1, <2>3 DEF Begins, Unmoved
<1>3. CASE op.op # "LIST"
  <2> DEFINE k == SendCmd(f, "retr", NoArg, op.data)
  <2>0. op.op = "XFER" /\ op.data \in Xfers
    BY <1>1, <1>3 DEF DataOps
  <2>1. /\ Sound(k) /\ Adds(f.wire, k.wire, TransferCmds) /\ Unmoved(f, k)
        /\ k.ctl = f.ctl /\ k.queue = f.queue /\ k.dirent = f.dirent
    <3>1. "retr" \in Cmds /\ "retr" \in TransferCmds /\ NoArg \in Args
          /\ op.data \in Xfers \cup {NoXfer} /\ "retr" # "cwd"
      BY <2>0 DEF Cmds, Args, TransferCmds
    <3>2. QED
      BY <2>0, <3>1, SendCmdAdds
  <2>2. g = [k EXCEPT !.cproc = "xfer", !.dproc = "xfer", !.cls = op.data, !.busy = @ + 1]
    BY <1>3 DEF StartTransfer, StartXfer
  <2> HIDE DEF k
  <2>3. /\ g.wire = k.wire /\ Unmoved(k, g) /\ g.ctl = k.ctl /\ g.queue = k.queue
        /\ g.dirent = k.dirent /\ g.cproc = "xfer" /\ g.dproc = "xfer" /\ g.cls = op.data
    BY <2>1, <2>2 DEF Sound, FtpState, Unmoved
  <2>4. QED
    BY <1>1, <2>0, <2>1, <2>3 DEF Begins, Unmoved
<1>4. QED
  BY <1>2, <1>3

\* ftp_active listens and sends PORT, or does neither.
LEMMA FtpActiveListens ==
    ASSUME NEW f, Sound(f), NEW sk, NEW g, g = FtpActive(f, sk)
    PROVE  /\ Sound(g) /\ g.data = NoSock /\ g.wait = f.wait /\ g.dproc = f.dproc
           /\ g.cls = f.cls /\ g.ctl = f.ctl /\ g.queue = f.queue /\ g.dirent = f.dirent
           /\ \/ Adds(f.wire, g.wire, {"port"}) /\ g.cproc = "active"
              \/ g.wire = f.wire /\ g.cproc = f.cproc
<1> DEFINE h == [f EXCEPT !.data = NoSock,
                          !.lis = IF sk = "ok" THEN Open ELSE NoSock]
           k == SendCmd(h, "port", NoArg, NoXfer)
<1>1. /\ Sound(h) /\ h.wire = f.wire /\ h.data = NoSock /\ h.wait = f.wait
      /\ h.dproc = f.dproc /\ h.cls = f.cls /\ h.ctl = f.ctl /\ h.queue = f.queue
      /\ h.dirent = f.dirent /\ h.cproc = f.cproc
  BY DEF Sound, FtpState, Handlers
<1>2. Sound(g)
  BY FtpActiveSound
<1>3. g = IF sk = "ok" THEN [k EXCEPT !.cproc = "active"] ELSE h
  BY DEF FtpActive
<1> HIDE DEF h
<1>4. /\ Sound(k) /\ Adds(h.wire, k.wire, {"port"}) /\ Unmoved(h, k)
      /\ k.ctl = h.ctl /\ k.queue = h.queue /\ k.dirent = h.dirent
      /\ k.cproc = h.cproc /\ k.dproc = h.dproc /\ k.cls = h.cls
  BY <1>1, SendCmdAdds DEF Cmds, Args
<1> HIDE DEF k
<1>5. CASE sk = "ok"
  <2>1. /\ g.wire = k.wire /\ g.data = k.data /\ g.wait = k.wait /\ g.dproc = k.dproc
        /\ g.cls = k.cls /\ g.ctl = k.ctl /\ g.queue = k.queue /\ g.dirent = k.dirent
        /\ g.cproc = "active"
    BY <1>3, <1>4, <1>5 DEF Sound, FtpState
  <2>2. QED
    BY <1>1, <1>2, <1>4, <2>1 DEF Unmoved
<1>6. CASE sk # "ok"
  BY <1>1, <1>2, <1>3, <1>6
<1>7. QED
  BY <1>5, <1>6

\* exec_op.
LEMMA ExecOpDoes ==
    ASSUME NEW f, Sound(f), NEW op \in FtpOp, NEW sk, NEW g, g = ExecOp(f, op, sk)
    PROVE  Does(f, g, op)
<1>0. /\ op.op \in OpCodes /\ (op.op = "CHDIR" => op.arg \in Dirs)
      /\ (op.op \in DataOps => op \in DataOp) /\ op.arg \in Args
  BY DEF FtpOp, DataOp, DataOps
<1>1. CASE op.op = "TYPE"
  <2>1. g = SendCmd(f, "type", NoArg, NoXfer)
    BY <1>1 DEF ExecOp
  <2>2. /\ Adds(f.wire, g.wire, Plain) /\ Unmoved(f, g)
        /\ g.ctl = f.ctl /\ g.queue = f.queue /\ g.dirent = f.dirent
        /\ g.cproc = f.cproc /\ g.dproc = f.dproc /\ g.cls = f.cls
    BY <2>1, SendCmdAdds DEF Cmds, Args, Plain
  <2>3. QED
    BY <1>1, <2>2 DEF Does, SendsPlain, DataOps
<1>2. ASSUME NEW cmd \in {"pwd", "cwd", "cdup"}, NEW arg \in Args,
             cmd = "cwd" => arg \in Dirs, NEW c \in {"pwd", "cwd"}, op.op \notin DataOps,
             g = [SendCmd(f, cmd, arg, NoXfer) EXCEPT !.cproc = c]
      PROVE  Does(f, g, op)
  <2> DEFINE k == SendCmd(f, cmd, arg, NoXfer)
  <2>1. /\ Sound(k) /\ Adds(f.wire, k.wire, Plain) /\ Unmoved(f, k)
        /\ k.ctl = f.ctl /\ k.queue = f.queue /\ k.dirent = f.dirent
        /\ k.dproc = f.dproc /\ k.cls = f.cls
    <3>1. /\ cmd \in Cmds /\ NoXfer \in Xfers \cup {NoXfer} /\ cmd # "retr"
          /\ cmd \in Plain
      BY <1>2 DEF Cmds, Plain
    <3>2. QED
      BY <1>2, <3>1, SendCmdAdds
  <2>2. g = [k EXCEPT !.cproc = c]
    BY <1>2
  <2> HIDE DEF k
  <2>3. /\ g.wire = k.wire /\ Unmoved(k, g) /\ g.ctl = k.ctl /\ g.queue = k.queue
        /\ g.dirent = k.dirent /\ g.cproc = c /\ g.dproc = k.dproc /\ g.cls = k.cls
    BY <2>1, <2>2 DEF Sound, FtpState, Unmoved
  <2>4. QED
    BY <1>2, <2>1, <2>3 DEF Does, SendsPlain, Unmoved
<1>3. CASE op.op = "PWD"
  <2>1. g = [SendCmd(f, "pwd", NoArg, NoXfer) EXCEPT !.cproc = "pwd"]
    BY <1>3 DEF ExecOp, FtpPwd
  <2>2. QED
    BY <1>2, <1>3, <2>1 DEF DataOps, Args
<1>4. CASE op.op \in {"CHDIR", "CDUP"}
  <2>1. \/ op.op = "CHDIR" /\ g = [SendCmd(f, "cwd", op.arg, NoXfer) EXCEPT !.cproc = "cwd"]
        \/ op.op = "CDUP" /\ g = [SendCmd(f, "cdup", NoArg, NoXfer) EXCEPT !.cproc = "cwd"]
    BY <1>4 DEF ExecOp, FtpChdir
  <2>2. QED
    BY <1>0, <1>2, <1>4, <2>1 DEF DataOps, Args
<1>5. CASE op.op \in DataOps
  <2>1. g = PrepareData(f, op, sk) /\ op \in DataOp /\ f.data \in {NoSock, Open}
    BY <1>0, <1>5 DEF ExecOp, DataOps, Sound, FtpState
  <2>2. CASE f.data # NoSock
    <3>1. g = StartTransfer(f, op) /\ f.data = Open
      BY <2>1, <2>2 DEF PrepareData
    <3>2. QED
      BY <2>1, <3>1, StartTransferBegins DEF Does
  <2>3. CASE f.data = NoSock /\ f.passive = 1
    <3> DEFINE h == [f EXCEPT !.lis = NoSock, !.data = NoSock]
               k == SendCmd(h, "pasv", NoArg, NoXfer)
    <3>1. /\ Sound(h) /\ h.wire = f.wire /\ h.data = NoSock /\ h.wait = f.wait
          /\ h.dproc = f.dproc /\ h.cls = f.cls /\ h.ctl = f.ctl /\ h.queue = f.queue
          /\ h.dirent = f.dirent
      BY DEF Sound, FtpState, Handlers
    <3>2. g = [[k EXCEPT !.cproc = "pasv"] EXCEPT !.wait = <<op>> \o @]
      BY <2>1, <2>3 DEF PrepareData, FtpPassive
    <3> HIDE DEF h
    <3>3. /\ Sound(k) /\ Adds(h.wire, k.wire, {"pasv"}) /\ Unmoved(h, k)
          /\ k.ctl = h.ctl /\ k.queue = h.queue /\ k.dirent = h.dirent
          /\ k.dproc = h.dproc /\ k.cls = h.cls
      BY <3>1, SendCmdAdds DEF Cmds, Args
    <3> HIDE DEF k
    <3>4. /\ g.wire = k.wire /\ g.data = k.data /\ g.wait = <<op>> \o k.wait
          /\ g.dproc = k.dproc /\ g.cls = k.cls /\ g.ctl = k.ctl /\ g.queue = k.queue
          /\ g.dirent = k.dirent /\ g.cproc = "pasv"
      BY <3>2, <3>3 DEF Sound, FtpState
    <3>5. QED
      BY <1>5, <2>3, <3>1, <3>3, <3>4 DEF Does, Prepares, Unmoved
  <2>4. CASE f.data = NoSock /\ f.passive # 1
    <3>1. g = FtpActive(f, sk)
      BY <2>1, <2>4 DEF PrepareData
    <3>2. /\ g.data = NoSock /\ g.wait = f.wait /\ g.dproc = f.dproc
          /\ g.cls = f.cls /\ g.ctl = f.ctl /\ g.queue = f.queue /\ g.dirent = f.dirent
          /\ \/ Adds(f.wire, g.wire, {"port"}) /\ g.cproc = "active"
             \/ g.wire = f.wire /\ g.cproc = f.cproc
      BY <3>1, FtpActiveListens
    <3>3. QED
      BY <1>5, <2>4, <3>2 DEF Does, Prepares
  <2>5. QED
    BY <2>2, <2>3, <2>4
<1>6. CASE op.op \notin DataOps \cup {"TYPE", "PWD", "CHDIR", "CDUP"}
  <2>1. g = f
    BY <1>6 DEF ExecOp, DataOps
  <2>2. QED
    BY <1>6, <2>1 DEF Does, SendsPlain, Unmoved, Adds, DataOps
<1>7. QED
  BY <1>1, <1>3, <1>4, <1>5, <1>6

\* a transfer about to begin is the only one asked for
Fresh(f, xf, op) == op.op = "XFER" =>
    /\ xf[op.data].st = "live" /\ op.data # f.cls /\ f.wait = << >>
    /\ Unfetching(f.queue)

\* an operation about to run, taken out of the queue or just asked for
InHand(f, xf, auth, op) ==
    /\ op.op \in DataOps =>
        /\ auth # 0
        /\ f.ctl = Open => f.wait = << >>
        /\ f.queue # << >> => f.queue[1].op \notin DataOps
    /\ Fresh(f, xf, op)

\* where the thread goes on in the main loop, what is queued stays behind
CaughtUp(f, g) == (g.wait # f.wait \/ f.wait = << >> => Behind(g)) /\ g.data = f.data

\* A plain command disturbs nothing.
LEMMA PlainSafe ==
    ASSUME NEW f, Sound(f), NEW g, NEW op, SendsPlain(f, g, op), f.wire = << >>,
           g.ctl = f.ctl, g.queue = f.queue, g.dirent = f.dirent,
           NEW xf, NEW auth, NEW conn, NEW dw, Safe(f, xf, auth, conn, dw)
    PROVE  Safe(g, xf, auth, conn, dw) /\ CaughtUp(f, g)
<1>1. f.wire \in Seq(Exchange) /\ Plain \cap TransferCmds = {}
      /\ "pasv" \notin Plain /\ "port" \notin Plain
  BY DEF Sound, FtpState, Plain, TransferCmds
<1>2. /\ NoneAsked(f.wire) /\ Polite(f.wire) /\ Dismissed(f.wire)
      /\ ~Marked(f.wire) /\ ~Unserved(f.wire) /\ \A c : ~Asks(f.wire, c)
  BY NothingAsked
<1>3. /\ OneAsked(g.wire) /\ Polite(g.wire) /\ Dismissed(g.wire) /\ ~Marked(g.wire)
      /\ ~Asks(g.wire, "pasv") /\ ~Asks(g.wire, "port")
      /\ NoneAsked(g.wire) /\ ~Unserved(g.wire)
  BY <1>1, <1>2, AddsOne DEF SendsPlain
<1>4. /\ g.data = f.data /\ g.lis = f.lis /\ g.wait = f.wait /\ g.dproc = f.dproc
      /\ g.cls = f.cls /\ g.cproc \in {f.cproc, "pwd", "cwd"}
  BY DEF SendsPlain, Unmoved
<1>5. Stranger(f) => Stranger(g)
  BY Zenon, <1>3, <1>4 DEF Stranger
<1>6. Channel(g, conn, dw)
  BY <1>2, <1>3, <1>4 DEF Safe, Channel
<1>7. Lined(g)
  BY <1>4 DEF Safe, Lined
<1>8. Owned(g, xf, dw)
  BY <1>2, <1>3, <1>4 DEF Safe, Owned
<1>9. f.wait = << >> => Behind(g)
  BY <1>4 DEF Behind
<1>10. QED
  BY <1>3, <1>4, <1>5, <1>6, <1>7, <1>8, <1>9 DEF Safe, CaughtUp

\* A transfer begins alone, with a callback of its own.
LEMMA BeginsSafe ==
    ASSUME NEW f, Sound(f), NEW g, NEW op \in FtpOp, Begins(f, g, op),
           NoneAsked(f.wire), ~Asks(f.wire, "pasv"), ~Asks(f.wire, "port"),
           ~Marked(f.wire), f.wait = << >>,
           g.ctl = f.ctl, g.queue = f.queue, g.dirent = f.dirent,
           NEW xf, NEW auth, auth # 0, NEW conn, NEW dw, dw = << >>,
           Safe(f, xf, auth, conn, dw), Fresh(f, xf, op)
    PROVE  Safe(g, xf, auth, conn, dw) /\ CaughtUp(f, g)
<1>1. f.wire \in Seq(Exchange) /\ "pasv" \notin TransferCmds /\ "port" \notin TransferCmds
      /\ f.queue \in Seq(FtpOp)
  BY DEF Sound, FtpState, TransferCmds
<1>2. /\ OneAsked(g.wire) /\ (Polite(f.wire) => Polite(g.wire)) /\ ~Marked(g.wire)
      /\ ~Asks(g.wire, "pasv") /\ ~Asks(g.wire, "port")
  BY <1>1, AddsOne DEF Begins
<1>3. /\ f.data = Open /\ g.data = f.data /\ g.wait = << >> /\ op.op \in DataOps
      /\ \/ op.op = "LIST" /\ g.cproc = "list" /\ g.dproc = "list" /\ g.cls = Rbuf
         \/ op.op = "XFER" /\ g.cproc = "xfer" /\ g.dproc = "xfer" /\ g.cls = op.data
  BY DEF Begins, Unmoved
<1>4. ~Ended(dw) /\ NoSock # Open
  <2>1. Len(<< >>) = 0 /\ \A i \in 1..0 : FALSE
    OBVIOUS
  <2>2. QED
    BY <2>1 DEF Ended, NoSock, Open
<1>5. Channel(g, conn, dw)
  BY <1>2, <1>3, <1>4 DEF Safe, Channel
<1>6. Lined(g)
  BY <1>3 DEF Safe, Lined
<1>7. Owned(g, xf, dw)
  <2>1. Len(g.wait) = 0 /\ Mine(xf, g.cls, g.wait)
    <3>1. Len(g.wait) = 0
      BY <1>3
    <3>2. QED
      BY <3>1 DEF Mine
  <2>2. Rbuf \notin Xfers
    BY DEF Rbuf, Xfers
  <2>3. CASE op.op = "LIST"
    <3>1. \A i \in 1..Len(f.queue) : f.queue[i].op = "XFER" => f.queue[i].data \in Xfers
      BY <1>1 DEF FtpOp
    <3>2. Mine(xf, g.cls, g.queue)
      BY <1>3, <2>2, <2>3, <3>1 DEF Safe, Owned, Mine
    <3>3. QED
      BY <1>3, <2>1, <2>2, <2>3, <3>2 DEF Owned
  <2>4. CASE op.op = "XFER"
    <3>1. Mine(xf, g.cls, g.queue)
      BY <2>4 DEF Fresh, Mine, Unfetching
    <3>2. xf[g.cls].st = "live"
      BY <1>3, <2>4 DEF Fresh
    <3>3. QED
      BY <1>3, <2>1, <2>4, <3>1, <3>2 DEF Owned
  <2>5. QED
    BY <1>3, <2>3, <2>4
<1>9. Behind(g)
  BY <1>3 DEF Behind
<1>10. QED
  BY <1>2, <1>3, <1>5, <1>6, <1>7, <1>9 DEF Safe, CaughtUp

\* An operation that waits is the only one that may use the connection.
LEMMA PreparesSafe ==
    ASSUME NEW f, Sound(f), NEW g, NEW op \in FtpOp, Prepares(f, g, op), f.wire = << >>,
           g.ctl = f.ctl, g.queue = f.queue, g.dirent = f.dirent,
           NEW xf, NEW auth, NEW conn, NEW dw, Safe(f, xf, auth, conn, dw),
           InHand(f, xf, auth, op)
    PROVE  Safe(g, xf, auth, conn, dw) /\ CaughtUp(f, g)
<1>1. f.wire \in Seq(Exchange) /\ f.wait \in Seq(DataOp)
      /\ {"pasv"} \cap TransferCmds = {} /\ {"port"} \cap TransferCmds = {}
  BY DEF Sound, FtpState, TransferCmds
<1>2. /\ NoneAsked(f.wire) /\ OneAsked(f.wire) /\ Polite(f.wire)
      /\ ~Marked(f.wire) /\ ~Unserved(f.wire) /\ \A c : ~Asks(f.wire, c)
  BY NothingAsked
<1>3. /\ op.op \in DataOps /\ f.data = NoSock /\ g.data = NoSock
      /\ g.dproc = f.dproc /\ g.cls = f.cls /\ NoSock # Open
      /\ \/ Adds(f.wire, g.wire, {"pasv"}) /\ g.cproc = "pasv" /\ g.wait = <<op>> \o f.wait
         \/ Adds(f.wire, g.wire, {"port"}) /\ g.cproc = "active" /\ g.wait = f.wait
         \/ g.wire = f.wire /\ g.cproc = f.cproc /\ g.wait = f.wait
  BY DEF Prepares, NoSock, Open
<1>4. /\ OneAsked(g.wire) /\ Polite(g.wire) /\ ~Marked(g.wire)
      /\ NoneAsked(g.wire) /\ ~Unserved(g.wire)
      /\ Asks(g.wire, "pasv") => g.cproc = "pasv"
      /\ Asks(g.wire, "port") => g.cproc = "active"
  <2>1. CASE Adds(f.wire, g.wire, {"pasv"}) /\ g.cproc = "pasv"
    <3>1. /\ OneAsked(g.wire) /\ Polite(g.wire) /\ (Marked(g.wire) => Marked(f.wire))
          /\ \A c : Asks(g.wire, c) => Asks(f.wire, c) \/ c \in {"pasv"}
          /\ NoneAsked(g.wire) /\ ~Unserved(g.wire)
      BY <1>1, <1>2, <2>1, AddsOne
    <3>2. ~Asks(g.wire, "port")
      BY <1>2, <3>1
    <3>3. QED
      BY <1>2, <2>1, <3>1, <3>2
  <2>2. CASE Adds(f.wire, g.wire, {"port"}) /\ g.cproc = "active"
    <3>1. /\ OneAsked(g.wire) /\ Polite(g.wire) /\ (Marked(g.wire) => Marked(f.wire))
          /\ \A c : Asks(g.wire, c) => Asks(f.wire, c) \/ c \in {"port"}
          /\ NoneAsked(g.wire) /\ ~Unserved(g.wire)
      BY <1>1, <1>2, <2>2, AddsOne
    <3>2. ~Asks(g.wire, "pasv")
      BY <1>2, <3>1
    <3>3. QED
      BY <1>2, <2>2, <3>1, <3>2
  <2>3. CASE g.wire = f.wire
    BY <1>2, <2>3
  <2>4. QED
    BY <1>3, <2>1, <2>2, <2>3
<1>5. auth # 0 /\ (f.queue # << >> => f.queue[1].op \notin DataOps)
      /\ (f.ctl = Open => f.wait = << >>)
  BY <1>3 DEF InHand
<1>6. Channel(g, conn, dw)
  BY <1>2, <1>3, <1>4 DEF Safe, Channel
<1>7. CASE g.wait = f.wait
  <2>1. Lined(g)
    BY <1>7 DEF Safe, Lined
  <2>2. Owned(g, xf, dw)
    <3>1. g.cproc # "xfer" \/ g.cproc = f.cproc
      BY <1>3
    <3>2. QED
      BY <1>3, <1>4, <1>7, <3>1, <1>6 DEF Safe, Owned, Channel
  <2>3. Behind(g)
    BY <1>5, <1>7 DEF Behind
  <2>4. QED
    BY <1>3, <1>4, <1>5, <1>6, <2>1, <2>2, <2>3 DEF Safe, CaughtUp
<1>8. CASE g.wait # f.wait
  <2> DEFINE t == <<op>> \o f.wait
  <2>1. g.wait = t /\ g.cproc = "pasv"
    BY <1>3, <1>8
  <2>2. /\ Len(t) = Len(f.wait) + 1 /\ t[1] = op /\ Len(f.wait) \in Nat
        /\ \A i \in 1..Len(t) : i # 1 => i - 1 \in 1..Len(f.wait) /\ t[i] = f.wait[i - 1]
        /\ f.wait = << >> => Len(t) = 1
    BY <1>1
  <2> HIDE DEF t
  <2>3. Lined(g)
    <3>1. \A i \in 1..Len(t) : t[i].op = "XFER" => i = Len(t)
      BY <2>2 DEF Safe, Lined, InHand, Fresh
    <3>2. \A i \in 1..Len(g.queue) : g.queue[i].op # "XFER"
      <4>1. f.queue \in Seq(FtpOp) /\ (f.queue = << >> => Len(f.queue) = 0)
        BY DEF Sound, FtpState
      <4>2. \A i \in 1..Len(f.queue) : f.queue[i].op = "XFER" => i = 1 /\ f.queue # << >>
        BY <4>1 DEF Safe, Lined
      <4>3. QED
        BY <1>5, <4>2 DEF DataOps
    <3>3. QED
      BY <2>1, <3>1, <3>2 DEF Safe, Lined
  <2>4. Owned(g, xf, dw)
    <3>1. Mine(xf, g.cls, t)
      BY <1>3, <2>2 DEF Safe, Owned, Mine, InHand, Fresh
    <3>2. dw = << >>
      BY <1>3 DEF Safe, Channel
    <3>3. QED
      BY <1>3, <1>4, <2>1, <3>1, <3>2 DEF Safe, Owned
  <2>5. Behind(g)
    BY <1>5 DEF Behind
  <2>6. QED
    BY <1>3, <1>4, <1>5, <1>6, <2>3, <2>4, <2>5 DEF Safe, CaughtUp
<1>9. QED
  BY <1>7, <1>8

\* An operation that runs when nothing is outstanding.
LEMMA DoesSafe ==
    ASSUME NEW f, Sound(f), NEW g, NEW op \in FtpOp, Does(f, g, op),
           NEW xf, NEW auth, NEW conn, NEW dw, Safe(f, xf, auth, conn, dw),
           Resting(f, dw), InHand(f, xf, auth, op)
    PROVE  Safe(g, xf, auth, conn, dw) /\ CaughtUp(f, g)
<1>1. f.wire = << >> /\ (f.data = Open => dw = << >>)
  BY DEF Resting
<1>2. /\ NoneAsked(f.wire) /\ ~Marked(f.wire) /\ ~Asks(f.wire, "pasv") /\ ~Asks(f.wire, "port")
  BY <1>1, NothingAsked
<1>3. g.ctl = f.ctl /\ g.queue = f.queue /\ g.dirent = f.dirent
  BY DEF Does
<1>4. CASE SendsPlain(f, g, op)
  BY <1>1, <1>3, <1>4, PlainSafe
<1>5. CASE Begins(f, g, op)
  <2>1. f.data = Open /\ op.op \in DataOps
    BY <1>5 DEF Begins
  <2>2. f.wait = << >> /\ dw = << >> /\ auth # 0 /\ Fresh(f, xf, op)
    BY <1>1, <2>1 DEF InHand, Safe, Channel
  <2>3. QED
    BY <1>2, <1>3, <1>5, <2>2, BeginsSafe
<1>6. CASE Prepares(f, g, op)
  BY <1>1, <1>3, <1>6, PreparesSafe
<1>7. QED
  BY <1>4, <1>5, <1>6 DEF Does

\* The end of ftp_handle.
LEMMA TailSafe ==
    ASSUME NEW f, Sound(f), LoginOK(f), NEW xf, NEW auth, NEW conn, NEW dw,
           Counted(f, dw), Safe(f, xf, auth, conn, dw), Behind(f), NEW sk,
           NEW g, g = HandleTail(f, sk)
    PROVE  Safe(g, xf, auth, conn, dw) /\ CaughtUp(f, g)
<1>1. f.busy \in Int /\ f.queue \in Seq(FtpOp) /\ f \in FtpState
  BY DEF Sound, FtpState
<1>2. ASSUME g = f PROVE Safe(g, xf, auth, conn, dw) /\ CaughtUp(f, g)
  BY <1>2 DEF CaughtUp
<1>3. CASE f.busy > 0
  BY <1>1, <1>2, <1>3 DEF HandleTail
<1>4. CASE f.busy < 0
  <2>1. g = [f EXCEPT !.fault = "abort"]
    BY <1>1, <1>4 DEF HandleTail
  <2>2. Still(f, g)
    BY <1>1, <2>1 DEF FtpState, Still
  <2>3. QED
    BY <2>2, StillSafe DEF CaughtUp, Still
<1>5. CASE f.busy = 0 /\ f.queue = << >>
  BY <1>1, <1>2, <1>5 DEF HandleTail, ExecQueued
<1>6. CASE f.busy = 0 /\ f.queue # << >>
  <2> DEFINE h == [f EXCEPT !.queue = Tail(@)]
             op == Head(f.queue)
  <2>1. g = ExecOp(h, op, sk)
    BY <1>1, <1>6 DEF HandleTail, ExecQueued
  <2>2. Sound(h) /\ h.queue = Tail(f.queue) /\ op \in FtpOp
    <3>1. Tail(f.queue) \in Seq(FtpOp) /\ op \in FtpOp
      BY <1>1, <1>6
    <3>2. QED
      BY <3>1 DEF Sound, FtpState, Handlers
  <2>3. /\ h.wire = f.wire /\ h.busy = f.busy /\ h.cproc = f.cproc /\ h.data = f.data
        /\ h.lis = f.lis /\ h.wait = f.wait /\ h.dproc = f.dproc /\ h.cls = f.cls
        /\ h.ctl = f.ctl /\ h.dirent = f.dirent
    BY <1>1 DEF FtpState
  <2> HIDE DEF h
  <2>4. /\ Lined(h) /\ Mine(xf, f.cls, h.queue)
        /\ Among(h.queue, f.queue) /\ Unfetching(h.queue)
        /\ op = f.queue[1] /\ 1 \in 1..Len(f.queue)
        /\ op.op \in DataOps /\ h.queue # << >> => h.queue[1].op \notin DataOps
    <3>1. Lined(f) /\ Mine(xf, f.cls, f.queue)
      BY DEF Safe, Owned
    <3>2. QED
      BY <1>6, <2>2, <2>3, <3>1, QueueMoves
  <2> HIDE DEF op
  <2>5. Safe(h, xf, auth, conn, dw)
    <3>1. Stranger(f) => Stranger(h)
      BY Zenon, <2>3, <2>4 DEF Stranger, Among
    <3>2. Channel(h, conn, dw)
      BY <2>3 DEF Safe, Channel
    <3>3. Owned(h, xf, dw)
      BY <2>3, <2>4 DEF Safe, Owned
    <3>4. QED
      BY <2>3, <2>4, <3>1, <3>2, <3>3 DEF Safe
  <2>6. InHand(h, xf, auth, op)
    <3>1. op.op \in DataOps => auth # 0 /\ (h.ctl = Open => h.wait = << >>)
      BY <1>6, <2>3, <2>4 DEF Safe, Stranger, Behind
    <3>2. op.op = "XFER" => xf[op.data].st = "live" /\ op.data # h.cls /\ h.wait = << >>
      BY <2>3, <2>4 DEF Safe, Owned, Mine, Lined
    <3>3. QED
      BY <2>4, <3>1, <3>2 DEF InHand, Fresh
  <2>7. Resting(h, dw)
    <3>1. Entering(f) => f.wire = << >>
      BY <1>6 DEF Entering
    <3>2. Resting(f, dw)
      BY <1>6, <3>1, RestAtZero
    <3>3. QED
      BY <2>3, <3>2 DEF Resting
  <2>8. Does(h, g, op)
    BY <2>1, <2>2, ExecOpDoes
  <2>9. Safe(g, xf, auth, conn, dw) /\ CaughtUp(h, g)
    BY <2>2, <2>5, <2>6, <2>7, <2>8, DoesSafe
  <2>10. QED
    BY <2>3, <2>9 DEF CaughtUp
<1>7. QED
  BY <1>1, <1>3, <1>4, <1>5, <1>6

\* ftp_queue and ftp_queue_transfer, while no operation waits.
LEMMA QueueSafe ==
    ASSUME NEW f, Sound(f), LoginOK(f), NoGreet(f), NEW xf, NEW auth, NEW conn, NEW dw,
           Counted(f, dw), Safe(f, xf, auth, conn, dw), f.wait = << >>,
           NEW op \in FtpOp,
           op.op \in DataOps => auth # 0 /\ Follows(f.queue),
           op.op = "XFER" => f.queue = << >> /\ xf[op.data].st = "live" /\ op.data # f.cls,
           NEW sk, NEW g, g = FtpQueue(f, op, sk)
    PROVE  /\ Safe(g, xf, auth, conn, dw) /\ Behind(g) /\ g.data = f.data
           /\ op.op \notin DataOps => g.wait = << >> /\ Follows(g.queue)
<1>1. f.queue \in Seq(FtpOp) /\ f \in FtpState
  BY DEF Sound, FtpState
<1>2. CASE f.busy = 0 /\ f.queue = << >>
  <2>1. Does(f, g, op)
    BY <1>2, ExecOpDoes DEF FtpQueue
  <2>2. InHand(f, xf, auth, op)
    <3>1. Len(f.queue) = 0
      BY <1>2
    <3>2. QED
      BY <1>2, <3>1 DEF InHand, Fresh, Unfetching
  <2>3. Resting(f, dw)
    <3>1. Entering(f) => f.wire = << >>
      <4>1. SUFFICES ASSUME Entering(f), f.wire # << >> PROVE FALSE
        OBVIOUS
      <4>2. Len(f.wire) = 1 /\ f.wire[1].cmd = "greet"
        BY <1>2, <4>1 DEF Entering
      <4>3. 1 \in 1..Len(f.wire)
        BY <4>2
      <4>4. QED
        BY <4>2, <4>3 DEF NoGreet
    <3>2. QED
      BY <1>2, <3>1, RestAtZero
  <2>4. Safe(g, xf, auth, conn, dw) /\ CaughtUp(f, g)
    BY <2>1, <2>2, <2>3, DoesSafe
  <2>5. op.op \notin DataOps => g.wait = f.wait /\ g.queue = << >>
    BY <1>2, <2>1 DEF Does, SendsPlain, Begins, Prepares, Unmoved
  <2>6. QED
    BY <2>4, <2>5 DEF CaughtUp, Follows
<1>3. CASE ~(f.busy = 0 /\ f.queue = << >>)
  <2>1. g = [f EXCEPT !.queue = Append(@, op)]
    BY <1>3 DEF FtpQueue
  <2>2. /\ g.queue = Append(f.queue, op)
        /\ g.wire = f.wire /\ g.busy = f.busy /\ g.cproc = f.cproc /\ g.data = f.data
        /\ g.lis = f.lis /\ g.wait = f.wait /\ g.dproc = f.dproc /\ g.cls = f.cls
        /\ g.ctl = f.ctl /\ g.dirent = f.dirent
    BY <1>1, <2>1 DEF FtpState
  <2>3. /\ Lined(g) /\ Mine(xf, f.cls, g.queue)
        /\ Among(g.queue, f.queue \o <<op>>)
        /\ op.op \notin DataOps => Follows(g.queue)
    <3>1. Lined(f) /\ Mine(xf, f.cls, f.queue)
      BY DEF Safe, Owned
    <3>2. QED
      BY <2>2, <3>1, QueueGrows
  <2>4. auth = 0 => Stranger(g)
    <3>1. SUFFICES ASSUME auth = 0 PROVE Stranger(g)
      OBVIOUS
    <3>2. Stranger(f) /\ op.op \notin DataOps
      BY <3>1 DEF Safe
    <3>3. \A j \in 1..Len(f.queue \o <<op>>) : (f.queue \o <<op>>)[j].op \notin DataOps
      <4>1. \A j \in 1..Len(f.queue \o <<op>>) :
                \/ (f.queue \o <<op>>)[j] = op
                \/ j \in 1..Len(f.queue) /\ (f.queue \o <<op>>)[j] = f.queue[j]
        BY <1>1
      <4>2. QED
        BY <3>2, <4>1 DEF Stranger
    <3>4. \A i \in 1..Len(g.queue) : g.queue[i].op \notin DataOps
      BY Zenon, <2>3, <3>3 DEF Among
    <3>5. QED
      BY <2>2, <3>2, <3>4 DEF Stranger
  <2>5. Channel(g, conn, dw)
    BY <2>2 DEF Safe, Channel
  <2>6. Owned(g, xf, dw)
    BY <2>2, <2>3 DEF Safe, Owned
  <2>7. Behind(g)
    BY <2>2 DEF Behind
  <2>8. QED
    BY <2>2, <2>3, <2>4, <2>5, <2>6, <2>7 DEF Safe
<1>4. QED
  BY <1>2, <1>3

\* a data connection that was neither opened nor closed
LEMMA LinkStays ==
    ASSUME NEW f, NEW g, g.data = f.data, f.data \in {NoSock, Open}, Linked(f, g)
    PROVE  srv' = srv /\ dwire' = dwire
BY DEF Linked, LinkData, NoSock, Open

\* What a new data connection, or the loss of one, means to the server.
LEMMA LinkMoves ==
    ASSUME srv \in SrvState, NEW f, NEW g, NEW fresh \in BOOLEAN, LinkData(f, g, fresh),
           f.data \in {NoSock, Open}, Channel(f, srv.conn, dwire)
    PROVE  /\ srv'.auth = srv.auth
           /\ g.data = NoSock => srv'.conn # "open" /\ dwire' = << >>
           /\ g.data = Open /\ (f.data = NoSock \/ fresh) => srv'.conn = "open" /\ dwire' = << >>
           /\ g.data = f.data /\ ~fresh => srv' = srv /\ dwire' = dwire
<1>1. NoSock # Open
  BY DEF NoSock, Open
<1>2. srv'.auth = srv.auth
  BY <1>1 DEF LinkData, SrvState
<1>3. g.data = NoSock => srv'.conn # "open" /\ dwire' = << >>
  BY <1>1 DEF LinkData, SrvState, Channel
<1>4. g.data = Open /\ (f.data = NoSock \/ fresh) => srv'.conn = "open" /\ dwire' = << >>
  BY <1>1 DEF LinkData, SrvState
<1>5. g.data = f.data /\ ~fresh => srv' = srv /\ dwire' = dwire
  BY <1>1 DEF LinkData
<1>6. QED
  BY <1>2, <1>3, <1>4, <1>5

\* Exchanges leave the wire, none of them a transfer that is not over.
LEMMA WireSafe ==
    ASSUME NEW f, NEW g, Within(g.wire, f.wire), Unserved(f.wire) => Unserved(g.wire),
           g.ctl = f.ctl, Unmoved(f, g), g.queue = f.queue, g.cproc = f.cproc,
           g.dproc = f.dproc, g.cls = f.cls, g.dirent = f.dirent,
           NEW xf, NEW auth, NEW conn, NEW dw, Safe(f, xf, auth, conn, dw)
    PROVE  Safe(g, xf, auth, conn, dw) /\ (Behind(f) => Behind(g))
<1>1. (Stranger(f) => Stranger(g)) /\ (Polite(f.wire) => Polite(g.wire))
  BY Zenon DEF Unmoved, Stranger, Within
<1>2. /\ OneAsked(f.wire) => OneAsked(g.wire)
      /\ NoneAsked(f.wire) => NoneAsked(g.wire)
      /\ Unserved(f.wire) <=> Unserved(g.wire)
      /\ Marked(g.wire) => Marked(f.wire)
      /\ Asks(g.wire, "pasv") => Asks(f.wire, "pasv")
      /\ Asks(g.wire, "port") => Asks(f.wire, "port")
  BY DEF Within
<1>3. Channel(f, conn, dw) => Channel(g, conn, dw)
  BY <1>2 DEF Unmoved, Channel
<1>4. Lined(f) => Lined(g)
  BY DEF Unmoved, Lined
<1>5. Owned(f, xf, dw) => Owned(g, xf, dw)
  BY <1>2 DEF Unmoved, Owned
<1>6. Behind(f) => Behind(g)
  BY DEF Unmoved, Behind
<1>7. QED
  BY <1>1, <1>3, <1>4, <1>5, <1>6 DEF Safe

\* The data connection is closed when no transfer is left on the wire.
LEMMA ClosedSafe ==
    ASSUME NEW f, NEW g, Within(g.wire, f.wire), ~Unserved(g.wire),
           g.data = NoSock, g.lis \in {f.lis, NoSock}, g.ctl \in {f.ctl, NoSock},
           g.wait = f.wait, g.queue = f.queue, g.cproc = f.cproc,
           g.dproc = f.dproc, g.cls = f.cls, g.dirent = f.dirent,
           NEW xf, NEW auth, NEW conn, NEW dw, Safe(f, xf, auth, conn, dw),
           NEW conn1, conn1 # "open"
    PROVE  Safe(g, xf, auth, conn1, << >>) /\ (Behind(f) => Behind(g))
<1>1. (Stranger(f) => Stranger(g)) /\ (Polite(f.wire) => Polite(g.wire))
  BY Zenon DEF Stranger, Within
<1>2. /\ OneAsked(f.wire) => OneAsked(g.wire)
      /\ NoneAsked(f.wire) => NoneAsked(g.wire)
      /\ Marked(g.wire) => Marked(f.wire)
      /\ Asks(g.wire, "pasv") => Asks(f.wire, "pasv")
      /\ Asks(g.wire, "port") => Asks(f.wire, "port")
      /\ NoSock # Open
  BY DEF Within, NoSock, Open
<1>3. Channel(f, conn, dw) => Channel(g, conn1, << >>)
  BY <1>2 DEF Channel
<1>4. Lined(f) => Lined(g)
  BY DEF Lined
<1>5. Owned(f, xf, dw) => Owned(g, xf, << >>)
  BY <1>2 DEF Owned
<1>6. Behind(f) => Behind(g)
  BY <1>2 DEF Behind
<1>7. QED
  BY <1>1, <1>3, <1>4, <1>5, <1>6 DEF Safe

\* what the steps start from
Upheld == IndInv /\ BusyInv /\ OnceInv

LEMMA UpheldFacts ==
    ASSUME Upheld
    PROVE  /\ Sound(ftp) /\ LoginOK(ftp) /\ Counted(ftp, dwire)
           /\ ftp.data \in {NoSock, Open} /\ ftp.wire \in Seq(Exchange) /\ ftp \in FtpState
           /\ srv \in SrvState /\ srv.auth \in {0, 1}
           /\ Safe(ftp, xfer, srv.auth, srv.conn, dwire)
           /\ Channel(ftp, srv.conn, dwire)
           /\ pc # "resume" => Behind(ftp)
<1>1. Sound(ftp)
  BY IndInvSound DEF Upheld
<1>2. srv \in SrvState /\ srv.auth \in {0, 1}
  BY DEF Upheld, IndInv, TypeOK, SrvState
<1>3. ftp.data \in {NoSock, Open} /\ ftp.wire \in Seq(Exchange) /\ ftp \in FtpState
  BY <1>1 DEF Sound, FtpState
<1>4. QED
  BY <1>1, <1>2, <1>3 DEF Upheld, OnceInv, BusyInv, LoginInv, Safe

\* a step of the client that touches no transfer
LEMMA OnceKept ==
    ASSUME Upheld, xfer' = xfer,
           Safe(ftp', xfer, srv'.auth, srv'.conn, dwire'),
           pc' # "resume" => Behind(ftp')
    PROVE  OnceInv'
BY DEF Upheld, OnceInv, NoUseAfterFree

\* A fragment, or a line that is not the last of its reply.
LEMMA CtlNoReplyOnce ==
    ASSUME Upheld, CtlNoReply
    PROVE  OnceInv'
<1>1. /\ Safe(ftp, xfer, srv.auth, srv.conn, dwire) /\ Behind(ftp)
      /\ xfer' = xfer /\ srv' = srv /\ dwire' = dwire
      /\ ftp.wire \in Seq(Exchange) /\ ftp \in FtpState
  BY UpheldFacts DEF CtlNoReply, InControl, AtSelect
<1>2. CASE ftp' = ftp
  BY <1>1, <1>2, OnceKept
<1>3. CASE Head(ftp.wire).mark # "sent" /\ ftp' = [ftp EXCEPT !.wire = Tail(@)]
  <2>1. ftp.wire # << >> /\ Head(ftp.wire).code # 0 /\ Head(ftp.wire) = ftp.wire[1]
    BY <1>1, <1>3 DEF CtlNoReply, HasReply
  <2>2. /\ ftp'.wire = Tail(ftp.wire) /\ ftp'.ctl = ftp.ctl /\ Unmoved(ftp, ftp')
        /\ ftp'.queue = ftp.queue /\ ftp'.cproc = ftp.cproc
        /\ ftp'.dproc = ftp.dproc /\ ftp'.cls = ftp.cls /\ ftp'.dirent = ftp.dirent
    BY <1>1, <1>3 DEF FtpState, Unmoved
  <2>3. Within(ftp'.wire, ftp.wire) /\ (Unserved(ftp.wire) => Unserved(ftp'.wire))
    BY <1>1, <2>1, <2>2, WithinTail
  <2>4. Safe(ftp', xfer, srv.auth, srv.conn, dwire) /\ Behind(ftp')
    BY <1>1, <2>2, <2>3, WireSafe
  <2>5. QED
    BY <1>1, <2>4, OnceKept
<1>4. QED
  BY <1>2, <1>3 DEF CtlNoReply

\* where the thread goes on once ftp_handle has returned
LEMMA AfterSettled ==
    ASSUME NEW f, CaughtUp(f, ftp'), pc' = AfterHandle(f, ftp')
    PROVE  pc' # "resume" => Behind(ftp')
<1>1. f.wait # << >> /\ ftp'.wait = f.wait /\ Len(f.wait) \in Nat => ~(Len(ftp'.wait) > Len(f.wait))
  OBVIOUS
<1>2. QED
  BY <1>1 DEF CaughtUp, AfterHandle

\* recv has no more, and ftp_handle ends.
LEMMA CtlAgainOnce ==
    ASSUME Upheld, CtlAgain
    PROVE  OnceInv'
<1> DEFINE f == IF ftp.ctl = NoSock THEN [ftp EXCEPT !.wire = << >>] ELSE ftp
<1>1. PICK sk \in SockOutcomes : /\ ftp' = HandleTail(f, sk)
                                 /\ pc' = AfterHandle(f, ftp')
                                 /\ Linked(f, ftp')
  BY DEF CtlAgain, Linked
<1>2. /\ Safe(ftp, xfer, srv.auth, srv.conn, dwire) /\ Behind(ftp) /\ xfer' = xfer
      /\ Sound(ftp) /\ LoginOK(ftp) /\ Counted(ftp, dwire) /\ ftp \in FtpState
      /\ ftp.data \in {NoSock, Open}
  BY UpheldFacts DEF CtlAgain
<1>3. /\ Sound(f) /\ LoginOK(f) /\ Counted(f, dwire) /\ f.data = ftp.data
      /\ Safe(f, xfer, srv.auth, srv.conn, dwire) /\ Behind(f)
  <2>1. CASE ftp.ctl # NoSock
    BY <1>2, <2>1
  <2>2. CASE ftp.ctl = NoSock
    <3>1. f = [ftp EXCEPT !.wire = << >>]
      BY <2>2
    <3> HIDE DEF f
    <3>2. /\ Sound(f) /\ f.wire = << >> /\ f.busy = ftp.busy /\ f.cproc = ftp.cproc
          /\ Same(ftp, f)
      BY <1>2, <3>1, Unwired
    <3>3. /\ f.ctl = ftp.ctl /\ f.queue = ftp.queue /\ f.dproc = ftp.dproc
          /\ f.cls = ftp.cls /\ f.dirent = ftp.dirent
      BY <1>2, <3>1 DEF FtpState
    <3>4. LoginOK(f) /\ Counted(f, dwire)
      BY <1>2, <3>2, Emptied DEF Same
    <3>5. ~Unserved(ftp.wire)
      <4>1. ftp.cproc = "active"
        BY <2>2 DEF Upheld, IndInv, WaitInv, CtlAgain
      <4>2. Entered(ftp)
        BY <1>2, <4>1 DEF LoginOK, Entering
      <4>3. Marks(ftp)
        BY <1>2, <4>2 DEF Counted
      <4>4. QED
        BY <4>1, <4>3 DEF Marks, Unserved
    <3>6. Within(f.wire, ftp.wire)
      BY <3>2, NothingAsked DEF Within
    <3>7. Safe(f, xfer, srv.auth, srv.conn, dwire) /\ Behind(f)
      BY <1>2, <3>2, <3>3, <3>5, <3>6, WireSafe DEF Same, Unmoved
    <3>8. QED
      BY <3>2, <3>4, <3>7 DEF Same
  <2>3. QED
    BY <2>1, <2>2
<1> HIDE DEF f
<1>4. Safe(ftp', xfer, srv.auth, srv.conn, dwire) /\ CaughtUp(f, ftp')
  BY <1>1, <1>3, TailSafe
<1>5. srv' = srv /\ dwire' = dwire
  BY <1>1, <1>2, <1>3, <1>4, LinkStays DEF CaughtUp
<1>6. pc' # "resume" => Behind(ftp')
  BY <1>1, <1>4, AfterSettled
<1>7. QED
  BY <1>2, <1>4, <1>5, <1>6, OnceKept

\* Closing the sockets forgets what was under way.
LEMMA CtlEofOnce ==
    ASSUME Upheld, CtlEof
    PROVE  OnceInv'
<1> DEFINE f == [FtpClose(ftp) EXCEPT !.wire = << >>]
<1>1. PICK sk \in SockOutcomes, stale \in {0, 1} :
        /\ ftp' = IF stale = 1 THEN HandleTail(f, sk) ELSE f
        /\ pc' = AfterHandle(f, ftp')
        /\ Linked(ftp, ftp')
  BY DEF CtlEof, Linked
<1>2. /\ Safe(ftp, xfer, srv.auth, srv.conn, dwire) /\ Behind(ftp) /\ xfer' = xfer
      /\ Channel(ftp, srv.conn, dwire) /\ srv \in SrvState
      /\ Sound(ftp) /\ LoginOK(ftp) /\ Counted(ftp, dwire) /\ ftp \in FtpState
      /\ ftp.data \in {NoSock, Open}
  BY UpheldFacts DEF CtlEof, InControl, AtSelect
<1>3. /\ Sound(f) /\ f.wire = << >> /\ f.busy = ftp.busy
      /\ f.cproc = ftp.cproc /\ f.wait = ftp.wait /\ f.status = ftp.status
      /\ f.data = NoSock /\ f.lis = NoSock /\ f.ctl = NoSock
      /\ f.queue = ftp.queue /\ f.dproc = ftp.dproc /\ f.cls = ftp.cls
      /\ f.dirent = ftp.dirent
  <2> DEFINE h == FtpClose(ftp)
  <2>1. /\ Sound(h) /\ h.cproc = ftp.cproc /\ h.busy = ftp.busy /\ h.lis = NoSock
        /\ h.data = NoSock /\ h.wait = ftp.wait /\ h.status = ftp.status
    BY <1>2, SetField
  <2>2. /\ h.ctl = NoSock /\ h.queue = ftp.queue /\ h.dproc = ftp.dproc
        /\ h.cls = ftp.cls /\ h.dirent = ftp.dirent
    BY <1>2 DEF FtpClose, FtpState
  <2>3. f = [h EXCEPT !.wire = << >>]
    OBVIOUS
  <2> HIDE DEF h, f
  <2>4. /\ Sound(f) /\ f.wire = << >> /\ f.busy = h.busy /\ f.cproc = h.cproc
        /\ Same(h, f)
    BY <2>1, <2>3, Unwired
  <2>5. /\ f.ctl = h.ctl /\ f.queue = h.queue /\ f.dproc = h.dproc /\ f.cls = h.cls
        /\ f.dirent = h.dirent
    BY <2>1, <2>3 DEF Sound, FtpState
  <2>6. QED
    BY <2>1, <2>2, <2>4, <2>5 DEF Same
<1> HIDE DEF f
<1>4. LoginOK(f) /\ Counted(f, << >>)
  <2>1. LoginOK(f) /\ Counted(f, dwire)
    BY <1>2, <1>3, Emptied
  <2>2. QED
    BY <1>3, <2>1, CountedAny
<1>5. ftp'.data = NoSock => srv'.auth = srv.auth /\ srv'.conn # "open" /\ dwire' = << >>
  <2> DEFINE fresh == FALSE
  <2>1. fresh \in BOOLEAN /\ LinkData(ftp, ftp', fresh)
    BY <1>1 DEF Linked
  <2> HIDE DEF fresh
  <2>2. QED
    BY <1>2, <2>1, LinkMoves
<1>6. ASSUME NEW c, c # "open" PROVE Safe(f, xfer, srv.auth, c, << >>) /\ Behind(f)
  <2>1. Within(f.wire, ftp.wire) /\ ~Unserved(f.wire)
    BY <1>3, NothingAsked DEF Within
  <2>2. QED
    BY <1>2, <1>3, <1>6, <2>1, ClosedSafe
<1>7. CASE stale = 1
  <2>1. ftp' = HandleTail(f, sk)
    BY <1>1, <1>7
  <2>2. ASSUME NEW c, c # "open"
        PROVE  Safe(ftp', xfer, srv.auth, c, << >>) /\ CaughtUp(f, ftp')
    BY <1>3, <1>4, <1>6, <2>1, <2>2, TailSafe
  <2>3. CaughtUp(f, ftp')
    <3>1. "none" # "open"
      OBVIOUS
    <3>2. QED
      BY <2>2, <3>1
  <2>4. srv'.auth = srv.auth /\ srv'.conn # "open" /\ dwire' = << >>
    BY <1>3, <1>5, <2>3 DEF CaughtUp
  <2>5. Safe(ftp', xfer, srv'.auth, srv'.conn, dwire')
    BY <2>2, <2>4
  <2>6. pc' # "resume" => Behind(ftp')
    BY <1>1, <2>3, AfterSettled
  <2>7. QED
    BY <1>2, <2>5, <2>6, OnceKept
<1>8. CASE stale # 1
  <2>1. ftp' = f
    BY <1>1, <1>8
  <2>2. srv'.auth = srv.auth /\ srv'.conn # "open" /\ dwire' = << >>
    BY <1>3, <1>5, <2>1
  <2>3. Safe(ftp', xfer, srv'.auth, srv'.conn, dwire') /\ Behind(ftp')
    BY <1>6, <2>1, <2>2
  <2>4. QED
    BY <1>2, <2>3, OnceKept
<1>9. QED
  BY <1>7, <1>8

\* ftp_waitresp gives up.
LEMMA WaitTimeoutOnce ==
    ASSUME Upheld, WaitTimeout
    PROVE  OnceInv'
<1>1. Safe(ftp', xfer, srv'.auth, srv'.conn, dwire') /\ xfer' = xfer /\ pc' = "resume"
  BY UpheldFacts DEF WaitTimeout
<1>2. QED
  BY <1>1, OnceKept

\* ftp_waitresp on a closed connection.
LEMMA WaitClosedOnce ==
    ASSUME Upheld, WaitClosed
    PROVE  OnceInv'
<1>1. /\ Safe(ftp, xfer, srv.auth, srv.conn, dwire) /\ Behind(ftp) /\ xfer' = xfer
      /\ Sound(ftp) /\ LoginOK(ftp) /\ Counted(ftp, dwire) /\ ftp \in FtpState
      /\ ftp.data \in {NoSock, Open}
  BY UpheldFacts DEF WaitClosed, AtSelect
<1>2. CASE ftp' = [ftp EXCEPT !.fault = "badfd"] /\ UNCHANGED <<pc, srv, dwire>>
  <2>1. Still(ftp, ftp')
    BY <1>1, <1>2 DEF FtpState, Still
  <2>2. Safe(ftp', xfer, srv.auth, srv.conn, dwire) /\ Behind(ftp')
    BY <1>1, <2>1, StillSafe
  <2>3. QED
    BY <1>1, <1>2, <2>2, OnceKept
<1>3. ASSUME NEW sk, ftp' = HandleTail(ftp, sk), pc' = AfterHandle(ftp, ftp'),
             Linked(ftp, ftp')
      PROVE  OnceInv'
  <2>1. Safe(ftp', xfer, srv.auth, srv.conn, dwire) /\ CaughtUp(ftp, ftp')
    BY <1>1, <1>3, TailSafe
  <2>2. srv' = srv /\ dwire' = dwire
    BY <1>1, <1>3, <2>1, LinkStays DEF CaughtUp
  <2>3. pc' # "resume" => Behind(ftp')
    BY <1>3, <2>1, AfterSettled
  <2>4. QED
    BY <1>1, <2>1, <2>2, <2>3, OnceKept
<1>4. QED
  BY <1>2, <1>3 DEF WaitClosed, Linked

\* An operation that stops to wait leaves the rest as it was.
LEMMA WaitPopped ==
    ASSUME NEW f, Sound(f), f.wait # << >>, NEW xf, NEW auth, NEW conn, NEW dw,
           Safe(f, xf, auth, conn, dw), NEW g, g = [f EXCEPT !.wait = Tail(@)]
    PROVE  /\ Safe(g, xf, auth, conn, dw) /\ Sound(g)
           /\ g.wait = Tail(f.wait) /\ g.wire = f.wire /\ g.data = f.data
           /\ g.ctl = f.ctl /\ g.queue = f.queue /\ g.cproc = f.cproc /\ g.cls = f.cls
           /\ Head(f.wait) \in DataOp /\ Head(f.wait) \in FtpOp
           /\ Head(f.wait).op = "XFER" =>
                xf[Head(f.wait).data].st = "live" /\ Head(f.wait).data # f.cls
           /\ Unfetching(f.queue)
<1> DEFINE w == f.wait
           t == Tail(f.wait)
<1>1. w \in Seq(DataOp) /\ f \in FtpState
  BY DEF Sound, FtpState
<1>2. /\ g.wait = t /\ g.wire = f.wire /\ g.data = f.data /\ g.lis = f.lis
      /\ g.ctl = f.ctl /\ g.queue = f.queue /\ g.cproc = f.cproc /\ g.cls = f.cls
      /\ g.dproc = f.dproc /\ g.dirent = f.dirent
  BY <1>1 DEF FtpState
<1>3. /\ Len(w) \in Nat /\ Len(t) = Len(w) - 1 /\ t \in Seq(DataOp) /\ w[1] \in DataOp
      /\ \A i \in 1..Len(t) : i + 1 \in 1..Len(w) /\ t[i] = w[i + 1]
      /\ Head(w) = w[1] /\ 1 \in 1..Len(w) /\ w # << >>
  BY <1>1
<1>4. Sound(g)
  BY <1>3 DEF Sound, FtpState, Handlers
<1> HIDE DEF t
<1>5. Stranger(f) => Stranger(g)
  BY <1>3 DEF Stranger
<1>6. Channel(g, conn, dw)
  BY <1>2, <1>3 DEF Safe, Channel
<1>7. Lined(g) /\ Unfetching(f.queue)
  <2>1. ASSUME NEW i \in 1..Len(t), t[i].op = "XFER" PROVE i = Len(t)
    <3>1. w[i + 1].op = "XFER" /\ i + 1 \in 1..Len(w)
      BY <1>3, <2>1
    <3>2. i + 1 = Len(w)
      BY <3>1 DEF Safe, Lined
    <3>3. QED
      BY <1>3, <3>2
  <2>2. Unfetching(f.queue)
    BY <1>3 DEF Safe, Lined, Unfetching
  <2>3. QED
    BY <1>2, <2>1, <2>2 DEF Safe, Lined, Unfetching
<1>8. Owned(g, xf, dw)
  <2>1. Mine(xf, f.cls, t)
    BY <1>3 DEF Safe, Owned, Mine
  <2>2. QED
    BY <1>2, <2>1 DEF Safe, Owned
<1>9. Head(w).op = "XFER" => xf[Head(w).data].st = "live" /\ Head(w).data # f.cls
  BY <1>3 DEF Safe, Owned, Mine
<1>10. Head(w) \in DataOp /\ Head(w) \in FtpOp
  BY <1>3 DEF DataOp
<1>11. QED
  BY <1>2, <1>4, <1>5, <1>6, <1>7, <1>8, <1>9, <1>10 DEF Safe, t

\* The operation that waited is the only one that may begin.
LEMMA ResumeOnce ==
    ASSUME Upheld, Resume
    PROVE  OnceInv'
<1> DEFINE h == [ftp EXCEPT !.wait = Tail(@)]
           op == Head(ftp.wait)
<1>1. /\ Safe(ftp, xfer, srv.auth, srv.conn, dwire) /\ xfer' = xfer
      /\ srv' = srv /\ dwire' = dwire /\ srv.auth \in {0, 1}
      /\ Sound(ftp) /\ LoginOK(ftp) /\ Counted(ftp, dwire)
      /\ ftp.data \in {NoSock, Open} /\ ftp.wait # << >> /\ ftp.wait \in Seq(DataOp)
  BY UpheldFacts DEF Resume, Upheld, IndInv, WaitInv, Sound, FtpState
<1>2. /\ Safe(h, xfer, srv.auth, srv.conn, dwire) /\ Sound(h)
      /\ h.wait = Tail(ftp.wait) /\ h.wire = ftp.wire /\ h.data = ftp.data
      /\ h.ctl = ftp.ctl /\ h.queue = ftp.queue /\ h.cproc = ftp.cproc /\ h.cls = ftp.cls
      /\ op \in DataOp /\ op \in FtpOp
      /\ op.op = "XFER" => xfer[op.data].st = "live" /\ op.data # ftp.cls
      /\ Unfetching(ftp.queue)
  BY <1>1, WaitPopped
<1>3. ftp' = IF ftp.data = NoSock THEN h ELSE StartTransfer(h, op)
  BY DEF Resume, FinishPrepare
<1>4. pc' # "resume" => h.wait = << >>
  BY <1>1, <1>2, TailEmpty DEF Resume
<1> HIDE DEF h, op
<1>5. CASE ftp.data = NoSock
  <2>1. ftp' = h
    BY <1>3, <1>5
  <2>2. QED
    BY <1>1, <1>2, <1>4, <2>1, OnceKept DEF Behind
<1>6. CASE ftp.data = Open
  <2>1. ftp' = StartTransfer(h, op) /\ NoSock # Open
    BY <1>3, <1>6 DEF NoSock, Open
  <2>2. Begins(h, ftp', op) /\ ftp'.ctl = h.ctl /\ ftp'.queue = h.queue
        /\ ftp'.dirent = h.dirent
    BY <1>2, <1>6, <2>1, StartTransferBegins
  <2>3. /\ dwire = << >> /\ NoneAsked(ftp.wire) /\ ftp.ctl = Open
        /\ ~Asks(ftp.wire, "pasv") /\ ~Asks(ftp.wire, "port") /\ srv.auth # 0
    BY <1>1, <1>6, <2>1 DEF Safe, Channel, Stranger
  <2>4. ~Marked(ftp.wire)
    <3>1. Entered(ftp)
      BY <1>1, <1>6, <2>1 DEF LoginOK, Entering
    <3>2. Marks(ftp)
      BY <1>1, <3>1 DEF Counted
    <3>3. QED
      BY <2>3, <3>2 DEF Marks, Marked, NoneAsked, TransferCmds
  <2>5. h.wait = << >>
    <3>1. Len(ftp.wait) = 1
      BY <1>1, <2>3 DEF Upheld, IndInv, WaitInv
    <3>2. QED
      BY <1>1, <1>2, <3>1, TailEmpty
  <2>6. Fresh(h, xfer, op)
    BY <1>2, <2>5 DEF Fresh
  <2>7. Safe(ftp', xfer, srv.auth, srv.conn, dwire) /\ CaughtUp(h, ftp')
    BY <1>2, <2>2, <2>3, <2>4, <2>5, <2>6, BeginsSafe
  <2>8. QED
    BY <1>1, <2>5, <2>7, OnceKept DEF CaughtUp
<1>7. QED
  BY <1>1, <1>5, <1>6

\* The transfers are the same, but for what was received.
LEMMA OwnedKeeps ==
    ASSUME NEW f, NEW xf, NEW xg, NEW dw, Owned(f, xf, dw), Sound(f),
           \A x \in Xfers : xg[x].st = xf[x].st
    PROVE  Owned(f, xg, dw)
<1>1. /\ f.queue \in Seq(FtpOp) /\ f.wait \in Seq(DataOp)
      /\ f.dproc = "xfer" => f.cls \in Xfers
  BY DEF Sound, FtpState, Handlers
<1>2. \A o \in FtpOp : o.op = "XFER" => o.data \in Xfers
  BY DEF FtpOp
<1>3. Mine(xg, f.cls, f.queue)
  BY <1>1, <1>2 DEF Owned, Mine
<1>4. Mine(xg, f.cls, f.wait)
  BY <1>1, <1>2 DEF Owned, Mine, DataOp
<1>5. QED
  BY <1>1, <1>3, <1>4 DEF Owned

\* A packet is taken off the data connection.
LEMMA PacketSafe ==
    ASSUME NEW f, Sound(f), NEW xf, NEW auth, NEW conn, NEW dw \in Seq(Sources \cup {Eof}),
           dw # << >>, dw[1] # Eof, Safe(f, xf, auth, conn, dw),
           NEW xg, \A x \in Xfers : xg[x].st = xf[x].st
    PROVE  Safe(f, xg, auth, conn, Tail(dw))
<1> DEFINE dx == Tail(dw)
<1>1. Ended(dx) <=> Ended(dw)
  <2>1. /\ Len(dw) \in Nat /\ Len(dx) = Len(dw) - 1
        /\ \A i \in 1..Len(dx) : i + 1 \in 1..Len(dw) /\ dx[i] = dw[i + 1]
        /\ \A j \in 1..Len(dw) : j # 1 => j - 1 \in 1..Len(dx) /\ dx[j - 1] = dw[j]
    OBVIOUS
  <2>2. QED
    BY <2>1 DEF Ended
<1> HIDE DEF dx
<1>2. Channel(f, conn, dx)
  BY <1>1 DEF Safe, Channel
<1>3. Owned(f, xf, dx)
  BY DEF Safe, Owned
<1>4. Owned(f, xg, dx)
  BY <1>3, OwnedKeeps
<1>5. QED
  BY <1>2, <1>4 DEF Safe, dx

\* What handle_data does to the session when a packet, or the end, is there.
LEMMA RecvDataDoes ==
    ASSUME NEW f, Sound(f), NEW item, NEW mem, NEW g, g = RecvData(f, item, mem)
    PROVE  /\ g.ctl = f.ctl /\ g.cls = f.cls /\ g.lis = f.lis /\ g.wait = f.wait
           /\ g.queue = f.queue /\ g.wire = f.wire /\ g.cproc = f.cproc
           /\ item # Eof => g.data = f.data /\ g.dproc = f.dproc /\ g.dirent = f.dirent
           /\ item = Eof =>
                /\ g.data = NoSock
                /\ g.dproc = f.dproc \/ (f.dproc = "list" /\ g.dproc = "none")
<1> DEFINE h == CASE f.dproc = "list" -> DprocList(f, item)
                  [] f.dproc = "xfer" -> DprocXfer(f, item, mem)
                  [] OTHER -> f
           Kept(k) == /\ k.ctl = f.ctl /\ k.cls = f.cls /\ k.lis = f.lis /\ k.wait = f.wait
                      /\ k.queue = f.queue /\ k.wire = f.wire /\ k.cproc = f.cproc
                      /\ k.data = f.data
                      /\ item # Eof => k.dproc = f.dproc /\ k.dirent = f.dirent
                      /\ k.dproc = f.dproc \/ (f.dproc = "list" /\ k.dproc = "none")
                      /\ DOMAIN k = DOMAIN f
<1>1. f \in FtpState
  BY DEF Sound
<1>2. Kept(f)
  OBVIOUS
<1>3. f.dproc = "list" => Kept(DprocList(f, item))
  BY <1>1 DEF DprocList, FtpState
<1>4. Kept(DprocXfer(f, item, mem))
  BY <1>1 DEF DprocXfer, FtpState
<1>5. Kept(h)
  <2>1. h = f \/ (f.dproc = "list" /\ h = DprocList(f, item)) \/ h = DprocXfer(f, item, mem)
    OBVIOUS
  <2> HIDE DEF h, Kept
  <2>2. QED
    BY <1>2, <1>3, <1>4, <2>1
<1> HIDE DEF h
<1>6. g = IF item = Eof THEN [h EXCEPT !.data = NoSock] ELSE h
  BY DEF RecvData, h
<1>7. CASE item = Eof
  BY <1>1, <1>5, <1>6, <1>7 DEF FtpState
<1>8. CASE item # Eof
  BY <1>5, <1>6, <1>8
<1>9. QED
  BY <1>7, <1>8

\* The end of the data: the transfer it belongs to is over on the control
\* connection too, as far as the server is concerned.
LEMMA EndSafe ==
    ASSUME NEW f, Sound(f), NEW xf, NEW auth, NEW conn, NEW dw, conn # "open",
           Safe(f, xf, auth, conn, dw), f.data = Open, f.wait = << >>, ~Marked(f.wire),
           NEW g, g.ctl = f.ctl, g.cls = f.cls, g.lis = f.lis, g.wait = f.wait,
           g.queue = f.queue, g.wire = f.wire, g.cproc = f.cproc, g.data = NoSock,
           g.dproc = f.dproc \/ (f.dproc = "list" /\ g.dproc = "none"),
           NEW xg, \A x \in Xfers : xg[x].st # "none" <=> xf[x].st # "none",
           \A x \in Xfers : x # f.cls \/ f.dproc # "xfer" => xg[x].st = xf[x].st
    PROVE  Safe(g, xg, auth, conn, << >>) /\ Behind(g)
<1>1. ~Unserved(f.wire) /\ NoSock # Open
  BY DEF Safe, Channel, NoSock, Open
<1>2. auth # 0
  BY <1>1 DEF Safe, Stranger
<1>3. Channel(g, conn, << >>)
  BY <1>1 DEF Safe, Channel
<1>4. Lined(g)
  BY DEF Safe, Lined
<1>5. /\ f.queue \in Seq(FtpOp) /\ \A o \in FtpOp : o.op = "XFER" => o.data \in Xfers
      /\ Len(g.wait) = 0
  BY DEF Sound, FtpState, FtpOp
<1>6. Mine(xg, g.cls, g.queue) /\ Mine(xg, g.cls, g.wait)
  BY <1>5 DEF Safe, Owned, Mine
<1>7. Owned(g, xg, << >>)
  BY <1>1, <1>6 DEF Safe, Owned
<1>8. QED
  BY <1>2, <1>3, <1>4, <1>7 DEF Safe, Behind

\* What is received belongs to a transfer that is not over, and its end frees it.
LEMMA RecvXferKeeps ==
    ASSUME xfer \in [Xfers -> Transfer], NEW x \in Xfers, xfer[x].st = "live", NEW item,
           NoUseAfterFree, NEW xg, xg = RecvXfer(x, item)
    PROVE  /\ item # Eof => \A y \in Xfers : xg[y].st = xfer[y].st
           /\ item = Eof => \A y \in Xfers : y # x => xg[y].st = xfer[y].st
           /\ \A y \in Xfers : xg[y].st # "none" <=> xfer[y].st # "none"
           /\ \A y \in Xfers : xg[y].st # "reused"
<1>1. xfer[x] \in Transfer /\ x \in DOMAIN xfer
  OBVIOUS
<1>2. CASE item # Eof
  <2>1. xg = [xfer EXCEPT ![x].got = Append(@, item)]
    BY <1>2 DEF RecvXfer
  <2>2. \A y \in Xfers : xg[y].st = xfer[y].st
    BY <1>1, <2>1 DEF Transfer
  <2>3. QED
    BY <1>2, <2>2 DEF NoUseAfterFree
<1>3. CASE item = Eof
  <2>1. xg = [xfer EXCEPT ![x].st = "freed"]
    BY <1>3 DEF RecvXfer, UseXfer
  <2>2. \A y \in Xfers : IF y = x THEN xg[y].st = "freed" ELSE xg[y] = xfer[y]
    BY <1>1, <2>1 DEF Transfer
  <2>3. QED
    BY <1>3, <2>2 DEF NoUseAfterFree
<1>4. QED
  BY <1>2, <1>3

\* One packet, or the end, of a listing or a file.
LEMMA DataRecvOnce ==
    ASSUME Upheld, DataRecv, "crossed" \notin Env
    PROVE  OnceInv'
<1> DEFINE item == Head(dwire)
           last == LastRecv(item)
           uses == ftp.dproc = "xfer"
<1>1. PICK sk \in SockOutcomes, mem \in MemOutcomes(ftp.cls) :
        LET f == RecvData(ftp, item, mem)
            g == IF last THEN HandleTail(f, sk) ELSE f
        IN  /\ ftp' = g
            /\ xfer' = IF uses THEN RecvXfer(ftp.cls, item) ELSE xfer
            /\ dwire' = IF g.data = NoSock THEN << >> ELSE Tail(dwire)
            /\ srv' = IF g.data = NoSock /\ srv.conn = "open"
                      THEN [srv EXCEPT !.conn = "none"] ELSE srv
  BY DEF DataRecv
<1> DEFINE f == RecvData(ftp, item, mem)
<1>2. /\ Sound(ftp) /\ LoginOK(ftp) /\ Counted(ftp, dwire) /\ ftp.data = Open
      /\ dwire \in Seq(Sources \cup {Eof}) /\ dwire # << >>
      /\ Safe(ftp, xfer, srv.auth, srv.conn, dwire) /\ Behind(ftp)
      /\ ~Marked(ftp.wire) /\ NoUseAfterFree /\ xfer \in [Xfers -> Transfer]
  BY UpheldFacts DEF DataRecv, AtMainSelect, AtSelect, Upheld, IndInv, TypeOK, Marked, OnceInv
<1>3. item = dwire[1] /\ item \in Sources \cup {Eof} /\ (item = Eof => Ended(dwire))
  <2>1. 1 \in 1..Len(dwire) /\ item = dwire[1] /\ item \in Sources \cup {Eof}
    BY <1>2
  <2>2. QED
    BY <2>1 DEF Ended
<1>4. Entered(ftp) /\ ftp.wait = << >> /\ (item = Eof => srv.conn # "open")
  BY <1>2, <1>3 DEF LoginOK, Entering, NoSock, Open, Safe, Channel
<1> HIDE DEF item
<1>5. /\ Sound(f) /\ f.wire = ftp.wire /\ f.cproc = ftp.cproc /\ f.lis = ftp.lis
      /\ f.wait = ftp.wait /\ f.ctl = ftp.ctl /\ f.cls = ftp.cls /\ f.queue = ftp.queue
      /\ item # Eof => /\ f.data = ftp.data /\ f.busy = ftp.busy
                       /\ f.dproc = ftp.dproc /\ f.dirent = ftp.dirent
      /\ item = Eof => /\ f.data = NoSock /\ f.busy \in {ftp.busy, ftp.busy - 1}
                       /\ f.dproc = ftp.dproc \/ (ftp.dproc = "list" /\ f.dproc = "none")
  <2>1. Sound(f)
    BY <1>2, <1>3, RecvDataSound
  <2>2. /\ f.wire = ftp.wire /\ f.cproc = ftp.cproc /\ f.lis = ftp.lis
        /\ f.wait = ftp.wait /\ f.queue = ftp.queue
        /\ item # Eof => f.data = ftp.data /\ f.busy = ftp.busy
        /\ item = Eof => f.data = NoSock /\ f.busy \in {ftp.busy, ftp.busy - 1}
    BY <1>2, RecvDataCount
  <2>3. /\ f.ctl = ftp.ctl /\ f.cls = ftp.cls
        /\ item # Eof => f.dproc = ftp.dproc /\ f.dirent = ftp.dirent
        /\ item = Eof => f.dproc = ftp.dproc \/ (ftp.dproc = "list" /\ f.dproc = "none")
    BY <1>2, RecvDataDoes
  <2>4. QED
    BY <2>1, <2>2, <2>3
<1>6. /\ ftp' = (IF last THEN HandleTail(f, sk) ELSE f)
      /\ xfer' = IF uses THEN RecvXfer(ftp.cls, item) ELSE xfer
      /\ dwire' = IF ftp'.data = NoSock THEN << >> ELSE Tail(dwire)
      /\ srv' = IF ftp'.data = NoSock /\ srv.conn = "open"
                THEN [srv EXCEPT !.conn = "none"] ELSE srv
  BY <1>1
<1> HIDE DEF f, last
<1>7. LoginOK(f)
  BY <1>4, <1>5 DEF LoginOK, Entered
<1>8. /\ item # Eof => \A x \in Xfers : xfer'[x].st = xfer[x].st
      /\ \A x \in Xfers : x # ftp.cls \/ ~uses => xfer'[x].st = xfer[x].st
      /\ \A x \in Xfers : xfer'[x].st # "none" <=> xfer[x].st # "none"
      /\ NoUseAfterFree'
  <2>1. CASE uses
    <3>1. ftp.cls \in Xfers /\ xfer[ftp.cls].st = "live"
      BY <1>2, <2>1 DEF Sound, Handlers, Safe, Owned
    <3>2. xfer' = RecvXfer(ftp.cls, item)
      BY <1>6, <2>1
    <3>3. /\ item # Eof => \A y \in Xfers : xfer'[y].st = xfer[y].st
          /\ item = Eof => \A y \in Xfers : y # ftp.cls => xfer'[y].st = xfer[y].st
          /\ \A y \in Xfers : xfer'[y].st # "none" <=> xfer[y].st # "none"
          /\ \A y \in Xfers : xfer'[y].st # "reused"
      BY <1>2, <3>1, <3>2, RecvXferKeeps
    <3>4. QED
      BY <2>1, <3>3 DEF NoUseAfterFree
  <2>2. CASE ~uses
    BY <1>2, <1>6, <2>2 DEF NoUseAfterFree
  <2>3. QED
    BY <2>1, <2>2
<1> DEFINE dw == IF item = Eof THEN << >> ELSE Tail(dwire)
<1>9. Safe(f, xfer', srv.auth, srv.conn, dw) /\ Behind(f) /\ Counted(f, dw)
  <2>1. CASE item # Eof
    <3>1. Still(ftp, f) /\ Alike(ftp, f)
      BY <1>5, <2>1 DEF Still, Alike
    <3>2. Safe(ftp, xfer', srv.auth, srv.conn, Tail(dwire))
      BY <1>2, <1>3, <1>8, <2>1, PacketSafe
    <3>3. Counted(f, dwire)
      BY <1>2, <3>1, CountedAlike
    <3>4. Counted(f, Tail(dwire))
      BY <1>2, <3>3, CountedTail
    <3>5. QED
      BY <1>2, <2>1, <3>1, <3>2, <3>4, StillSafe
  <2>2. CASE item = Eof
    <3>1. Safe(f, xfer', srv.auth, srv.conn, << >>) /\ Behind(f)
      BY <1>2, <1>4, <1>5, <1>8, <2>2, EndSafe
    <3>2. Counted(f, dwire)
      BY <1>2, <1>3, <1>4, <1>5, <2>2, EndCounted
    <3>3. QED
      BY <2>2, <3>1, <3>2, CountedLess
  <2>3. QED
    BY <2>1, <2>2
<1>10. f.data = IF item = Eof THEN NoSock ELSE Open
  BY <1>2, <1>5
<1>11. Safe(ftp', xfer', srv.auth, srv.conn, dw) /\ Behind(ftp') /\ ftp'.data = f.data
  <2> HIDE DEF dw
  <2>1. CASE last
    <3>1. ftp' = HandleTail(f, sk)
      BY <1>6, <2>1
    <3>2. Safe(ftp', xfer', srv.auth, srv.conn, dw) /\ CaughtUp(f, ftp')
      BY <1>5, <1>7, <1>9, <3>1, TailSafe
    <3>3. QED
      BY <1>4, <1>5, <3>2 DEF CaughtUp
  <2>2. CASE ~last
    BY <1>6, <1>9, <2>2
  <2>3. QED
    BY <2>1, <2>2
<1>12. dwire' = dw /\ srv' = srv
  BY <1>4, <1>6, <1>10, <1>11 DEF NoSock, Open
<1> HIDE DEF dw
<1>13. QED
  BY <1>8, <1>11, <1>12 DEF OnceInv

\* A server that connects by itself serves no transfer.
LEMMA AcceptSafe ==
    ASSUME NEW f, f.data = NoSock, f.wait = << >>, ~Unserved(f.wire), f.cproc # "pasv",
           NEW xf, NEW auth, auth # 0, NEW conn, NEW dw, Safe(f, xf, auth, conn, dw),
           NEW g, g.ctl = f.ctl, g.lis = f.lis, g.wait = f.wait, g.queue = f.queue,
           g.wire = f.wire, g.cproc = f.cproc, g.dproc = f.dproc, g.cls = f.cls,
           g.dirent = f.dirent, g.data = Open
    PROVE  Safe(g, xf, auth, "open", << >>) /\ Behind(g)
<1>1. NoSock # Open /\ ~Ended(<< >>)
  BY DEF NoSock, Open, Ended
<1>2. Channel(g, "open", << >>)
  BY <1>1 DEF Safe, Channel
<1>3. Lined(g) /\ Owned(g, xf, << >>) /\ (auth = 1 => Polite(g.wire))
  <2>1. Lined(g)
    BY DEF Safe, Lined
  <2>2. Owned(g, xf, << >>)
    BY DEF Safe, Owned
  <2>3. auth = 1 => Polite(g.wire)
    BY DEF Safe
  <2>4. QED
    BY <2>1, <2>2, <2>3
<1>4. QED
  BY <1>2, <1>3 DEF Safe, Behind

LEMMA LisAcceptOnce ==
    ASSUME Upheld, LisAccept
    PROVE  OnceInv'
<1> DEFINE f == [ftp EXCEPT !.data = Open]
<1>1. PICK sk \in SockOutcomes : ftp' = HandleTail(f, sk) /\ Linked(ftp, ftp')
  BY DEF LisAccept, Linked
<1>2. /\ Sound(ftp) /\ LoginOK(ftp) /\ Counted(ftp, dwire) /\ ftp.lis = Open
      /\ ftp.wait = << >> /\ ftp.data \in {NoSock, Open} /\ ftp \in FtpState
      /\ Safe(ftp, xfer, srv.auth, srv.conn, dwire) /\ Behind(ftp) /\ xfer' = xfer
      /\ srv \in SrvState /\ srv.auth \in {0, 1} /\ Channel(ftp, srv.conn, dwire)
  BY UpheldFacts DEF LisAccept, AtMainSelect, AtSelect
<1>3. /\ Sound(f) /\ f.wire = ftp.wire /\ f.busy = ftp.busy /\ f.cproc = ftp.cproc
      /\ f.lis = ftp.lis /\ f.wait = ftp.wait /\ f.data = Open
  BY ZenonT(40), <1>2 DEF Sound, FtpState, Handlers
<1>4. /\ f.ctl = ftp.ctl /\ f.queue = ftp.queue /\ f.dproc = ftp.dproc /\ f.cls = ftp.cls
      /\ f.dirent = ftp.dirent
  BY <1>2 DEF FtpState
<1> HIDE DEF f
<1>5. Entered(ftp) /\ LoginOK(f) /\ srv.auth # 0
  <2>1. Entered(ftp) /\ srv.auth # 0
    BY <1>2 DEF LoginOK, Entering, Safe, Stranger, NoSock, Open
  <2>2. QED
    BY <1>3, <2>1 DEF LoginOK, Entered
<1>6. CASE ftp.data = Open
  <2>1. Alike(ftp, f) /\ Still(ftp, f)
    BY <1>3, <1>4, <1>6 DEF Alike, Still
  <2>2. Safe(f, xfer, srv.auth, srv.conn, dwire) /\ Behind(f) /\ Counted(f, dwire)
    BY <1>2, <2>1, StillSafe, CountedAlike
  <2>3. Safe(ftp', xfer, srv.auth, srv.conn, dwire) /\ CaughtUp(f, ftp')
    BY <1>1, <1>3, <1>5, <2>2, TailSafe
  <2>4. srv' = srv /\ dwire' = dwire
    BY <1>1, <1>2, <1>3, <1>6, <2>3, LinkStays DEF CaughtUp
  <2>5. Behind(ftp')
    BY <1>2, <1>3, <2>3 DEF CaughtUp
  <2>6. QED
    BY <1>2, <2>3, <2>4, <2>5, OnceKept
<1>7. CASE ftp.data = NoSock
  <2>1. Links(ftp, dwire) /\ ~Unserved(ftp.wire)
    BY <1>2, <1>5, <1>7 DEF Counted, Links
  <2>2. ftp.cproc # "pasv"
    BY <1>2, <2>1 DEF Links, NoSock, Open
  <2>3. Safe(f, xfer, srv.auth, "open", << >>) /\ Behind(f)
    BY <1>2, <1>3, <1>4, <1>5, <1>7, <2>1, <2>2, AcceptSafe
  <2>4. Counted(f, << >>)
    BY <1>2, <1>3, <1>5, <1>7, AcceptCounted
  <2>5. Safe(ftp', xfer, srv.auth, "open", << >>) /\ CaughtUp(f, ftp')
    BY <1>1, <1>3, <1>5, <2>3, <2>4, TailSafe
  <2>6. ftp'.data = Open
    BY <1>3, <2>5 DEF CaughtUp
  <2>7. srv'.auth = srv.auth /\ srv'.conn = "open" /\ dwire' = << >>
    <3> DEFINE fresh == FALSE
    <3>1. fresh \in BOOLEAN /\ LinkData(ftp, ftp', fresh)
      BY <1>1 DEF Linked
    <3> HIDE DEF fresh
    <3>2. QED
      BY <1>2, <1>7, <2>6, <3>1, LinkMoves
  <2>8. Behind(ftp')
    BY <1>2, <1>3, <2>5 DEF CaughtUp
  <2>9. QED
    BY <1>2, <2>5, <2>7, <2>8, OnceKept
<1>8. QED
  BY <1>2, <1>6, <1>7

\* The start directory is queued while nothing waits.
LEMMA QueueStartDirOnce ==
    ASSUME Upheld, QueueStartDir
    PROVE  OnceInv'
<1>1. PICK sk \in SockOutcomes : ftp' = FtpQueue(ftp, Op("CHDIR", startDir), sk)
  BY DEF QueueStartDir
<1>2. Op("CHDIR", startDir) \in FtpOp /\ Op("CHDIR", startDir).op = "CHDIR"
  <2>1. startDir \in Dirs
    BY DEF QueueStartDir, StartDirDue, Upheld, IndInv, TypeOK, Args
  <2>2. QED
    BY <2>1, OpTypes DEF Op
<1>3. /\ ftp.wait = << >> /\ ftp.status # "DISC" /\ xfer' = xfer /\ srv' = srv
      /\ dwire' = dwire
  BY DEF QueueStartDir, StartDirDue
<1>4. /\ Sound(ftp) /\ LoginOK(ftp) /\ Counted(ftp, dwire)
      /\ Safe(ftp, xfer, srv.auth, srv.conn, dwire)
  BY UpheldFacts
<1>5. NoGreet(ftp)
  BY <1>3, <1>4 DEF LoginOK, Entering, Entered, NoLogin, NoGreet, LoginCmds
<1>6. Op("CHDIR", startDir).op \notin DataOps /\ Op("CHDIR", startDir).op # "XFER"
  BY <1>2 DEF DataOps
<1> DEFINE o == Op("CHDIR", startDir)
<1> HIDE DEF o
<1>7. /\ o \in FtpOp /\ o.op \notin DataOps /\ o.op # "XFER" /\ ftp' = FtpQueue(ftp, o, sk)
  BY <1>1, <1>2, <1>6 DEF o
<1>8. Safe(ftp', xfer, srv.auth, srv.conn, dwire) /\ Behind(ftp')
  BY <1>3, <1>4, <1>5, <1>7, QueueSafe
<1>9. QED
  BY <1>3, <1>8, OnceKept

\* A key that queues an operation without a data connection.
LEMMA KeyOnce ==
    ASSUME Upheld, AtMainSelect, NoGreet(ftp), NEW op \in FtpOp, op.op \notin DataOps,
           NEW sk, ftp' = FtpQueue(ftp, op, sk), UNCHANGED <<xfer, pc, srv, dwire>>
    PROVE  OnceInv'
<1>1. /\ Sound(ftp) /\ LoginOK(ftp) /\ Counted(ftp, dwire) /\ ftp.wait = << >>
      /\ Safe(ftp, xfer, srv.auth, srv.conn, dwire) /\ op.op # "XFER"
  BY UpheldFacts DEF AtMainSelect, DataOps
<1>2. Safe(ftp', xfer, srv.auth, srv.conn, dwire) /\ Behind(ftp')
  BY <1>1, QueueSafe
<1>3. QED
  BY <1>2, OnceKept

\* F5 allocates a block that no operation had, and asks for it.
LEMMA KeyXferOnce ==
    ASSUME Upheld, NEW x \in Xfers, NEW n, KeyXfer(x, n), "earlykeys" \notin Env,
           MaxQueue \in Nat, MaxQueue <= 1
    PROVE  OnceInv'
<1>1. PICK sk \in SockOutcomes : ftp' = FtpQueue(ftp, XferOp(x), sk)
  BY DEF KeyXfer
<1>2. /\ AtMainSelect /\ ftp.dirent # << >> /\ xfer[x].st = "none" /\ pc' = pc
      /\ srv' = srv /\ dwire' = dwire /\ ftp.wait = << >>
      /\ xfer' = [xfer EXCEPT ![x] = [st |-> "live", dir |-> Head(ftp.dirent)[1],
                                      name |-> n, got |-> << >>]]
  BY DEF KeyXfer, MayFetch, MayPress, AtMainSelect
<1>3. /\ Sound(ftp) /\ LoginOK(ftp) /\ Counted(ftp, dwire) /\ xfer \in [Xfers -> Transfer]
      /\ Safe(ftp, xfer, srv.auth, srv.conn, dwire) /\ NoUseAfterFree
      /\ ftp.queue \in Seq(FtpOp) /\ ftp.data \in {NoSock, Open}
  BY UpheldFacts DEF Upheld, IndInv, TypeOK, OnceInv, Sound, FtpState
<1>4. ftp.queue = << >>
  <2>1. Len(ftp.queue) < MaxQueue /\ Len(ftp.queue) \in Nat
    BY <1>3 DEF KeyXfer, MayFetch, MayPress
  <2>2. Len(ftp.queue) = 0
    BY <2>1
  <2>3. QED
    BY <1>3, <2>2
<1>5. NoGreet(ftp)
  <2>1. ftp.data = Open => NoGreet(ftp)
    BY <1>3 DEF LoginOK, Entering, Entered, NoLogin, NoGreet, LoginCmds, NoSock, Open
  <2>2. QED
    BY <2>1 DEF KeyXfer, MayFetch, MayPress, Greeted, NoGreet
<1>6. srv.auth # 0 /\ x # ftp.cls
  BY <1>2, <1>3 DEF Safe, Stranger, Owned
<1>7. /\ xfer'[x].st = "live" /\ \A y \in Xfers : y # x => xfer'[y] = xfer[y]
  BY <1>2, <1>3
<1>8. Safe(ftp, xfer', srv.auth, srv.conn, dwire)
  <2>1. Mine(xfer', ftp.cls, ftp.queue) /\ Mine(xfer', ftp.cls, ftp.wait)
    <3>1. Len(ftp.queue) = 0 /\ Len(ftp.wait) = 0
      BY <1>2, <1>4
    <3>2. QED
      BY <3>1 DEF Mine
  <2>2. ftp.dproc = "xfer" => ftp.cls \in Xfers
    BY <1>3 DEF Sound, Handlers
  <2>3. Owned(ftp, xfer', dwire)
    BY <1>3, <1>6, <1>7, <2>1, <2>2 DEF Safe, Owned
  <2>4. QED
    BY <1>3, <2>3 DEF Safe
<1>9. XferOp(x) \in FtpOp /\ XferOp(x).op = "XFER" /\ XferOp(x).data = x
  BY OpTypes DEF XferOp
<1>10. Follows(ftp.queue)
  BY <1>4 DEF Follows
<1> DEFINE o == XferOp(x)
<1> HIDE DEF o
<1>11. o \in FtpOp /\ o.op = "XFER" /\ o.data = x /\ ftp' = FtpQueue(ftp, o, sk)
  BY <1>1, <1>9 DEF o
<1> DEFINE xg == xfer'
<1>12. Safe(ftp, xg, srv.auth, srv.conn, dwire) /\ xg[x].st = "live"
  BY <1>7, <1>8
<1> HIDE DEF xg
<1>13. Safe(ftp', xg, srv.auth, srv.conn, dwire) /\ Behind(ftp')
  BY <1>2, <1>3, <1>4, <1>5, <1>6, <1>10, <1>11, <1>12, QueueSafe
<1>14. NoUseAfterFree'
  BY <1>3, <1>7 DEF NoUseAfterFree
<1>15. QED
  BY <1>2, <1>13, <1>14 DEF OnceInv, xg

\* The keys.
LEMMA UserOnce ==
    ASSUME Upheld, User, "earlykeys" \notin Env, MaxQueue \in Nat, MaxQueue <= 1
    PROVE  OnceInv'
<1>1. MayPress => AtMainSelect /\ NoGreet(ftp)
  BY DEF MayPress, Greeted, NoGreet
<1>2. CASE KeyCdup
  <2>1. PICK sk \in SockOutcomes : ftp' = FtpQueue(ftp, Op("CDUP", NoArg), sk)
    BY <1>2 DEF KeyCdup
  <2>2. Op("CDUP", NoArg) \in FtpOp /\ Op("CDUP", NoArg).op \notin DataOps
    BY OpTypes DEF Op, DataOps
  <2>3. QED
    BY <1>1, <1>2, <2>1, <2>2, KeyOnce DEF KeyCdup
<1>3. ASSUME NEW d \in Dirs, KeyChdir(d) PROVE OnceInv'
  <2>1. PICK sk \in SockOutcomes : ftp' = FtpQueue(ftp, Op("CHDIR", d), sk)
    BY <1>3 DEF KeyChdir
  <2>2. Op("CHDIR", d) \in FtpOp /\ Op("CHDIR", d).op \notin DataOps
    BY OpTypes DEF Op, DataOps
  <2>3. QED
    BY <1>1, <1>3, <2>1, <2>2, KeyOnce DEF KeyChdir
<1>4. ASSUME NEW x \in Xfers, NEW n \in Names, KeyXfer(x, n) PROVE OnceInv'
  BY <1>4, KeyXferOnce
<1>5. QED
  BY <1>2, <1>3, <1>4 DEF User

\* The server changes one exchange, and nothing of the client.
Reworded(f, g, i, d) ==
    /\ g.ctl = f.ctl /\ Unmoved(f, g) /\ g.queue = f.queue /\ g.cproc = f.cproc
    /\ g.dproc = f.dproc /\ g.cls = f.cls /\ g.dirent = f.dirent
    /\ Len(g.wire) = Len(f.wire) /\ i \in 1..Len(f.wire)
    /\ g.wire[i] = d /\ d.cmd = f.wire[i].cmd
    /\ \A j \in 1..Len(f.wire) : j # i => g.wire[j] = f.wire[j]

LEMMA ServedReworded ==
    ASSUME IndInv, NEW i \in 1..Len(ftp.wire), NEW d \in Exchange,
           d.cmd = ftp.wire[i].cmd,
           NEW g, g = [ftp EXCEPT !.wire = [ftp.wire EXCEPT ![i] = d]]
    PROVE  Reworded(ftp, g, i, d)
<1> DEFINE w == [ftp.wire EXCEPT ![i] = d]
<1>1. ftp \in FtpState /\ ftp.wire \in Seq(Exchange)
  BY DEF IndInv, TypeOK, FtpState
<1>2. /\ Len(w) = Len(ftp.wire) /\ w[i] = d
      /\ \A j \in 1..Len(ftp.wire) : j # i => w[j] = ftp.wire[j]
  BY <1>1, ExceptSeq
<1>3. g = [ftp EXCEPT !.wire = w]
  OBVIOUS
<1> HIDE DEF w
<1>4. /\ g.wire = w /\ g.ctl = ftp.ctl /\ Unmoved(ftp, g) /\ g.queue = ftp.queue
      /\ g.cproc = ftp.cproc /\ g.dproc = ftp.dproc /\ g.cls = ftp.cls
      /\ g.dirent = ftp.dirent
  BY <1>1, <1>3 DEF FtpState, Unmoved
<1>5. QED
  BY <1>2, <1>4 DEF Reworded

\* It asks for what was asked for.
LEMMA RewordedAsks ==
    ASSUME NEW f, NEW g, NEW i, NEW d, Reworded(f, g, i, d)
    PROVE  /\ NoneAsked(f.wire) => NoneAsked(g.wire)
           /\ OneAsked(f.wire) => OneAsked(g.wire)
           /\ \A c : Asks(g.wire, c) => Asks(f.wire, c)
           /\ Dismissed(f.wire) /\ d.code \in {0, 220, 331, 530} => Dismissed(g.wire)
           /\ /\ Polite(f.wire)
              /\ d.cmd \notin LoginCmds \cup {"pasv", "port"} => d.code < 400
              => Polite(g.wire)
           /\ Marked(g.wire) => Marked(f.wire) \/ d.mark = "sent"
           /\ d.cmd \notin TransferCmds \/ (d.code = 0 <=> f.wire[i].code = 0) =>
                (Unserved(g.wire) <=> Unserved(f.wire))
<1>1. \A j \in 1..Len(f.wire) : g.wire[j].cmd = f.wire[j].cmd
  BY DEF Reworded
<1>2. /\ NoneAsked(f.wire) => NoneAsked(g.wire)
      /\ OneAsked(f.wire) => OneAsked(g.wire)
  BY <1>1 DEF Reworded, NoneAsked, OneAsked
<1>3. \A c : Asks(g.wire, c) => Asks(f.wire, c)
  BY <1>1 DEF Reworded, Asks
<1>4. Dismissed(f.wire) /\ d.code \in {0, 220, 331, 530} => Dismissed(g.wire)
  BY DEF Reworded, Dismissed
<1>5. /\ Polite(f.wire)
      /\ d.cmd \notin LoginCmds \cup {"pasv", "port"} => d.code < 400
      => Polite(g.wire)
  BY DEF Reworded, Polite
<1>6. Marked(g.wire) => Marked(f.wire) \/ d.mark = "sent"
  BY DEF Reworded, Marked
<1>7. d.cmd \notin TransferCmds \/ (d.code = 0 <=> f.wire[i].code = 0) =>
        (Unserved(g.wire) <=> Unserved(f.wire))
  BY DEF Reworded, Unserved, TransferCmds
<1>8. QED
  BY <1>2, <1>3, <1>4, <1>5, <1>6, <1>7

\* what an answer d makes of the server: nobody is let in but by a 230, and only
\* a client without a data connection is told to open one
Answers(g, d, auth, conn, auth1, conn1) ==
    /\ auth1 \in {0, 1} /\ d.cmd \notin TransferCmds
    /\ auth1 = 0 => auth = 0 /\ d.code \in {0, 220, 331, 530}
    /\ auth1 = 1 => Polite(g.wire)
    /\ conn1 = conn \/ (conn # "open" /\ conn1 = "listen")

\* A command that moves no data is answered.
LEMMA RewordedSafe ==
    ASSUME NEW f, NEW g, NEW i, NEW d, Reworded(f, g, i, d), d.mark = f.wire[i].mark,
           NEW xf, NEW auth, NEW conn, NEW dw, Safe(f, xf, auth, conn, dw),
           NEW auth1, NEW conn1, Answers(g, d, auth, conn, auth1, conn1)
    PROVE  Safe(g, xf, auth1, conn1, dw) /\ (Behind(f) => Behind(g))
<1>1. /\ NoneAsked(f.wire) => NoneAsked(g.wire)
      /\ OneAsked(f.wire) => OneAsked(g.wire)
      /\ \A c : Asks(g.wire, c) => Asks(f.wire, c)
      /\ Dismissed(f.wire) /\ d.code \in {0, 220, 331, 530} => Dismissed(g.wire)
      /\ Unserved(g.wire) <=> Unserved(f.wire)
      /\ Marked(g.wire) => Marked(f.wire) \/ d.mark = "sent"
  BY RewordedAsks DEF Answers
<1>2. Marked(g.wire) => Marked(f.wire)
  BY <1>1 DEF Reworded, Marked
<1>3. /\ auth1 = 0 => Stranger(g)
      /\ auth1 = 1 => Polite(g.wire)
  BY <1>1 DEF Answers, Safe, Stranger, Reworded, Unmoved
<1>4. conn1 = "open" <=> conn = "open"
  BY DEF Answers
<1>5. Channel(g, conn1, dw)
  BY <1>1, <1>4 DEF Safe, Channel, Reworded, Unmoved
<1>6. Lined(g)
  <2>1. Lined(f) /\ g.queue = f.queue /\ g.wait = f.wait
    BY DEF Safe, Reworded, Unmoved
  <2>2. QED
    BY <2>1 DEF Lined
<1>7. Owned(g, xf, dw)
  BY <1>1, <1>2 DEF Safe, Owned, Reworded, Unmoved
<1>8. Behind(f) => Behind(g)
  BY DEF Behind, Reworded, Unmoved
<1>9. QED
  BY <1>3, <1>5, <1>6, <1>7, <1>8 DEF Safe

\* A server that refuses no command answers transfers with their data only.
LEMMA SrvReplyOnce ==
    ASSUME Upheld, NEW i \in 1..Len(ftp.wire), SrvReply(i), "reject" \notin Env
    PROVE  OnceInv'
<1> DEFINE e == ftp.wire[i]
<1>1. PICK code \in Replies(e.cmd) :
        LET dir == IF code # 250 THEN srv.cwd
                   ELSE IF e.cmd = "cdup" THEN Home ELSE e.arg
            hangup == e.cmd \in {"list", "retr"} /\ srv.conn = "open"
        IN  /\ ftp' = [ftp EXCEPT !.wire[i] =
                        [@ EXCEPT !.code = code, !.arg = dir]]
            /\ srv' = [srv EXCEPT
                        !.auth = IF code = 230 THEN 1 ELSE @,
                        !.cwd = dir,
                        !.conn = IF code = 227 THEN "listen"
                                 ELSE IF hangup THEN "none" ELSE @]
            /\ dwire' = IF hangup THEN Append(dwire, Eof) ELSE dwire
  BY DEF SrvReply
<1> DEFINE dir == IF code # 250 THEN srv.cwd
                  ELSE IF e.cmd = "cdup" THEN Home ELSE e.arg
           d == [e EXCEPT !.code = code, !.arg = dir]
<1>2. /\ IndInv /\ e \in Exchange /\ e.cmd \in Cmds /\ srv \in SrvState /\ e.code = 0
      /\ srv.auth \in {0, 1} /\ LoginOK(ftp) /\ xfer' = xfer /\ pc' = pc
      /\ Safe(ftp, xfer, srv.auth, srv.conn, dwire)
      /\ (pc # "resume" => Behind(ftp))
  BY UpheldFacts, ServedExchange DEF Exchange, Upheld, SrvReply, Serving
<1>3. e.cmd \notin TransferCmds
  <2>1. SUFFICES ASSUME e.cmd \in {"list", "retr"} PROVE FALSE
    BY DEF TransferCmds
  <2>2. Unserved(ftp.wire)
    BY <1>2, <2>1 DEF Unserved
  <2>3. srv.conn = "open" /\ ftp.data = Open
    BY <1>2, <2>2 DEF Safe, Channel
  <2>4. srv.auth # 0
    BY <1>2, <2>3 DEF Safe, Stranger, NoSock, Open
  <2>5. Replies(e.cmd) = {}
    BY <2>1, <2>3, <2>4 DEF Replies, Denied, LoginCmds
  <2>6. QED
    BY <2>5
<1>4. /\ code \in Codes
      /\ code # 230 => \/ code \in {220, 331, 530}
                       \/ srv.auth = 1 /\ (code < 400 \/ e.cmd \in {"pasv", "port"})
      /\ code = 230 => e.cmd \in LoginCmds
      /\ srv.auth = 1 => code < 400 \/ e.cmd \in LoginCmds \cup {"pasv", "port"}
      /\ code = 227 => e.cmd = "pasv"
  <2>1. code \in Codes
    BY <1>2, RepliesType
  <2>2. code = 230 => e.cmd \in LoginCmds
    BY <1>2 DEF Replies, Denied, LoginCmds, Cmds
  <2>3. code = 227 => e.cmd = "pasv"
    BY <1>2 DEF Replies, Denied, LoginCmds, Cmds
  <2>4. srv.auth = 1 => code < 400 \/ e.cmd \in LoginCmds \cup {"pasv", "port"}
    BY <1>2, <1>3 DEF Replies, Denied, LoginCmds, Cmds, TransferCmds
  <2>5. e.cmd \in LoginCmds => code \in {220, 230, 331, 530}
    BY <1>2 DEF Replies, LoginCmds, Cmds
  <2>6. srv.auth = 0 /\ e.cmd \notin LoginCmds => code = 530
    BY DEF Replies
  <2>7. QED
    BY <1>2, <2>1, <2>2, <2>3, <2>4, <2>5, <2>6
<1>5. dir \in Dirs
  <2>1. code = 250 => e.cmd \in {"cwd", "cdup"}
    BY <1>2 DEF Replies, LoginCmds, Denied, Cmds
  <2>2. srv.cwd \in Dirs /\ (e.cmd = "cwd" => e.arg \in Dirs)
    BY <1>2 DEF SrvState, Exchange
  <2>3. QED
    BY <2>1, <2>2, DirsAssumption
<1> HIDE DEF dir
<1>6. d \in Exchange /\ d.cmd = e.cmd /\ d.mark = e.mark /\ d.code = code
  BY <1>2, <1>4, <1>5 DEF Exchange, Args
<1>7. ftp' = [ftp EXCEPT !.wire = [ftp.wire EXCEPT ![i] = d]]
  BY <1>1, <1>2, ServedExchange DEF dir
<1>8. /\ srv'.auth = (IF code = 230 THEN 1 ELSE srv.auth)
      /\ srv'.conn = (IF code = 227 THEN "listen" ELSE srv.conn)
      /\ dwire' = dwire
  BY <1>1, <1>2, <1>3 DEF SrvState, TransferCmds
<1> HIDE DEF d
<1>9. Reworded(ftp, ftp', i, d)
  BY <1>2, <1>6, <1>7, ServedReworded
<1>10. srv'.auth = 0 => srv.auth = 0 /\ d.code \in {0, 220, 331, 530}
  BY <1>4, <1>6, <1>8
<1>11. srv'.auth = 1 => Polite(ftp'.wire)
  <2>1. CASE srv.auth = 1
    <3>1. Polite(ftp.wire)
      BY <1>2, <2>1 DEF Safe
    <3>2. d.cmd \notin LoginCmds \cup {"pasv", "port"} => d.code < 400
      BY <1>4, <1>6, <2>1
    <3>3. QED
      BY <1>9, <3>1, <3>2, RewordedAsks
  <2>2. CASE code = 230
    <3>1. e.cmd \in LoginCmds /\ ~Entered(ftp)
      BY <1>4, <2>2 DEF Entered, NoLogin
    <3>2. Len(ftp.wire) = 1
      <4>1. ftp.wire = << >> => Len(ftp.wire) = 0
        OBVIOUS
      <4>2. QED
        BY <1>2, <3>1, <4>1 DEF LoginOK, Entering
    <3>3. i = 1
      BY <3>2
    <3>4. Len(ftp'.wire) = 1 /\ ftp'.wire[1].cmd \in LoginCmds
      BY <1>6, <1>9, <3>1, <3>2, <3>3 DEF Reworded
    <3>5. QED
      BY <3>4 DEF Polite
  <2>3. QED
    BY <1>2, <1>8, <2>1, <2>2
<1>12. srv'.conn = srv.conn \/ (srv.conn # "open" /\ srv'.conn = "listen")
  <2>1. SUFFICES ASSUME code = 227 PROVE srv.conn # "open"
    BY <1>8
  <2>2. Asks(ftp.wire, "pasv")
    BY <1>4, <2>1 DEF Asks
  <2>3. QED
    BY <1>2, <2>2 DEF Safe, Channel, NoSock, Open
<1>13. srv'.auth \in {0, 1}
  BY <1>2, <1>8
<1>14. Safe(ftp', xfer, srv'.auth, srv'.conn, dwire) /\ (Behind(ftp) => Behind(ftp'))
  <2>1. Answers(ftp', d, srv.auth, srv.conn, srv'.auth, srv'.conn)
    BY <1>3, <1>6, <1>10, <1>11, <1>12, <1>13 DEF Answers
  <2>2. d.mark = ftp.wire[i].mark
    BY <1>6
  <2>3. QED
    BY <1>2, <1>9, <2>1, <2>2, RewordedSafe
<1>15. QED
  BY <1>2, <1>8, <1>14, OnceKept

\* The server opens a transfer.
LEMMA SrvBeginOnce ==
    ASSUME Upheld, NEW i \in 1..Len(ftp.wire), SrvBegin(i)
    PROVE  OnceInv'
<1> DEFINE e == ftp.wire[i]
           d == [e EXCEPT !.mark = "sent"]
<1>1. /\ IndInv /\ e \in Exchange /\ e.cmd \in {"list", "retr"} /\ e.code = 0
      /\ xfer' = xfer /\ pc' = pc /\ dwire' = dwire /\ srv \in SrvState
      /\ Safe(ftp, xfer, srv.auth, srv.conn, dwire)
      /\ (pc # "resume" => Behind(ftp))
  BY UpheldFacts, ServedExchange DEF Upheld, SrvBegin, Serving
<1>2. d \in Exchange /\ d.cmd = e.cmd /\ d.code = e.code
  BY <1>1 DEF Exchange
<1>3. ftp' = [ftp EXCEPT !.wire = [ftp.wire EXCEPT ![i] = d]]
  BY <1>1, ServedExchange DEF SrvBegin
<1>4. srv'.auth = srv.auth /\ srv'.conn = srv.conn
  BY <1>1 DEF SrvBegin, SrvState
<1> HIDE DEF d
<1>5. Reworded(ftp, ftp', i, d)
  BY <1>1, <1>2, <1>3, ServedReworded
<1>6. /\ NoneAsked(ftp.wire) => NoneAsked(ftp'.wire)
      /\ OneAsked(ftp.wire) => OneAsked(ftp'.wire)
      /\ \A c : Asks(ftp'.wire, c) => Asks(ftp.wire, c)
      /\ Unserved(ftp'.wire) <=> Unserved(ftp.wire)
      /\ Unserved(ftp.wire)
      /\ Polite(ftp.wire) => Polite(ftp'.wire)
  <2>1. d.code < 400
    BY <1>1, <1>2
  <2>2. Unserved(ftp.wire)
    BY <1>1 DEF Unserved
  <2>3. QED
    BY <1>2, <1>5, <2>1, <2>2, RewordedAsks
<1>7. srv.auth # 0
  BY <1>1, <1>6 DEF Safe, Channel, Stranger, NoSock, Open
<1>8. Channel(ftp', srv.conn, dwire)
  BY <1>1, <1>5, <1>6 DEF Safe, Channel, Reworded, Unmoved
<1>9. Lined(ftp') /\ (Behind(ftp) => Behind(ftp'))
  BY <1>1, <1>5 DEF Safe, Lined, Behind, Reworded, Unmoved
<1>10. Owned(ftp', xfer, dwire)
  BY <1>1, <1>5, <1>6 DEF Safe, Owned, Reworded, Unmoved
<1>11. Safe(ftp', xfer, srv'.auth, srv'.conn, dwire)
  BY <1>1, <1>4, <1>6, <1>7, <1>8, <1>9, <1>10 DEF Safe
<1>12. QED
  BY <1>1, <1>9, <1>11, OnceKept

\* The transfer the server is at is one the client asked for and has not ended.
LEMMA ServingOnce ==
    ASSUME Upheld, NEW i \in 1..Len(ftp.wire), Serving(i), ftp.wire[i].mark # "none"
    PROVE  /\ ftp.wire[i].cmd \in {"list", "retr"} /\ Unserved(ftp.wire)
           /\ srv.conn = "open" /\ ftp.data = Open /\ ftp.wait = << >> /\ srv.auth # 0
<1>1. /\ LoginOK(ftp) /\ Counted(ftp, dwire) /\ Channel(ftp, srv.conn, dwire)
      /\ Safe(ftp, xfer, srv.auth, srv.conn, dwire) /\ LoginInv
  BY UpheldFacts DEF LoginInv
<1>2. Entered(ftp)
  <2>1. SUFFICES ASSUME Entering(ftp) PROVE FALSE
    BY <1>1 DEF LoginOK
  <2>2. ftp.wire = << >> => Len(ftp.wire) = 0
    OBVIOUS
  <2>3. Len(ftp.wire) = 1 /\ ftp.wire[1].mark = "none"
    BY <2>1, <2>2 DEF Entering
  <2>4. i = 1
    BY <2>3
  <2>5. QED
    BY <2>3, <2>4
<1>3. ftp.wire[i].cmd \in {"list", "retr"} /\ Unserved(ftp.wire)
  BY <1>1, <1>2, MarkedUnserved
<1>4. srv.conn = "open" /\ ftp.data = Open
  BY <1>1, <1>3 DEF Channel
<1>5. ftp.wait = << >> /\ srv.auth # 0
  BY <1>1, <1>3, <1>4 DEF Safe, Channel, Stranger, NoneAsked, TransferCmds, NoSock, Open
<1>6. QED
  BY <1>3, <1>4, <1>5

\* A packet of it.
LEMMA SrvChunkOnce ==
    ASSUME Upheld, NEW i \in 1..Len(ftp.wire), SrvChunk(i)
    PROVE  OnceInv'
<1>1. /\ ftp' = ftp /\ xfer' = xfer /\ pc' = pc /\ dwire' = Append(dwire, srv.src)
      /\ dwire \in Seq(Sources \cup {Eof}) /\ srv.src \in Sources /\ srv \in SrvState
      /\ Safe(ftp, xfer, srv.auth, srv.conn, dwire)
      /\ (pc # "resume" => Behind(ftp))
  BY UpheldFacts DEF SrvChunk, Upheld, IndInv, TypeOK, SrvState
<1>2. /\ Unserved(ftp.wire) /\ srv.conn = "open" /\ ftp.data = Open /\ ftp.wait = << >>
      /\ srv.auth # 0
  BY ServingOnce DEF SrvChunk
<1>3. srv'.auth = srv.auth /\ srv'.conn = srv.conn
  BY <1>1 DEF SrvChunk, SrvState
<1>4. Ended(dwire') => Ended(dwire)
  <2>1. srv.src # Eof
    <3>1. Len(srv.src) = 2 /\ Len(Eof) = 1 /\ 2 # 1
      BY <1>1 DEF Sources, Eof
    <3>2. QED
      BY Zenon, <3>1
  <2>2. Len(dwire') = Len(dwire) + 1 /\ dwire'[Len(dwire) + 1] = srv.src
        /\ Len(dwire) \in Nat
        /\ \A j \in 1..Len(dwire) : dwire'[j] = dwire[j]
    BY <1>1
  <2>3. QED
    BY <2>1, <2>2 DEF Ended
<1>5. Channel(ftp, srv.conn, dwire')
  BY <1>1, <1>2, <1>4 DEF Safe, Channel, NoSock, Open
<1>6. Owned(ftp, xfer, dwire')
  BY <1>1, <1>2 DEF Safe, Owned
<1>7. Safe(ftp', xfer, srv'.auth, srv'.conn, dwire')
  BY <1>1, <1>3, <1>5, <1>6 DEF Safe
<1>8. QED
  BY <1>1, <1>7, OnceKept

\* A server that ends what it began closes the data connection with a 226.
LEMMA SrvFinishOnce ==
    ASSUME Upheld, NEW i \in 1..Len(ftp.wire), SrvFinish(i), "abort" \notin Env
    PROVE  OnceInv'
<1> DEFINE e == ftp.wire[i]
           d == [e EXCEPT !.code = 226]
<1>1. /\ IndInv /\ e \in Exchange /\ xfer' = xfer /\ pc' = pc /\ srv \in SrvState
      /\ dwire \in Seq(Sources \cup {Eof})
      /\ Safe(ftp, xfer, srv.auth, srv.conn, dwire)
      /\ (pc # "resume" => Behind(ftp))
  BY UpheldFacts, ServedExchange DEF Upheld, SrvFinish, IndInv, TypeOK
<1>2. /\ e.cmd \in {"list", "retr"} /\ Unserved(ftp.wire)
      /\ srv.conn = "open" /\ ftp.data = Open /\ ftp.wait = << >> /\ srv.auth # 0
  BY ServingOnce DEF SrvFinish
<1>3. d \in Exchange /\ d.cmd = e.cmd /\ d.mark = e.mark /\ d.code = 226
  BY <1>1 DEF Exchange, Codes
<1>4. ftp' = [ftp EXCEPT !.wire = [ftp.wire EXCEPT ![i] = d]]
  BY <1>1, <1>2, ServedExchange DEF SrvFinish
<1>5. /\ srv'.auth = srv.auth /\ srv'.conn = "none" /\ dwire' = Append(dwire, Eof)
  BY <1>1, <1>2 DEF SrvFinish, SrvState
<1> HIDE DEF d
<1>6. Reworded(ftp, ftp', i, d)
  BY <1>1, <1>3, <1>4, ServedReworded
<1>7. /\ OneAsked(ftp.wire) => OneAsked(ftp'.wire)
      /\ \A c : Asks(ftp'.wire, c) => Asks(ftp.wire, c)
      /\ Polite(ftp.wire) => Polite(ftp'.wire)
  BY <1>3, <1>6, RewordedAsks
<1>8. ~Unserved(ftp'.wire)
  <2>1. SUFFICES ASSUME NEW j \in 1..Len(ftp'.wire), ftp'.wire[j].cmd \in {"list", "retr"},
                        ftp'.wire[j].code = 0
                 PROVE  FALSE
    BY DEF Unserved
  <2>2. j # i
    BY <1>3, <1>6, <2>1 DEF Reworded
  <2>3. j \in 1..Len(ftp.wire) /\ ftp.wire[j].cmd \in {"list", "retr"}
    BY <1>6, <2>1, <2>2 DEF Reworded
  <2>4. QED
    BY <1>1, <1>2, <2>2, <2>3 DEF Safe, Channel, OneAsked, TransferCmds
<1>9. Ended(dwire')
  <2>1. Len(dwire) + 1 \in 1..Len(dwire') /\ dwire'[Len(dwire) + 1] = Eof
    BY <1>1, <1>5
  <2>2. QED
    BY <2>1 DEF Ended
<1>10. Channel(ftp', "none", dwire')
  <2>1. ftp'.data = Open /\ ftp'.wait = << >> /\ Open # NoSock /\ ftp'.cproc = ftp.cproc
    BY <1>2, <1>6 DEF Reworded, Unmoved, NoSock, Open
  <2>2. Channel(ftp, srv.conn, dwire)
    BY <1>1 DEF Safe
  <2>3. QED
    BY <1>2, <1>7, <1>8, <1>9, <2>1, <2>2 DEF Channel
<1>11. Lined(ftp') /\ (Behind(ftp) => Behind(ftp'))
  BY <1>1, <1>6 DEF Safe, Lined, Behind, Reworded, Unmoved
<1>12. Owned(ftp', xfer, dwire')
  BY <1>1, <1>2, <1>6 DEF Safe, Owned, Reworded, Unmoved
<1>13. Safe(ftp', xfer, srv'.auth, srv'.conn, dwire')
  BY <1>1, <1>2, <1>5, <1>7, <1>10, <1>11, <1>12 DEF Safe
<1>14. QED
  BY <1>1, <1>11, <1>13, OnceKept

\* A server that ends what it began, and ends it once.
LEMMA ServerOnce ==
    ASSUME Upheld, Server,
           Env \cap {"idle421", "dataclose", "reject", "abort"} = {}
    PROVE  OnceInv'
<1>1. CASE SrvAnswer
  BY <1>1, SrvReplyOnce, SrvBeginOnce, SrvChunkOnce, SrvFinishOnce DEF SrvAnswer
<1>2. CASE SrvDrop
  <2>1. ftp' = ftp /\ xfer' = xfer /\ dwire' = dwire /\ pc' = pc
        /\ srv'.auth = srv.auth /\ srv'.conn = srv.conn
    BY <1>2, UpheldFacts DEF SrvDrop, SrvState
  <2>2. QED
    BY <2>1, UpheldFacts, OnceKept
<1>3. QED
  BY <1>1, <1>2 DEF Server, SrvIdle, SrvDataClose

\* what a final reply leaves: the data connection as it was, none, or a new one
Replied(f, g, xf, auth, conn, dw) ==
    /\ Behind(g)
    /\ \/ g.data = f.data /\ f.cproc # "pasv" /\ Safe(g, xf, auth, conn, dw)
       \/ g.data = NoSock /\ \A c : c # "open" => Safe(g, xf, auth, c, << >>)
       \/ g.data = Open /\ f.cproc = "pasv" /\ Safe(g, xf, auth, "open", << >>)

LEMMA AnsweredStill ==
    ASSUME NEW f, Sound(f), NEW g, g = Answered(f)
    PROVE  Still(f, g)
<1>1. f \in FtpState
  BY DEF Sound
<1>2. QED
  BY <1>1 DEF Answered, FtpState, Still

LEMMA AnsweredReplied ==
    ASSUME NEW f, NEW h, Sound(h), h.data = f.data, f.cproc # "pasv", Behind(h),
           NEW xf, NEW auth, NEW conn, NEW dw, Safe(h, xf, auth, conn, dw),
           NEW g, g = Answered(h)
    PROVE  Replied(f, g, xf, auth, conn, dw)
<1>1. Still(h, g)
  BY AnsweredStill
<1>2. Safe(g, xf, auth, conn, dw) /\ Behind(g)
  BY <1>1, StillSafe
<1>3. QED
  BY <1>1, <1>2 DEF Replied, Still

\* The next step of the login.
LEMMA LoginSends ==
    ASSUME NEW f, Sound(f), f.wire = << >>, f.wait = << >>, NEW g,
           Adds(f.wire, g.wire, {"user", "pass"}), Unmoved(f, g),
           g.ctl = f.ctl, g.queue = f.queue, g.dirent = f.dirent,
           g.cproc = f.cproc, g.dproc = f.dproc, g.cls = f.cls,
           NEW xf, NEW auth, NEW conn, NEW dw, Safe(f, xf, auth, conn, dw)
    PROVE  Safe(g, xf, auth, conn, dw) /\ Behind(g)
<1>1. /\ NoneAsked(f.wire) /\ Polite(f.wire) /\ Dismissed(f.wire) /\ ~Marked(f.wire)
      /\ ~Unserved(f.wire) /\ ~Asks(f.wire, "pasv") /\ ~Asks(f.wire, "port")
  BY NothingAsked
<1>2. f.wire \in Seq(Exchange)
  BY DEF Sound, FtpState
<1>3. /\ OneAsked(g.wire) /\ Polite(g.wire) /\ Dismissed(g.wire) /\ ~Marked(g.wire)
      /\ ~Unserved(g.wire) /\ NoneAsked(g.wire)
      /\ ~Asks(g.wire, "pasv") /\ ~Asks(g.wire, "port")
  <2> DEFINE cmds == {"user", "pass"}
  <2>1. cmds \cap TransferCmds = {} /\ "pasv" \notin cmds /\ "port" \notin cmds
    BY DEF TransferCmds
  <2>2. Adds(f.wire, g.wire, cmds)
    OBVIOUS
  <2> HIDE DEF cmds
  <2>3. /\ OneAsked(g.wire) /\ (Polite(f.wire) => Polite(g.wire))
        /\ (Dismissed(f.wire) => Dismissed(g.wire))
        /\ Marked(g.wire) => Marked(f.wire)
        /\ \A c : Asks(g.wire, c) => Asks(f.wire, c) \/ c \in cmds
        /\ cmds \cap TransferCmds = {} => NoneAsked(g.wire) /\ ~Unserved(g.wire)
    BY <1>1, <1>2, <2>2, AddsOne
  <2>4. QED
    BY <1>1, <2>1, <2>3
<1>4. Channel(g, conn, dw)
  BY <1>1, <1>3 DEF Safe, Channel, Unmoved
<1>5. Stranger(f) => Stranger(g)
  BY <1>3 DEF Stranger, Unmoved
<1>6. Lined(g) /\ Behind(g)
  BY DEF Safe, Lined, Behind, Unmoved
<1>7. Owned(g, xf, dw)
  BY <1>1, <1>3 DEF Safe, Owned, Unmoved
<1>8. QED
  BY <1>3, <1>4, <1>5, <1>6, <1>7 DEF Safe

\* What newconn queues after the login.
LEMMA NewConnSafe ==
    ASSUME NEW f, Sound(f), LoginOK(f), NoGreet(f), f.wait = << >>, NEW dw, Counted(f, dw),
           NEW xf, NEW auth, auth # 0, NEW conn, Safe(f, xf, auth, conn, dw), NEW sk,
           NEW g, g = NewConn(f, sk)
    PROVE  Safe(g, xf, auth, conn, dw) /\ Behind(g) /\ g.data = f.data
<1> DEFINE ty == Op("TYPE", NoArg)
           pw == Op("PWD", NoArg)
           li == Op("LIST", NoArg)
           a == FtpQueue(f, ty, sk)
           b == FtpQueue(a, pw, sk)
           c == FtpQueue(b, li, sk)
<1>1. /\ ty \in FtpOp /\ pw \in FtpOp /\ li \in FtpOp
      /\ ty.op \notin DataOps /\ ty.op # "XFER" /\ pw.op \notin DataOps /\ pw.op # "XFER"
      /\ li.op # "XFER" /\ g = c
  BY OpTypes DEF Op, DataOps, NewConn
<1> HIDE DEF ty, pw, li, a, b, c
<1>2. /\ Safe(a, xf, auth, conn, dw) /\ a.data = f.data /\ a.wait = << >>
      /\ Sound(a) /\ LoginOK(a) /\ NoGreet(a) /\ Counted(a, dw)
  <2>1. /\ Safe(a, xf, auth, conn, dw) /\ a.data = f.data
        /\ ty.op \notin DataOps => a.wait = << >> /\ Follows(a.queue)
    BY <1>1, QueueSafe DEF a
  <2>2. Sound(a) /\ LoginOK(a) /\ NoGreet(a) /\ Counted(a, dw)
    BY <1>1, FtpQueueLogin, FtpQueueCounted DEF a
  <2>3. QED
    BY <1>1, <2>1, <2>2
<1>3. /\ Safe(b, xf, auth, conn, dw) /\ b.data = a.data /\ b.wait = << >>
      /\ Sound(b) /\ LoginOK(b) /\ NoGreet(b) /\ Counted(b, dw) /\ Follows(b.queue)
  <2>1. /\ Safe(b, xf, auth, conn, dw) /\ b.data = a.data
        /\ pw.op \notin DataOps => b.wait = << >> /\ Follows(b.queue)
    BY <1>1, <1>2, QueueSafe DEF b
  <2>2. Sound(b) /\ LoginOK(b) /\ NoGreet(b) /\ Counted(b, dw)
    BY <1>1, <1>2, FtpQueueLogin, FtpQueueCounted DEF b
  <2>3. QED
    BY <1>1, <2>1, <2>2
<1>4. Safe(c, xf, auth, conn, dw) /\ Behind(c) /\ c.data = b.data
  BY <1>1, <1>3, QueueSafe DEF c
<1>5. QED
  BY <1>1, <1>2, <1>3, <1>4

\* A reply before any operation set cproc.
LEMMA LoginReplied ==
    ASSUME NEW f, Sound(f), Entering(f), f.wire = << >>, NEW dw,
           NEW xf, NEW auth, NEW conn, Safe(f, xf, auth, conn, dw),
           NEW code, code = 230 => auth # 0, NEW sk, NEW g, g = Login(f, code, sk)
    PROVE  Replied(f, g, xf, auth, conn, dw)
<1> DEFINE h == [f EXCEPT !.busy = 0]
<1>1. /\ Sound(h) /\ h.wire = << >> /\ h.busy = 0 /\ h.cproc = f.cproc /\ Same(f, h)
  BY SetField
<1>2. Still(f, h)
  BY DEF Sound, FtpState, Still
<1> HIDE DEF h
<1>3. /\ Safe(h, xf, auth, conn, dw) /\ h.wait = << >> /\ h.data = f.data
      /\ f.cproc = "none" /\ f.cproc # "pasv" /\ Behind(h)
  BY <1>2, StillSafe DEF Still, Entering, Behind
<1>4. LoginOK(h) /\ NoGreet(h) /\ Counted(h, dw)
  <2>1. Len(<< >>) = 0
    OBVIOUS
  <2>2. Len(h.wire) = 0
    BY <1>1, <2>1
  <2>3. QED
    BY <1>1, <1>3, <2>2 DEF LoginOK, Entering, NoGreet, Same, Counted, Entered
<1>5. ASSUME NEW cmd \in {"user", "pass"}, g = SendCmd(h, cmd, NoArg, NoXfer)
      PROVE  Replied(f, g, xf, auth, conn, dw)
  <2>1. /\ cmd \in Cmds /\ NoArg \in Args /\ NoXfer \in Xfers \cup {NoXfer}
        /\ cmd # "retr" /\ cmd # "cwd"
    BY <1>5 DEF Cmds, Args
  <2> DEFINE cmds == {"user", "pass"}
  <2>2. cmd \in cmds
    BY <1>5
  <2> HIDE DEF cmds
  <2>3. /\ Adds(h.wire, g.wire, cmds) /\ Unmoved(h, g)
        /\ g.ctl = h.ctl /\ g.queue = h.queue /\ g.dirent = h.dirent
        /\ g.cproc = h.cproc /\ g.dproc = h.dproc /\ g.cls = h.cls
    BY <1>1, <1>5, <2>1, <2>2, SendCmdAdds
  <2>4. Adds(h.wire, g.wire, {"user", "pass"})
    BY <2>3 DEF cmds
  <2>5. Safe(g, xf, auth, conn, dw) /\ Behind(g)
    BY <1>1, <1>3, <2>3, <2>4, LoginSends
  <2>6. QED
    BY <1>3, <2>3, <2>5 DEF Replied, Unmoved
<1>6. CASE code = 230
  <2>1. g = NewConn(h, sk)
    BY <1>6 DEF Login, h
  <2>2. Safe(g, xf, auth, conn, dw) /\ Behind(g) /\ g.data = h.data
    BY <1>1, <1>3, <1>4, <1>6, <2>1, NewConnSafe
  <2>3. QED
    BY <1>3, <2>2 DEF Replied
<1>7. CASE code = 530
  <2>1. g = [h EXCEPT !.status = "DISC"]
    BY <1>7 DEF Login, h
  <2>2. Still(h, g)
    BY <1>1, <2>1 DEF Sound, FtpState, Still
  <2>3. QED
    BY <1>3, <2>2, StillSafe DEF Replied, Still
<1>8. CASE code = 220 \/ code = 331
  <2>1. g = SendCmd(h, "user", NoArg, NoXfer) \/ g = SendCmd(h, "pass", NoArg, NoXfer)
    BY <1>8 DEF Login, h
  <2>2. QED
    BY <1>5, <2>1
<1>9. CASE code \notin {220, 331, 230, 530}
  <2>1. g = h
    BY <1>9 DEF Login, h
  <2>2. QED
    BY <1>3, <2>1 DEF Replied
<1>10. QED
  BY <1>6, <1>7, <1>8, <1>9

\* The reply to port: a refused one closes the session.
LEMMA ActiveReplied ==
    ASSUME NEW f, Sound(f), f.cproc = "active", ~Unserved(f.wire), Behind(f), NEW dw,
           NEW xf, NEW auth, NEW conn, Safe(f, xf, auth, conn, dw),
           NEW code, NEW g, g = CprocActive(f, code)
    PROVE  Replied(f, g, xf, auth, conn, dw)
<1>1. CASE code = 200
  <2> DEFINE h == [f EXCEPT !.status = "ACT"]
  <2>1. Sound(h)
    BY SetField
  <2>2. Still(f, h)
    BY DEF Sound, FtpState, Still
  <2>3. g = Answered(h)
    BY <1>1 DEF CprocActive
  <2> HIDE DEF h
  <2>4. Safe(h, xf, auth, conn, dw) /\ Behind(h) /\ h.data = f.data
    BY <2>2, StillSafe DEF Still
  <2>5. QED
    BY <2>1, <2>3, <2>4, AnsweredReplied
<1>2. CASE code # 200
  <2> DEFINE h == FtpClose(f)
  <2>1. Sound(h) /\ h.wire = f.wire /\ h.cproc = f.cproc /\ h.lis = NoSock
        /\ h.data = NoSock /\ h.wait = f.wait
    BY SetField
  <2>2. /\ h.ctl = NoSock /\ h.queue = f.queue /\ h.dproc = f.dproc /\ h.cls = f.cls
        /\ h.dirent = f.dirent
    BY DEF Sound, FtpState, FtpClose
  <2>3. g = Answered(h)
    BY <1>2 DEF CprocActive
  <2> HIDE DEF h
  <2>4. Still(h, g)
    BY <2>1, <2>3, AnsweredStill
  <2>5. Within(h.wire, f.wire)
    BY <2>1 DEF Within
  <2>6. ASSUME NEW c, c # "open" PROVE Safe(h, xf, auth, c, << >>) /\ Behind(h)
    BY <2>1, <2>2, <2>5, <2>6, ClosedSafe
  <2>7. ASSUME NEW c, c # "open" PROVE Safe(g, xf, auth, c, << >>) /\ Behind(g)
    BY <2>4, <2>6, <2>7, StillSafe
  <2>8. "none" # "open"
    OBVIOUS
  <2>9. Behind(g) /\ g.data = NoSock
    BY <2>1, <2>4, <2>7, <2>8 DEF Still
  <2>10. QED
    BY <2>7, <2>9 DEF Replied
<1>3. QED
  BY <1>1, <1>2

\* The reply to pasv opens the data connection, or gives passive mode up.
LEMMA PasvReplied ==
    ASSUME NEW f, Sound(f), f.cproc = "pasv", f.wire = << >>, f.ctl = Open, Behind(f),
           NEW dw, NEW xf, NEW auth, NEW conn, Safe(f, xf, auth, conn, dw),
           NEW code, NEW cn, NEW sk, NEW g, g = CprocPasv(f, code, cn, sk)
    PROVE  Replied(f, g, xf, auth, conn, dw)
<1>1. /\ NoneAsked(f.wire) /\ OneAsked(f.wire) /\ Polite(f.wire) /\ ~Marked(f.wire)
      /\ ~Unserved(f.wire) /\ ~Asks(f.wire, "pasv") /\ ~Asks(f.wire, "port")
  BY NothingAsked
<1>2. auth # 0 /\ NoSock # Open /\ ~Ended(<< >>)
  BY DEF Safe, Stranger, NoSock, Open, Ended
<1>3. CASE code = 227 /\ cn = "ok"
  <2> DEFINE h == [f EXCEPT !.data = Open, !.status = "PASV"]
  <2>1. Sound(h) /\ h.wire = f.wire /\ h.cproc = f.cproc /\ h.lis = f.lis
        /\ h.data = Open /\ h.wait = f.wait
    BY SetField
  <2>2. /\ h.ctl = f.ctl /\ h.queue = f.queue /\ h.dproc = f.dproc /\ h.cls = f.cls
        /\ h.dirent = f.dirent
    BY DEF Sound, FtpState
  <2>3. g = Answered(h)
    BY <1>3 DEF CprocPasv
  <2> HIDE DEF h
  <2>4. Channel(h, "open", << >>)
    BY <1>1, <1>2, <2>1, <2>2 DEF Channel
  <2>5. Lined(h) /\ Behind(h)
    BY <2>1, <2>2 DEF Safe, Lined, Behind
  <2>6. Owned(h, xf, << >>)
    BY <1>1, <2>1, <2>2 DEF Safe, Owned
  <2>7. Safe(h, xf, auth, "open", << >>)
    BY <1>1, <1>2, <2>1, <2>4, <2>5, <2>6 DEF Safe
  <2>8. Still(h, g)
    BY <2>1, <2>3, AnsweredStill
  <2>9. Safe(g, xf, auth, "open", << >>) /\ Behind(g)
    BY <2>5, <2>7, <2>8, StillSafe
  <2>10. QED
    BY <2>1, <2>8, <2>9 DEF Replied, Still
<1>4. CASE ~(code = 227 /\ cn = "ok")
  <2> DEFINE k == [f EXCEPT !.passive = 0]
             h == FtpActive(k, sk)
  <2>1. Sound(k)
    BY SetField
  <2>2. Still(f, k)
    BY DEF Sound, FtpState, Still
  <2>3. g = Answered(h)
    BY <1>4 DEF CprocPasv
  <2> HIDE DEF k
  <2>4. /\ Sound(h) /\ h.data = NoSock /\ h.wait = k.wait /\ h.dproc = k.dproc
        /\ h.cls = k.cls /\ h.ctl = k.ctl /\ h.queue = k.queue /\ h.dirent = k.dirent
        /\ \/ Adds(k.wire, h.wire, {"port"}) /\ h.cproc = "active"
           \/ h.wire = k.wire /\ h.cproc = k.cproc
    BY <2>1, FtpActiveListens
  <2> HIDE DEF h
  <2>5. /\ h.data = NoSock /\ h.wait = f.wait /\ h.dproc = f.dproc
        /\ h.cls = f.cls /\ h.ctl = f.ctl /\ h.queue = f.queue /\ h.dirent = f.dirent
        /\ \/ Adds(f.wire, h.wire, {"port"}) /\ h.cproc = "active"
           \/ h.wire = f.wire /\ h.cproc = f.cproc
    BY <2>2, <2>4 DEF Still
  <2>6. /\ OneAsked(h.wire) /\ NoneAsked(h.wire) /\ Polite(h.wire) /\ ~Marked(h.wire)
        /\ ~Unserved(h.wire) /\ ~Asks(h.wire, "pasv")
        /\ Asks(h.wire, "port") => h.cproc = "active"
        /\ h.cproc # "xfer"
    <3>1. CASE h.wire = f.wire /\ h.cproc = f.cproc
      BY <1>1, <3>1
    <3>2. CASE Adds(f.wire, h.wire, {"port"}) /\ h.cproc = "active"
      <4> DEFINE cmds == {"port"}
      <4>1. cmds \cap TransferCmds = {} /\ "pasv" \notin cmds
        BY DEF TransferCmds
      <4>2. Adds(f.wire, h.wire, cmds) /\ f.wire \in Seq(Exchange)
        BY <3>2 DEF Sound, FtpState
      <4> HIDE DEF cmds
      <4>3. /\ OneAsked(h.wire) /\ (Polite(f.wire) => Polite(h.wire))
            /\ Marked(h.wire) => Marked(f.wire)
            /\ \A c : Asks(h.wire, c) => Asks(f.wire, c) \/ c \in cmds
            /\ cmds \cap TransferCmds = {} => NoneAsked(h.wire) /\ ~Unserved(h.wire)
        BY <1>1, <4>2, AddsOne
      <4>4. QED
        BY <1>1, <3>2, <4>1, <4>3
    <3>3. QED
      BY <2>5, <3>1, <3>2
  <2>7. ASSUME NEW c, c # "open" PROVE Safe(h, xf, auth, c, << >>)
    <3>1. Channel(h, c, << >>)
      BY <1>2, <2>5, <2>6, <2>7 DEF Channel
    <3>2. Lined(h)
      BY <2>5 DEF Safe, Lined
    <3>3. Owned(h, xf, << >>)
      BY <2>5, <2>6 DEF Safe, Owned
    <3>4. QED
      BY <1>2, <2>6, <3>1, <3>2, <3>3 DEF Safe
  <2>8. Still(h, g) /\ Behind(h)
    BY <2>3, <2>4, <2>5, AnsweredStill DEF Behind
  <2>9. ASSUME NEW c, c # "open" PROVE Safe(g, xf, auth, c, << >>)
    BY <2>7, <2>8, <2>9, StillSafe
  <2>10. Behind(g) /\ g.data = NoSock
    BY <2>5, <2>8 DEF Still, Behind
  <2>11. QED
    BY <2>9, <2>10 DEF Replied
<1>5. QED
  BY <1>3, <1>4

\* The reply to a change of directory asks for the listing.
LEMMA CwdReplied ==
    ASSUME NEW f, Sound(f), Entered(f), f.cproc = "cwd", f.wait = << >>, Behind(f),
           NEW dw, Counted(f, dw),
           NEW xf, NEW auth, NEW conn, Safe(f, xf, auth, conn, dw),
           NEW code, code = 250 => auth # 0, NEW sk, NEW g, g = CprocCwd(f, code, sk)
    PROVE  Replied(f, g, xf, auth, conn, dw)
<1>1. CASE code # 250
  <2>1. g = Answered(f)
    BY <1>1 DEF CprocCwd
  <2>2. QED
    BY <2>1, AnsweredReplied
<1>2. CASE code = 250
  <2> DEFINE pw == Op("PWD", NoArg)
             li == Op("LIST", NoArg)
             a == FtpQueue(f, pw, sk)
             b == FtpQueue(a, li, sk)
  <2>1. /\ pw \in FtpOp /\ li \in FtpOp /\ pw.op \notin DataOps /\ pw.op # "XFER"
        /\ li.op # "XFER" /\ g = Answered(b)
    BY <1>2, OpTypes DEF Op, DataOps, CprocCwd
  <2>2. LoginOK(f) /\ NoGreet(f)
    BY DEF LoginOK, Entered, NoLogin, NoGreet, LoginCmds
  <2> HIDE DEF pw, li, a, b
  <2>3. /\ Safe(a, xf, auth, conn, dw) /\ a.data = f.data
        /\ pw.op \notin DataOps => a.wait = << >> /\ Follows(a.queue)
    BY <2>1, <2>2, QueueSafe DEF a
  <2>4. Sound(a) /\ LoginOK(a) /\ NoGreet(a) /\ Counted(a, dw)
    BY <2>1, <2>2, FtpQueueLogin, FtpQueueCounted DEF a
  <2>5. a.wait = << >> /\ Follows(a.queue)
    BY <2>1, <2>3
  <2>6. Safe(b, xf, auth, conn, dw) /\ Behind(b) /\ b.data = a.data
    BY <1>2, <2>1, <2>3, <2>4, <2>5, QueueSafe DEF b
  <2>7. Sound(b)
    BY <2>1, <2>4, FtpQueueLogin DEF b
  <2>8. b.data = f.data
    BY <2>3, <2>6
  <2>9. QED
    BY <2>1, <2>6, <2>7, <2>8, AnsweredReplied
<1>3. QED
  BY <1>1, <1>2

\* The callback of a final reply.
LEMMA ProcReplied ==
    ASSUME NEW f, Sound(f), LoginOK(f), f.cproc = "none" => f.wire = << >>,
           f.cproc = "pasv" => f.wire = << >>,
           f.cproc # "active" => f.ctl = Open, f.cproc = "cwd" => f.wait = << >>,
           Behind(f), NEW dw, Counted(f, dw),
           NEW xf, NEW auth, NEW conn, Safe(f, xf, auth, conn, dw),
           NEW code \in Int, code >= 200, code \in {230, 250} => auth # 0,
           NEW dir \in Args, NEW cn, NEW sk, NEW g, g = ProcControl(f, code, dir, cn, sk)
    PROVE  Replied(f, g, xf, auth, conn, dw)
<1>1. f.cproc \in Cprocs /\ (f.cproc # "none" => Entered(f)) /\ (f.cproc = "none" => Entering(f))
  BY DEF Sound, FtpState, LoginOK, Entering, Entered
<1>2. CASE f.cproc = "none"
  <2>1. g = Login(f, code, sk) /\ Entering(f) /\ f.wire = << >> /\ (code = 230 => auth # 0)
    BY <1>1, <1>2 DEF ProcControl
  <2>2. QED
    BY <2>1, LoginReplied
<1>3. CASE f.cproc = "active"
  <2>1. g = CprocActive(f, code)
    BY <1>3 DEF ProcControl
  <2>2. ~Unserved(f.wire)
    BY <1>1, <1>3 DEF Counted, Marks, Unserved
  <2>3. QED
    BY <1>3, <2>1, <2>2, ActiveReplied
<1>4. CASE f.cproc = "pasv"
  <2>1. g = CprocPasv(f, code, cn, sk) /\ f.wire = << >> /\ f.ctl = Open
    BY <1>4 DEF ProcControl
  <2>2. QED
    BY <1>4, <2>1, PasvReplied
<1>5. CASE f.cproc = "pwd"
  <2>1. CASE code # 257
    <3>1. g = Answered(f)
      BY <1>5, <2>1 DEF ProcControl, CprocPwd
    <3>2. QED
      BY <1>5, <3>1, AnsweredReplied
  <2>2. CASE code = 257
    <3> DEFINE h == [f EXCEPT !.curdir = dir]
    <3>1. Sound(h)
      BY SetCurdir
    <3>2. Still(f, h)
      BY DEF Sound, FtpState, Still
    <3>3. g = Answered(h)
      BY <1>5, <2>2 DEF ProcControl, CprocPwd
    <3> HIDE DEF h
    <3>4. Safe(h, xf, auth, conn, dw) /\ Behind(h) /\ h.data = f.data
      BY <3>2, StillSafe DEF Still
    <3>5. QED
      BY <1>5, <3>1, <3>3, <3>4, AnsweredReplied
  <2>3. QED
    BY <2>1, <2>2
<1>6. CASE f.cproc = "cwd"
  <2>1. g = CprocCwd(f, code, sk) /\ f.wait = << >> /\ Entered(f) /\ (code = 250 => auth # 0)
    BY <1>1, <1>6 DEF ProcControl
  <2>2. QED
    BY <1>6, <2>1, CwdReplied
<1>7. CASE f.cproc \in {"list", "xfer"}
  <2>1. g = Answered(f) /\ f.cproc # "pasv"
    BY <1>7 DEF ProcControl, CprocTransfer
  <2>2. QED
    BY <2>1, AnsweredReplied
<1>8. QED
  BY <1>1, <1>2, <1>3, <1>4, <1>5, <1>6, <1>7 DEF Cprocs

\* The server sees the data connection a reply opened or closed.
LEMMA RepliedOnce ==
    ASSUME Upheld, xfer' = xfer, NEW f, Sound(f),
           Safe(f, xfer, srv.auth, srv.conn, dwire),
           Replied(f, ftp', xfer, srv.auth, srv.conn, dwire),
           LinkData(f, ftp', f.cproc = "pasv")
    PROVE  OnceInv'
<1> DEFINE fresh == f.cproc = "pasv"
<1>1. fresh \in BOOLEAN /\ LinkData(f, ftp', fresh) /\ (fresh <=> f.cproc = "pasv")
  OBVIOUS
<1> HIDE DEF fresh
<1>2. /\ srv'.auth = srv.auth
      /\ ftp'.data = NoSock => srv'.conn # "open" /\ dwire' = << >>
      /\ ftp'.data = Open /\ (f.data = NoSock \/ fresh) =>
            srv'.conn = "open" /\ dwire' = << >>
      /\ ftp'.data = f.data /\ ~fresh => srv' = srv /\ dwire' = dwire
  <2>1. srv \in SrvState /\ f.data \in {NoSock, Open} /\ Channel(f, srv.conn, dwire)
    BY UpheldFacts DEF Sound, FtpState, Safe
  <2>2. QED
    BY <1>1, <2>1, LinkMoves
<1>3. Behind(ftp') /\ NoSock # Open
  BY DEF Replied, NoSock, Open
<1>4. CASE ftp'.data = f.data /\ f.cproc # "pasv"
           /\ Safe(ftp', xfer, srv.auth, srv.conn, dwire)
  BY <1>1, <1>2, <1>3, <1>4, OnceKept
<1>5. CASE ftp'.data = NoSock /\ \A c : c # "open" => Safe(ftp', xfer, srv.auth, c, << >>)
  <2>1. srv'.conn # "open" /\ dwire' = << >> /\ srv'.auth = srv.auth
    BY <1>2, <1>5
  <2>2. Safe(ftp', xfer, srv'.auth, srv'.conn, dwire')
    BY <1>5, <2>1
  <2>3. QED
    BY <1>3, <2>2, OnceKept
<1>6. CASE ftp'.data = Open /\ f.cproc = "pasv"
           /\ Safe(ftp', xfer, srv.auth, "open", << >>)
  <2>1. srv'.conn = "open" /\ dwire' = << >> /\ srv'.auth = srv.auth
    BY <1>1, <1>2, <1>6
  <2>2. QED
    BY <1>3, <1>6, <2>1, OnceKept
<1>7. QED
  BY <1>4, <1>5, <1>6 DEF Replied

\* The preliminary reply of a transfer under way.
LEMMA PrelimOnce ==
    ASSUME Upheld, NEW f, NEW dir, NEW conn, NEW sk, LineOutcome(f, 150, dir, conn, sk),
           CtlLine
    PROVE  OnceInv'
<1>1. /\ Sound(ftp) /\ LoginOK(ftp) /\ Counted(ftp, dwire) /\ pc' = "ctl"
      /\ Safe(ftp, xfer, srv.auth, srv.conn, dwire) /\ Behind(ftp)
      /\ xfer \in [Xfers -> Transfer] /\ NoUseAfterFree /\ ftp.wire \in Seq(Exchange)
  BY UpheldFacts DEF CtlLine, InControl, AtSelect, Upheld, IndInv, TypeOK, OnceInv
<1>2. /\ Sound(f) /\ f.cproc = ftp.cproc /\ f.queue = ftp.queue /\ f.ctl = ftp.ctl
      /\ Same(ftp, f) /\ f.dproc = ftp.dproc /\ f.cls = ftp.cls /\ f.dirent = ftp.dirent
      /\ ftp.wire # << >> /\ ftp.wire[1].mark = "sent" /\ Len(f.wire) = Len(ftp.wire)
      /\ \A i \in 1..Len(ftp.wire) :
            /\ f.wire[i].cmd = ftp.wire[i].cmd
            /\ f.wire[i].code = ftp.wire[i].code
            /\ f.wire[i].mark = IF i = 1 THEN "read" ELSE ftp.wire[i].mark
      /\ \/ ftp' = ProcControl(f, 150, dir, conn, sk)
         \/ f.cproc = "xfer" /\ ftp' = [f EXCEPT !.fault = "crash"]
      /\ LinkData(f, ftp', f.cproc = "pasv")
      /\ xfer' = IF ftp.cproc = "xfer" THEN UseXfer(ftp.cls, EndsXfer(150)) ELSE xfer
  BY DEF LineOutcome, Codes
<1>3. 1 \in 1..Len(ftp.wire) /\ Marked(ftp.wire)
  <2>1. 1 \in 1..Len(ftp.wire)
    BY <1>1, <1>2
  <2>2. QED
    BY <1>2, <2>1 DEF Marked
<1>4. Within(f.wire, ftp.wire) /\ (Unserved(ftp.wire) => Unserved(f.wire))
  <2>1. \A i \in 1..Len(ftp.wire) :
            /\ f.wire[i].cmd = ftp.wire[i].cmd /\ f.wire[i].code = ftp.wire[i].code
            /\ f.wire[i].mark = "sent" => ftp.wire[i].mark = "sent"
    BY <1>2
  <2>2. QED
    BY <1>2, <2>1, WithinRead
<1>5. Safe(f, xfer, srv.auth, srv.conn, dwire) /\ Behind(f)
  BY <1>1, <1>2, <1>4, WireSafe DEF Same, Unmoved
<1>6. f.cproc \in {"list", "xfer"}
  <2>1. Entered(ftp)
    <3>1. ~Entering(ftp)
      BY <1>2 DEF Entering
    <3>2. QED
      BY <1>1, <3>1 DEF LoginOK
  <2>2. QED
    BY <1>1, <1>2, <1>3, <2>1 DEF Counted, Marks
<1>7. Still(f, ftp')
  <2>1. ftp' = f \/ ftp' = [f EXCEPT !.fault = "crash"]
    BY <1>2, <1>6 DEF ProcControl, CprocTransfer
  <2>2. QED
    BY <1>2, <2>1 DEF Sound, FtpState, Still
<1>8. srv' = srv /\ dwire' = dwire
  <2>1. Linked(f, ftp')
    <3>1. (f.cproc = "pasv") = FALSE
      BY <1>6
    <3>2. QED
      BY <1>2, <3>1 DEF Linked
  <2>2. ftp'.data = f.data /\ f.data \in {NoSock, Open}
    BY <1>2, <1>7 DEF Still, Sound, FtpState
  <2>3. QED
    BY <2>1, <2>2, LinkStays
<1>9. \A x \in Xfers : xfer'[x].st = xfer[x].st
  <2>1. CASE ftp.cproc = "xfer"
    <3>1. ftp.cls \in Xfers /\ xfer[ftp.cls].st = "live"
      BY <1>1, <1>3, <2>1 DEF Sound, Handlers, Safe, Owned
    <3>2. xfer' = UseXfer(ftp.cls, EndsXfer(150)) /\ ~EndsXfer(150)
      BY <1>2, <2>1 DEF EndsXfer
    <3>3. xfer' = [xfer EXCEPT ![ftp.cls].st = "live"]
      BY <3>1, <3>2 DEF UseXfer
    <3>4. QED
      BY <1>1, <3>1, <3>3 DEF Transfer
  <2>2. CASE ftp.cproc # "xfer"
    BY <1>2, <2>2
  <2>3. QED
    BY <2>1, <2>2
<1> DEFINE xg == xfer'
<1>10. Safe(f, xg, srv.auth, srv.conn, dwire)
  <2>1. \A x \in Xfers : xg[x].st = xfer[x].st
    BY <1>9
  <2> HIDE DEF xg
  <2>2. Owned(f, xfer, dwire)
    BY <1>5 DEF Safe
  <2>3. Owned(f, xg, dwire)
    BY <1>2, <2>1, <2>2, OwnedKeeps
  <2>4. QED
    BY <1>5, <2>3 DEF Safe
<1> HIDE DEF xg
<1>11. Safe(ftp', xg, srv.auth, srv.conn, dwire) /\ Behind(ftp')
  BY <1>5, <1>7, <1>10, StillSafe
<1>12. NoUseAfterFree'
  BY <1>1, <1>9 DEF NoUseAfterFree
<1>13. QED
  BY <1>8, <1>11, <1>12 DEF OnceInv, xg

\* A final reply never ends a file, as long as the server refuses none.
LEMMA FinalOnce ==
    ASSUME Upheld, NEW f, NEW code, code # 150, NEW dir, NEW conn, NEW sk,
           LineOutcome(f, code, dir, conn, sk), CtlLine
    PROVE  OnceInv'
<1>1. /\ Sound(ftp) /\ LoginOK(ftp) /\ Counted(ftp, dwire) /\ pc' = "ctl"
      /\ Safe(ftp, xfer, srv.auth, srv.conn, dwire) /\ Behind(ftp)
      /\ ftp.wire \in Seq(Exchange) /\ srv.auth \in {0, 1}
  BY UpheldFacts DEF CtlLine, InControl, AtSelect
<1>2. /\ Sound(f) /\ f.busy = ftp.busy /\ f.cproc = ftp.cproc /\ f.queue = ftp.queue
      /\ f.ctl = ftp.ctl /\ Same(ftp, f) /\ f.dproc = ftp.dproc /\ f.cls = ftp.cls
      /\ f.dirent = ftp.dirent /\ dir \in Args
      /\ ftp.wire # << >> /\ f.wire = Tail(ftp.wire) /\ code = ftp.wire[1].code
      /\ code \in Codes /\ code # 0
      /\ \/ ftp' = ProcControl(f, code, dir, conn, sk)
         \/ f.cproc = "xfer" /\ ftp' = [f EXCEPT !.fault = "crash"]
      /\ LinkData(f, ftp', f.cproc = "pasv")
      /\ xfer' = IF ftp.cproc = "xfer" /\ EndsXfer(code)
                 THEN UseXfer(ftp.cls, EndsXfer(code)) ELSE xfer
  BY DEF LineOutcome
<1>3. code \in Int /\ code >= 200 /\ 1 \in 1..Len(ftp.wire)
  BY <1>1, <1>2 DEF Codes
<1>4. Within(f.wire, ftp.wire) /\ (Unserved(ftp.wire) => Unserved(f.wire))
  BY <1>1, <1>2, WithinTail
<1>5. Safe(f, xfer, srv.auth, srv.conn, dwire) /\ Behind(f)
  BY <1>1, <1>2, <1>4, WireSafe DEF Same, Unmoved
<1>6. /\ LoginOK(f) /\ Counted(f, dwire)
      /\ f.cproc = "none" => f.wire = << >>
      /\ f.cproc = "pasv" => f.wire = << >>
  <2>1. /\ Entering(ftp) => Entering(f) /\ f.wire = << >>
        /\ Entered(ftp) => Entered(f)
    BY <1>1, <1>2, Dropped
  <2>2. CASE Entering(ftp)
    <3>1. f.cproc = "none"
      BY <1>2, <2>2 DEF Entering
    <3>2. QED
      BY <2>1, <2>2, <3>1 DEF LoginOK, Counted, Entered
  <2>3. CASE Entered(ftp)
    <3>1. /\ Counted(f, dwire)
          /\ ftp.cproc = "pasv" => Len(f.wire) = 0 /\ f.lis = NoSock
      <4>1. /\ Sound(ftp) /\ ftp.wire # << >> /\ Sound(f) /\ f.wire = Tail(ftp.wire)
            /\ f.busy = ftp.busy /\ f.cproc = ftp.cproc /\ Same(ftp, f)
        BY <1>1, <1>2
      <4>2. QED
        BY <1>1, <2>3, <4>1, DroppedCounted
    <3>2. Len(f.wire) = 0 => f.wire = << >>
      <4>1. f.wire \in Seq(Exchange)
        BY <1>2 DEF Sound, FtpState
      <4>2. QED
        BY <4>1
    <3>3. QED
      BY <1>2, <2>1, <2>3, <3>1, <3>2 DEF LoginOK, Entered
  <2>4. QED
    BY <1>1, <2>2, <2>3 DEF LoginOK
<1>7. code \in {230, 250} => srv.auth # 0
  BY <1>1, <1>2, <1>3 DEF Safe, Stranger, Dismissed
<1>8. /\ f.cproc # "active" => f.ctl = Open
      /\ f.cproc = "cwd" => f.wait = << >>
  <2>1. ftp.cproc # "active" => ftp.ctl = Open
    BY <1>1 DEF CtlLine, InControl, Upheld, IndInv, WaitInv, Sound, FtpState
  <2>2. ftp.cproc = "cwd" => ftp.wait = << >>
    BY <2>1 DEF CtlLine, InControl, AtSelect, Upheld, IndInv, WaitInv
  <2>3. QED
    BY <1>2, <2>1, <2>2 DEF Same
<1>9. xfer' = xfer
  <2>1. SUFFICES ASSUME ftp.cproc = "xfer", code >= 400 PROVE FALSE
    BY <1>2 DEF EndsXfer
  <2>2. Polite(ftp.wire)
    BY <1>1, <2>1 DEF Safe, Stranger
  <2>3. ftp.wire[1].cmd \notin LoginCmds
    BY <1>1, <1>3, <2>1 DEF LoginOK, Entering, Entered, NoLogin
  <2>4. ftp.wire[1].cmd \notin {"pasv", "port"}
    BY <1>1, <1>3, <2>1 DEF Safe, Channel, Asks
  <2>5. code < 400
    BY <1>2, <1>3, <2>2, <2>3, <2>4 DEF Polite
  <2>6. QED
    BY <1>3, <2>1, <2>5
<1>10. Replied(f, ftp', xfer, srv.auth, srv.conn, dwire)
  <2>1. CASE ftp' = ProcControl(f, code, dir, conn, sk)
    BY <1>2, <1>3, <1>5, <1>6, <1>7, <1>8, <2>1, ProcReplied
  <2>2. CASE f.cproc = "xfer" /\ ftp' = [f EXCEPT !.fault = "crash"]
    <3>1. Still(f, ftp') /\ f.cproc # "pasv"
      BY <1>2, <2>2 DEF Sound, FtpState, Still
    <3>2. QED
      BY <1>5, <3>1, StillSafe DEF Replied, Still
  <2>3. QED
    BY <1>2, <2>1, <2>2
<1>11. QED
  BY <1>2, <1>5, <1>9, <1>10, RepliedOnce

\* The client's steps.
LEMMA ClientOnce ==
    ASSUME Upheld, Client, "crossed" \notin Env
    PROVE  OnceInv'
<1>1. CASE CtlLine
  <2>1. PICK f, code, dir, conn, sk : LineOutcome(f, code, dir, conn, sk)
    BY <1>1, LineRead DEF Upheld
  <2>2. CASE code = 150
    BY <1>1, <2>1, <2>2, PrelimOnce
  <2>3. CASE code # 150
    BY <1>1, <2>1, <2>3, FinalOnce
  <2>4. QED
    BY <2>2, <2>3
<1>2. QED
  BY <1>1, CtlNoReplyOnce, CtlAgainOnce, CtlEofOnce, WaitTimeoutOnce, WaitClosedOnce,
     ResumeOnce, DataRecvOnce, LisAcceptOnce, QueueStartDirOnce
  DEF Client

\* Nothing is asked for at first.
LEMMA InitOnce ==
    ASSUME Init
    PROVE  OnceInv
<1>1. /\ ftp.dirent = << >> /\ ftp.dproc = "none" /\ ftp.cproc = "none"
      /\ ftp.wait = << >> /\ ftp.data = NoSock /\ ftp.lis = NoSock /\ ftp.queue = << >>
      /\ ftp.cls = NoXfer /\ ftp.ctl = Open
      /\ ftp.wire = << Exch("greet", NoArg, NoXfer) >>
      /\ srv.auth = 0 /\ srv.conn = "none" /\ dwire = << >>
      /\ \A x \in Xfers : xfer[x].st = "none"
  BY DEF Init
<1>2. /\ Len(ftp.queue) = 0 /\ Len(ftp.wait) = 0 /\ Len(ftp.wire) = 1
      /\ ftp.wire[1].cmd = "greet" /\ ftp.wire[1].code = 0 /\ ftp.wire[1].mark = "none"
  BY <1>1 DEF Exch
<1>3. /\ OneAsked(ftp.wire) /\ ~Unserved(ftp.wire) /\ Dismissed(ftp.wire)
      /\ ~Asks(ftp.wire, "pasv") /\ ~Asks(ftp.wire, "port")
  BY <1>2 DEF OneAsked, Unserved, Dismissed, Asks
<1>4. Stranger(ftp)
  BY <1>1, <1>2, <1>3 DEF Stranger
<1>5. Channel(ftp, srv.conn, dwire)
  BY <1>1, <1>3 DEF Channel, NoSock, Open
<1>6. Lined(ftp) /\ Behind(ftp)
  BY <1>1, <1>2 DEF Lined, Behind
<1>7. Owned(ftp, xfer, dwire)
  <2>1. NoXfer \notin Xfers
    BY BoundAssumption DEF NoXfer, Xfers
  <2>2. QED
    BY <1>1, <1>2, <2>1 DEF Owned, Mine
<1>8. NoUseAfterFree
  BY <1>1 DEF NoUseAfterFree
<1>9. QED
  BY <1>1, <1>4, <1>5, <1>6, <1>7, <1>8 DEF OnceInv, Safe

\* No callback touches a transfer after done freed it, whatever keys an eager
\* user presses while the queue is empty, and however the session is lost: when
\* the server ends the transfers it began, and ends each on both connections,
\* the reply on the control connection ends none that the data ended already.
THEOREM TransfersEndOnce ==
    ASSUME Env \cap {"earlykeys", "idle421", "dataclose", "crossed", "reject", "abort"} = {},
           MaxQueue <= 1
    PROVE  Spec => []NoUseAfterFree
<1> DEFINE Inv == BusyInv /\ OnceInv
<1>1. Init => Inv
  BY InitBusy, InitOnce
<1>2. IndInv /\ Inv /\ [Next]_vars => Inv'
  <2>1. ASSUME IndInv, Inv, Next PROVE Inv'
    <3>1. Upheld /\ LoginInv /\ Counted(ftp, dwire)
      BY <2>1 DEF Upheld, BusyInv
    <3>2. Keeps
      BY <2>1, <3>1, ClientKeeps, UserKeeps, ServerKeeps DEF Next
    <3>3. BusyInv'
      BY <3>1, <3>2 DEF Keeps, BusyInv, LoginInv
    <3>4. OnceInv'
      BY <2>1, <3>1, ClientOnce, UserOnce, ServerOnce, BoundAssumption DEF Next
    <3>5. QED
      BY <3>3, <3>4
  <2>2. ASSUME Inv, UNCHANGED vars PROVE Inv'
    BY <2>2 DEF vars, BusyInv, LoginInv, OnceInv, NoUseAfterFree
  <2>3. QED
    BY <2>1, <2>2
<1>3. Inv => NoUseAfterFree
  BY DEF OnceInv
<1> HIDE DEF Inv
<1>4. QED
  BY Inductive, <1>1, <1>2, <1>3, PTL DEF Spec
=============================================================================
