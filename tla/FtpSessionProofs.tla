-------------------------- MODULE FtpSessionProofs --------------------------
(***************************************************************************)
(* Theorems about whole sessions: login, listing, change of directory and  *)
(* downloads, as ftp.c drives them with the callback cproc, the queues and *)
(* the wait list, against a server that answers every command.             *)
(*                                                                         *)
(* FtpClientProofs proves what holds in every environment. What is proved  *)
(* here holds when no connection is lost, no reply is cut or late and the  *)
(* user queues at most one operation behind the one that runs: Cooperative *)
(* names these hypotheses. Each hypothesis is needed, but for "split": TLC *)
(* finds executions that break a property below without it.                *)
(*                                                                         *)
(* The inductive invariant SessionInv says, for each value of cproc, what  *)
(* ftp.c waits for: Phase lists the cases. The lemmas follow the handlers: *)
(* one LEMMA per action and phase shows that the action leads from the     *)
(* phase into one of its successors, SessionStep puts them together, and   *)
(* the theorems at the end draw the properties from the invariant.         *)
(***************************************************************************)
EXTENDS FtpClientProofs

\* The hypotheses: logins, PORT and listening sockets may be refused, and the
\* user may press keys before the login is over. Excluded are commands that are
\* refused or break off ("reject", "abort", "nopasv", "noconn"), connections
\* that close ("idle421", "drop", "dataclose"), replies that are late or come
\* in pieces ("timeout", "split", "multiline") or after the data ("crossed"),
\* an eager user and more than one operation queued behind a running one.
Cooperative == /\ Env \subseteq {"badlogin", "earlykeys", "predial", "noport", "nosock"}
               /\ Pace = "calm" /\ MaxQueue <= 1

(***************************************************************************)
(* The inductive invariant: what ftp.c is in the middle of.                *)
(***************************************************************************)
Steady == /\ ftp.ctl = Open /\ ftp.lis = NoSock /\ ftp.passive = 1
          /\ ftp.fault = "none" /\ srv.up = 1

\* one command is on its way, and the answers it may get
Asking(cmd, codes) ==
    /\ Len(ftp.wire) = 1 /\ ftp.wire[1].cmd = cmd
    /\ ftp.wire[1].mark = "none" /\ ftp.wire[1].code \in codes \cup {0}

\* the last reply was read and ftp_handle has not yet ended
Between == ftp.wire = << >> /\ ftp.busy = 0 /\ pc = "ctl"

\* connected, the greeting of the server is still to come
Greeting == /\ Asking("greet", {220}) /\ ftp.busy = 0
            /\ ftp.queue = << >> /\ srv.auth = 0

\* USER or PASS is under way; the server decides when it answers
Identifying ==
    /\ Asking("user", {331, 230, 530}) \/ Asking("pass", {230, 530})
    /\ ftp.busy = 1 /\ ftp.queue = << >>
    /\ srv.auth = IF ftp.wire[1].code = 230 THEN 1 ELSE 0

\* the login was refused: ftp.c sends nothing more
Refused == /\ ftp.wire = << >> /\ ftp.busy = 0
           /\ ftp.queue = << >> /\ srv.auth = 0

\* TYPE I is under way, the first listing is queued behind it
Typing == /\ (Asking("type", {200}) /\ ftp.busy = 1) \/ Between
          /\ ftp.queue = <<Op("PWD", NoArg), Op("LIST", NoArg)>> /\ srv.auth = 1

\* before the first operation that installs a callback
LoginPhase ==
    /\ ftp.cproc = "none" /\ ftp.data = NoSock /\ ftp.wait = << >>
    /\ ftp.status = "DISC" /\ ftp.dirent = << >> /\ pc \in {"select", "ctl"}
    /\ Greeting \/ Identifying \/ Refused \/ Typing

\* a change of directory, after which the directory is read again
CwdPhase ==
    /\ ftp.cproc = "cwd" /\ ftp.data = NoSock /\ ftp.wait = << >>
    /\ srv.auth = 1 /\ pc \in {"select", "ctl"}
    /\ \/ /\ Asking("cwd", {250}) \/ Asking("cdup", {250})
          /\ ftp.busy = 1 /\ ftp.queue = << >>
       \/ Between /\ ftp.queue = <<Op("PWD", NoArg), Op("LIST", NoArg)>>

\* the reply to PWD is what the panel shows as the current directory
PwdPhase ==
    /\ ftp.cproc = "pwd" /\ ftp.data = NoSock /\ ftp.wait = << >>
    /\ srv.auth = 1 /\ pc \in {"select", "ctl"}
    /\ ftp.queue = <<Op("LIST", NoArg)>>
    /\ \/ /\ Asking("pwd", {257}) /\ ftp.busy = 1
          /\ ftp.wire[1].code # 0 => ftp.wire[1].arg = srv.cwd
       \/ Between /\ ftp.curdir = srv.cwd

\* the panel shows the directory the server is in
Listed == ftp.curdir = srv.cwd /\ ftp.dirent = Content(srv.cwd, Ls)

\* one operation waits for its data connection
PasvPhase ==
    /\ ftp.cproc = "pasv" /\ ftp.queue = << >> /\ ftp.curdir = srv.cwd
    /\ srv.auth = 1
    /\ \/ ftp.wait = <<Op("LIST", NoArg)>>
       \/ Listed /\ \E x \in Xfers : ftp.wait = <<XferOp(x)>>
    /\ \/ /\ Asking("pasv", {227}) /\ ftp.busy = 1
          /\ ftp.data = NoSock /\ pc = "select"
       \/ /\ ftp.wire = << >> /\ ftp.busy = 0 /\ ftp.data = Open
          /\ ftp.status = "PASV" /\ pc \in {"ctl", "resume"}
          /\ srv.conn = "open" /\ dwire = << >>

\* the server is done with the transfer, or has begun it
Over == ftp.wire = << >> \/ ftp.wire[1].code # 0
\* the server opened its file, so what it sends is settled
Begun == Over \/ ftp.wire[1].mark # "none"

\* what has been received, and the directory and name it should come from
Received == IF ftp.cproc = "list" THEN ftp.rbuf ELSE xfer[ftp.cls].got
Wanted == <<srv.cwd, IF ftp.cproc = "list" THEN Ls ELSE xfer[ftp.cls].name>>

\* What was received and what is on its way is what the server has sent.
Stream ==
    /\ ftp.dproc = ftp.cproc
    /\ srv.conn = IF Over THEN "none" ELSE "open"
    /\ Begun => srv.src = Wanted
    /\ Over => dwire # << >>
    /\ Len(Received) + Len(dwire) =
            IF Over THEN Chunks + 1 ELSE IF Begun THEN Chunks - srv.left ELSE 0
    /\ \A i \in 1..Len(Received) : Received[i] = Wanted
    /\ \A i \in 1..Len(dwire) :
            dwire[i] = IF Over /\ i = Len(dwire) THEN Eof ELSE Wanted

\* the command on the wire is the one the data connection was opened for
TransferCmd ==
    /\ ftp.wire[1].cmd = IF ftp.cproc = "list" THEN "list" ELSE "retr"
    /\ ftp.cproc = "xfer" => ftp.wire[1].data = ftp.cls
    /\ ftp.wire[1].code \in {0, 226}
    /\ ftp.wire[1].mark = "none" => ftp.wire[1].code = 0
    /\ ftp.wire[1].mark # "read" \/ ftp.wire[1].code = 0 => ftp.data = Open

\* a listing or a download, until both its reply and its end were read
TransferPhase ==
    /\ ftp.cproc \in {"list", "xfer"} /\ ftp.wait = << >>
    /\ ftp.status = "PASV" /\ srv.auth = 1 /\ ftp.curdir = srv.cwd
    /\ ftp.wire = << >> \/ (Len(ftp.wire) = 1 /\ TransferCmd)
    /\ ftp.busy = Len(ftp.wire) + IF ftp.data = Open THEN 1 ELSE 0
    /\ ftp.data = Open => Stream
    /\ ftp.cproc = "xfer" \/ ftp.data = NoSock => Listed
    /\ \/ ftp.queue = << >>
       \/ ftp.cproc = "list" /\ \E d \in Dirs : ftp.queue = <<Op("CHDIR", d)>>
       \/ ftp.cproc = "xfer" /\ \E x \in Xfers : ftp.queue = <<XferOp(x)>>
    /\ pc \in {"select", "ctl"} \/ (pc = "data" /\ ftp.data = Open)
    /\ ftp.busy = 0 /\ ftp.queue # << >> => pc = "ctl"

\* the start directory is queued behind the first listing, and nothing before
StartDirInv ==
    startDir # NoArg =>
        \/ ftp.cproc \in {"none", "pwd"} /\ ftp.status = "DISC"
        \/ ftp.cproc = "pasv" /\ ftp.wait = <<Op("LIST", NoArg)>>
        \/ /\ ftp.cproc = "list" /\ ftp.data = Open /\ ftp.queue = << >>
           /\ pc = "select"

\* the transfer that is being fetched, and the one that is queued behind it
Current(f, x) == \/ f.wait = <<XferOp(x)>>
                 \/ f.cproc = "xfer" /\ f.data = Open /\ f.cls = x
\* transfer x is the operation behind the one that runs
Queued(f, x) == f.queue = <<XferOp(x)>>

\* The state of every transfer agrees with where ftp.c has it: it is live
\* exactly while it runs or is queued, it was asked for in the directory the
\* server is in, transfers are fetched in order, and what was freed was copied.
Books(f, xf, dir) == \A x \in Xfers :
    /\ xf[x].st # "reused"
    /\ xf[x].st = "freed" => xf[x].got = Content(xf[x].dir, xf[x].name)
    /\ xf[x].st = "live" <=> Current(f, x) \/ Queued(f, x)
    /\ xf[x].st = "live" => xf[x].dir = dir
    /\ xf[x].st # "none" => \A y \in 1..(x - 1) : xf[y].st # "none"
    /\ Current(f, x) => \A y \in 1..(x - 1) : xf[y].st = "freed"
    /\ Queued(f, x) \/ f.wait = <<XferOp(x)>> => xf[x].got = << >>
    /\ ~(Current(f, x) /\ Queued(f, x))

\* the books of the state
Book == Books(ftp, xfer, srv.cwd)

\* ftp.c is always in one of these phases
Phase == LoginPhase \/ CwdPhase \/ PwdPhase \/ PasvPhase \/ TransferPhase

\* the invariant; it is inductive together with IndInv
SessionInv == Steady /\ Phase /\ StartDirInv /\ Book

\* What the operators on sequences return on sequences of one and two elements.
LEMMA Short ==
    ASSUME NEW a, NEW b
    PROVE  /\ Head(<<a>>) = a /\ Tail(<<a>>) = << >> /\ <<a>> # << >>
           /\ Head(<<a, b>>) = a /\ Tail(<<a, b>>) = <<b>> /\ <<a, b>> # << >>
           /\ Append(<< >>, a) = <<a>> /\ Append(<<a>>, b) = <<a, b>>
           /\ <<a>> \o << >> = <<a>> /\ <<a>> = <<b>> => a = b
           /\ Len(<<a>>) = 1 /\ Len(<<a, b>>) = 2
<1>1. Head(<<a>>) = a /\ <<a>> # << >> /\ Head(<<a, b>>) = a /\ <<a, b>> # << >>
  OBVIOUS
<1>2. Tail(<<a>>) = << >>
  OBVIOUS
<1>3. Tail(<<a, b>>) = <<b>>
  <2> DEFINE S == {a, b}
  <2>1. <<a, b>> \in Seq(S) /\ <<b>> \in Seq(S) /\ Tail(<<a, b>>) \in Seq(S)
    OBVIOUS
  <2>2. Len(Tail(<<a, b>>)) = 1 /\ Tail(<<a, b>>)[1] = b
    OBVIOUS
  <2>3. QED
    BY <2>1, <2>2, SeqEqual
<1>4. Append(<< >>, a) = <<a>>
  OBVIOUS
<1>5. Append(<<a>>, b) = <<a, b>>
  <2> DEFINE S == {a, b}
             p == Append(<<a>>, b)
             q == <<a, b>>
  <2>1. <<a>> \in Seq(S) /\ q \in Seq(S) /\ b \in S
    OBVIOUS
  <2>2. p \in Seq(S)
    BY <2>1
  <2>3. p[1] = a /\ p[2] = b /\ Len(p) = 2
    BY <2>1, AppendProperties
  <2>4. Len(q) = 2 /\ q[1] = a /\ q[2] = b
    OBVIOUS
  <2> HIDE DEF p, q
  <2>5. \A i \in 1..Len(p) : p[i] = q[i]
    <3>1. \A i \in 1..2 : i = 1 \/ i = 2
      OBVIOUS
    <3>2. QED
      BY <2>3, <2>4, <3>1
  <2>6. p = q
    BY <2>1, <2>2, <2>3, <2>4, <2>5, SeqEqual
  <2>7. QED
    BY <2>6 DEF p, q
<1>6. <<a>> \o << >> = <<a>>
  OBVIOUS
<1>7. <<a>> = <<b>> => a = b
  OBVIOUS
<1>8.  Len(<<a>>) = 1 /\ Len(<<a, b>>) = 2
  OBVIOUS
<1>9. QED
  BY <1>1, <1>2, <1>3, <1>4, <1>5, <1>6, <1>7, <1>8

\* the fields of the client that sending a command leaves alone
Kept(f, g) ==
    /\ g.ctl = f.ctl /\ g.lis = f.lis /\ g.data = f.data
    /\ g.status = f.status /\ g.passive = f.passive /\ g.fault = f.fault
    /\ g.dproc = f.dproc /\ g.cls = f.cls /\ g.rbuf = f.rbuf
    /\ g.curdir = f.curdir /\ g.dirent = f.dirent

\* the client sends one command and waits for one more reply
Sends(f, g, cmd, arg, x) ==
    /\ Kept(f, g)
    /\ g.busy = f.busy + 1 /\ g.wire = Append(f.wire, Exch(cmd, arg, x))

\* ftp_send_cmd on an open control connection does just that.
LEMMA SendCmdSends ==
    ASSUME NEW f \in FtpState, f.ctl = Open, NEW cmd, NEW arg, NEW x,
           NEW g, g = SendCmd(f, cmd, arg, x)
    PROVE  /\ Sends(f, g, cmd, arg, x)
           /\ g.queue = f.queue /\ g.wait = f.wait /\ g.cproc = f.cproc
           /\ DOMAIN g = DOMAIN f
<1> DEFINE e == Exch(cmd, arg, x)
<1> HIDE DEF e
<1>1. g = [f EXCEPT !.busy = @ + 1, !.wire = Append(@, e)]
  BY DEF SendCmd, NoSock, Open, e
<1>2. QED
  BY <1>1 DEF FtpState, Sends, Kept, e

\* The operations without a data connection send one command each.
LEMMA CommandSends ==
    ASSUME NEW f \in FtpState, f.ctl = Open, NEW op, NEW sk,
           NEW g, g = ExecOp(f, op, sk)
    PROVE  /\ op.op = "TYPE" => Sends(f, g, "type", NoArg, NoXfer) /\ g.cproc = f.cproc
           /\ op.op = "PWD" => Sends(f, g, "pwd", NoArg, NoXfer) /\ g.cproc = "pwd"
           /\ op.op = "CHDIR" => Sends(f, g, "cwd", op.arg, NoXfer) /\ g.cproc = "cwd"
           /\ op.op = "CDUP" => Sends(f, g, "cdup", NoArg, NoXfer) /\ g.cproc = "cwd"
           /\ op.op \in {"TYPE", "PWD", "CHDIR", "CDUP"} =>
                g.queue = f.queue /\ g.wait = f.wait
<1>1. CASE op.op = "TYPE"
  <2>1. g = SendCmd(f, "type", NoArg, NoXfer)
    BY <1>1 DEF ExecOp
  <2>2. QED
    BY <1>1, <2>1, SendCmdSends
<1>2. ASSUME NEW cmd, NEW arg, NEW c, g = [SendCmd(f, cmd, arg, NoXfer) EXCEPT !.cproc = c]
      PROVE Sends(f, g, cmd, arg, NoXfer) /\ g.cproc = c /\ g.queue = f.queue /\ g.wait = f.wait
  <2> DEFINE k == SendCmd(f, cmd, arg, NoXfer)
  <2>1. /\ Sends(f, k, cmd, arg, NoXfer) /\ k.queue = f.queue /\ k.wait = f.wait
        /\ DOMAIN k = DOMAIN f
    BY SendCmdSends
  <2>2. g = [k EXCEPT !.cproc = c]
    BY <1>2
  <2> HIDE DEF k
  <2>3. QED
    BY <2>1, <2>2 DEF FtpState, Sends, Kept
<1>3. CASE op.op = "PWD"
  BY <1>2, <1>3 DEF ExecOp, FtpPwd
<1>4. CASE op.op = "CHDIR"
  BY <1>2, <1>4 DEF ExecOp, FtpChdir
<1>5. CASE op.op = "CDUP"
  BY <1>2, <1>5 DEF ExecOp, FtpChdir
<1>6. QED
  BY <1>1, <1>3, <1>4, <1>5

\* an operation that needs a data connection asks for one
LEMMA DataOpAsks ==
    ASSUME NEW f \in FtpState, f.ctl = Open, f.data = NoSock, f.lis = NoSock, f.passive = 1,
           NEW op, op.op \in {"LIST", "XFER"}, NEW sk,
           NEW g, g = ExecOp(f, op, sk)
    PROVE  /\ Sends(f, g, "pasv", NoArg, NoXfer) /\ g.cproc = "pasv"
           /\ g.queue = f.queue /\ g.wait = <<op>> \o f.wait
<1> DEFINE h == [f EXCEPT !.lis = NoSock, !.data = NoSock]
           k == SendCmd(h, "pasv", NoArg, NoXfer)
           m == [k EXCEPT !.cproc = "pasv"]
<1>1. h = f
  BY DEF FtpState
<1>2. g = [m EXCEPT !.wait = <<op>> \o @]
  BY DEF ExecOp, PrepareData, FtpPassive
<1>3. Sends(f, k, "pasv", NoArg, NoXfer) /\ k.queue = f.queue /\ k.wait = f.wait
      /\ DOMAIN k = DOMAIN f
  <2> HIDE DEF h
  <2>1. QED
    BY <1>1, SendCmdSends
<1> HIDE DEF k
<1>4. QED
  BY <1>2, <1>3 DEF FtpState, Sends, Kept

\* A wire with one exchange is empty once the reply is read, and one command
\* sent on an empty wire is alone on it.
LEMMA WireOfOne ==
    ASSUME NEW w \in Seq(Exchange)
    PROVE  /\ Len(w) = 1 => w # << >> /\ Tail(w) = << >> /\ Head(w) = w[1] /\ w[1] \in Exchange
           /\ w = << >> => Len(w) = 0
           /\ w # << >> => Len(w) > 0
           /\ \A e : w = << >> => Len(Append(w, e)) = 1 /\ Append(w, e)[1] = e
<1>1. Len(w) = 1 => w # << >> /\ Tail(w) = << >> /\ Head(w) = w[1] /\ w[1] \in Exchange
  BY TailEmpty
<1>2. w = << >> => Len(w) = 0
  OBVIOUS
<1>3. w # << >> => Len(w) > 0
  OBVIOUS
<1>4. ASSUME NEW e, w = << >> PROVE Len(Append(w, e)) = 1 /\ Append(w, e)[1] = e
  <2>1. Append(<< >>, e) = <<e>> /\ Len(<<e>>) = 1
    BY Short
  <2>2. QED
    BY <1>4, <2>1
<1>5. QED
  BY <1>1, <1>2, <1>3, <1>4

\* Queues of different operations are different queues.
LEMMA QueueKinds ==
    /\ \A x : << >> # <<XferOp(x)>>
    /\ \A o, a, x : o # "XFER" => <<Op(o, a)>> # <<XferOp(x)>>
    /\ \A o, a, p, b, x : <<Op(o, a), Op(p, b)>> # <<XferOp(x)>>
    /\ \A x, y : <<XferOp(x)>> = <<XferOp(y)>> => x = y
<1>1. \A o, a, x : o # "XFER" => Op(o, a) # XferOp(x)
  <2>1. \A o, a, x : Op(o, a).op = o /\ XferOp(x).op = "XFER"
    BY DEF Op, XferOp
  <2>2. QED
    BY <2>1
<1>2. \A x, y : XferOp(x) = XferOp(y) => x = y
  <2>1. \A x : XferOp(x).data = x
    BY DEF XferOp
  <2>2. QED
    BY <2>1
<1>3. \A x : << >> # <<XferOp(x)>>
  BY Short
<1>4. ASSUME NEW o, NEW a, NEW x, o # "XFER" PROVE <<Op(o, a)>> # <<XferOp(x)>>
  <2>1. Op(o, a) # XferOp(x)
    BY <1>1, <1>4
  <2>2. QED
    BY <2>1, Short
<1>5. ASSUME NEW o, NEW a, NEW p, NEW b, NEW x PROVE <<Op(o, a), Op(p, b)>> # <<XferOp(x)>>
  <2>1. Len(<<Op(o, a), Op(p, b)>>) = 2 /\ Len(<<XferOp(x)>>) = 1
    BY Short
  <2>2. QED
    BY <2>1
<1>6. ASSUME NEW x, NEW y, <<XferOp(x)>> = <<XferOp(y)>> PROVE x = y
  <2>1. XferOp(x) = XferOp(y)
    BY <1>6, Short
  <2>2. QED
    BY <1>2, <2>1
<1>7. QED
  BY <1>3, <1>4, <1>5, <1>6

\* Steps that concern no transfer keep the books.
LEMMA BookSame ==
    ASSUME Book, xfer' = xfer, srv'.cwd = srv.cwd,
           \A x \in Xfers : Current(ftp', x) <=> Current(ftp, x),
           \A x \in Xfers : Queued(ftp', x) <=> Queued(ftp, x),
           \A x \in Xfers : ftp'.wait = <<XferOp(x)>> => ftp.wait = <<XferOp(x)>>
    PROVE  Book'
BY DEF Book, Books, Queued

\* Without a transfer before and after the step the books stay right.
LEMMA BookIdle ==
    ASSUME Book, xfer' = xfer,
           \A x \in Xfers : ~Current(ftp, x) /\ ~Queued(ftp, x),
           \A x \in Xfers : ~Current(ftp', x) /\ ~Queued(ftp', x)
    PROVE  Book'
BY DEF Book, Books, Current

\* The queued transfer starts when none is under way.
LEMMA BookStart ==
    ASSUME NEW f, NEW g, NEW xf, NEW dir, Books(f, xf, dir),
           \A x \in Xfers : xf[x].st \in {"none", "live", "freed", "reused"},
           \A x \in Xfers : ~Current(f, x),
           \A x \in Xfers : Current(g, x) <=> Queued(f, x),
           \A x \in Xfers : ~Queued(g, x)
    PROVE  Books(g, xf, dir)
<1>1. ASSUME NEW x \in Xfers, Queued(f, x), NEW y \in 1..(x - 1)
      PROVE  xf[y].st = "freed"
  <2>1. y \in Xfers /\ y # x
    BY BoundAssumption DEF Xfers
  <2>2. xf[x].st = "live"
    BY <1>1 DEF Books
  <2>3. xf[y].st # "none" /\ xf[y].st # "reused"
    BY <1>1, <2>1, <2>2 DEF Books
  <2>4. ~Queued(f, y)
    BY <1>1, <2>1, QueueKinds DEF Queued
  <2>5. QED
    BY <2>1, <2>3, <2>4 DEF Books
<1>2. \A x \in Xfers : g.wait = <<XferOp(x)>> => Queued(f, x)
  BY DEF Current
<1>3. QED
  BY <1>1, <1>2 DEF Books

\* In most phases no transfer is under way and none is queued.
NoTransfers(f) ==
    /\ f.wait \in {<< >>, <<Op("LIST", NoArg)>>}
    /\ f.cproc # "xfer" \/ f.data = NoSock
    /\ \/ f.queue \in {<< >>, <<Op("LIST", NoArg)>>,
                        <<Op("PWD", NoArg), Op("LIST", NoArg)>>}
       \/ \E d \in Dirs : f.queue = <<Op("CHDIR", d)>>

\* None of the states NoTransfers describes has a transfer in it.
LEMMA NoTransfer ==
    ASSUME NEW f, NoTransfers(f)
    PROVE  \A x \in Xfers : ~Current(f, x) /\ ~Queued(f, x)
<1>1. ASSUME NEW x PROVE ~Current(f, x)
  <2>1. << >> # <<XferOp(x)>> /\ <<Op("LIST", NoArg)>> # <<XferOp(x)>>
    BY QueueKinds
  <2>2. QED
    BY <2>1 DEF NoTransfers, Current, NoSock, Open
<1>2. ASSUME NEW x PROVE ~Queued(f, x)
  BY QueueKinds DEF NoTransfers, Queued
<1>3. QED
  BY <1>1, <1>2

\* Steps between two states without transfers keep the books.
LEMMA BookQuiet ==
    ASSUME Book, xfer' = xfer, NoTransfers(ftp), NoTransfers(ftp')
    PROVE  Book'
BY NoTransfer, BookIdle

\* The client that ftp_connect has just connected is in the login phase.
THEOREM SessionInit == Init => SessionInv
<1> SUFFICES ASSUME Init PROVE SessionInv
  OBVIOUS
<1>1. Steady /\ StartDirInv
  BY DEF Init, Steady, StartDirInv
<1>2. Phase
  <2>1. Asking("greet", {220})
    BY Short DEF Init, Asking, Exch
  <2>2. QED
    BY <2>1 DEF Init, Phase, LoginPhase, Greeting
<1>3. Book
  <2>1. \A x \in Xfers : ~Current(ftp, x) /\ ~Queued(ftp, x)
    BY QueueKinds DEF Init, Current, Queued, NoSock, Open
  <2>2. QED
    BY <2>1 DEF Init, Book, Books, Current
<1>4. QED
  BY <1>1, <1>2, <1>3 DEF SessionInv

\* What cannot happen in a cooperative session: lost connections, timeouts,
\* replies cut in pieces.
LEMMA NoMishap ==
    ASSUME Cooperative, IndInv, SessionInv
    PROVE  /\ ~CtlNoReply /\ ~CtlEof /\ ~WaitTimeout /\ ~WaitClosed
           /\ ~LisAccept /\ ~SrvIdle /\ ~SrvDrop /\ ~SrvDataClose
<1>1. {"multiline", "split", "timeout", "idle421", "drop", "dataclose"} \cap Env = {}
  BY DEF Cooperative
<1>2. ftp.ctl = Open /\ ftp.lis = NoSock /\ srv.up = 1 /\ Open # NoSock
  BY DEF SessionInv, Steady, Open, NoSock
<1>3. ~CtlNoReply
  BY <1>1 DEF CtlNoReply
<1>4. ~CtlEof
  BY <1>2 DEF CtlEof
<1>5. ~WaitTimeout
  BY <1>1 DEF WaitTimeout
<1>6. ~WaitClosed
  BY <1>2 DEF WaitClosed
<1>7. ~LisAccept
  BY <1>2 DEF LisAccept
<1>8. ~SrvIdle /\ ~SrvDrop /\ ~SrvDataClose
  BY <1>1 DEF SrvIdle, SrvDrop, SrvDataClose
<1>9. QED
  BY <1>3, <1>4, <1>5, <1>6, <1>7, <1>8

\* A cooperative environment connects every data socket and never aborts.
LEMMA Outcomes ==
    ASSUME Cooperative
    PROVE  ConnOutcomes = {"ok"} /\ Denied = {} /\ MaxQueue <= 1
           /\ "crossed" \notin Env /\ "abort" \notin Env /\ "nopasv" \notin Env
BY DEF Cooperative, ConnOutcomes, Denied

\* A data connection that stays as it was concerns the server no more.
LEMMA LinkKept ==
    ASSUME NEW f, NEW g, f.data = g.data, LinkData(f, g, FALSE),
           f.data \in {NoSock, Open}
    PROVE  srv' = srv /\ dwire' = dwire
<1>1. ~(g.data = Open /\ f.data = NoSock) /\ ~(g.data = NoSock /\ f.data = Open)
  BY DEF NoSock, Open
<1>2. QED
  BY <1>1 DEF LinkData

\* The reply to a command that has no preliminary one reaches the callback.
LEMMA ReplyRead ==
    ASSUME Cooperative, IndInv, CtlLine, Len(ftp.wire) = 1,
           ftp.wire[1].mark = "none", ftp.cproc \in {"none", "cwd", "pwd", "pasv"}
    PROVE  LET f == [ftp EXCEPT !.wire = << >>]
           IN  /\ f \in FtpState /\ Sound(f)
               /\ ftp.wire[1].code # 0 /\ ftp.wire[1] \in Exchange
               /\ xfer' = xfer /\ pc' = "ctl" /\ startDir' = startDir
               /\ \E sk \in SockOutcomes :
                    LET g == ProcControl(f, ftp.wire[1].code, ftp.wire[1].arg, "ok", sk)
                    IN  ftp' = g /\ LinkData(f, g, f.cproc = "pasv")
<1> DEFINE e == Head(ftp.wire)
           f == [ftp EXCEPT !.wire = << >>]
<1>1. ftp \in FtpState /\ ftp.wire \in Seq(Exchange) /\ Sound(ftp)
  BY IndInvSound DEF Sound, FtpState
<1>2. ftp.wire # << >> /\ Tail(ftp.wire) = << >> /\ e = ftp.wire[1] /\ e \in Exchange
  BY <1>1, WireOfOne
<1> HIDE DEF e
<1>3. e.mark = "none" /\ e.code # 0
  BY <1>2 DEF CtlLine, HasReply, e
<1>4. [ftp EXCEPT !.wire = Tail(@)] = f
  BY <1>2
<1>5. f \in FtpState /\ f.cproc = ftp.cproc /\ Sound(f)
  <2>1. << >> \in Seq(Exchange)
    OBVIOUS
  <2>2. QED
    BY <1>1, <2>1 DEF FtpState, Sound, Handlers
<1>6. PICK sk \in SockOutcomes, conn \in ConnOutcomes, mem \in MemOutcomes(ftp.cls) :
        LET h == [ftp EXCEPT !.wire = Tail(@)]
            g == ProcControl(h, e.code, e.arg, conn, sk)
        IN  ftp' = g /\ xfer' = xfer /\ LinkData(h, g, h.cproc = "pasv")
  BY ZenonT(40), <1>3 DEF CtlLine, e
<1>7. conn = "ok"
  BY Outcomes
<1> HIDE DEF f
<1>8. LET g == ProcControl(f, e.code, e.arg, "ok", sk)
      IN  ftp' = g /\ xfer' = xfer /\ LinkData(f, g, f.cproc = "pasv")
  BY <1>4, <1>6, <1>7
<1>9. QED
  BY <1>2, <1>3, <1>5, <1>8 DEF CtlLine, f

\* The directory the server is in comes back from a pwd.
LEMMA CtlLinePwd ==
    ASSUME Cooperative, IndInv, SessionInv, CtlLine, PwdPhase
    PROVE  SessionInv'
<1> DEFINE e == ftp.wire[1]
           f == [ftp EXCEPT !.wire = << >>]
<1>1. ftp.cproc = "pwd" /\ ftp.wire # << >>
  BY DEF CtlLine, HasReply, PwdPhase
<1>2. Asking("pwd", {257}) /\ ftp.busy = 1 /\ (e.code # 0 => e.arg = srv.cwd)
  BY <1>1 DEF PwdPhase, Between
<1>3. PICK sk \in SockOutcomes :
        LET g == ProcControl(f, e.code, e.arg, "ok", sk)
        IN  ftp' = g /\ LinkData(f, g, f.cproc = "pasv")
  BY <1>1, <1>2, ReplyRead DEF Asking
<1>4. /\ f \in FtpState /\ e.code # 0
      /\ xfer' = xfer /\ pc' = "ctl" /\ startDir' = startDir
  BY <1>1, <1>2, ReplyRead DEF Asking
<1>5. e.code = 257 /\ e.arg = srv.cwd
  BY <1>2, <1>4 DEF Asking
<1>6. ftp' = [[f EXCEPT !.curdir = srv.cwd] EXCEPT !.busy = @ - 1]
  BY <1>1, <1>3, <1>5 DEF ProcControl, CprocPwd, Answered
<1>7. /\ ftp'.ctl = ftp.ctl /\ ftp'.lis = ftp.lis /\ ftp'.data = ftp.data
      /\ ftp'.passive = ftp.passive /\ ftp'.fault = ftp.fault
      /\ ftp'.status = ftp.status /\ ftp'.cproc = "pwd" /\ ftp'.wire = << >>
      /\ ftp'.wait = ftp.wait /\ ftp'.queue = ftp.queue
      /\ ftp'.busy = 0 /\ ftp'.curdir = srv.cwd /\ f.data = ftp.data
  BY <1>1, <1>2, <1>6 DEF IndInv, TypeOK, FtpState
<1>8. srv' = srv /\ dwire' = dwire
  <2>1. f.cproc # "pasv" /\ f.data \in {NoSock, Open}
    BY <1>1, <1>4 DEF FtpState
  <2>2. QED
    BY <1>3, <1>7, <2>1, LinkKept
<1>9. Steady' /\ PwdPhase' /\ StartDirInv'
  BY <1>1, <1>4, <1>7, <1>8 DEF SessionInv, Steady, PwdPhase, Between, StartDirInv, FtpState
<1>10. Book'
  <2>1. NoTransfers(ftp) /\ NoTransfers(ftp')
    BY <1>7 DEF PwdPhase, NoTransfers
  <2>2. QED
    BY <1>4, <2>1, BookQuiet DEF SessionInv
<1>11. QED
  BY <1>9, <1>10 DEF SessionInv, Phase

\* Behind outstanding commands an operation is queued, and changes nothing else.
LEMMA QueueBehind ==
    ASSUME NEW f \in FtpState, f.busy # 0 \/ f.queue # << >>, NEW op \in FtpOp, NEW sk,
           NEW g, g = FtpQueue(f, op, sk)
    PROVE  /\ Kept(f, g) /\ g.busy = f.busy /\ g.wire = f.wire
           /\ g.cproc = f.cproc /\ g.wait = f.wait
           /\ g.queue = Append(f.queue, op) /\ g.queue # << >> /\ g \in FtpState
<1>1. g = [f EXCEPT !.queue = Append(@, op)]
  BY DEF FtpQueue
<1>2. Append(f.queue, op) \in Seq(FtpOp) /\ Append(f.queue, op) # << >>
  <2>1. f.queue \in Seq(FtpOp)
    BY DEF FtpState
  <2>2. QED
    BY <2>1
<1>3. QED
  BY ZenonT(40), <1>1, <1>2 DEF Kept, FtpState

\* newconn, after the login, starts with TYPE and queues the rest.
LEMMA NewConnSends ==
    ASSUME NEW f, Sound(f), f.ctl = Open, f.busy = 0, f.queue = << >>, NEW sk,
           NEW g, g = NewConn(f, sk)
    PROVE  /\ Sends(f, g, "type", NoArg, NoXfer)
           /\ g.cproc = f.cproc /\ g.wait = f.wait
           /\ g.queue = <<Op("PWD", NoArg), Op("LIST", NoArg)>>
<1> DEFINE a == FtpQueue(f, Op("TYPE", NoArg), sk)
           b == FtpQueue(a, Op("PWD", NoArg), sk)
           c == FtpQueue(b, Op("LIST", NoArg), sk)
<1>1. a = SendCmd(f, "type", NoArg, NoXfer) /\ f \in FtpState
  BY DEF FtpQueue, ExecOp, Op, Sound
<1>2. a \in FtpState
  BY FtpQueueSound, OpTypes DEF Sound
<1>3. Sends(f, a, "type", NoArg, NoXfer) /\ a.queue = << >> /\ a.wait = f.wait /\ a.cproc = f.cproc
  <2> HIDE DEF a
  <2>1. QED
    BY <1>1, SendCmdSends
<1>4. a.busy = 1
  BY <1>3 DEF Sends
<1> HIDE DEF a
<1>5. /\ Kept(a, b) /\ b.busy = 1 /\ b.wire = a.wire /\ b.cproc = a.cproc /\ b.wait = a.wait
      /\ b.queue = <<Op("PWD", NoArg)>> /\ b \in FtpState
  BY <1>2, <1>3, <1>4, OpTypes, QueueBehind, Short
<1> HIDE DEF b
<1>6. /\ Kept(b, c) /\ c.busy = 1 /\ c.wire = b.wire /\ c.cproc = b.cproc /\ c.wait = b.wait
      /\ c.queue = <<Op("PWD", NoArg), Op("LIST", NoArg)>>
  <2>1. Append(<<Op("PWD", NoArg)>>, Op("LIST", NoArg)) = <<Op("PWD", NoArg), Op("LIST", NoArg)>>
    BY Short
  <2>2. /\ c = FtpQueue(b, Op("LIST", NoArg), sk)
        /\ Op("LIST", NoArg) \in FtpOp
        /\ b \in FtpState /\ (b.busy # 0 \/ b.queue # << >>)
    BY <1>5, OpTypes
  <2> HIDE DEF c
  <2>3. /\ Kept(b, c) /\ c.busy = b.busy /\ c.wire = b.wire
        /\ c.cproc = b.cproc /\ c.wait = b.wait
        /\ c.queue = Append(b.queue, Op("LIST", NoArg))
    BY <2>2, QueueBehind
  <2>4. QED
    BY <1>5, <2>1, <2>3
<1> HIDE DEF c
<1>7. g = c
  BY DEF NewConn, a, b, c
<1>8. Kept(f, c)
  BY <1>3, <1>5, <1>6 DEF Sends, Kept
<1>9. QED
  BY <1>3, <1>4, <1>5, <1>6, <1>7, <1>8 DEF Sends

\* A step of the login is answered and the next one sent, up to TYPE.
LEMMA CtlLineLogin ==
    ASSUME Cooperative, IndInv, SessionInv, CtlLine, LoginPhase
    PROVE  SessionInv'
<1> DEFINE e == ftp.wire[1]
           f == [ftp EXCEPT !.wire = << >>]
           h == [f EXCEPT !.busy = 0]
<1>1. /\ ftp.cproc = "none" /\ ftp.wire # << >> /\ ftp.data = NoSock /\ ftp.wait = << >>
      /\ ftp.status = "DISC" /\ ftp.dirent = << >>
      /\ ftp.ctl = Open /\ ftp.lis = NoSock /\ ftp.passive = 1
      /\ ftp.fault = "none" /\ srv.up = 1
  BY DEF CtlLine, HasReply, LoginPhase, SessionInv, Steady
<1>2. Len(ftp.wire) = 1 /\ e.mark = "none"
  BY <1>1 DEF LoginPhase, Greeting, Identifying, Typing, Refused, Between, Asking
<1>3. /\ f \in FtpState /\ Sound(f) /\ e.code # 0
      /\ xfer' = xfer /\ pc' = "ctl" /\ startDir' = startDir
  BY <1>1, <1>2, ReplyRead
<1>4. PICK sk \in SockOutcomes :
        LET g == ProcControl(f, e.code, e.arg, "ok", sk)
        IN  ftp' = g /\ LinkData(f, g, f.cproc = "pasv")
  BY <1>1, <1>2, ReplyRead
<1>5. ftp' = Login(f, e.code, sk) /\ f.cproc = "none" /\ f.data = NoSock
  BY <1>1, <1>3, <1>4 DEF ProcControl, FtpState
<1>6. /\ Sound(h) /\ h.ctl = Open /\ h.lis = NoSock /\ h.data = NoSock /\ h.passive = 1
      /\ h.fault = "none" /\ h.status = "DISC" /\ h.cproc = "none" /\ h.wait = << >>
      /\ h.busy = 0 /\ h.wire = << >> /\ h.queue = ftp.queue /\ h.dirent = << >> /\ h \in FtpState
  <2>1. 0 \in Int
    OBVIOUS
  <2>2. QED
    BY ZenonT(40), <1>1, <1>3, <2>1 DEF Sound, FtpState, Handlers
<1> DEFINE Settled == /\ ftp'.ctl = Open /\ ftp'.lis = NoSock /\ ftp'.data = NoSock
                      /\ ftp'.passive = 1 /\ ftp'.fault = "none" /\ ftp'.status = "DISC"
                      /\ ftp'.cproc = "none" /\ ftp'.wait = << >> /\ ftp'.dirent = << >>
           Next1(cmd) == /\ Len(ftp'.wire) = 1 /\ ftp'.wire[1] = Exch(cmd, NoArg, NoXfer)
                         /\ ftp'.busy = 1
<1> HIDE DEF h
<1>7. \A cmd : ftp' = SendCmd(h, cmd, NoArg, NoXfer) =>
            Settled /\ Next1(cmd) /\ ftp'.queue = ftp.queue
  <2> TAKE cmd
  <2> HAVE ftp' = SendCmd(h, cmd, NoArg, NoXfer)
  <2>1. Sends(h, ftp', cmd, NoArg, NoXfer) /\ ftp'.queue = h.queue /\ ftp'.wait = h.wait
        /\ ftp'.cproc = h.cproc
    BY <1>6, SendCmdSends
  <2>2. << >> \in Seq(Exchange)
    OBVIOUS
  <2>3. QED
    BY <1>6, <2>1, <2>2, WireOfOne DEF Sends, Kept
<1>8. Settled /\ (srv' = srv /\ dwire' = dwire => LoginPhase')
  <2>1. CASE Greeting
    <3>1. e.code = 220 /\ ftp.queue = << >> /\ srv.auth = 0
      BY <1>3, <2>1 DEF Greeting, Asking
    <3>2. Settled /\ Next1("user") /\ ftp'.queue = << >>
      BY <1>5, <1>7, <3>1 DEF Login, h
    <3>3. srv' = srv => Identifying'
      BY <3>1, <3>2 DEF Identifying, Asking, Exch
    <3>4. QED
      BY <1>3, <3>2, <3>3 DEF LoginPhase
  <2>2. CASE Identifying /\ e.code = 331
    <3>1. ftp.queue = << >> /\ srv.auth = 0
      BY <2>2 DEF Identifying
    <3>2. Settled /\ Next1("pass") /\ ftp'.queue = << >>
      BY <1>5, <1>7, <2>2, <3>1 DEF Login, h
    <3>3. srv' = srv => Identifying'
      BY <3>1, <3>2 DEF Identifying, Asking, Exch
    <3>4. QED
      BY <1>3, <3>2, <3>3 DEF LoginPhase
  <2>3. CASE Identifying /\ e.code = 230
    <3>1. ftp.queue = << >> /\ srv.auth = 1
      BY <2>3 DEF Identifying
    <3>2. ftp' = NewConn(h, sk)
      BY <1>5, <2>3 DEF Login, h
    <3>3. Sends(h, ftp', "type", NoArg, NoXfer) /\ ftp'.cproc = h.cproc /\ ftp'.wait = h.wait
          /\ ftp'.queue = <<Op("PWD", NoArg), Op("LIST", NoArg)>>
      BY <1>6, <3>1, <3>2, NewConnSends
    <3>4. << >> \in Seq(Exchange)
      OBVIOUS
    <3>5. Settled /\ Next1("type")
      BY <1>6, <3>3, <3>4, WireOfOne DEF Sends, Kept
    <3>6. srv' = srv => Typing'
      BY <3>1, <3>3, <3>5 DEF Typing, Asking, Exch
    <3>7. QED
      BY <1>3, <3>5, <3>6 DEF LoginPhase
  <2>4. CASE Identifying /\ e.code = 530
    <3>1. ftp.queue = << >> /\ srv.auth = 0
      BY <2>4 DEF Identifying
    <3>2. ftp' = [h EXCEPT !.status = "DISC"]
      BY <1>5, <2>4 DEF Login, h
    <3>3. Settled /\ ftp'.queue = << >> /\ ftp'.wire = << >> /\ ftp'.busy = 0
      BY <1>6, <3>1, <3>2 DEF FtpState
    <3>4. srv' = srv => Refused'
      BY <3>1, <3>3 DEF Refused
    <3>5. QED
      BY <1>3, <3>3, <3>4 DEF LoginPhase
  <2>5. CASE Typing
    <3>1. /\ e.code = 200 /\ srv.auth = 1
          /\ ftp.queue = <<Op("PWD", NoArg), Op("LIST", NoArg)>>
      BY <1>1, <1>3, <2>5 DEF Typing, Asking, Between
    <3>2. ftp' = h
      BY <1>5, <3>1 DEF Login, h
    <3>3. Settled /\ ftp'.wire = << >> /\ ftp'.busy = 0 /\ ftp'.queue = ftp.queue
      BY <1>6, <3>2
    <3>4. srv' = srv => Typing'
      BY <1>3, <3>1, <3>3 DEF Typing, Between
    <3>5. QED
      BY <1>3, <3>3, <3>4 DEF LoginPhase
  <2>6. e.code \in {331, 230, 530} \/ ~Identifying
    BY <1>3 DEF Identifying, Asking
  <2>7. ~Refused
    BY <1>1 DEF Refused
  <2>8. QED
    BY <2>1, <2>2, <2>3, <2>4, <2>5, <2>6, <2>7 DEF LoginPhase
<1>9. srv' = srv /\ dwire' = dwire
  BY <1>4, <1>5, <1>8, LinkKept
<1>10. Steady' /\ LoginPhase' /\ StartDirInv'
  BY <1>1, <1>8, <1>9 DEF Steady, StartDirInv
<1>11. NoTransfers(ftp)
  BY DEF NoTransfers, LoginPhase, Greeting, Identifying, Refused, Typing
<1>12. NoTransfers(ftp')
  BY <1>10 DEF NoTransfers, LoginPhase, Greeting, Identifying, Refused, Typing
<1>13. Book'
  BY <1>3, <1>11, <1>12, BookQuiet DEF SessionInv
<1>14. QED
  BY <1>10, <1>13 DEF SessionInv, Phase

\* After a change of directory its pwd and its list are queued.
LEMMA CwdQueues ==
    ASSUME NEW f \in FtpState, f.busy = 1, f.queue = << >>, NEW sk,
           NEW g, g = CprocCwd(f, 250, sk)
    PROVE  /\ Kept(f, g) /\ g.busy = 0 /\ g.wire = f.wire
           /\ g.cproc = f.cproc /\ g.wait = f.wait
           /\ g.queue = <<Op("PWD", NoArg), Op("LIST", NoArg)>>
<1> DEFINE a == FtpQueue(f, Op("PWD", NoArg), sk)
           b == FtpQueue(a, Op("LIST", NoArg), sk)
<1>1. g = [b EXCEPT !.busy = @ - 1]
  BY DEF CprocCwd, Answered
<1>2. /\ Kept(f, a) /\ a.busy = 1 /\ a.wire = f.wire /\ a.cproc = f.cproc /\ a.wait = f.wait
      /\ a.queue = <<Op("PWD", NoArg)>> /\ a \in FtpState
  <2>1. Append(<< >>, Op("PWD", NoArg)) = <<Op("PWD", NoArg)>>
    BY Short
  <2>2. /\ a = FtpQueue(f, Op("PWD", NoArg), sk)
        /\ Op("PWD", NoArg) \in FtpOp /\ (f.busy # 0 \/ f.queue # << >>)
    BY OpTypes
  <2> HIDE DEF a
  <2>3. /\ Kept(f, a) /\ a.busy = f.busy /\ a.wire = f.wire
        /\ a.cproc = f.cproc /\ a.wait = f.wait
        /\ a.queue = Append(f.queue, Op("PWD", NoArg)) /\ a \in FtpState
    BY <2>2, QueueBehind
  <2>4. QED
    BY <2>1, <2>3
<1> HIDE DEF a
<1>3. /\ Kept(a, b) /\ b.busy = 1 /\ b.wire = a.wire /\ b.cproc = a.cproc /\ b.wait = a.wait
      /\ b.queue = <<Op("PWD", NoArg), Op("LIST", NoArg)>> /\ b \in FtpState
  <2>1. Append(<<Op("PWD", NoArg)>>, Op("LIST", NoArg)) = <<Op("PWD", NoArg), Op("LIST", NoArg)>>
    BY Short
  <2>2. /\ b = FtpQueue(a, Op("LIST", NoArg), sk)
        /\ Op("LIST", NoArg) \in FtpOp
        /\ a \in FtpState /\ (a.busy # 0 \/ a.queue # << >>)
    BY <1>2, OpTypes
  <2> HIDE DEF b
  <2>3. /\ Kept(a, b) /\ b.busy = a.busy /\ b.wire = a.wire
        /\ b.cproc = a.cproc /\ b.wait = a.wait
        /\ b.queue = Append(a.queue, Op("LIST", NoArg)) /\ b \in FtpState
    BY <2>2, QueueBehind
  <2>4. QED
    BY <1>2, <2>1, <2>3
<1> HIDE DEF b
<1>4. Kept(f, b)
  BY <1>2, <1>3 DEF Kept
<1>5. /\ Kept(b, g) /\ g.busy = b.busy - 1 /\ g.wire = b.wire /\ g.cproc = b.cproc
      /\ g.wait = b.wait /\ g.queue = b.queue
  BY <1>1, <1>3 DEF Kept, FtpState
<1>6. Kept(f, g)
  BY <1>4, <1>5 DEF Kept
<1>7. QED
  BY <1>2, <1>3, <1>5, <1>6

\* The reply to a change of directory.
LEMMA CtlLineCwd ==
    ASSUME Cooperative, IndInv, SessionInv, CtlLine, CwdPhase
    PROVE  SessionInv'
<1> DEFINE e == ftp.wire[1]
           f == [ftp EXCEPT !.wire = << >>]
<1>1. /\ ftp.cproc = "cwd" /\ ftp.wire # << >> /\ ftp.data = NoSock /\ ftp.wait = << >>
      /\ ftp.ctl = Open /\ ftp.lis = NoSock /\ ftp.passive = 1
      /\ ftp.fault = "none" /\ srv.up = 1 /\ srv.auth = 1
  BY DEF CtlLine, HasReply, CwdPhase, SessionInv, Steady
<1>2. /\ Len(ftp.wire) = 1 /\ e.mark = "none" /\ e.code \in {250, 0}
      /\ ftp.busy = 1 /\ ftp.queue = << >>
  BY <1>1 DEF CwdPhase, Between, Asking
<1>3. /\ f \in FtpState /\ e.code # 0
      /\ xfer' = xfer /\ pc' = "ctl" /\ startDir' = startDir
  BY <1>1, <1>2, ReplyRead
<1>4. PICK sk \in SockOutcomes :
        LET g == ProcControl(f, e.code, e.arg, "ok", sk)
        IN  ftp' = g /\ LinkData(f, g, f.cproc = "pasv")
  BY <1>1, <1>2, ReplyRead
<1>5. /\ f.cproc = "cwd" /\ f.data = NoSock /\ f.wait = << >> /\ f.ctl = Open
      /\ f.lis = NoSock /\ f.passive = 1 /\ f.fault = "none" /\ f.wire = << >>
      /\ f.busy = 1 /\ f.queue = << >>
  BY <1>1, <1>2, <1>3 DEF FtpState
<1>6. ftp' = CprocCwd(f, 250, sk)
  BY <1>2, <1>3, <1>4, <1>5 DEF ProcControl
<1> HIDE DEF f
<1>7. /\ Kept(f, ftp') /\ ftp'.busy = 0 /\ ftp'.wire = << >>
      /\ ftp'.cproc = "cwd" /\ ftp'.wait = << >>
      /\ ftp'.queue = <<Op("PWD", NoArg), Op("LIST", NoArg)>>
  BY <1>3, <1>5, <1>6, CwdQueues
<1>8. srv' = srv /\ dwire' = dwire
  BY <1>4, <1>5, <1>7, LinkKept DEF Kept
<1>9. Steady' /\ CwdPhase' /\ startDir' = NoArg
  <2>1. startDir = NoArg
    BY <1>1 DEF SessionInv, StartDirInv
  <2>2. QED
    BY <1>1, <1>3, <1>5, <1>7, <1>8, <2>1 DEF Kept, Steady, CwdPhase, Between
<1>10. Book'
  <2>1. NoTransfers(ftp) /\ NoTransfers(ftp')
    BY <1>1, <1>2, <1>7 DEF NoTransfers
  <2>2. QED
    BY <1>3, <2>1, BookQuiet DEF SessionInv
<1>11. QED
  BY <1>9, <1>10 DEF SessionInv, Phase, StartDirInv

\* The reply to PASV: the client connects, and the operation goes on.
LEMMA CtlLinePasv ==
    ASSUME Cooperative, IndInv, SessionInv, CtlLine, PasvPhase
    PROVE  SessionInv'
<1> DEFINE e == ftp.wire[1]
           f == [ftp EXCEPT !.wire = << >>]
<1>1. /\ ftp.cproc = "pasv" /\ ftp.wire # << >>
      /\ ftp.ctl = Open /\ ftp.lis = NoSock /\ ftp.passive = 1
      /\ ftp.fault = "none" /\ srv.up = 1 /\ srv.auth = 1
  BY DEF CtlLine, HasReply, PasvPhase, SessionInv, Steady
<1>2. /\ Len(ftp.wire) = 1 /\ e.mark = "none" /\ e.code \in {227, 0}
      /\ ftp.busy = 1 /\ ftp.queue = << >> /\ ftp.data = NoSock
  BY <1>1 DEF PasvPhase, Asking
<1>3. /\ f \in FtpState /\ e.code # 0
      /\ xfer' = xfer /\ pc' = "ctl" /\ startDir' = startDir
  BY <1>1, <1>2, ReplyRead
<1>4. PICK sk \in SockOutcomes :
        LET g == ProcControl(f, e.code, e.arg, "ok", sk)
        IN  ftp' = g /\ LinkData(f, g, f.cproc = "pasv")
  BY <1>1, <1>2, ReplyRead
<1>5. /\ f.cproc = "pasv" /\ f.data = NoSock /\ f.wait = ftp.wait /\ f.ctl = Open
      /\ f.lis = NoSock /\ f.passive = 1 /\ f.fault = "none" /\ f.wire = << >>
      /\ f.busy = 1 /\ f.queue = << >> /\ f.curdir = ftp.curdir /\ f.dirent = ftp.dirent
  BY <1>1, <1>2, <1>3 DEF FtpState
<1> HIDE DEF f
<1>6. ftp' = [[f EXCEPT !.data = Open, !.status = "PASV"] EXCEPT !.busy = @ - 1]
  BY <1>2, <1>3, <1>4, <1>5 DEF ProcControl, CprocPasv, Answered
<1>7. /\ ftp'.cproc = "pasv" /\ ftp'.data = Open /\ ftp'.wait = ftp.wait /\ ftp'.ctl = Open
      /\ ftp'.lis = NoSock /\ ftp'.passive = 1 /\ ftp'.fault = "none" /\ ftp'.wire = << >>
      /\ ftp'.busy = 0 /\ ftp'.queue = << >> /\ ftp'.status = "PASV"
      /\ ftp'.curdir = ftp.curdir /\ ftp'.dirent = ftp.dirent
  BY <1>3, <1>5, <1>6 DEF FtpState
<1>8. srv' = [srv EXCEPT !.conn = "open"] /\ dwire' = << >>
  BY <1>4, <1>5, <1>7 DEF LinkData
<1>9. srv'.conn = "open" /\ srv'.up = 1 /\ srv'.auth = 1 /\ srv'.cwd = srv.cwd
  BY <1>1, <1>8 DEF IndInv, TypeOK, SrvState
<1>10. PasvPhase'
  BY <1>3, <1>7, <1>8, <1>9 DEF PasvPhase, Listed, Content
<1>11. Steady' /\ StartDirInv'
  BY <1>1, <1>3, <1>7, <1>9 DEF SessionInv, Steady, StartDirInv
<1>12. Book'
  <2>1. \A x \in Xfers : /\ Current(ftp', x) <=> Current(ftp, x)
                         /\ Queued(ftp', x) <=> Queued(ftp, x)
    BY <1>1, <1>2, <1>7 DEF Current, Queued
  <2>2. QED
    BY <1>3, <1>7, <1>9, <2>1, BookSame DEF SessionInv
<1>13. QED
  BY <1>10, <1>11, <1>12 DEF SessionInv, Phase

\* What the data connection carries does not depend on the rest of the state.
LEMMA StreamKept ==
    ASSUME Stream, Over' <=> Over, Begun' <=> Begun,
           ftp'.dproc = ftp.dproc, ftp'.cproc = ftp.cproc, ftp'.cls = ftp.cls,
           ftp'.rbuf = ftp.rbuf, xfer' = xfer, srv' = srv, dwire' = dwire
    PROVE  Stream'
BY DEF Stream, Received, Wanted

\* The replies to LIST and RETR: the 150, and the 226 at the end.
LEMMA CtlLineTransfer ==
    ASSUME Cooperative, IndInv, SessionInv, CtlLine, TransferPhase
    PROVE  SessionInv' /\ xfer' = xfer
<1> DEFINE e == Head(ftp.wire)
           prelim == e.mark = "sent"
           code == IF prelim THEN 150 ELSE e.code
           w == IF prelim THEN [ftp.wire EXCEPT ![1].mark = "read"] ELSE Tail(ftp.wire)
           f == [ftp EXCEPT !.wire = w]
           ends == EndsXfer(code)
           uses == ftp.cproc = "xfer" /\ (prelim \/ ends)
<1>1. /\ ftp \in FtpState /\ ftp.wire \in Seq(Exchange) /\ ftp.wire # << >>
      /\ srv \in SrvState /\ xfer \in [Xfers -> Transfer] /\ ftp.busy \in Int
  BY DEF CtlLine, HasReply, IndInv, TypeOK, FtpState
<1>2. /\ Len(ftp.wire) = 1 /\ TransferCmd /\ ftp.cproc \in {"list", "xfer"}
      /\ ftp.data \in {NoSock, Open}
  BY <1>1 DEF TransferPhase, FtpState
<1>3. e = ftp.wire[1] /\ e \in Exchange /\ Tail(ftp.wire) = << >>
  BY <1>1, <1>2, WireOfOne
<1>4. PICK sk \in SockOutcomes, conn \in ConnOutcomes, mem \in MemOutcomes(ftp.cls) :
        LET h == [ftp EXCEPT !.wire =
                    IF prelim THEN [@ EXCEPT ![1].mark = "read"] ELSE Tail(@)]
            g == IF uses /\ mem = "garbage" THEN [h EXCEPT !.fault = "crash"]
                 ELSE ProcControl(h, code, e.arg, conn, sk)
        IN  /\ ftp' = g
            /\ xfer' = IF uses THEN UseXfer(ftp.cls, ends) ELSE xfer
            /\ LinkData(h, g, h.cproc = "pasv")
  BY DEF CtlLine
<1>5. f = [ftp EXCEPT !.wire = IF prelim THEN [@ EXCEPT ![1].mark = "read"] ELSE Tail(@)]
  BY <1>1
<1>6. e.code \in {0, 226} /\ (~prelim => e.code = 226 /\ e.mark = "read")
  BY SMTT(30), <1>2, <1>3 DEF TransferCmd, CtlLine, HasReply, Exchange
<1>7. ~ends /\ (uses <=> ftp.cproc = "xfer" /\ prelim)
  BY <1>6 DEF EndsXfer
<1> HIDE DEF ends
<1>8. uses => xfer[ftp.cls].st = "live" /\ ftp.cls \in Xfers
  <2>1. ftp.cproc = "xfer" => ftp.cls \in Xfers
    BY DEF IndInv, HandlersAgree
  <2>2. prelim => ftp.data = Open
    BY <1>2, <1>3 DEF TransferCmd
  <2>3. uses => Current(ftp, ftp.cls)
    BY <1>7, <2>2 DEF Current
  <2>4. QED
    BY <1>7, <1>2, <2>1, <2>3 DEF SessionInv, Book, Books
<1> HIDE DEF w, f
<1>9. /\ w \in Seq(Exchange)
      /\ prelim => Len(w) = 1 /\ w[1] = [e EXCEPT !.mark = "read"]
      /\ ~prelim => w = << >>
  <2>1. CASE prelim
    <3>1. 1 \in 1..Len(ftp.wire) /\ [e EXCEPT !.mark = "read"] \in Exchange
      BY <1>1, <1>2, <1>3 DEF Exchange
    <3>2. w = [ftp.wire EXCEPT ![1] = [e EXCEPT !.mark = "read"]]
      BY <1>3, <2>1, <3>1 DEF w
    <3> HIDE DEF e
    <3>3. w \in Seq(Exchange) /\ Len(w) = 1
      BY <1>1, <1>2, <3>1, <3>2, ExceptSeq
    <3>4. w[1] = [e EXCEPT !.mark = "read"]
      BY <1>1, <3>1, <3>2
    <3>5. QED
      BY <2>1, <3>3, <3>4
  <2>2. CASE ~prelim
    <3>1. w = << >>
      BY <1>3, <2>2 DEF w
    <3>2. << >> \in Seq(Exchange)
      OBVIOUS
    <3> HIDE DEF e
    <3>3. QED
      BY <2>2, <3>1, <3>2
  <2>3. QED
    BY <2>1, <2>2
<1>10. f \in FtpState /\ f.cproc = ftp.cproc /\ f.data = ftp.data
  BY <1>1, <1>9 DEF f, FtpState
<1>11. ~(uses /\ mem = "garbage") /\ xfer' = xfer
  <2>1. uses => mem = "intact"
    BY <1>8 DEF MemOutcomes
  <2>2. uses => UseXfer(ftp.cls, ends) = xfer
    <3>1. ASSUME uses PROVE UseXfer(ftp.cls, ends) = xfer
      <4>1. UseXfer(ftp.cls, ends) = [xfer EXCEPT ![ftp.cls].st = @]
        BY <1>7, <1>8, <3>1 DEF UseXfer
      <4>2. QED
        BY <1>1, <1>8, <3>1, <4>1 DEF Transfer
    <3>2. QED
      BY <3>1
  <2>3. QED
    BY <1>4, <2>1, <2>2
<1>12. ftp' = CprocTransfer(f, code) /\ LinkData(f, ftp', f.cproc = "pasv")
  BY <1>2, <1>4, <1>5, <1>10, <1>11 DEF ProcControl
<1>13. ftp' = IF prelim THEN f ELSE [f EXCEPT !.busy = @ - 1]
  BY <1>6, <1>12 DEF CprocTransfer, Answered
<1>14. /\ ftp'.ctl = ftp.ctl /\ ftp'.lis = ftp.lis /\ ftp'.passive = ftp.passive
       /\ ftp'.fault = ftp.fault /\ ftp'.cproc = ftp.cproc /\ ftp'.wait = ftp.wait
       /\ ftp'.status = ftp.status /\ ftp'.curdir = ftp.curdir /\ ftp'.dirent = ftp.dirent
       /\ ftp'.queue = ftp.queue /\ ftp'.data = ftp.data /\ ftp'.dproc = ftp.dproc
       /\ ftp'.cls = ftp.cls /\ ftp'.rbuf = ftp.rbuf /\ ftp'.wire = w
       /\ ftp'.busy = IF prelim THEN ftp.busy ELSE ftp.busy - 1
  BY <1>1, <1>10, <1>13 DEF f, FtpState
<1>15. srv' = srv /\ dwire' = dwire
  <2>1. f.cproc # "pasv" /\ f.data = ftp'.data /\ f.data \in {NoSock, Open}
    BY <1>2, <1>10, <1>14
  <2>2. QED
    BY <1>12, <2>1, LinkKept
<1>16. /\ Len(w) = IF prelim THEN 1 ELSE 0
       /\ w = << >> <=> ~prelim
  BY <1>9
<1> HIDE DEF uses
<1>17. ftp.data = Open => Stream'
  <2>1. ftp.data = Open => Stream
    BY DEF TransferPhase
  <2>2. ~prelim => Over /\ Over' /\ Begun /\ Begun'
    BY <1>3, <1>6, <1>14, <1>16 DEF Over, Begun
  <2>3. prelim => w[1].code = e.code /\ w[1].mark = "read"
    BY <1>3, <1>9 DEF Exchange
  <2>4. prelim => (Over' <=> Over) /\ (Begun' <=> Begun)
    BY <1>1, <1>3, <1>14, <1>16, <2>3 DEF Over, Begun
  <2>5. QED
    BY <1>11, <1>14, <1>15, <2>1, <2>2, <2>4, StreamKept
<1>18. ftp'.wire = << >> \/ (Len(ftp'.wire) = 1 /\ TransferCmd')
  <2>1. prelim => ftp.data = Open
    BY <1>2, <1>3 DEF TransferCmd
  <2>2. prelim => /\ w[1].cmd = e.cmd /\ w[1].data = e.data
                  /\ w[1].code = e.code /\ w[1].mark = "read"
    BY <1>3, <1>9 DEF Exchange
  <2>3. prelim => TransferCmd'
    BY <1>2, <1>3, <1>14, <2>1, <2>2 DEF TransferCmd
  <2>4. QED
    BY <1>14, <1>16, <2>3
<1>19. ftp'.busy = Len(ftp'.wire) + IF ftp'.data = Open THEN 1 ELSE 0
  <2>1. ftp.busy = 1 + IF ftp.data = Open THEN 1 ELSE 0
    BY <1>2 DEF TransferPhase
  <2>2. QED
    BY <1>14, <1>16, <2>1
<1>20. pc' = "ctl" /\ startDir' = startDir
  BY DEF CtlLine
<1>21. TransferPhase'
  <2>1. ftp'.cproc = "xfer" \/ ftp'.data = NoSock => Listed'
    BY <1>14, <1>15 DEF TransferPhase, Listed, Content
  <2>2. QED
    BY <1>14, <1>15, <1>17, <1>18, <1>19, <1>20, <2>1 DEF TransferPhase
<1>22. Steady' /\ StartDirInv'
  <2>1. startDir = NoArg
    <3>1. startDir # NoArg => StartDirDue
      BY <1>2 DEF SessionInv, StartDirInv, TransferPhase, StartDirDue
    <3>2. ~StartDirDue
      BY DEF CtlLine, InControl, AtSelect, StartDirDue
    <3>3. QED
      BY <3>1, <3>2
  <2>2. QED
    BY <1>14, <1>15, <1>20, <2>1 DEF SessionInv, Steady, StartDirInv
<1>23. Book'
  <2>1. \A x \in Xfers : /\ Current(ftp', x) <=> Current(ftp, x)
                         /\ Queued(ftp', x) <=> Queued(ftp, x)
    BY <1>14 DEF Current, Queued
  <2>2. QED
    BY <1>11, <1>14, <1>15, <2>1, BookSame DEF SessionInv
<1>24. QED
  BY <1>11, <1>21, <1>22, <1>23 DEF SessionInv, Phase

\* A reply line keeps the invariant, and the transfers as they are.
LEMMA CtlLineSession ==
    ASSUME Cooperative, IndInv, SessionInv, CtlLine
    PROVE  SessionInv' /\ xfer' = xfer
<1>1. CASE TransferPhase
  BY <1>1, CtlLineTransfer
<1>2. CASE LoginPhase \/ CwdPhase \/ PwdPhase \/ PasvPhase
  <2>1. SessionInv'
    BY <1>2, CtlLineLogin, CtlLineCwd, CtlLinePwd, CtlLinePasv
  <2>2. ftp.cproc \in {"none", "cwd", "pwd", "pasv"} /\ ftp.wire # << >>
    BY <1>2 DEF LoginPhase, CwdPhase, PwdPhase, PasvPhase, CtlLine, HasReply
  <2>3. xfer' = xfer
    BY <2>2 DEF CtlLine
  <2>4. QED
    BY <2>1, <2>3
<1>3. QED
  BY <1>1, <1>2 DEF SessionInv, Phase

\* The operation at the head of the queue runs when nothing is outstanding.
Ready(f, op) ==
    /\ f \in FtpState /\ f.ctl = Open /\ f.data = NoSock /\ f.lis = NoSock
    /\ f.passive = 1 /\ f.busy = 0 /\ f.wire = << >>
    /\ f.queue # << >> /\ op = Head(f.queue)
    /\ op.op \in {"PWD", "CHDIR", "LIST", "XFER"}

Ran(f, op, g) ==
    /\ Kept(f, g) /\ g.busy = 1 /\ Len(g.wire) = 1 /\ g.queue = Tail(f.queue)
    /\ op.op = "PWD" =>
        /\ g.wire[1] = Exch("pwd", NoArg, NoXfer)
        /\ g.cproc = "pwd" /\ g.wait = f.wait
    /\ op.op = "CHDIR" =>
        /\ g.wire[1] = Exch("cwd", op.arg, NoXfer)
        /\ g.cproc = "cwd" /\ g.wait = f.wait
    /\ op.op \in {"LIST", "XFER"} =>
        /\ g.wire[1] = Exch("pasv", NoArg, NoXfer)
        /\ g.cproc = "pasv" /\ g.wait = <<op>> \o f.wait

\* next_op_queue takes the head of the queue: what is left, and what runs.
LEMMA NextOp ==
    ASSUME NEW f, NEW op, Ready(f, op), NEW sk, NEW g, g = HandleTail(f, sk)
    PROVE  Ran(f, op, g)
<1> DEFINE h == [f EXCEPT !.queue = Tail(@)]
<1>0. /\ f \in FtpState /\ f.ctl = Open /\ f.data = NoSock /\ f.lis = NoSock
      /\ f.passive = 1 /\ f.busy = 0 /\ f.wire = << >>
      /\ f.queue # << >> /\ op = Head(f.queue)
      /\ op.op \in {"PWD", "CHDIR", "LIST", "XFER"}
  BY DEF Ready
<1>1. g = ExecOp(h, op, sk)
  BY <1>0 DEF HandleTail, ExecQueued
<1>2. /\ h \in FtpState /\ Kept(f, h) /\ h.busy = 0 /\ h.wire = << >> /\ h.wait = f.wait
      /\ h.queue = Tail(f.queue)
  <2>1. f.queue \in Seq(FtpOp)
    BY <1>0 DEF FtpState
  <2>2. Tail(f.queue) \in Seq(FtpOp)
    BY <1>0, <2>1
  <2>3. QED
    BY ZenonT(40), <1>0, <2>2 DEF FtpState, Kept
<1> HIDE DEF h
<1>3. h.ctl = Open /\ h.data = NoSock /\ h.lis = NoSock /\ h.passive = 1
  BY <1>0, <1>2 DEF Kept
<1>4. ASSUME NEW cmd, NEW arg, Sends(h, g, cmd, arg, NoXfer)
      PROVE  /\ Kept(f, g) /\ g.busy = 1 /\ Len(g.wire) = 1
             /\ g.wire[1] = Exch(cmd, arg, NoXfer)
  <2>1. Kept(h, g) /\ g.busy = 1 /\ g.wire = Append(h.wire, Exch(cmd, arg, NoXfer))
    BY <1>2, <1>4 DEF Sends
  <2>2. Kept(f, g)
    BY <1>2, <2>1 DEF Kept
  <2>3. h.wire \in Seq(Exchange)
    BY <1>2 DEF FtpState
  <2>4. QED
    BY <1>2, <2>1, <2>2, <2>3, WireOfOne
<1>5. CASE op.op = "PWD"
  <2>1. /\ Sends(h, g, "pwd", NoArg, NoXfer) /\ g.cproc = "pwd"
        /\ g.queue = h.queue /\ g.wait = h.wait
    BY <1>1, <1>2, <1>3, <1>5, CommandSends
  <2>2. QED
    BY <1>2, <1>4, <1>5, <2>1 DEF Ran
<1>6. CASE op.op = "CHDIR"
  <2>1. /\ Sends(h, g, "cwd", op.arg, NoXfer) /\ g.cproc = "cwd"
        /\ g.queue = h.queue /\ g.wait = h.wait
    BY <1>1, <1>2, <1>3, <1>6, CommandSends
  <2>2. QED
    BY <1>2, <1>4, <1>6, <2>1 DEF Ran
<1>7. CASE op.op \in {"LIST", "XFER"}
  <2>1. /\ Sends(h, g, "pasv", NoArg, NoXfer) /\ g.cproc = "pasv"
        /\ g.queue = h.queue /\ g.wait = <<op>> \o h.wait
    BY SMTT(30), <1>1, <1>2, <1>3, <1>7, DataOpAsks
  <2>2. QED
    BY <1>2, <1>4, <1>7, <2>1 DEF Ran
<1>8. QED
  BY <1>0, <1>5, <1>6, <1>7 DEF Ran

\* What the end of ftp_handle does in a session whose control connection is open.
LEMMA AgainRuns ==
    ASSUME IndInv, SessionInv, CtlAgain
    PROVE  /\ xfer' = xfer /\ startDir' = startDir /\ ftp.ctl = Open
           /\ \E sk \in SockOutcomes :
                /\ ftp' = HandleTail(ftp, sk)
                /\ pc' = AfterHandle(ftp, ftp')
                /\ LinkData(ftp, ftp', FALSE)
<1>1. ftp.ctl = Open /\ ftp.ctl # NoSock
  BY DEF SessionInv, Steady, Open, NoSock
<1>2. QED
  BY <1>1 DEF CtlAgain

\* ftp_handle ends with nothing to run: the thread goes back to select, or to
\* the operation that waits.
LEMMA CtlAgainNothing ==
    ASSUME Cooperative, IndInv, SessionInv, CtlAgain,
           ftp.busy > 0 \/ (ftp.busy = 0 /\ ftp.queue = << >>)
    PROVE  SessionInv'
<1>1. PICK sk \in SockOutcomes :
        /\ ftp' = HandleTail(ftp, sk) /\ pc' = AfterHandle(ftp, ftp')
        /\ LinkData(ftp, ftp', FALSE)
  BY AgainRuns
<1>2. ftp.busy \in Int /\ ftp.data \in {NoSock, Open}
  BY DEF IndInv, TypeOK, FtpState
<1>3. ftp' = ftp
  BY <1>1, <1>2 DEF HandleTail, ExecQueued
<1>4. srv' = srv /\ dwire' = dwire /\ xfer' = xfer /\ startDir' = startDir
  BY <1>1, <1>2, <1>3, LinkKept, AgainRuns
<1>5. pc = "ctl" /\ pc' = IF ftp.wait = << >> THEN "select" ELSE "resume"
  <2>1. Len(ftp.wait) \in Nat
    BY DEF IndInv, TypeOK, FtpState
  <2>2. ~(Len(ftp.wait) > Len(ftp.wait))
    BY <2>1
  <2>3. QED
    BY <1>1, <1>3, <2>2 DEF AfterHandle, CtlAgain
<1>6. ~Between \/ ftp.queue = << >>
  BY <1>2 DEF Between
<1>7. << >> # <<Op("LIST", NoArg)>> /\ << >> # <<Op("PWD", NoArg), Op("LIST", NoArg)>>
  BY Short
<1>8. ASSUME LoginPhase PROVE Phase'
  <2>1. ftp.wait = << >> /\ ~(Typing /\ Between)
    BY <1>6, <1>7, <1>8 DEF LoginPhase, Typing
  <2>2. (Greeting \/ Identifying \/ Refused \/ Typing)'
    BY <1>3, <1>4, <1>8, <2>1 DEF LoginPhase, Greeting, Identifying, Refused, Typing, Asking
  <2>3. LoginPhase'
    BY <1>3, <1>5, <1>8, <2>1, <2>2 DEF LoginPhase
  <2>4. QED
    BY <2>3 DEF Phase
<1>9. ASSUME CwdPhase PROVE Phase'
  <2>1. /\ Asking("cwd", {250}) \/ Asking("cdup", {250})
        /\ ftp.busy = 1 /\ ftp.queue = << >>
    BY <1>6, <1>7, <1>9 DEF CwdPhase
  <2>2. (Asking("cwd", {250}) \/ Asking("cdup", {250}))'
    BY <1>3, <2>1 DEF Asking
  <2>3. CwdPhase'
    BY <1>3, <1>4, <1>5, <1>9, <2>1, <2>2 DEF CwdPhase
  <2>4. QED
    BY <2>3 DEF Phase
<1>10. ASSUME PwdPhase PROVE Phase'
  <2>1. /\ Asking("pwd", {257}) /\ ftp.busy = 1
        /\ ftp.wire[1].code # 0 => ftp.wire[1].arg = srv.cwd
    BY <1>6, <1>7, <1>10 DEF PwdPhase
  <2>2. Asking("pwd", {257})'
    BY <1>3, <2>1 DEF Asking
  <2>3. PwdPhase'
    BY <1>3, <1>4, <1>5, <1>10, <2>1, <2>2 DEF PwdPhase
  <2>4. QED
    BY <2>3 DEF Phase
<1>11. ASSUME PasvPhase PROVE Phase'
  <2>1. ftp.wait # << >>
    <3>1. \A x : <<XferOp(x)>> # << >>
      BY QueueKinds
    <3>2. QED
      BY <1>7, <1>11, <3>1 DEF PasvPhase
  <2>2. /\ ftp.wire = << >> /\ ftp.busy = 0 /\ ftp.data = Open
        /\ ftp.status = "PASV" /\ srv.conn = "open" /\ dwire = << >>
    BY <1>5, <1>11 DEF PasvPhase
  <2>5. Listed' <=> Listed
    BY <1>3, <1>4 DEF Listed, Content
  <2>4. PasvPhase'
    BY <1>3, <1>4, <1>5, <1>11, <2>1, <2>2, <2>5 DEF PasvPhase
  <2>6. QED
    BY <2>4 DEF Phase
<1>12. ASSUME TransferPhase PROVE Phase'
  <2>1. ftp.wait = << >> /\ pc' = "select"
    BY <1>5, <1>12 DEF TransferPhase
  <2>2. ftp.data = Open => Stream'
    <3>1. (Over' <=> Over) /\ (Begun' <=> Begun)
      BY <1>3 DEF Over, Begun
    <3>2. QED
      BY <1>3, <1>4, <1>12, <3>1, StreamKept DEF TransferPhase
  <2>3. TransferCmd' <=> TransferCmd
    BY <1>3 DEF TransferCmd
  <2>4. Listed' <=> Listed
    BY <1>3, <1>4 DEF Listed, Content
  <2>5. ftp'.busy = 0 /\ ftp'.queue # << >> => pc' = "ctl"
    BY <1>2, <1>3
  <2>6. TransferPhase'
    BY <1>3, <1>4, <1>12, <2>1, <2>2, <2>3, <2>4, <2>5 DEF TransferPhase
  <2>7. QED
    BY <2>6 DEF Phase
<1>13. Phase'
  BY <1>8, <1>9, <1>10, <1>11, <1>12 DEF SessionInv, Phase
<1>14. Steady' /\ StartDirInv'
  <2>1. startDir # NoArg => ~(ftp.cproc = "list")
    BY <1>5 DEF SessionInv, StartDirInv
  <2>2. QED
    BY <1>3, <1>4, <2>1 DEF SessionInv, Steady, StartDirInv
<1>15. Book'
  BY <1>3, <1>4, BookSame DEF SessionInv
<1>16. QED
  BY <1>13, <1>14, <1>15 DEF SessionInv

\* The reply that ends a command, or the end of the data, runs what is queued
\* behind a transfer: a change of directory or the next file.
LEMMA TransferDone ==
    ASSUME NEW f \in FtpState, f.ctl = Open, f.data = NoSock, f.lis = NoSock,
           f.passive = 1, f.fault = "none", f.busy = 0, f.wire = << >>,
           f.wait = << >>, f.status = "PASV", f.curdir = srv.cwd,
           f.dirent = Content(srv.cwd, Ls), f.cproc \in {"list", "xfer"},
           \/ f.queue = << >>
           \/ f.cproc = "list" /\ \E d \in Dirs : f.queue = <<Op("CHDIR", d)>>
           \/ f.cproc = "xfer" /\ \E x \in Xfers : f.queue = <<XferOp(x)>>,
           NEW sk, ftp' = HandleTail(f, sk), pc' = "select",
           srv'.up = 1, srv'.auth = 1, srv'.cwd = srv.cwd, startDir' = NoArg
    PROVE  /\ Steady' /\ Phase' /\ StartDirInv'
           /\ \A x \in Xfers : Current(ftp', x) <=> Queued(f, x)
           /\ \A x \in Xfers : ~Queued(ftp', x)
<1>1. CASE f.queue = << >>
  <2>1. ftp' = f
    BY <1>1 DEF HandleTail, ExecQueued
  <2>2. TransferPhase'
    <3>1. Listed'
      BY <2>1 DEF Listed, Content
    <3>3. ftp'.data # Open
      BY <2>1 DEF NoSock, Open
    <3>5. Len(<< >>) = 0
      OBVIOUS
    <3>2. ftp'.busy = Len(ftp'.wire) + IF ftp'.data = Open THEN 1 ELSE 0
      BY <2>1, <3>3, <3>5
    <3>4. QED
      BY <1>1, <2>1, <3>1, <3>2, <3>3 DEF TransferPhase
  <2>3. \A x \in Xfers : ~Queued(f, x) /\ ~Current(f, x)
    <3>1. NoTransfers(f)
      BY <1>1 DEF NoTransfers
    <3>2. QED
      BY <3>1, NoTransfer
  <2>4. QED
    BY <2>1, <2>2, <2>3 DEF Steady, Phase, StartDirInv
<1>2. CASE f.cproc = "list" /\ \E d \in Dirs : f.queue = <<Op("CHDIR", d)>>
  <2>1. PICK d \in Dirs : f.queue = <<Op("CHDIR", d)>>
    BY <1>2
  <2> DEFINE op == Op("CHDIR", d)
  <2>2. f.queue # << >> /\ op = Head(f.queue) /\ Tail(f.queue) = << >> /\ op.op = "CHDIR"
    BY <2>1, Short DEF Op
  <2> HIDE DEF op
  <2>3. /\ Kept(f, ftp') /\ ftp'.busy = 1 /\ Len(ftp'.wire) = 1 /\ ftp'.queue = << >>
        /\ ftp'.wire[1] = Exch("cwd", op.arg, NoXfer)
        /\ ftp'.cproc = "cwd" /\ ftp'.wait = << >>
    <3>1. Ready(f, op)
      BY <2>2 DEF Ready
    <3>2. Ran(f, op, ftp')
      BY <3>1, NextOp
    <3>3. QED
      BY <2>2, <3>2 DEF Ran
  <2>4. Asking("cwd", {250})'
    BY <2>3 DEF Asking, Exch
  <2>5. CwdPhase' /\ Steady' /\ StartDirInv'
    BY <2>3, <2>4 DEF Kept, CwdPhase, Steady, StartDirInv
  <2>6. NoTransfers(ftp') /\ NoTransfers(f)
    BY <2>1, <2>3 DEF NoTransfers
  <2>7. QED
    BY <2>5, <2>6, NoTransfer DEF Phase
<1>3. CASE f.cproc = "xfer" /\ \E x \in Xfers : f.queue = <<XferOp(x)>>
  <2>1. PICK x \in Xfers : f.queue = <<XferOp(x)>>
    BY <1>3
  <2> DEFINE op == XferOp(x)
  <2>2. /\ f.queue # << >> /\ op = Head(f.queue) /\ Tail(f.queue) = << >> /\ op.op = "XFER"
        /\ <<op>> \o << >> = <<op>>
    BY <2>1, Short DEF XferOp
  <2> HIDE DEF op
  <2>3. /\ Kept(f, ftp') /\ ftp'.busy = 1 /\ Len(ftp'.wire) = 1 /\ ftp'.queue = << >>
        /\ ftp'.wire[1] = Exch("pasv", NoArg, NoXfer)
        /\ ftp'.cproc = "pasv" /\ ftp'.wait = <<op>>
    <3>1. Ready(f, op)
      BY <2>2 DEF Ready
    <3>2. Ran(f, op, ftp')
      BY <3>1, NextOp
    <3>3. QED
      BY <2>2, <3>2 DEF Ran
  <2>4. Asking("pasv", {227})'
    BY <2>3 DEF Asking, Exch
  <2>5. Listed'
    BY <2>3 DEF Kept, Listed, Content
  <2>6. PasvPhase' /\ Steady' /\ StartDirInv'
    BY <2>3, <2>4, <2>5 DEF Kept, PasvPhase, Steady, StartDirInv, op, Listed
  <2>7. \A y \in Xfers : Current(ftp', y) <=> Queued(f, y)
    BY <2>1, <2>3 DEF Current, Queued, op
  <2>8. \A y \in Xfers : ~Queued(ftp', y)
    BY <2>3, QueueKinds DEF Queued
  <2>9. QED
    BY <2>6, <2>7, <2>8 DEF Phase
<1>4. QED
  BY <1>1, <1>2, <1>3

\* ftp_handle ends with nothing outstanding and runs the next operation.
LEMMA CtlAgainRuns ==
    ASSUME Cooperative, IndInv, SessionInv, CtlAgain, ftp.busy = 0, ftp.queue # << >>
    PROVE  SessionInv'
<1> DEFINE pwd == Op("PWD", NoArg)
           list == Op("LIST", NoArg)
<1>1. PICK sk \in SockOutcomes :
        /\ ftp' = HandleTail(ftp, sk) /\ pc' = AfterHandle(ftp, ftp')
        /\ LinkData(ftp, ftp', FALSE)
  BY AgainRuns
<1>2. /\ ftp \in FtpState /\ xfer' = xfer /\ startDir' = startDir /\ pc = "ctl"
      /\ ftp.ctl = Open /\ ftp.lis = NoSock /\ ftp.passive = 1 /\ ftp.fault = "none"
      /\ srv.up = 1
  BY AgainRuns DEF IndInv, TypeOK, SessionInv, Steady, CtlAgain
<1>3. pwd.op = "PWD" /\ list.op = "LIST"
  BY DEF Op
<1> HIDE DEF pwd, list
<1>4. CASE LoginPhase \/ CwdPhase
  <2>1. /\ ftp.queue = <<pwd, list>> /\ ftp.wire = << >> /\ ftp.data = NoSock
        /\ ftp.wait = << >> /\ srv.auth = 1
    BY <1>4 DEF LoginPhase, CwdPhase, Greeting, Identifying, Refused, Typing, Between, pwd, list
  <2>2. pwd = Head(ftp.queue) /\ Tail(ftp.queue) = <<list>>
    BY <2>1, Short
  <2>3. /\ Kept(ftp, ftp') /\ ftp'.busy = 1 /\ Len(ftp'.wire) = 1 /\ ftp'.queue = <<list>>
        /\ ftp'.wire[1] = Exch("pwd", NoArg, NoXfer)
        /\ ftp'.cproc = "pwd" /\ ftp'.wait = << >>
    <3>1. Ready(ftp, pwd)
      BY <1>2, <1>3, <2>1, <2>2 DEF Ready
    <3>2. Ran(ftp, pwd, ftp')
      BY <1>1, <3>1, NextOp
    <3>3. QED
      BY <1>3, <2>1, <2>2, <3>2 DEF Ran
  <2>4. srv' = srv /\ dwire' = dwire
    BY <1>1, <2>1, <2>3, LinkKept DEF Kept
  <2>5. pc' = "select"
    BY <1>1, <2>1 DEF AfterHandle
  <2>6. PwdPhase' /\ Steady'
    BY <1>2, <2>1, <2>3, <2>4, <2>5 DEF Kept, PwdPhase, Asking, Exch, Steady, list
  <2>7. StartDirInv'
    BY <1>2, <1>4, <2>3 DEF Kept, SessionInv, StartDirInv, LoginPhase, CwdPhase
  <2>8. NoTransfers(ftp) /\ NoTransfers(ftp')
    BY <2>1, <2>3, <2>6 DEF NoTransfers, Kept, pwd, list
  <2>9. QED
    BY <1>2, <2>6, <2>7, <2>8, BookQuiet DEF SessionInv, Phase
<1>5. CASE PwdPhase
  <2>1. /\ ftp.queue = <<list>> /\ ftp.wire = << >> /\ ftp.data = NoSock
        /\ ftp.wait = << >> /\ srv.auth = 1 /\ ftp.curdir = srv.cwd
    BY <1>5 DEF PwdPhase, Between, list
  <2>2. list = Head(ftp.queue) /\ Tail(ftp.queue) = << >> /\ <<list>> \o << >> = <<list>>
    BY <2>1, Short
  <2>3. /\ Kept(ftp, ftp') /\ ftp'.busy = 1 /\ Len(ftp'.wire) = 1 /\ ftp'.queue = << >>
        /\ ftp'.wire[1] = Exch("pasv", NoArg, NoXfer)
        /\ ftp'.cproc = "pasv" /\ ftp'.wait = <<list>>
    <3>1. Ready(ftp, list)
      BY <1>2, <1>3, <2>1, <2>2 DEF Ready
    <3>2. Ran(ftp, list, ftp')
      BY <1>1, <3>1, NextOp
    <3>3. QED
      BY <1>3, <2>1, <2>2, <3>2 DEF Ran
  <2>4. srv' = srv /\ dwire' = dwire
    BY <1>1, <2>1, <2>3, LinkKept DEF Kept
  <2>5. pc' = "select"
    BY <1>1, <2>1 DEF AfterHandle
  <2>6. PasvPhase' /\ Steady' /\ StartDirInv'
    BY <1>2, <2>1, <2>3, <2>4, <2>5 DEF Kept, PasvPhase, Asking, Exch, Steady, StartDirInv, list
  <2>7. NoTransfers(ftp) /\ NoTransfers(ftp')
    BY <1>5, <2>1, <2>3, <2>6 DEF NoTransfers, Kept, PwdPhase, list
  <2>8. QED
    BY <1>2, <2>6, <2>7, BookQuiet DEF SessionInv, Phase
<1>6. CASE PasvPhase
  BY <1>6 DEF PasvPhase
<1>7. CASE TransferPhase
  <2>1. ftp.wire = << >> /\ ftp.data = NoSock
    <3>1. ftp.wire \in Seq(Exchange) /\ ftp.data \in {NoSock, Open}
      BY <1>2 DEF FtpState
    <3>2. Len(ftp.wire) \in Nat
      BY <3>1
    <3>3. 0 = Len(ftp.wire) + IF ftp.data = Open THEN 1 ELSE 0
      BY <1>7 DEF TransferPhase
    <3>4. ftp.data # Open
      <4>1. ASSUME ftp.data = Open PROVE FALSE
        <5>1. 0 = Len(ftp.wire) + 1
          BY <3>3, <4>1
        <5>2. QED
          BY <3>2, <5>1
      <4>2. QED
        BY <4>1
    <3>6. Len(ftp.wire) = 0
      <4>1. 0 = Len(ftp.wire) + 0
        BY <3>3, <3>4
      <4>2. QED
        BY <3>2, <4>1
    <3>5. QED
      BY <3>1, <3>4, <3>6, EmptySeq
  <2>2. startDir = NoArg
    BY <1>2, <1>7 DEF SessionInv, StartDirInv, TransferPhase
  <2>3. /\ ftp.wait = << >> /\ ftp.status = "PASV" /\ srv.auth = 1 /\ ftp.curdir = srv.cwd
        /\ ftp.dirent = Content(srv.cwd, Ls) /\ ftp.cproc \in {"list", "xfer"}
    BY <1>7, <2>1 DEF TransferPhase, Listed
  <2>4. pc' = "select"
    BY <1>1, <2>3 DEF AfterHandle
  <2>5. srv'.up = 1 /\ srv'.auth = 1 /\ srv'.cwd = srv.cwd
    BY <1>1, <1>2, <2>1, <2>3 DEF LinkData, IndInv, TypeOK, SrvState
  <2>6. /\ Steady' /\ Phase' /\ StartDirInv'
        /\ \A x \in Xfers : Current(ftp', x) <=> Queued(ftp, x)
        /\ \A x \in Xfers : ~Queued(ftp', x)
    BY <1>1, <1>2, <1>7, <2>1, <2>2, <2>3, <2>4, <2>5, TransferDone DEF TransferPhase
  <2>7. \A x \in Xfers : ~Current(ftp, x)
    BY <2>1, <2>3, QueueKinds DEF Current, NoSock, Open
  <2>8. \A x \in Xfers : xfer[x].st \in {"none", "live", "freed", "reused"}
    BY DEF IndInv, TypeOK, Transfer
  <2>9. Books(ftp', xfer, srv.cwd)
    BY <2>6, <2>7, <2>8, BookStart DEF SessionInv, Book
  <2>10. QED
    BY <1>2, <2>5, <2>6, <2>9 DEF SessionInv, Book
<1>8. QED
  BY <1>4, <1>5, <1>6, <1>7 DEF SessionInv, Phase

\* The end of ftp_handle keeps the invariant.
LEMMA CtlAgainSession ==
    ASSUME Cooperative, IndInv, SessionInv, CtlAgain
    PROVE  SessionInv' /\ xfer' = xfer
<1>1. ftp.busy >= 0 /\ ftp.busy \in Int
  <2>1. ftp.busy \in Int /\ Len(ftp.wire) \in Nat
    BY DEF IndInv, TypeOK, FtpState
  <2>2. TransferPhase => ftp.busy >= 0
    <3>1. TransferPhase => ftp.busy = Len(ftp.wire) + IF ftp.data = Open THEN 1 ELSE 0
      BY DEF TransferPhase
    <3>2. TransferPhase => ftp.busy = Len(ftp.wire) + 1 \/ ftp.busy = Len(ftp.wire) + 0
      BY <3>1
    <3>3. QED
      BY <2>1, <3>2
  <2>3. LoginPhase \/ CwdPhase \/ PwdPhase \/ PasvPhase => ftp.busy \in {0, 1}
    BY DEF LoginPhase, CwdPhase, PwdPhase, PasvPhase, Greeting, Identifying, Refused,
           Typing, Between
  <2>4. QED
    BY <2>1, <2>2, <2>3 DEF SessionInv, Phase
<1>2. xfer' = xfer
  BY AgainRuns
<1>3. QED
  BY <1>1, <1>2, CtlAgainNothing, CtlAgainRuns

\* What ftp_list and ftp_transfer do when their wait is over.
LEMMA FinishStarts ==
    ASSUME NEW f, Sound(f), f.ctl = Open, f.data = Open, f.busy = 0, f.wire = << >>,
           NEW op \in DataOp, f.wait = <<op>>, NEW g, g = FinishPrepare(f)
    PROVE  /\ g.ctl = f.ctl /\ g.lis = f.lis /\ g.data = f.data /\ g.status = f.status
           /\ g.passive = f.passive /\ g.fault = f.fault /\ g.queue = f.queue
           /\ g.curdir = f.curdir /\ g.dirent = f.dirent
           /\ g.wait = << >> /\ g.busy = 2 /\ Len(g.wire) = 1
           /\ op.op = "LIST" =>
                /\ g.wire[1] = Exch("list", NoArg, NoXfer)
                /\ g.cproc = "list" /\ g.dproc = "list" /\ g.rbuf = << >>
           /\ op.op = "XFER" =>
                /\ g.wire[1] = Exch("retr", NoArg, op.data)
                /\ g.cproc = "xfer" /\ g.dproc = "xfer" /\ g.cls = op.data
<1> DEFINE h == [f EXCEPT !.wait = Tail(@)]
<1>1. f \in FtpState /\ Tail(f.wait) = << >> /\ Head(f.wait) = op /\ f.data # NoSock
  BY Short DEF Sound, NoSock, Open
<1>2. g = StartTransfer(h, op)
  BY <1>1 DEF FinishPrepare
<1>3. /\ h \in FtpState /\ h.ctl = Open /\ Kept(f, h) /\ h.busy = 0 /\ h.wire = << >>
      /\ h.wait = << >> /\ h.queue = f.queue
  <2>1. << >> \in Seq(DataOp)
    OBVIOUS
  <2>2. QED
    BY ZenonT(40), <1>1, <2>1 DEF FtpState, Kept
<1> HIDE DEF h
<1>4. ASSUME NEW cmd, NEW x
      PROVE  LET k == SendCmd(h, cmd, NoArg, x) IN
             /\ Kept(f, k) /\ k.busy = 1 /\ Len(k.wire) = 1 /\ k.wire[1] = Exch(cmd, NoArg, x)
             /\ k.wait = << >> /\ k.queue = f.queue /\ DOMAIN k = DOMAIN f
  <2> DEFINE k == SendCmd(h, cmd, NoArg, x)
  <2>1. Sends(h, k, cmd, NoArg, x) /\ k.queue = h.queue /\ k.wait = h.wait
        /\ DOMAIN k = DOMAIN h
    BY <1>3, SendCmdSends
  <2> HIDE DEF k
  <2>2. Kept(h, k) /\ k.busy = 1 /\ k.wire = Append(h.wire, Exch(cmd, NoArg, x))
    BY <1>3, <2>1 DEF Sends
  <2>3. Kept(f, k)
    BY <1>3, <2>2 DEF Kept
  <2>4. h.wire \in Seq(Exchange)
    BY <1>3 DEF FtpState
  <2>5. Len(k.wire) = 1 /\ k.wire[1] = Exch(cmd, NoArg, x)
    BY <1>3, <2>2, <2>4, WireOfOne
  <2>6. DOMAIN h = DOMAIN f
    BY <1>1, <1>3 DEF FtpState
  <2>7. QED
    BY <1>3, <2>1, <2>2, <2>3, <2>5, <2>6 DEF k
<1>5. CASE op.op = "LIST"
  <2> DEFINE k == SendCmd(h, "list", NoArg, NoXfer)
  <2>1. /\ Kept(f, k) /\ k.busy = 1 /\ Len(k.wire) = 1
        /\ k.wire[1] = Exch("list", NoArg, NoXfer)
        /\ k.wait = << >> /\ k.queue = f.queue /\ DOMAIN k = DOMAIN f
    BY <1>4
  <2>2. g = [k EXCEPT !.cproc = "list", !.dproc = "list", !.cls = Rbuf, !.rbuf = << >>,
                      !.busy = @ + 1]
    BY <1>2, <1>5 DEF StartTransfer, StartList
  <2> HIDE DEF k
  <2>3. QED
    BY <1>1, <1>5, <2>1, <2>2 DEF Kept, FtpState
<1>6. CASE op.op = "XFER"
  <2> DEFINE k == SendCmd(h, "retr", NoArg, op.data)
  <2>1. /\ Kept(f, k) /\ k.busy = 1 /\ Len(k.wire) = 1
        /\ k.wire[1] = Exch("retr", NoArg, op.data)
        /\ k.wait = << >> /\ k.queue = f.queue /\ DOMAIN k = DOMAIN f
    BY <1>4
  <2>2. g = [k EXCEPT !.cproc = "xfer", !.dproc = "xfer", !.cls = op.data, !.busy = @ + 1]
    BY <1>2, <1>6 DEF StartTransfer, StartXfer
  <2> HIDE DEF k
  <2>3. QED
    BY <1>1, <1>6, <2>1, <2>2 DEF Kept, FtpState
<1>7. QED
  BY <1>5, <1>6 DEF DataOp

\* The operation that waited sends its LIST or RETR.
LEMMA ResumeSession ==
    ASSUME Cooperative, IndInv, SessionInv, Resume
    PROVE  SessionInv' /\ xfer' = xfer
<1>1. PasvPhase /\ pc = "resume"
  BY DEF SessionInv, Phase, LoginPhase, CwdPhase, PwdPhase, TransferPhase, Resume
<1>2. /\ Sound(ftp) /\ ftp.ctl = Open /\ ftp.lis = NoSock /\ ftp.passive = 1
      /\ ftp.fault = "none" /\ srv.up = 1 /\ srv.auth = 1 /\ ftp.data = Open
      /\ ftp.busy = 0 /\ ftp.wire = << >> /\ ftp.queue = << >>
      /\ ftp.status = "PASV" /\ ftp.curdir = srv.cwd
      /\ srv.conn = "open" /\ dwire = << >> /\ ftp.cproc = "pasv"
  BY <1>1, IndInvSound DEF PasvPhase, SessionInv, Steady
<1>3. ftp' = FinishPrepare(ftp)
      /\ xfer' = xfer /\ srv' = srv /\ dwire' = dwire /\ startDir' = startDir
  BY DEF Resume
<1>4. Op("LIST", NoArg) \in DataOp /\ (\A x \in Xfers : XferOp(x) \in DataOp)
  BY OpTypes DEF DataOp, Op, XferOp
<1>5. Len(<< >>) = 0
  OBVIOUS
<1>6. ASSUME NEW op \in DataOp, ftp.wait = <<op>>
      PROVE  /\ ftp'.ctl = Open /\ ftp'.lis = NoSock /\ ftp'.data = Open
             /\ ftp'.status = "PASV" /\ ftp'.passive = 1 /\ ftp'.fault = "none"
             /\ ftp'.queue = << >> /\ ftp'.curdir = ftp.curdir /\ ftp'.dirent = ftp.dirent
             /\ ftp'.wait = << >> /\ ftp'.busy = 2 /\ Len(ftp'.wire) = 1 /\ pc' = "select"
             /\ op.op = "LIST" =>
                  /\ ftp'.wire[1] = Exch("list", NoArg, NoXfer)
                  /\ ftp'.cproc = "list" /\ ftp'.dproc = "list" /\ ftp'.rbuf = << >>
             /\ op.op = "XFER" =>
                  /\ ftp'.wire[1] = Exch("retr", NoArg, op.data)
                  /\ ftp'.cproc = "xfer" /\ ftp'.dproc = "xfer" /\ ftp'.cls = op.data
  <2>1. Len(ftp.wait) = 1
    BY <1>6, Short
  <2>2. pc' = "select"
    BY <2>1 DEF Resume
  <2>3. QED
    BY <1>2, <1>3, <1>6, <2>2, FinishStarts
<1>7. CASE ftp.wait = <<Op("LIST", NoArg)>>
  <2>1. /\ Op("LIST", NoArg).op = "LIST" /\ Op("LIST", NoArg) \in DataOp
    BY <1>4 DEF Op
  <2>2. /\ ftp'.ctl = Open /\ ftp'.lis = NoSock /\ ftp'.data = Open
        /\ ftp'.status = "PASV" /\ ftp'.passive = 1 /\ ftp'.fault = "none"
        /\ ftp'.queue = << >> /\ ftp'.curdir = ftp.curdir
        /\ ftp'.wait = << >> /\ ftp'.busy = 2 /\ Len(ftp'.wire) = 1 /\ pc' = "select"
        /\ ftp'.wire[1] = Exch("list", NoArg, NoXfer)
        /\ ftp'.cproc = "list" /\ ftp'.dproc = "list" /\ ftp'.rbuf = << >>
    BY <1>6, <1>7, <2>1
  <2>3. ftp'.wire # << >>
    BY <1>5, <2>2
  <2>4. TransferCmd'
    BY <2>2 DEF TransferCmd, Exch
  <2>5. ~Over' /\ ~Begun'
    BY <2>2, <2>3 DEF Over, Begun, Exch
  <2>6. Received' = << >> /\ dwire' = << >>
    BY <1>2, <1>3, <2>2 DEF Received
  <2>7. Stream'
    BY <1>2, <1>3, <1>5, <2>2, <2>5, <2>6 DEF Stream
  <2>8. TransferPhase'
    <3>1. ftp'.data # NoSock /\ ftp'.busy = Len(ftp'.wire) + IF ftp'.data = Open THEN 1 ELSE 0
      BY <2>2 DEF NoSock, Open
    <3>2. QED
      BY <1>2, <1>3, <2>2, <2>4, <2>7, <3>1 DEF TransferPhase
  <2>9. Steady' /\ StartDirInv'
    BY <1>2, <1>3, <2>2 DEF Steady, StartDirInv
  <2>10. NoTransfers(ftp) /\ NoTransfers(ftp')
    BY <1>2, <1>7, <2>2 DEF NoTransfers
  <2>11. QED
    BY <1>3, <2>8, <2>9, <2>10, BookQuiet DEF SessionInv, Phase
<1>8. CASE Listed /\ \E x \in Xfers : ftp.wait = <<XferOp(x)>>
  <2>1. PICK x \in Xfers : ftp.wait = <<XferOp(x)>>
    BY <1>8
  <2>2. XferOp(x).op = "XFER" /\ XferOp(x).data = x /\ XferOp(x) \in DataOp
    BY <1>4 DEF XferOp
  <2>3. /\ ftp'.ctl = Open /\ ftp'.lis = NoSock /\ ftp'.data = Open
        /\ ftp'.status = "PASV" /\ ftp'.passive = 1 /\ ftp'.fault = "none"
        /\ ftp'.queue = << >> /\ ftp'.curdir = ftp.curdir /\ ftp'.dirent = ftp.dirent
        /\ ftp'.wait = << >> /\ ftp'.busy = 2 /\ Len(ftp'.wire) = 1 /\ pc' = "select"
        /\ ftp'.wire[1] = Exch("retr", NoArg, x)
        /\ ftp'.cproc = "xfer" /\ ftp'.dproc = "xfer" /\ ftp'.cls = x
    BY <1>6, <2>1, <2>2
  <2>4. ftp'.wire # << >>
    BY <1>5, <2>3
  <2>5. TransferCmd'
    BY <2>3 DEF TransferCmd, Exch
  <2>6. ~Over' /\ ~Begun'
    BY <2>3, <2>4 DEF Over, Begun, Exch
  <2>7. xfer[x].got = << >>
    BY <2>1 DEF SessionInv, Book, Books
  <2>8. Received' = << >> /\ dwire' = << >>
    BY <1>2, <1>3, <2>3, <2>7 DEF Received
  <2>9. Stream'
    BY <1>2, <1>3, <1>5, <2>3, <2>6, <2>8 DEF Stream
  <2>10. Listed'
    BY <1>3, <1>8, <2>3 DEF Listed, Content
  <2>11. TransferPhase'
    <3>1. ftp'.data # NoSock /\ ftp'.busy = Len(ftp'.wire) + IF ftp'.data = Open THEN 1 ELSE 0
      BY <2>3 DEF NoSock, Open
    <3>2. QED
      BY <1>2, <1>3, <2>3, <2>5, <2>9, <2>10, <3>1 DEF TransferPhase
  <2>12. Steady' /\ StartDirInv'
    <3>1. startDir = NoArg
      BY <1>2, <2>1, QueueKinds DEF SessionInv, StartDirInv
    <3>2. QED
      BY <1>2, <1>3, <2>3, <3>1 DEF Steady, StartDirInv
  <2>13. \A y \in Xfers : /\ Current(ftp', y) <=> Current(ftp, y)
                          /\ Queued(ftp', y) <=> Queued(ftp, y)
                          /\ ftp'.wait # <<XferOp(y)>>
    <3>1. \A y : Current(ftp, y) <=> y = x
      BY <1>2, <2>1, QueueKinds DEF Current
    <3>2. \A y : Current(ftp', y) <=> y = x
      BY <2>3, QueueKinds DEF Current
    <3>3. QED
      BY <1>2, <2>3, <3>1, <3>2, QueueKinds DEF Queued
  <2>14. Book'
    BY <1>3, <2>13, BookSame DEF SessionInv
  <2>15. QED
    BY <1>3, <2>11, <2>12, <2>14 DEF SessionInv, Phase
<1>9. QED
  BY <1>1, <1>7, <1>8 DEF PasvPhase

\* What is read next from a data connection: a piece of what was asked for, or
\* the end, which comes when all of it was received.
LEMMA StreamHead ==
    ASSUME IndInv, Stream, dwire # << >>,
           Received \in Seq(Sources), Wanted \in Sources
    PROVE  /\ Len(dwire) \in Nat \ {0} /\ Len(Received) \in Nat
           /\ Tail(dwire) \in Seq(Sources \cup {Eof}) /\ Len(Tail(dwire)) = Len(dwire) - 1
           /\ \A i \in 1..Len(Tail(dwire)) : Tail(dwire)[i] = dwire[i + 1]
           /\ Head(dwire) = Eof =>
                Over /\ Len(dwire) = 1 /\ Received = [i \in 1..Chunks |-> Wanted]
           /\ Head(dwire) # Eof =>
                /\ Head(dwire) = Wanted /\ (Over => Len(dwire) > 1)
                /\ Begun /\ Len(Received) < Chunks
<1> DEFINE R == Received
           W == Wanted
<1>1. dwire \in Seq(Sources \cup {Eof}) /\ Chunks \in Nat /\ srv.left \in Nat
  BY BoundAssumption DEF IndInv, TypeOK, SrvState
<1>2. /\ Len(dwire) \in Nat /\ Len(dwire) > 0 /\ Head(dwire) = dwire[1]
      /\ Tail(dwire) \in Seq(Sources \cup {Eof}) /\ Len(Tail(dwire)) = Len(dwire) - 1
      /\ \A i \in 1..Len(Tail(dwire)) : Tail(dwire)[i] = dwire[i + 1]
  BY <1>1, EmptySeq, HeadTailProperties
<1>3. R \in Seq(Sources) /\ Len(R) \in Nat /\ W \in Sources
  OBVIOUS
<1>4. W # Eof
  <2>1. Len(W) = 2
    BY <1>3 DEF Sources
  <2>2. Len(Eof) = 1
    BY DEF Eof
  <2>3. QED
    BY SMTT(30), <2>1, <2>2
<1>5. /\ Len(R) + Len(dwire) =
            IF Over THEN Chunks + 1 ELSE IF Begun THEN Chunks - srv.left ELSE 0
      /\ \A i \in 1..Len(R) : R[i] = W
      /\ \A i \in 1..Len(dwire) :
            dwire[i] = IF Over /\ i = Len(dwire) THEN Eof ELSE W
  BY DEF Stream
<1> HIDE DEF R, W
<1>6. dwire[1] = IF Over /\ 1 = Len(dwire) THEN Eof ELSE W
  <2>1. 1 \in 1..Len(dwire)
    BY <1>2
  <2>2. QED
    BY <1>5, <2>1
<1>7. ASSUME Head(dwire) = Eof
      PROVE Over /\ Len(dwire) = 1 /\ R = [i \in 1..Chunks |-> W]
  <2>1. Over /\ Len(dwire) = 1
    BY <1>2, <1>4, <1>6, <1>7
  <2>2. Len(R) = Chunks
    BY <1>1, <1>3, <1>5, <2>1
  <2> DEFINE C == [i \in 1..Chunks |-> W]
  <2>3. C \in Seq(Sources) /\ Len(C) = Chunks /\ \A i \in 1..Chunks : C[i] = W
    BY <1>1, <1>3
  <2> HIDE DEF C
  <2>4. R = C
    BY <1>3, <1>5, <2>2, <2>3, SeqEqual
  <2>5. QED
    BY <2>1, <2>4 DEF C
<1>8. ASSUME Head(dwire) # Eof
      PROVE  /\ Head(dwire) = W /\ (Over => Len(dwire) > 1)
             /\ Begun /\ Len(R) < Chunks
  <2>1. Head(dwire) = W /\ (Over => Len(dwire) > 1)
    BY <1>2, <1>6, <1>8
  <2>2. CASE Over
    <3>1. Len(R) + Len(dwire) = Chunks + 1
      BY <1>5, <2>2
    <3>2. QED
      BY <1>1, <1>2, <1>3, <2>1, <2>2, <3>1 DEF Begun
  <2>3. CASE ~Over /\ Begun
    <3>1. Len(R) + Len(dwire) = Chunks - srv.left
      BY <1>5, <2>3
    <3>2. QED
      BY <1>1, <1>2, <1>3, <2>1, <2>3, <3>1
  <2>4. CASE ~Over /\ ~Begun
    <3>1. Len(R) + Len(dwire) = 0
      BY <1>5, <2>4
    <3>2. QED
      BY <1>2, <1>3, <3>1
  <2>5. QED
    BY <2>2, <2>3, <2>4
<1>9. QED
  BY <1>2, <1>3, <1>7, <1>8 DEF R, W

\* A piece that is read moves from what is on its way to what was received.
LEMMA StreamPiece ==
    ASSUME IndInv, Stream, dwire # << >>, Head(dwire) # Eof,
           Received \in Seq(Sources), Wanted \in Sources,
           Received' = Append(Received, Wanted), Wanted' = Wanted, dwire' = Tail(dwire),
           Over' <=> Over, Begun' <=> Begun, srv' = srv,
           ftp'.dproc = ftp.dproc, ftp'.cproc = ftp.cproc
    PROVE  Stream'
<1> DEFINE R == Received
           W == Wanted
           T == Tail(dwire)
           n == Len(dwire)
<1>1. /\ n \in Nat /\ n > 0 /\ Len(T) = n - 1 /\ Len(R) \in Nat
      /\ \A i \in 1..Len(T) : T[i] = dwire[i + 1]
      /\ Over => n > 1
  BY StreamHead
<1>2. /\ Len(R) + n =
            IF Over THEN Chunks + 1 ELSE IF Begun THEN Chunks - srv.left ELSE 0
      /\ \A i \in 1..Len(R) : R[i] = W
      /\ \A i \in 1..n : dwire[i] = IF Over /\ i = n THEN Eof ELSE W
      /\ ftp.dproc = ftp.cproc
      /\ srv.conn = IF Over THEN "none" ELSE "open"
      /\ Begun => srv.src = W
  BY DEF Stream
<1>3. R \in Seq(Sources) /\ W \in Sources
  OBVIOUS
<1>4. T \in Seq(Sources \cup {Eof})
  BY StreamHead
<1> HIDE DEF R, W, T, n
<1>5. /\ Append(R, W) \in Seq(Sources) /\ Len(Append(R, W)) = Len(R) + 1
      /\ \A i \in 1..Len(R) : Append(R, W)[i] = R[i]
      /\ Append(R, W)[Len(R) + 1] = W
  BY <1>3, AppendProperties
<1>6. \A i \in 1..Len(Append(R, W)) : Append(R, W)[i] = W
  <2>1. \A i \in 1..(Len(R) + 1) : i \in 1..Len(R) \/ i = Len(R) + 1
    BY <1>1
  <2>2. QED
    BY <1>2, <1>5, <2>1
<1>7. \A i \in 1..Len(T) : T[i] = IF Over /\ i = Len(T) THEN Eof ELSE W
  <2> TAKE i \in 1..Len(T)
  <2>1. i + 1 \in 1..n /\ T[i] = dwire[i + 1] /\ (i = Len(T) <=> i + 1 = n)
    BY <1>1
  <2>2. QED
    BY <1>2, <2>1
<1>8. Over => T # << >>
  <2>1. Over => Len(T) > 0
    BY <1>1
  <2>2. QED
    BY <1>4, <2>1, EmptySeq
<1>9. Len(Append(R, W)) + Len(T) = Len(R) + n
  BY <1>1, <1>5
<1>10. R' = Append(R, W) /\ W' = W /\ dwire' = T
  BY DEF R, W, T
<1>11. QED
  BY <1>2, <1>6, <1>7, <1>8, <1>9, <1>10 DEF Stream, R, W
\* The types of what a transfer receives.
LEMMA StreamTypes ==
    ASSUME IndInv, ftp.cproc \in {"list", "xfer"}
    PROVE  /\ Received \in Seq(Sources) /\ Wanted \in Sources
           /\ ftp.cproc = "xfer" => ftp.cls \in Xfers /\ xfer[ftp.cls] \in Transfer
<1>1. /\ ftp.rbuf \in Seq(Sources) /\ srv.cwd \in Dirs /\ xfer \in [Xfers -> Transfer]
      /\ ftp.cproc = "xfer" => ftp.cls \in Xfers
  BY DEF IndInv, TypeOK, FtpState, SrvState, HandlersAgree
<1>2. ftp.cproc = "xfer" =>
        /\ xfer[ftp.cls] \in Transfer /\ xfer[ftp.cls].got \in Seq(Sources)
        /\ xfer[ftp.cls].name \in Names \cup {Ls}
  BY <1>1 DEF Transfer
<1>3. QED
  BY <1>1, <1>2 DEF Received, Wanted, Sources

\* What recv on the data connection does in a session without mishaps.
LEMMA DataRead ==
    ASSUME Cooperative, IndInv, SessionInv, DataRecv
    PROVE  /\ TransferPhase /\ ftp.data = Open /\ Stream /\ dwire # << >>
           /\ startDir = NoArg /\ startDir' = NoArg
           /\ ftp.wire # << >> => ftp.wire[1].mark # "sent"
           /\ ftp.cproc = "xfer" => ftp.cls \in Xfers /\ xfer[ftp.cls].st = "live"
           /\ xfer' = IF ftp.dproc = "xfer" THEN RecvXfer(ftp.cls, Head(dwire)) ELSE xfer
           /\ \E sk \in SockOutcomes :
                LET f == RecvData(ftp, Head(dwire), "intact")
                    last == LastRecv(Head(dwire))
                    g == IF last THEN HandleTail(f, sk) ELSE f
                IN  /\ ftp' = g
                    /\ pc' = IF last THEN "select" ELSE "data"
                    /\ dwire' = IF g.data = NoSock THEN << >> ELSE Tail(dwire)
                    /\ srv' = IF g.data = NoSock /\ srv.conn = "open"
                              THEN [srv EXCEPT !.conn = "none"] ELSE srv
<1>1. ftp.data = Open /\ dwire # << >> /\ startDir' = startDir
      /\ (AtMainSelect \/ (Alive /\ pc = "data"))
  BY DEF DataRecv
<1>2. ftp.data # NoSock
  BY <1>1 DEF NoSock, Open
<1>3. TransferPhase
  <2>1. ~LoginPhase /\ ~CwdPhase /\ ~PwdPhase
    BY <1>2 DEF LoginPhase, CwdPhase, PwdPhase
  <2>2. ~PasvPhase
    BY <1>1, <1>2 DEF PasvPhase
  <2>3. QED
    BY <2>1, <2>2 DEF SessionInv, Phase
<1>4. Stream
  BY <1>1, <1>3 DEF TransferPhase
<1>5. startDir = NoArg
  <2>1. startDir # NoArg => StartDirDue /\ pc = "select"
    BY <1>3 DEF SessionInv, StartDirInv, TransferPhase, StartDirDue
  <2>2. ~StartDirDue \/ pc # "select"
    BY <1>1 DEF AtMainSelect, AtSelect
  <2>3. QED
    BY <2>1, <2>2
<1>6. ftp.wire # << >> => ftp.wire[1].mark # "sent"
  <2>1. \A i \in 1..Len(ftp.wire) : ftp.wire[i].mark # "sent"
    BY Outcomes DEF DataRecv
  <2>2. ftp.wire # << >> => 1 \in 1..Len(ftp.wire)
    BY <1>3 DEF TransferPhase
  <2>3. QED
    BY <2>1, <2>2
<1>7. ftp.cproc = "xfer" => ftp.cls \in Xfers /\ xfer[ftp.cls].st = "live"
  <2>1. ftp.cproc = "xfer" => ftp.cls \in Xfers
    BY DEF IndInv, HandlersAgree
  <2>2. ftp.cproc = "xfer" => Current(ftp, ftp.cls)
    BY <1>1 DEF Current
  <2>3. QED
    BY <2>1, <2>2 DEF SessionInv, Book, Books
<1>8. MemOutcomes(ftp.cls) = {"intact"}
  <2>1. ftp.cls \in Xfers => ftp.cproc = "xfer"
    <3>1. ftp.cproc = "list" => ftp.cls = Rbuf
      BY <1>4 DEF Stream, IndInv, HandlersAgree
    <3>2. Rbuf \notin Xfers
      BY BoundAssumption DEF Rbuf, Xfers
    <3>3. QED
      BY <1>3, <3>1, <3>2 DEF TransferPhase
  <2>2. QED
    BY <1>7, <2>1 DEF MemOutcomes
<1>9. PICK sk \in SockOutcomes, mem \in MemOutcomes(ftp.cls) :
        LET item == Head(dwire)
            last == LastRecv(item)
            f == RecvData(ftp, item, mem)
            g == IF last THEN HandleTail(f, sk) ELSE f
            uses == ftp.dproc = "xfer"
        IN  /\ ftp' = g
            /\ xfer' = IF uses THEN RecvXfer(ftp.cls, item) ELSE xfer
            /\ pc' = IF last THEN "select" ELSE "data"
            /\ dwire' = IF g.data = NoSock THEN << >> ELSE Tail(dwire)
            /\ srv' = IF g.data = NoSock /\ srv.conn = "open"
                      THEN [srv EXCEPT !.conn = "none"] ELSE srv
  BY DEF DataRecv
<1>10. mem = "intact"
  BY <1>8
<1>11. QED
  BY <1>1, <1>3, <1>4, <1>5, <1>6, <1>7, <1>9, <1>10

\* A packet of a transfer is received, and nothing else happens.
LEMMA DataPiece ==
    ASSUME Cooperative, IndInv, SessionInv, DataRecv, Head(dwire) # Eof
    PROVE  /\ SessionInv'
           /\ xfer' = IF ftp.cproc = "xfer"
                      THEN [xfer EXCEPT ![ftp.cls].got =
                              Append(@, <<xfer[ftp.cls].dir, xfer[ftp.cls].name>>)]
                      ELSE xfer
           /\ ftp.cproc = "xfer" => /\ Len(xfer[ftp.cls].got) < Chunks
                                    /\ Current(ftp, ftp.cls) /\ ftp.cls \in Xfers
<1> DEFINE x == ftp.cls
           item == Head(dwire)
<1>1. /\ TransferPhase /\ ftp.data = Open /\ Stream /\ dwire # << >>
      /\ startDir = NoArg /\ startDir' = NoArg
      /\ ftp.cproc = "xfer" => x \in Xfers /\ xfer[x].st = "live"
      /\ xfer' = IF ftp.dproc = "xfer" THEN RecvXfer(x, item) ELSE xfer
  BY DataRead
<1>2. PICK sk \in SockOutcomes :
        LET f == RecvData(ftp, item, "intact")
            last == LastRecv(item)
            g == IF last THEN HandleTail(f, sk) ELSE f
        IN  /\ ftp' = g
            /\ pc' = IF last THEN "select" ELSE "data"
            /\ dwire' = IF g.data = NoSock THEN << >> ELSE Tail(dwire)
            /\ srv' = IF g.data = NoSock /\ srv.conn = "open"
                      THEN [srv EXCEPT !.conn = "none"] ELSE srv
  BY DataRead
<1>3. /\ ftp.cproc \in {"list", "xfer"} /\ ftp.dproc = ftp.cproc
      /\ ftp \in FtpState /\ xfer \in [Xfers -> Transfer]
      /\ Received \in Seq(Sources) /\ Wanted \in Sources
      /\ ftp.wait = << >> /\ ftp.rbuf \in Seq(Sources)
  BY <1>1, StreamTypes DEF TransferPhase, Stream, IndInv, TypeOK, FtpState
<1>4. item = Wanted /\ Begun /\ Len(Received) < Chunks
  BY <1>1, <1>3, StreamHead
<1>5. ftp.busy > 0 /\ ftp.busy \in Int
  <2>1. ftp.busy = Len(ftp.wire) + 1 /\ Len(ftp.wire) \in Nat
    BY <1>1, <1>3 DEF TransferPhase, FtpState
  <2>2. QED
    BY <2>1
<1> DEFINE f == RecvData(ftp, item, "intact")
<1>6. f = IF ftp.cproc = "list" THEN [ftp EXCEPT !.rbuf = Append(@, item)] ELSE ftp
  BY <1>3 DEF RecvData, DprocList, DprocXfer
<1> HIDE DEF f, item
<1>7. /\ f.busy = ftp.busy /\ f.data = Open
      /\ f.ctl = ftp.ctl /\ f.lis = ftp.lis /\ f.passive = ftp.passive
      /\ f.fault = ftp.fault /\ f.cproc = ftp.cproc /\ f.dproc = ftp.dproc
      /\ f.wait = ftp.wait /\ f.status = ftp.status /\ f.curdir = ftp.curdir
      /\ f.dirent = ftp.dirent /\ f.queue = ftp.queue /\ f.cls = ftp.cls
      /\ f.wire = ftp.wire
      /\ ftp.cproc = "list" => f.rbuf = Append(ftp.rbuf, item)
  BY <1>1, <1>3, <1>6 DEF FtpState
<1>8. HandleTail(f, sk) = f
  BY <1>5, <1>7 DEF HandleTail
<1>9. /\ ftp' = f /\ pc' \in {"select", "data"} /\ dwire' = Tail(dwire) /\ srv' = srv
  <2>1. f.data # NoSock
    BY <1>7 DEF NoSock, Open
  <2>2. QED
    BY <1>2, <1>8, <2>1 DEF f, item
<1>10. xfer' = IF ftp.cproc = "xfer"
               THEN [xfer EXCEPT ![x].got = Append(@, item)] ELSE xfer
  BY <1>1, <1>3 DEF RecvXfer, item
<1>11. ftp.cproc = "xfer" =>
        /\ x \in Xfers /\ xfer[x].st = "live" /\ Current(ftp, x) /\ xfer[x].dir = srv.cwd
        /\ item = <<xfer[x].dir, xfer[x].name>> /\ Received = xfer[x].got
        /\ \A y \in Xfers \ {x} : xfer'[y] = xfer[y]
        /\ xfer'[x].got = Append(xfer[x].got, item)
        /\ xfer'[x].st = "live" /\ xfer'[x].dir = srv.cwd /\ xfer'[x].name = xfer[x].name
  <2> SUFFICES ASSUME ftp.cproc = "xfer"
               PROVE /\ x \in Xfers /\ xfer[x].st = "live" /\ Current(ftp, x)
                     /\ xfer[x].dir = srv.cwd
                     /\ item = <<xfer[x].dir, xfer[x].name>> /\ Received = xfer[x].got
                     /\ \A y \in Xfers \ {x} : xfer'[y] = xfer[y]
                     /\ xfer'[x].got = Append(xfer[x].got, item)
                     /\ xfer'[x].st = "live" /\ xfer'[x].dir = srv.cwd
                     /\ xfer'[x].name = xfer[x].name
    OBVIOUS
  <2>1. x \in Xfers /\ xfer[x].st = "live" /\ Current(ftp, x)
    BY <1>1 DEF Current
  <2>2. xfer[x].dir = srv.cwd
    BY <2>1 DEF SessionInv, Book, Books
  <2>3. item = <<xfer[x].dir, xfer[x].name>> /\ Received = xfer[x].got
    BY <1>4, <2>2 DEF Wanted, Received
  <2>4. xfer' = [xfer EXCEPT ![x].got = Append(@, item)]
    BY <1>10
  <2>5. xfer[x] \in Transfer
    BY <1>3, <2>1
  <2>6. QED
    BY <1>3, <2>1, <2>2, <2>3, <2>4, <2>5 DEF Transfer
<1>12. Stream'
  <2>1. Received' = Append(Received, Wanted)
    BY <1>3, <1>4, <1>7, <1>9, <1>11 DEF Received
  <2>2. Wanted' = Wanted
    BY <1>3, <1>7, <1>9, <1>11 DEF Wanted
  <2>3. (Over' <=> Over) /\ (Begun' <=> Begun)
    BY <1>7, <1>9 DEF Over, Begun
  <2>4. QED
    BY <1>1, <1>3, <1>7, <1>9, <2>1, <2>2, <2>3, StreamPiece DEF item
<1>13. TransferPhase'
  <2>1. TransferCmd' <=> TransferCmd
    BY <1>1, <1>7, <1>9 DEF TransferCmd
  <2>2. Listed' <=> Listed
    BY <1>7, <1>9 DEF Listed, Content
  <2>3. ftp'.data = Open /\ ftp'.data # NoSock
    BY <1>7, <1>9 DEF NoSock, Open
  <2>4. QED
    BY <1>1, <1>5, <1>7, <1>9, <1>12, <2>1, <2>2, <2>3 DEF TransferPhase
<1>14. Steady' /\ StartDirInv'
  BY <1>1, <1>7, <1>9 DEF SessionInv, Steady, StartDirInv
<1>15. Book'
  <2>1. \A y \in Xfers : /\ Current(ftp', y) <=> Current(ftp, y)
                         /\ Queued(ftp', y) <=> Queued(ftp, y)
                         /\ ftp'.wait # <<XferOp(y)>>
    BY <1>1, <1>3, <1>7, <1>9, QueueKinds DEF Current, Queued
  <2>2. CASE ftp.cproc = "list"
    <3>1. xfer' = xfer
      BY <1>10, <2>2
    <3>2. QED
      BY <1>9, <2>1, <3>1, BookSame DEF SessionInv
  <2>3. CASE ftp.cproc = "xfer"
    <3>1. \A y \in Xfers : xfer'[y].st = xfer[y].st /\ xfer'[y].dir = xfer[y].dir
                           /\ xfer'[y].name = xfer[y].name
                           /\ (y = x \/ xfer'[y].got = xfer[y].got)
      BY <1>11, <2>3
    <3>2. ~Queued(ftp', x)
      BY <1>11, <2>1, <2>3 DEF SessionInv, Book, Books
    <3>3. \A y \in Xfers : \A z \in 1..(y - 1) : z \in Xfers
      BY BoundAssumption DEF Xfers
    <3>4. Books(ftp, xfer, srv.cwd)
      BY DEF SessionInv, Book
    <3>5. Books(ftp', xfer', srv.cwd)
      <4> SUFFICES ASSUME NEW y \in Xfers
                   PROVE
            /\ xfer'[y].st # "reused"
            /\ xfer'[y].st = "freed" => xfer'[y].got = Content(xfer'[y].dir, xfer'[y].name)
            /\ xfer'[y].st = "live" <=> Current(ftp', y) \/ Queued(ftp', y)
            /\ xfer'[y].st = "live" => xfer'[y].dir = srv.cwd
            /\ xfer'[y].st # "none" => \A z \in 1..(y - 1) : xfer'[z].st # "none"
            /\ Current(ftp', y) => \A z \in 1..(y - 1) : xfer'[z].st = "freed"
            /\ Queued(ftp', y) \/ ftp'.wait = <<XferOp(y)>> => xfer'[y].got = << >>
            /\ ~(Current(ftp', y) /\ Queued(ftp', y))
        BY DEF Books
      <4>1. xfer'[y].st = "freed" => xfer'[y].got = Content(xfer'[y].dir, xfer'[y].name)
        BY <1>11, <2>3, <3>1, <3>4 DEF Books
      <4>2. QED
        BY <2>1, <3>1, <3>2, <3>3, <3>4, <4>1 DEF Books
    <3>6. QED
      BY <1>9, <3>5 DEF Book
  <2>4. QED
    BY <1>3, <2>2, <2>3
<1>16. SessionInv'
  BY <1>13, <1>14, <1>15 DEF SessionInv, Phase
<1>17. QED
  BY <1>4, <1>10, <1>11, <1>16
\* A finished transfer leaves the books: its file is whole.
LEMMA BookDone ==
    ASSUME NEW f, NEW x \in Xfers, NEW dir, Books(ftp, xfer, dir), IndInv,
           ftp.cproc = "xfer", ftp.cls = x, ftp.data = Open,
           xfer[x].got = Content(dir, xfer[x].name),
           f.wait = << >>, f.data = NoSock, f.queue = ftp.queue
    PROVE  Books(f, [xfer EXCEPT ![x].st = "freed"], dir)
<1> DEFINE xf == [xfer EXCEPT ![x].st = "freed"]
<1>1. /\ xfer \in [Xfers -> Transfer] /\ xfer[x] \in Transfer
      /\ Current(ftp, x) /\ xfer[x].st = "live" /\ xfer[x].dir = dir
      /\ ~Queued(ftp, x)
  BY DEF IndInv, TypeOK, Current, Books
<1>2. /\ \A y \in Xfers \ {x} : xf[y] = xfer[y]
      /\ xf[x].st = "freed" /\ xf[x].dir = dir /\ xf[x].name = xfer[x].name
      /\ xf[x].got = xfer[x].got
  BY <1>1 DEF Transfer
<1> HIDE DEF xf
<1>3. \A y \in Xfers : ~Current(f, y) /\ (Queued(f, y) <=> Queued(ftp, y))
  BY QueueKinds DEF Current, Queued, NoSock, Open
<1>4. \A y \in Xfers : y # x => ~Current(ftp, y)
  <2>1. \A y \in Xfers : Current(ftp, y) => y = x
    <3>1. \A y \in Xfers : ftp.wait = <<XferOp(y)>> => y = x
      <4>1. ASSUME NEW y \in Xfers, ftp.wait = <<XferOp(y)>>, y # x PROVE FALSE
        <5>1. xfer[y].st = "live" /\ Current(ftp, y)
          BY <4>1 DEF Books, Current
        <5>2. y \in 1..(x - 1) \/ x \in 1..(y - 1)
          BY <4>1, BoundAssumption DEF Xfers
        <5>3. QED
          BY <1>1, <5>1, <5>2 DEF Books
      <4>2. QED
        BY <4>1
    <3>2. QED
      BY <3>1 DEF Current
  <2>2. QED
    BY <2>1
<1>5. \A y \in Xfers : \A z \in 1..(y - 1) : z \in Xfers
  BY BoundAssumption DEF Xfers
<1>6. \A y \in Xfers : f.wait # <<XferOp(y)>>
  BY <1>3 DEF Current
<1>7. Books(f, xf, dir)
  <2> SUFFICES ASSUME NEW y \in Xfers
               PROVE
        /\ xf[y].st # "reused"
        /\ xf[y].st = "freed" => xf[y].got = Content(xf[y].dir, xf[y].name)
        /\ xf[y].st = "live" <=> Current(f, y) \/ Queued(f, y)
        /\ xf[y].st = "live" => xf[y].dir = dir
        /\ xf[y].st # "none" => \A z \in 1..(y - 1) : xf[z].st # "none"
        /\ Current(f, y) => \A z \in 1..(y - 1) : xf[z].st = "freed"
        /\ Queued(f, y) \/ f.wait = <<XferOp(y)>> => xf[y].got = << >>
        /\ ~(Current(f, y) /\ Queued(f, y))
    BY DEF Books
  <2>1. CASE y = x
    BY <1>1, <1>2, <1>3, <1>5, <1>6, <2>1 DEF Books
  <2>2. CASE y # x
    BY <1>1, <1>2, <1>3, <1>4, <1>5, <1>6, <2>2 DEF Books
  <2>3. QED
    BY <2>1, <2>2
<1>8. QED
  BY <1>7 DEF xf

\* The end of the data: the file is closed, or the listing shown, and the next
\* operation runs when the final reply has come, too.
LEMMA DataEnd ==
    ASSUME Cooperative, IndInv, SessionInv, DataRecv, Head(dwire) = Eof
    PROVE  /\ SessionInv'
           /\ xfer' = IF ftp.cproc = "xfer" THEN [xfer EXCEPT ![ftp.cls].st = "freed"]
                      ELSE xfer
           /\ ftp.cproc = "xfer" => /\ Len(xfer[ftp.cls].got) = Chunks
                                    /\ Current(ftp, ftp.cls) /\ ftp.cls \in Xfers
<1> DEFINE x == ftp.cls
           item == Head(dwire)
<1>1. /\ TransferPhase /\ ftp.data = Open /\ Stream /\ dwire # << >>
      /\ startDir = NoArg /\ startDir' = NoArg
      /\ ftp.cproc = "xfer" => x \in Xfers /\ xfer[x].st = "live"
      /\ xfer' = IF ftp.dproc = "xfer" THEN RecvXfer(x, item) ELSE xfer
      /\ ftp.wire # << >> => ftp.wire[1].mark # "sent"
  BY DataRead
<1>2. PICK sk \in SockOutcomes :
        LET f == RecvData(ftp, item, "intact")
            last == LastRecv(item)
            g == IF last THEN HandleTail(f, sk) ELSE f
        IN  /\ ftp' = g
            /\ pc' = IF last THEN "select" ELSE "data"
            /\ dwire' = IF g.data = NoSock THEN << >> ELSE Tail(dwire)
            /\ srv' = IF g.data = NoSock /\ srv.conn = "open"
                      THEN [srv EXCEPT !.conn = "none"] ELSE srv
  BY DataRead
<1>3. /\ ftp.cproc \in {"list", "xfer"} /\ ftp.dproc = ftp.cproc
      /\ ftp \in FtpState /\ xfer \in [Xfers -> Transfer] /\ srv \in SrvState
      /\ Received \in Seq(Sources) /\ Wanted \in Sources
      /\ ftp.wait = << >> /\ ftp.status = "PASV" /\ srv.auth = 1 /\ ftp.curdir = srv.cwd
      /\ ftp.ctl = Open /\ ftp.lis = NoSock /\ ftp.passive = 1 /\ ftp.fault = "none"
      /\ srv.up = 1 /\ ftp.wire \in Seq(Exchange)
  BY <1>1, StreamTypes DEF SessionInv, Steady, TransferPhase, Stream, IndInv, TypeOK, FtpState
<1>4. Over /\ Received = [i \in 1..Chunks |-> Wanted] /\ LastRecv(item)
  BY <1>1, <1>3, StreamHead DEF LastRecv
<1> DEFINE f == RecvData(ftp, item, "intact")
<1>5. /\ f \in FtpState
      /\ f.busy = Len(ftp.wire) /\ f.data = NoSock
      /\ f.ctl = Open /\ f.lis = NoSock /\ f.passive = 1
      /\ f.fault = "none" /\ f.cproc = ftp.cproc
      /\ f.wait = << >> /\ f.status = "PASV" /\ f.curdir = srv.cwd
      /\ f.queue = ftp.queue /\ f.wire = ftp.wire
      /\ f.dirent = IF ftp.cproc = "list" THEN ftp.rbuf ELSE ftp.dirent
  <2>1. ftp.busy = Len(ftp.wire) + 1 /\ Len(ftp.wire) \in Nat /\ ftp.rbuf \in Seq(Sources)
    BY <1>1, <1>3 DEF TransferPhase, FtpState
  <2>2. CASE ftp.cproc = "list"
    <3>1. f = [[ftp EXCEPT !.dirent = ftp.rbuf, !.rbuf = << >>, !.dproc = "none",
                           !.busy = @ - 1] EXCEPT !.data = NoSock]
      BY <1>3, <1>4, <2>2 DEF RecvData, DprocList
    <3>2. << >> \in Seq(Sources) /\ ftp.busy - 1 = Len(ftp.wire) /\ ftp.busy - 1 \in Int
      BY <2>1
    <3> HIDE DEF f
    <3>3. QED
      BY ZenonT(40), <1>3, <2>1, <2>2, <3>1, <3>2 DEF FtpState, Dprocs
  <2>3. CASE ftp.cproc = "xfer"
    <3>1. f = [[ftp EXCEPT !.busy = @ - 1] EXCEPT !.data = NoSock]
      BY <1>3, <1>4, <2>3 DEF RecvData, DprocXfer
    <3>2. ftp.busy - 1 = Len(ftp.wire) /\ ftp.busy - 1 \in Int
      BY <2>1
    <3> HIDE DEF f
    <3>3. QED
      BY ZenonT(40), <1>3, <2>1, <2>3, <3>1, <3>2 DEF FtpState
  <2>4. QED
    BY <1>3, <2>2, <2>3
<1>6. /\ ftp' = HandleTail(f, sk) /\ pc' = "select"
      /\ srv' = srv \/ srv' = [srv EXCEPT !.conn = "none"]
  BY <1>2, <1>4
<1> HIDE DEF f, item
<1>7. srv'.up = 1 /\ srv'.auth = 1 /\ srv'.cwd = srv.cwd
  BY <1>3, <1>6 DEF SrvState
<1>8. f.dirent = Content(srv.cwd, Ls)
  <2>1. CASE ftp.cproc = "list"
    BY <1>4, <1>5, <2>1 DEF Received, Wanted, Content
  <2>2. CASE ftp.cproc = "xfer"
    BY <1>1, <1>5, <2>2 DEF TransferPhase, Listed
  <2>3. QED
    BY <1>3, <2>1, <2>2
<1>9. xfer' = IF ftp.cproc = "xfer" THEN [xfer EXCEPT ![x].st = "freed"] ELSE xfer
  <2>1. CASE ftp.cproc = "xfer"
    <3>1. xfer' = RecvXfer(x, Eof) /\ xfer[x].st = "live"
      BY <1>1, <1>3, <2>1 DEF item
    <3>2. xfer' = [xfer EXCEPT ![x].st = "freed"]
      BY <3>1 DEF RecvXfer, UseXfer
    <3>3. QED
      BY <2>1, <3>2
  <2>2. CASE ftp.cproc # "xfer"
    BY <1>1, <1>3, <2>2
  <2>3. QED
    BY <2>1, <2>2
<1>10. Books(f, xfer', srv.cwd)
  <2>1. Books(ftp, xfer, srv.cwd)
    BY DEF SessionInv, Book
  <2>2. CASE ftp.cproc = "xfer"
    <3>1. xfer[x].got = Content(srv.cwd, xfer[x].name)
      BY <1>4, <2>2 DEF Received, Wanted, Content
    <3>2. QED
      BY <1>1, <1>5, <1>9, <2>1, <2>2, <3>1, BookDone
  <2>3. CASE ftp.cproc = "list"
    <3>1. \A y \in Xfers : /\ Current(f, y) <=> Current(ftp, y)
                           /\ Queued(f, y) <=> Queued(ftp, y)
                           /\ f.wait # <<XferOp(y)>>
      BY <1>3, <1>5, <2>3, QueueKinds DEF Current, Queued
    <3>2. xfer' = xfer
      BY <1>9, <2>3
    <3>3. QED
      BY <2>1, <3>1, <3>2 DEF Books
  <2>4. QED
    BY <1>3, <2>2, <2>3
<1>11. ASSUME ftp.wire = << >> PROVE SessionInv'
  <2>1. f.busy = 0
    BY <1>5, <1>11
  <2>2. /\ Steady' /\ Phase' /\ StartDirInv'
        /\ \A y \in Xfers : Current(ftp', y) <=> Queued(f, y)
        /\ \A y \in Xfers : ~Queued(ftp', y)
    BY <1>1, <1>3, <1>5, <1>6, <1>7, <1>8, <1>11, <2>1, TransferDone DEF TransferPhase
  <2>3. \A y \in Xfers : ~Current(f, y)
    BY <1>5, QueueKinds DEF Current, NoSock, Open
  <2>4. \A y \in Xfers : xfer'[y].st \in {"none", "live", "freed", "reused"}
    <3>1. IndInv'
      BY DataRecvInd
    <3>2. QED
      BY <3>1 DEF IndInv, TypeOK, Transfer
  <2>5. Books(ftp', xfer', srv.cwd)
    BY <1>10, <2>2, <2>3, <2>4, BookStart
  <2>6. QED
    BY <1>7, <2>2, <2>5 DEF SessionInv, Book
<1>12. ASSUME ftp.wire # << >> PROVE SessionInv'
  <2>1. Len(ftp.wire) = 1 /\ TransferCmd
    BY <1>1, <1>12 DEF TransferPhase
  <2>2. ftp' = f
    BY <1>5, <1>6, <2>1 DEF HandleTail
  <2>3. TransferCmd'
    <3>1. ftp.wire[1].code # 0
      BY <1>4, <1>12 DEF Over
    <3>2. ftp.wire[1].mark = "read"
      <4>1. ftp.wire[1] \in Exchange
        BY <1>3, <2>1
      <4>2. QED
        BY <1>1, <1>12, <2>1, <3>1, <4>1 DEF TransferCmd, Exchange
    <3>3. ftp.cproc = "xfer" => f.cls = ftp.cls
      BY <1>3, <1>4 DEF f, RecvData, DprocXfer, FtpState
    <3>4. QED
      BY <1>5, <2>1, <2>2, <3>1, <3>2, <3>3 DEF TransferCmd
  <2>4. ftp'.data # Open /\ ftp'.busy = Len(ftp'.wire) + IF ftp'.data = Open THEN 1 ELSE 0
    <3>1. ftp'.data # Open /\ ftp'.busy = Len(ftp'.wire) /\ Len(ftp'.wire) \in Nat
      BY <1>3, <1>5, <2>2 DEF NoSock, Open
    <3>2. QED
      BY <3>1
  <2>5. ftp'.busy = 1
    BY <1>5, <2>1, <2>2
  <2>6. Listed'
    BY <1>5, <1>7, <1>8, <2>2 DEF Listed, Content
  <2>7. TransferPhase'
    BY <1>1, <1>3, <1>5, <1>6, <1>7, <2>1, <2>2, <2>3, <2>4, <2>5, <2>6 DEF TransferPhase
  <2>8. Steady' /\ StartDirInv'
    BY <1>1, <1>3, <1>5, <1>7, <2>2 DEF Steady, StartDirInv
  <2>9. Book'
    BY <1>7, <1>10, <2>2 DEF Book
  <2>10. QED
    BY <2>7, <2>8, <2>9 DEF SessionInv, Phase
<1>13. ftp.cproc = "xfer" => Len(xfer[x].got) = Chunks /\ Current(ftp, x) /\ x \in Xfers
  <2>1. Len([i \in 1..Chunks |-> Wanted]) = Chunks
    BY BoundAssumption
  <2>2. QED
    BY <1>1, <1>4, <2>1 DEF Received, Current
<1>14. QED
  BY <1>9, <1>11, <1>12, <1>13
\* main queues the start directory behind the first listing.
LEMMA QueueStartDirSession ==
    ASSUME Cooperative, IndInv, SessionInv, QueueStartDir
    PROVE  SessionInv' /\ xfer' = xfer
<1>1. /\ pc = "select" /\ ftp.wait = << >> /\ startDir # NoArg /\ ftp.status # "DISC"
      /\ startDir' = NoArg /\ xfer' = xfer /\ pc' = pc /\ srv' = srv /\ dwire' = dwire
  BY DEF QueueStartDir, StartDirDue
<1>2. PICK sk \in SockOutcomes : ftp' = FtpQueue(ftp, Op("CHDIR", startDir), sk)
  BY DEF QueueStartDir
<1>3. ftp.cproc = "list" /\ ftp.data = Open /\ ftp.queue = << >>
  <2>1. << >> # <<Op("LIST", NoArg)>>
    BY Short
  <2>2. QED
    BY <1>1, <2>1 DEF SessionInv, StartDirInv
<1>4. TransferPhase
  BY <1>3 DEF SessionInv, Phase, LoginPhase, CwdPhase, PwdPhase, PasvPhase
<1>5. startDir \in Dirs /\ ftp \in FtpState
  BY <1>1 DEF IndInv, TypeOK, Args
<1>6. ftp.busy # 0
  <2>1. ftp.busy = Len(ftp.wire) + 1 /\ Len(ftp.wire) \in Nat
    BY <1>3, <1>4, <1>5 DEF TransferPhase, FtpState
  <2>2. QED
    BY <2>1
<1> DEFINE op == Op("CHDIR", startDir)
<1>7. op \in FtpOp
  BY <1>5, OpTypes
<1>8. Append(<< >>, op) = <<op>>
  BY Short
<1> HIDE DEF op
<1>9. /\ Kept(ftp, ftp') /\ ftp'.busy = ftp.busy /\ ftp'.wire = ftp.wire
      /\ ftp'.cproc = ftp.cproc /\ ftp'.wait = ftp.wait /\ ftp'.queue = <<op>>
  BY <1>2, <1>3, <1>5, <1>6, <1>7, <1>8, QueueBehind DEF op
<1>10. TransferPhase'
  <2>1. Stream'
    <3>1. (Over' <=> Over) /\ (Begun' <=> Begun)
      BY <1>9 DEF Over, Begun
    <3>2. QED
      BY <1>1, <1>3, <1>4, <1>9, <3>1, StreamKept DEF TransferPhase, Kept
  <2>2. TransferCmd' <=> TransferCmd
    BY <1>9 DEF TransferCmd, Kept
  <2>3. Listed' <=> Listed
    BY <1>1, <1>9 DEF Listed, Content, Kept
  <2>4. ftp'.data = Open /\ \E d \in Dirs : ftp'.queue = <<Op("CHDIR", d)>>
    BY <1>3, <1>5, <1>9 DEF op, Kept
  <2>5. QED
    BY <1>1, <1>3, <1>4, <1>6, <1>9, <2>1, <2>2, <2>3, <2>4 DEF TransferPhase, Kept
<1>11. Steady' /\ StartDirInv'
  BY <1>1, <1>9 DEF SessionInv, Steady, StartDirInv, Kept
<1>12. NoTransfers(ftp) /\ NoTransfers(ftp')
  BY <1>1, <1>3, <1>5, <1>9 DEF NoTransfers, op
<1>13. Book'
  BY <1>1, <1>12, BookQuiet DEF SessionInv
<1>14. QED
  BY <1>1, <1>10, <1>11, <1>13 DEF SessionInv, Phase

\* A calm user presses keys when the panel is shown and nothing is under way.
LEMMA PressIdle ==
    ASSUME Cooperative, IndInv, SessionInv, MayPress
    PROVE  /\ TransferPhase /\ ftp.data = NoSock /\ ftp.wire = << >> /\ ftp.busy = 0
           /\ ftp.queue = << >> /\ pc = "select" /\ Listed /\ startDir = NoArg
<1>1. /\ ftp.busy = 0 /\ ftp.queue = << >> /\ ftp.wire = << >> /\ ftp.dirent # << >>
      /\ ftp.wait = << >> /\ pc = "select"
  BY DEF MayPress, Cooperative, Idle, AtMainSelect, AtSelect
<1>2. << >> # <<Op("LIST", NoArg)>> /\ << >> # <<Op("PWD", NoArg), Op("LIST", NoArg)>>
      /\ (\A x : << >> # <<XferOp(x)>>)
  BY Short, QueueKinds
<1>3. TransferPhase
  BY <1>1, <1>2 DEF SessionInv, Phase, LoginPhase, CwdPhase, PwdPhase, PasvPhase
<1>4. ftp.data = NoSock
  <2>1. ftp.data \in {NoSock, Open}
    BY DEF IndInv, TypeOK, FtpState
  <2>2. ASSUME ftp.data = Open PROVE FALSE
    <3>1. Len(ftp.wire) = 0
      BY <1>1
    <3>2. ftp.busy = Len(ftp.wire) + 1
      BY <1>3, <2>2 DEF TransferPhase
    <3>3. QED
      BY <1>1, <3>1, <3>2
  <2>3. QED
    BY <2>1, <2>2
<1>5. Listed
  BY <1>3, <1>4 DEF TransferPhase
<1>6. startDir = NoArg
  <2>1. ftp.cproc \in {"list", "xfer"} /\ ftp.data # Open
    BY <1>3, <1>4 DEF TransferPhase, NoSock, Open
  <2>2. QED
    BY <2>1 DEF SessionInv, StartDirInv
<1>7. QED
  BY <1>1, <1>3, <1>4, <1>5, <1>6

\* Backspace or Enter on a directory: the change of directory is sent at once.
LEMMA KeyCwdSession ==
    ASSUME Cooperative, IndInv, SessionInv, MayPress,
           NEW op \in FtpOp, op.op \in {"CDUP", "CHDIR"}, NEW sk,
           ftp' = FtpQueue(ftp, op, sk),
           UNCHANGED <<xfer, curXfer, pc, nrecv, startDir, srv, dwire>>
    PROVE  SessionInv'
<1>1. /\ TransferPhase /\ ftp.data = NoSock /\ ftp.wire = << >> /\ ftp.busy = 0
      /\ ftp.queue = << >> /\ pc = "select" /\ startDir = NoArg
  BY PressIdle
<1>2. ftp \in FtpState /\ ftp.ctl = Open /\ ftp.wire \in Seq(Exchange)
      /\ ftp.wait = << >> /\ srv.auth = 1
  BY <1>1 DEF IndInv, TypeOK, FtpState, SessionInv, Steady, TransferPhase
<1>3. ftp' = ExecOp(ftp, op, sk)
  BY <1>1 DEF FtpQueue
<1>4. PICK cmd \in {"cwd", "cdup"}, arg \in {op.arg, NoArg} :
        Sends(ftp, ftp', cmd, arg, NoXfer)
        /\ ftp'.cproc = "cwd" /\ ftp'.queue = << >> /\ ftp'.wait = << >>
  BY <1>1, <1>2, <1>3, CommandSends
<1>5. /\ Kept(ftp, ftp') /\ ftp'.busy = 1 /\ Len(ftp'.wire) = 1
      /\ ftp'.wire[1] = Exch(cmd, arg, NoXfer)
  BY <1>1, <1>2, <1>4, WireOfOne DEF Sends
<1>6. CwdPhase'
  <2>1. (Asking("cwd", {250}) \/ Asking("cdup", {250}))'
    BY <1>5 DEF Asking, Exch
  <2>2. QED
    BY <1>1, <1>2, <1>4, <1>5, <2>1 DEF CwdPhase, Kept
<1>7. Steady' /\ StartDirInv'
  BY <1>1, <1>5 DEF SessionInv, Steady, StartDirInv, Kept
<1>8. NoTransfers(ftp) /\ NoTransfers(ftp')
  BY <1>1, <1>2, <1>4, <1>5 DEF NoTransfers, Kept
<1>9. Book'
  BY <1>8, BookQuiet DEF SessionInv
<1>10. QED
  BY <1>6, <1>7, <1>9 DEF SessionInv, Phase
\* F5 enters the file under the cursor, which lies in the current directory.
LEMMA PickedFile ==
    ASSUME IndInv, Listed, NEW x \in Xfers, NEW n \in Names, KeyXfer(x, n)
    PROVE  /\ xfer[x].st = "none" /\ \A y \in 1..(x - 1) : xfer[y].st # "none"
           /\ xfer' = [xfer EXCEPT ![x] = [st |-> "live", dir |-> srv.cwd,
                                           name |-> n, got |-> << >>]]
           /\ xfer'[x] = [st |-> "live", dir |-> srv.cwd, name |-> n, got |-> << >>]
           /\ \A y \in Xfers \ {x} : xfer'[y] = xfer[y]
           /\ srv' = srv /\ dwire' = dwire /\ pc' = pc /\ startDir' = startDir
           /\ \E sk \in SockOutcomes : ftp' = FtpQueue(ftp, XferOp(x), sk)
<1>1. Head(ftp.dirent)[1] = srv.cwd
  <2>1. ftp.dirent = Content(srv.cwd, Ls) /\ ftp.dirent # << >> /\ ftp.dirent \in Seq(Sources)
    BY DEF Listed, KeyXfer, IndInv, TypeOK, FtpState
  <2>2. Len(Content(srv.cwd, Ls)) = Chunks
    BY BoundAssumption DEF Content
  <2>3. Len(ftp.dirent) > 0 /\ Head(ftp.dirent) = ftp.dirent[1]
    BY <2>1, EmptySeq, HeadTailProperties
  <2>4. 1 \in 1..Chunks
    BY <2>1, <2>2, <2>3, BoundAssumption
  <2>5. Content(srv.cwd, Ls)[1] = <<srv.cwd, Ls>>
    BY <2>4 DEF Content
  <2>6. QED
    BY <2>1, <2>3, <2>5
<1>2. xfer' = [xfer EXCEPT ![x] = [st |-> "live", dir |-> srv.cwd,
                                   name |-> n, got |-> << >>]]
  BY <1>1 DEF KeyXfer
<1>3. xfer \in [Xfers -> Transfer]
  BY DEF IndInv, TypeOK
<1>4. QED
  BY <1>2, <1>3 DEF KeyXfer

\* The first file picked is fetched at once.
LEMMA KeyXferFirst ==
    ASSUME Cooperative, IndInv, SessionInv, MayPress,
           NEW x \in Xfers, NEW n \in Names, KeyXfer(x, n)
    PROVE  SessionInv'
<1>1. /\ TransferPhase /\ ftp.data = NoSock /\ ftp.wire = << >> /\ ftp.busy = 0
      /\ ftp.queue = << >> /\ pc = "select" /\ Listed /\ startDir = NoArg
  BY PressIdle
<1>2. /\ ftp \in FtpState /\ ftp.ctl = Open /\ ftp.wire \in Seq(Exchange)
      /\ ftp.lis = NoSock /\ ftp.passive = 1 /\ ftp.fault = "none" /\ srv.up = 1
      /\ ftp.wait = << >> /\ srv.auth = 1 /\ ftp.curdir = srv.cwd
  BY <1>1 DEF IndInv, TypeOK, FtpState, SessionInv, Steady, TransferPhase
<1>3. /\ xfer[x].st = "none" /\ \A y \in 1..(x - 1) : xfer[y].st # "none"
      /\ xfer'[x] = [st |-> "live", dir |-> srv.cwd, name |-> n, got |-> << >>]
      /\ \A y \in Xfers \ {x} : xfer'[y] = xfer[y]
      /\ srv' = srv /\ dwire' = dwire /\ pc' = pc /\ startDir' = startDir
  BY <1>1, PickedFile
<1>4. PICK sk \in SockOutcomes : ftp' = FtpQueue(ftp, XferOp(x), sk)
  BY <1>1, PickedFile
<1> DEFINE op == XferOp(x)
<1>5. op.op = "XFER" /\ <<op>> \o << >> = <<op>>
  BY Short DEF XferOp
<1>6. ftp' = ExecOp(ftp, op, sk)
  BY <1>1, <1>4 DEF FtpQueue
<1> HIDE DEF op
<1>7. /\ Sends(ftp, ftp', "pasv", NoArg, NoXfer) /\ ftp'.cproc = "pasv"
      /\ ftp'.queue = << >> /\ ftp'.wait = <<op>>
  <2>1. /\ ftp \in FtpState /\ ftp.ctl = Open /\ ftp.data = NoSock /\ ftp.lis = NoSock
        /\ ftp.passive = 1 /\ op.op \in {"LIST", "XFER"} /\ ftp' = ExecOp(ftp, op, sk)
    BY <1>1, <1>2, <1>5, <1>6
  <2>2. /\ Sends(ftp, ftp', "pasv", NoArg, NoXfer) /\ ftp'.cproc = "pasv"
        /\ ftp'.queue = ftp.queue /\ ftp'.wait = <<op>> \o ftp.wait
    BY <2>1, DataOpAsks
  <2>3. QED
    BY <1>1, <1>2, <1>5, <2>2
<1>8. /\ Kept(ftp, ftp') /\ ftp'.busy = 1 /\ Len(ftp'.wire) = 1
      /\ ftp'.wire[1] = Exch("pasv", NoArg, NoXfer)
  BY <1>1, <1>2, <1>7, WireOfOne DEF Sends
<1>9. PasvPhase'
  <2>1. Asking("pasv", {227})'
    BY <1>8 DEF Asking, Exch
  <2>2. Listed'
    BY <1>1, <1>3, <1>8 DEF Listed, Content, Kept
  <2>3. QED
    BY <1>1, <1>2, <1>3, <1>7, <1>8, <2>1, <2>2 DEF PasvPhase, Kept, op
<1>10. Steady' /\ StartDirInv'
  BY <1>1, <1>2, <1>3, <1>8 DEF Steady, StartDirInv, Kept
<1>11. Book'
  <2>1. \A y \in Xfers : ~Current(ftp, y) /\ ~Queued(ftp, y)
    BY <1>1, <1>2, QueueKinds DEF Current, Queued, NoSock, Open
  <2>2. \A y \in Xfers : /\ ~Queued(ftp', y)
                         /\ Current(ftp', y) <=> y = x
                         /\ ftp'.wait = <<XferOp(y)>> <=> y = x
    BY <1>7, QueueKinds DEF Current, Queued, op
  <2>3. Books(ftp, xfer, srv.cwd)
    BY DEF SessionInv, Book
  <2>4. \A y \in Xfers : xfer[y].st \in {"none", "freed"}
    <3>1. \A y \in Xfers : xfer[y].st \in {"none", "live", "freed", "reused"}
      BY DEF IndInv, TypeOK, Transfer
    <3>2. QED
      BY <2>1, <2>3, <3>1 DEF Books
  <2>5. \A y \in Xfers : \A z \in 1..(y - 1) : z \in Xfers /\ z # y
    BY BoundAssumption DEF Xfers
  <2>6. Books(ftp', xfer', srv.cwd)
    <3> SUFFICES ASSUME NEW y \in Xfers
                 PROVE
          /\ xfer'[y].st # "reused"
          /\ xfer'[y].st = "freed" => xfer'[y].got = Content(xfer'[y].dir, xfer'[y].name)
          /\ xfer'[y].st = "live" <=> Current(ftp', y) \/ Queued(ftp', y)
          /\ xfer'[y].st = "live" => xfer'[y].dir = srv.cwd
          /\ xfer'[y].st # "none" => \A z \in 1..(y - 1) : xfer'[z].st # "none"
          /\ Current(ftp', y) => \A z \in 1..(y - 1) : xfer'[z].st = "freed"
          /\ Queued(ftp', y) \/ ftp'.wait = <<XferOp(y)>> => xfer'[y].got = << >>
          /\ ~(Current(ftp', y) /\ Queued(ftp', y))
      BY DEF Books
    <3>1. CASE y = x
      BY <1>3, <2>2, <2>4, <2>5, <3>1
    <3>2. CASE y # x
      BY <1>3, <2>2, <2>3, <2>4, <2>5, <3>2 DEF Books
    <3>3. QED
      BY <3>1, <3>2
  <2>7. QED
    BY <1>3, <2>6 DEF Book
<1>12. QED
  BY <1>9, <1>10, <1>11 DEF SessionInv, Phase

\* A file picked while another one is fetched is queued behind it.
LEMMA KeyXferNext ==
    ASSUME Cooperative, IndInv, SessionInv, AtMainSelect,
           Len(ftp.queue) < MaxQueue, ftp.dproc = "xfer", ftp.data = Open,
           NEW x \in Xfers, NEW n \in Names, KeyXfer(x, n)
    PROVE  SessionInv' /\ Listed
<1>1. ftp \in FtpState /\ pc = "select"
  BY DEF IndInv, TypeOK, AtMainSelect, AtSelect
<1>2. TransferPhase
  BY <1>1 DEF SessionInv, Phase, LoginPhase, CwdPhase, PwdPhase, PasvPhase, NoSock, Open
<1>3. ftp.queue = << >>
  <2>1. ftp.queue \in Seq(FtpOp) /\ MaxQueue \in Nat /\ MaxQueue <= 1
    BY <1>1, Outcomes, BoundAssumption DEF FtpState
  <2>2. Len(ftp.queue) = 0
    BY <2>1
  <2>3. QED
    BY <2>1, <2>2, EmptySeq
<1>4. ftp.cproc = "xfer" /\ Listed /\ Stream
  BY <1>2 DEF TransferPhase, Stream
<1>5. /\ xfer[x].st = "none" /\ \A y \in 1..(x - 1) : xfer[y].st # "none"
      /\ xfer'[x] = [st |-> "live", dir |-> srv.cwd, name |-> n, got |-> << >>]
      /\ \A y \in Xfers \ {x} : xfer'[y] = xfer[y]
      /\ srv' = srv /\ dwire' = dwire /\ pc' = pc /\ startDir' = startDir
  BY <1>4, PickedFile
<1>6. PICK sk \in SockOutcomes : ftp' = FtpQueue(ftp, XferOp(x), sk)
  BY <1>4, PickedFile
<1>7. ftp.busy # 0
  <2>1. ftp.busy = Len(ftp.wire) + 1 /\ Len(ftp.wire) \in Nat
    BY <1>1, <1>2 DEF TransferPhase, FtpState
  <2>2. QED
    BY <2>1
<1> DEFINE op == XferOp(x)
<1>8. op \in FtpOp /\ Append(<< >>, op) = <<op>>
  BY OpTypes, Short
<1> HIDE DEF op
<1>9. /\ Kept(ftp, ftp') /\ ftp'.busy = ftp.busy /\ ftp'.wire = ftp.wire
      /\ ftp'.cproc = ftp.cproc /\ ftp'.wait = ftp.wait /\ ftp'.queue = <<op>>
  BY <1>1, <1>3, <1>6, <1>7, <1>8, QueueBehind DEF op
<1>10. ftp.cls \in Xfers /\ xfer[ftp.cls].st = "live" /\ ftp.cls # x
  <2>1. ftp.cls \in Xfers /\ Current(ftp, ftp.cls)
    BY <1>4 DEF IndInv, HandlersAgree, Current
  <2>2. QED
    BY <1>5, <2>1 DEF SessionInv, Book, Books
<1>11. Stream'
  <2>1. Received' = Received /\ Wanted' = Wanted
    BY <1>4, <1>5, <1>9, <1>10 DEF Received, Wanted, Kept
  <2>2. (Over' <=> Over) /\ (Begun' <=> Begun)
    BY <1>9 DEF Over, Begun
  <2>3. QED
    BY <1>4, <1>5, <1>9, <2>1, <2>2 DEF Stream, Kept
<1>12. TransferPhase'
  <2>1. TransferCmd' <=> TransferCmd
    BY <1>9 DEF TransferCmd, Kept
  <2>2. Listed' <=> Listed
    BY <1>5, <1>9 DEF Listed, Content, Kept
  <2>3. ftp'.cproc = "xfer" /\ \E y \in Xfers : ftp'.queue = <<XferOp(y)>>
    BY <1>4, <1>9 DEF op
  <2>4. QED
    BY <1>1, <1>2, <1>4, <1>5, <1>7, <1>9, <1>11, <2>1, <2>2, <2>3 DEF TransferPhase, Kept
<1>13. Steady' /\ StartDirInv'
  BY <1>4, <1>5, <1>9 DEF SessionInv, Steady, StartDirInv, Kept
<1>14. Book'
  <2>1. \A y \in Xfers : /\ Current(ftp', y) <=> Current(ftp, y)
                         /\ ~Queued(ftp, y)
                         /\ Queued(ftp', y) <=> y = x
                         /\ ftp'.wait # <<XferOp(y)>>
    BY <1>2, <1>3, <1>9, QueueKinds DEF Current, Queued, Kept, op, TransferPhase
  <2>2. Books(ftp, xfer, srv.cwd)
    BY DEF SessionInv, Book
  <2>3. ~Current(ftp, x)
    BY <1>5, <2>2 DEF Books
  <2>4. \A y \in Xfers : \A z \in 1..(y - 1) : z \in Xfers /\ z # y
    BY BoundAssumption DEF Xfers
  <2>5. Books(ftp', xfer', srv.cwd)
    <3> SUFFICES ASSUME NEW y \in Xfers
                 PROVE
          /\ xfer'[y].st # "reused"
          /\ xfer'[y].st = "freed" => xfer'[y].got = Content(xfer'[y].dir, xfer'[y].name)
          /\ xfer'[y].st = "live" <=> Current(ftp', y) \/ Queued(ftp', y)
          /\ xfer'[y].st = "live" => xfer'[y].dir = srv.cwd
          /\ xfer'[y].st # "none" => \A z \in 1..(y - 1) : xfer'[z].st # "none"
          /\ Current(ftp', y) => \A z \in 1..(y - 1) : xfer'[z].st = "freed"
          /\ Queued(ftp', y) \/ ftp'.wait = <<XferOp(y)>> => xfer'[y].got = << >>
          /\ ~(Current(ftp', y) /\ Queued(ftp', y))
      BY DEF Books
    <3>1. CASE y = x
      BY <1>5, <2>1, <2>2, <2>3, <2>4, <3>1 DEF Books
    <3>2. CASE y # x
      BY <1>5, <2>1, <2>2, <2>4, <3>2 DEF Books
    <3>3. QED
      BY <3>1, <3>2
  <2>6. QED
    BY <1>5, <2>5 DEF Book
<1>15. QED
  BY <1>4, <1>12, <1>13, <1>14 DEF SessionInv, Phase

\* The keys keep the invariant; F5 enters a file of the current directory.
LEMMA UserSession ==
    ASSUME Cooperative, IndInv, SessionInv, User
    PROVE  /\ SessionInv'
           /\ \/ xfer' = xfer
              \/ \E x \in Xfers, n \in Names :
                    /\ xfer[x].st = "none"
                    /\ xfer' = [xfer EXCEPT ![x] = [st |-> "live", dir |-> srv.cwd,
                                                    name |-> n, got |-> << >>]]
<1>1. ASSUME KeyCdup PROVE SessionInv' /\ xfer' = xfer
  <2> DEFINE op == Op("CDUP", NoArg)
  <2>1. op \in FtpOp /\ op.op = "CDUP"
    BY OpTypes DEF Op
  <2>2. PICK sk \in SockOutcomes : ftp' = FtpQueue(ftp, op, sk)
    BY <1>1 DEF KeyCdup
  <2> HIDE DEF op
  <2>3. QED
    BY <1>1, <2>1, <2>2, KeyCwdSession DEF KeyCdup
<1>2. ASSUME NEW d \in Dirs, KeyChdir(d) PROVE SessionInv' /\ xfer' = xfer
  <2> DEFINE op == Op("CHDIR", d)
  <2>1. op \in FtpOp /\ op.op = "CHDIR"
    BY OpTypes DEF Op
  <2>2. PICK sk \in SockOutcomes : ftp' = FtpQueue(ftp, op, sk)
    BY <1>2 DEF KeyChdir
  <2> HIDE DEF op
  <2>3. QED
    BY <1>2, <2>1, <2>2, KeyCwdSession DEF KeyChdir
<1>3. ASSUME NEW x \in Xfers, NEW n \in Names, KeyXfer(x, n)
      PROVE  /\ SessionInv' /\ xfer[x].st = "none"
             /\ xfer' = [xfer EXCEPT ![x] = [st |-> "live", dir |-> srv.cwd,
                                             name |-> n, got |-> << >>]]
  <2>1. SessionInv' /\ Listed
    <3>1. CASE MayPress
      BY <1>3, <3>1, KeyXferFirst, PressIdle
    <3>2. CASE /\ AtMainSelect /\ Len(ftp.queue) < MaxQueue
               /\ ftp.dproc = "xfer" /\ ftp.data = Open
      BY <1>3, <3>2, KeyXferNext
    <3>3. QED
      BY <1>3, <3>1, <3>2 DEF KeyXfer, MayFetch
  <2>2. QED
    BY <1>3, <2>1, PickedFile
<1>4. QED
  BY <1>1, <1>2, <1>3 DEF User
\* The server only touches the exchange it serves.
SameClient ==
    /\ Kept(ftp, ftp') /\ ftp'.busy = ftp.busy /\ ftp'.queue = ftp.queue
    /\ ftp'.cproc = ftp.cproc /\ ftp'.wait = ftp.wait
    /\ xfer' = xfer /\ pc' = pc /\ startDir' = startDir

\* The server has one exchange to serve, and it has no final reply yet.
LEMMA OneServed ==
    ASSUME IndInv, SessionInv, NEW i \in 1..Len(ftp.wire), ftp.wire[i].code = 0
    PROVE  /\ i = 1 /\ Len(ftp.wire) = 1 /\ ftp \in FtpState
           /\ ftp.wire # << >> /\ ftp.wire[1] \in Exchange /\ ftp.wire[1].code = 0
           /\ \A e \in Exchange : LET w == [ftp.wire EXCEPT ![1] = e]
                                  IN  w \in Seq(Exchange) /\ Len(w) = 1 /\ w[1] = e
<1>1. ftp \in FtpState /\ ftp.wire \in Seq(Exchange) /\ ftp.wire # << >> /\ i \in Nat
  <2>1. ftp \in FtpState /\ ftp.wire \in Seq(Exchange)
    BY ServedExchange
  <2>2. ftp.wire # << >>
    BY <2>1, WireOfOne
  <2>3. QED
    BY <2>1, <2>2
<1>2. Len(ftp.wire) = 1
  BY <1>1 DEF SessionInv, Phase, LoginPhase, CwdPhase, PwdPhase, PasvPhase, TransferPhase,
         Greeting, Identifying, Refused, Typing, Between, Asking
<1>3. i = 1 /\ ftp.wire[1] \in Exchange
  BY <1>1, <1>2
<1>4. ASSUME NEW e \in Exchange
      PROVE  LET w == [ftp.wire EXCEPT ![1] = e]
             IN  w \in Seq(Exchange) /\ Len(w) = 1 /\ w[1] = e
  <2> DEFINE w == [ftp.wire EXCEPT ![1] = e]
  <2>1. 1 \in 1..Len(ftp.wire)
    BY <1>2
  <2>2. w \in Seq(Exchange) /\ Len(w) = Len(ftp.wire)
    BY <1>1, <2>1, ExceptSeq
  <2>3. w[1] = e
    BY <1>1, <2>1
  <2>4. QED
    BY <1>2, <2>2, <2>3
<1>5. QED
  BY <1>1, <1>2, <1>3, <1>4

\* A transfer the server serves: the data connection is open.
LEMMA ServedTransfer ==
    ASSUME IndInv, SessionInv, NEW i \in 1..Len(ftp.wire), ftp.wire[i].code = 0,
           ftp.wire[i].cmd \in {"list", "retr"} \/ ftp.wire[i].mark # "none"
    PROVE  /\ TransferPhase /\ TransferCmd /\ ftp.data = Open /\ Stream /\ ~Over
           /\ srv.conn = "open" /\ i = 1
<1>1. i = 1 /\ Len(ftp.wire) = 1 /\ ftp.wire # << >> /\ ftp.wire[1].code = 0
  BY OneServed
<1>2. TransferPhase
  BY <1>1 DEF SessionInv, Phase, LoginPhase, CwdPhase, PwdPhase, PasvPhase,
         Greeting, Identifying, Refused, Typing, Between, Asking
<1>3. TransferCmd /\ ftp.data = Open
  BY <1>1, <1>2 DEF TransferPhase, TransferCmd
<1>4. Stream /\ ~Over
  BY <1>1, <1>2, <1>3 DEF TransferPhase, Over
<1>5. QED
  BY <1>1, <1>2, <1>3, <1>4 DEF Stream

\* A final reply of the server, in every phase but a transfer.
LEMMA SrvReplySession ==
    ASSUME Cooperative, IndInv, SessionInv, NEW i \in 1..Len(ftp.wire), SrvReply(i)
    PROVE  SessionInv' /\ xfer' = xfer
<1> DEFINE e == ftp.wire[i]
<1>1. /\ i = 1 /\ Len(ftp.wire) = 1 /\ ftp \in FtpState /\ ftp.wire # << >>
      /\ e \in Exchange /\ e.code = 0 /\ e.mark = "none"
      /\ \A d \in Exchange : LET w == [ftp.wire EXCEPT ![1] = d]
                             IN  w \in Seq(Exchange) /\ Len(w) = 1 /\ w[1] = d
  BY OneServed DEF SrvReply, Serving
<1>2. PICK code \in Replies(e.cmd) :
        LET dir == IF code # 250 THEN srv.cwd
                   ELSE IF e.cmd = "cdup" THEN Home ELSE e.arg
            hangup == e.cmd \in {"list", "retr"} /\ srv.conn = "open"
        IN  /\ ftp' = [ftp EXCEPT !.wire[i] =
                        [@ EXCEPT !.code = code, !.arg = dir]]
            /\ srv' = [srv EXCEPT
                        !.auth = IF code = 230 THEN 1 ELSE @,
                        !.cwd = dir,
                        !.conn = IF code = 227 THEN "listen"
                                 ELSE IF hangup THEN "none" ELSE @]
            /\ dwire' = IF hangup THEN Append(dwire, Eof) ELSE dwire
  BY DEF SrvReply
<1> DEFINE dir == IF code # 250 THEN srv.cwd
                  ELSE IF e.cmd = "cdup" THEN Home ELSE e.arg
           d == [e EXCEPT !.code = code, !.arg = dir]
<1>3. e.cmd \notin {"list", "retr"}
  <2>1. ASSUME e.cmd \in {"list", "retr"} PROVE FALSE
    <3>1. TransferPhase /\ srv.conn = "open"
      BY <1>1, <2>1, ServedTransfer
    <3>2. srv.auth = 1
      BY <3>1 DEF TransferPhase
    <3>3. Replies(e.cmd) = {}
      BY <2>1, <3>1, <3>2, Outcomes DEF Replies, LoginCmds
    <3>4. QED
      BY <3>3
  <2>2. QED
    BY <2>1
<1>4. /\ xfer' = xfer /\ pc' = pc /\ startDir' = startDir /\ dwire' = dwire
      /\ srv \in SrvState /\ e.cmd \in Cmds
  BY <1>1, <1>2, <1>3 DEF SrvReply, IndInv, TypeOK, Exchange
<1>5. dir \in Dirs /\ (code # 250 => dir = srv.cwd)
  <2>1. code = 250 => e.cmd \in {"cwd", "cdup"}
    BY <1>3, Outcomes DEF Replies, LoginCmds
  <2>2. e.cmd = "cwd" => e.arg \in Dirs
    BY <1>1 DEF Exchange
  <2>3. code # 250 => dir = srv.cwd
    OBVIOUS
  <2>4. code = 250 => dir = IF e.cmd = "cdup" THEN Home ELSE e.arg
    OBVIOUS
  <2>5. srv.cwd \in Dirs /\ Home \in Dirs
    BY <1>4, DirsAssumption DEF SrvState
  <2> HIDE DEF dir
  <2>6. QED
    BY <2>1, <2>2, <2>3, <2>4, <2>5
<1> HIDE DEF dir
<1>6. d \in Exchange
  <2>1. code \in Codes
    BY <1>4, RepliesType
  <2>2. QED
    BY <1>1, <1>5, <2>1 DEF Exchange, Args
<1>7. d.cmd = e.cmd /\ d.mark = "none" /\ d.code = code /\ d.arg = dir
  BY <1>1 DEF Exchange
<1>8. /\ ftp' = [ftp EXCEPT !.wire = [ftp.wire EXCEPT ![1] = d]]
      /\ srv' = [srv EXCEPT !.auth = IF code = 230 THEN 1 ELSE @, !.cwd = dir,
                            !.conn = IF code = 227 THEN "listen" ELSE @]
  BY <1>1, <1>2, <1>3 DEF dir
<1> HIDE DEF d
<1>9. SameClient /\ Len(ftp'.wire) = 1 /\ ftp'.wire[1] = d /\ ftp'.wire # << >>
  <2>1. SameClient
    BY <1>1, <1>4, <1>8 DEF SameClient, Kept, FtpState
  <2>2. ftp'.wire = [ftp.wire EXCEPT ![1] = d]
    BY <1>1, <1>8 DEF FtpState
  <2>3. Len(ftp'.wire) = 1 /\ ftp'.wire[1] = d /\ ftp'.wire \in Seq(Exchange)
    BY <1>1, <1>6, <2>2
  <2>4. ftp'.wire # << >>
    BY <2>3, WireOfOne
  <2>5. QED
    BY <2>1, <2>3, <2>4
<1>10. /\ srv'.auth = (IF code = 230 THEN 1 ELSE srv.auth)
       /\ srv'.cwd = dir /\ srv'.up = srv.up
  BY <1>4, <1>8 DEF SrvState
<1> DEFINE c == e.cmd
<1>11. \A cmd, codes : Asking(cmd, codes) /\ code \in codes => c = cmd /\ Asking(cmd, codes)'
  BY <1>1, <1>7, <1>9 DEF Asking
<1>12. Steady' /\ StartDirInv'
  <2>1. ftp.cproc # "list"
    <3>1. ftp.cproc = "list" => TransferPhase
      BY DEF SessionInv, Phase, LoginPhase, CwdPhase, PwdPhase, PasvPhase
    <3>2. TransferPhase => e.cmd \in {"list", "retr"}
      BY <1>1 DEF TransferPhase, TransferCmd
    <3>3. QED
      BY <1>3, <3>1, <3>2
  <2>2. QED
    BY <1>9, <1>10, <2>1 DEF SessionInv, Steady, StartDirInv, SameClient, Kept
<1>13. ASSUME LoginPhase PROVE LoginPhase'
  <2>1. CASE Greeting
    <3>1. c = "greet" /\ code = 220
      <4>1. c = "greet"
        BY <1>1, <2>1 DEF Greeting, Asking
      <4>2. Replies("greet") = {220}
        BY DEF Replies, LoginCmds
      <4>3. QED
        BY <4>1, <4>2
    <3>2. Asking("greet", {220})'
      BY <1>11, <2>1, <3>1 DEF Greeting
    <3>3. Greeting'
      BY <1>9, <1>10, <2>1, <3>1, <3>2 DEF Greeting, SameClient
    <3>4. QED
      BY <1>9, <1>13, <3>3 DEF LoginPhase, SameClient, Kept
  <2>2. CASE Identifying
    <3>1. srv.auth = 0
      BY <1>1, <2>2 DEF Identifying
    <3>2. \/ Asking("user", {331, 230, 530}) /\ code \in {331, 230, 530}
          \/ Asking("pass", {230, 530}) /\ code \in {230, 530}
      BY <1>2, <2>2 DEF Identifying, Asking, Replies, LoginCmds
    <3>3. (Asking("user", {331, 230, 530}) \/ Asking("pass", {230, 530}))'
      BY <1>11, <3>2
    <3>4. Identifying'
      BY <1>7, <1>9, <1>10, <2>2, <3>1, <3>3 DEF Identifying, SameClient
    <3>5. QED
      BY <1>9, <1>13, <3>4 DEF LoginPhase, SameClient, Kept
  <2>3. CASE Typing
    <3>1. /\ Asking("type", {200}) /\ ftp.busy = 1 /\ srv.auth = 1
          /\ ftp.queue = <<Op("PWD", NoArg), Op("LIST", NoArg)>>
      BY <1>1, <2>3 DEF Typing, Between
    <3>2. code = 200
      BY <1>2, <3>1 DEF Asking, Replies, LoginCmds
    <3>3. Asking("type", {200})'
      BY <1>11, <3>1, <3>2
    <3>4. Typing'
      BY <1>9, <1>10, <3>1, <3>2, <3>3 DEF Typing, SameClient
    <3>5. QED
      BY <1>9, <1>13, <3>4 DEF LoginPhase, SameClient, Kept
  <2>4. ~Refused
    BY <1>1 DEF Refused
  <2>5. QED
    BY <1>13, <2>1, <2>2, <2>3, <2>4 DEF LoginPhase
<1>14. ASSUME CwdPhase PROVE CwdPhase'
  <2>1. /\ Asking("cwd", {250}) \/ Asking("cdup", {250})
        /\ ftp.busy = 1 /\ ftp.queue = << >> /\ srv.auth = 1
    BY <1>1, <1>14 DEF CwdPhase, Between
  <2>2. code = 250
    BY <1>2, <2>1, Outcomes DEF Asking, Replies, LoginCmds
  <2>3. (Asking("cwd", {250}) \/ Asking("cdup", {250}))'
    BY <1>11, <2>1, <2>2
  <2>4. QED
    BY <1>9, <1>10, <1>14, <2>1, <2>2, <2>3 DEF CwdPhase, SameClient, Kept
<1>15. ASSUME PwdPhase PROVE PwdPhase'
  <2>1. Asking("pwd", {257}) /\ ftp.busy = 1 /\ srv.auth = 1
    BY <1>1, <1>15 DEF PwdPhase, Between
  <2>2. code = 257
    BY <1>2, <2>1, Outcomes DEF Asking, Replies, LoginCmds
  <2>3. Asking("pwd", {257})' /\ ftp'.wire[1].arg = srv'.cwd
    BY <1>7, <1>9, <1>10, <1>11, <2>1, <2>2
  <2>4. QED
    BY <1>9, <1>10, <1>15, <2>1, <2>2, <2>3 DEF PwdPhase, SameClient, Kept
<1>16. ASSUME PasvPhase PROVE PasvPhase'
  <2>1. /\ Asking("pasv", {227}) /\ ftp.busy = 1 /\ srv.auth = 1
        /\ ftp.data = NoSock /\ pc = "select"
    BY <1>1, <1>16 DEF PasvPhase
  <2>2. code = 227
    BY <1>2, <2>1, Outcomes DEF Asking, Replies, LoginCmds
  <2>3. Asking("pasv", {227})' /\ srv'.cwd = srv.cwd /\ srv'.auth = 1
    BY <1>5, <1>10, <1>11, <2>1, <2>2
  <2>4. Listed' <=> Listed
    BY <1>9, <2>3 DEF Listed, Content, SameClient, Kept
  <2>5. QED
    BY <1>9, <1>16, <2>1, <2>3, <2>4 DEF PasvPhase, SameClient, Kept
<1>17. ~TransferPhase
  BY <1>1, <1>3 DEF TransferPhase, TransferCmd
<1>18. Book'
  <2>1. CASE PasvPhase
    <3>1. srv'.cwd = srv.cwd
      <4>1. code = 227
        BY <1>1, <1>2, <2>1, Outcomes DEF PasvPhase, Asking, Replies, LoginCmds
      <4>2. QED
        BY <1>5, <1>10, <4>1
    <3>2. QED
      BY <1>4, <1>9, <3>1, BookSame DEF SessionInv, Current, Queued, SameClient, Kept
  <2>2. CASE LoginPhase \/ CwdPhase \/ PwdPhase
    <3>1. NoTransfers(ftp)
      BY <2>2 DEF NoTransfers, LoginPhase, Greeting, Identifying, Refused, Typing,
             CwdPhase, PwdPhase
    <3>2. NoTransfers(ftp')
      BY <1>9, <3>1 DEF NoTransfers, SameClient, Kept
    <3>3. QED
      BY <1>4, <3>1, <3>2, BookQuiet DEF SessionInv
  <2>3. QED
    BY <1>17, <2>1, <2>2 DEF SessionInv, Phase
<1>19. Phase'
  BY <1>13, <1>14, <1>15, <1>16, <1>17 DEF SessionInv, Phase
<1>20. QED
  BY <1>4, <1>12, <1>18, <1>19 DEF SessionInv
\* The server begins a transfer: what it sends is what was asked for.
LEMMA SrvBeginSession ==
    ASSUME Cooperative, IndInv, SessionInv, NEW i \in 1..Len(ftp.wire), SrvBegin(i)
    PROVE  SessionInv' /\ xfer' = xfer
<1> DEFINE e == ftp.wire[1]
           d == [e EXCEPT !.mark = "sent"]
<1>1. /\ i = 1 /\ Len(ftp.wire) = 1 /\ ftp \in FtpState /\ ftp.wire # << >>
      /\ e \in Exchange /\ e.code = 0 /\ e.mark = "none"
      /\ \A c \in Exchange : LET w == [ftp.wire EXCEPT ![1] = c]
                             IN  w \in Seq(Exchange) /\ Len(w) = 1 /\ w[1] = c
  BY OneServed DEF SrvBegin, Serving
<1>2. /\ TransferPhase /\ TransferCmd /\ ftp.data = Open /\ Stream /\ ~Over
      /\ srv.conn = "open"
  BY <1>1, ServedTransfer DEF SrvBegin, Serving
<1>3. d \in Exchange /\ d.cmd = e.cmd /\ d.data = e.data /\ d.code = 0 /\ d.mark = "sent"
  BY <1>1 DEF Exchange
<1>4. /\ ftp' = [ftp EXCEPT !.wire = [ftp.wire EXCEPT ![1] = d]]
      /\ srv' = [srv EXCEPT !.left = Chunks,
                   !.src = <<srv.cwd, IF e.cmd = "list" THEN Ls ELSE xfer[e.data].name>>]
      /\ xfer' = xfer /\ pc' = pc /\ startDir' = startDir /\ dwire' = dwire
  BY <1>1 DEF SrvBegin
<1> HIDE DEF d
<1>5. SameClient /\ Len(ftp'.wire) = 1 /\ ftp'.wire[1] = d /\ ftp'.wire # << >>
  <2>1. SameClient
    BY <1>1, <1>4 DEF SameClient, Kept, FtpState
  <2>2. ftp'.wire = [ftp.wire EXCEPT ![1] = d]
    BY <1>1, <1>4 DEF FtpState
  <2>3. Len(ftp'.wire) = 1 /\ ftp'.wire[1] = d /\ ftp'.wire \in Seq(Exchange)
    BY <1>1, <1>3, <2>2
  <2>4. ftp'.wire # << >>
    BY <2>3, WireOfOne
  <2>5. QED
    BY <2>1, <2>3, <2>4
<1>6. /\ srv'.left = Chunks /\ srv'.src = Wanted
      /\ srv'.up = srv.up /\ srv'.auth = srv.auth /\ srv'.cwd = srv.cwd
      /\ srv'.conn = srv.conn
  <2>1. Wanted = <<srv.cwd, IF e.cmd = "list" THEN Ls ELSE xfer[e.data].name>>
    BY <1>2 DEF Wanted, TransferCmd, TransferPhase
  <2>2. srv \in SrvState
    BY DEF IndInv, TypeOK
  <2>3. QED
    BY <1>4, <2>1, <2>2 DEF SrvState
<1>7. ~Over' /\ Begun' /\ ~Begun
  BY <1>1, <1>2, <1>3, <1>5 DEF Over, Begun
<1>8. Received' = Received /\ Wanted' = Wanted
  BY <1>4, <1>5, <1>6 DEF Received, Wanted, SameClient, Kept
<1>9. Stream'
  <2>1. Chunks - Chunks = 0
    BY BoundAssumption
  <2>2. QED
    BY <1>2, <1>4, <1>5, <1>6, <1>7, <1>8, <2>1 DEF Stream, SameClient, Kept
<1>10. TransferPhase'
  <2>1. TransferCmd'
    BY <1>2, <1>3, <1>5 DEF TransferCmd, SameClient, Kept
  <2>2. Listed' <=> Listed
    BY <1>5, <1>6 DEF Listed, Content, SameClient, Kept
  <2>3. QED
    BY <1>1, <1>2, <1>5, <1>6, <1>9, <2>1, <2>2 DEF TransferPhase, SameClient, Kept
<1>11. Steady' /\ StartDirInv' /\ Book'
  <2>1. \A x \in Xfers : /\ Current(ftp', x) <=> Current(ftp, x)
                         /\ Queued(ftp', x) <=> Queued(ftp, x)
    BY <1>5 DEF Current, Queued, SameClient, Kept
  <2>2. Book'
    BY <1>4, <1>5, <1>6, <2>1, BookSame DEF SessionInv, SameClient
  <2>3. QED
    BY <1>5, <1>6, <2>2 DEF SessionInv, Steady, StartDirInv, SameClient, Kept
<1>12. QED
  BY <1>4, <1>10, <1>11 DEF SessionInv, Phase

\* The server sends a packet.
LEMMA SrvChunkSession ==
    ASSUME Cooperative, IndInv, SessionInv, NEW i \in 1..Len(ftp.wire), SrvChunk(i)
    PROVE  SessionInv' /\ xfer' = xfer
<1>1. /\ i = 1 /\ Len(ftp.wire) = 1 /\ ftp.wire # << >> /\ ftp.wire[1].mark # "none"
  BY OneServed DEF SrvChunk, Serving
<1>2. /\ TransferPhase /\ TransferCmd /\ ftp.data = Open /\ Stream /\ ~Over
      /\ srv.conn = "open"
  BY <1>1, ServedTransfer DEF SrvChunk, Serving
<1>3. /\ srv' = [srv EXCEPT !.left = @ - 1] /\ dwire' = Append(dwire, srv.src)
      /\ srv.left > 0 /\ ftp' = ftp /\ xfer' = xfer /\ pc' = pc /\ startDir' = startDir
  BY DEF SrvChunk
<1>4. /\ srv'.left = srv.left - 1 /\ srv'.src = srv.src /\ srv.left \in Nat
      /\ srv'.up = srv.up /\ srv'.auth = srv.auth /\ srv'.cwd = srv.cwd
      /\ srv'.conn = srv.conn /\ srv.src \in Sources
      /\ dwire \in Seq(Sources \cup {Eof})
  BY <1>3 DEF IndInv, TypeOK, SrvState
<1>5. Begun /\ (Over' <=> Over) /\ (Begun' <=> Begun)
  BY <1>1, <1>3 DEF Over, Begun
<1>6. Received' = Received /\ Wanted' = Wanted
  BY <1>3, <1>4 DEF Received, Wanted
<1> DEFINE n == Len(dwire)
           p == Append(dwire, srv.src)
<1>7. /\ n \in Nat /\ Len(p) = n + 1 /\ p[n + 1] = srv.src
      /\ \A j \in 1..n : p[j] = dwire[j]
  BY <1>4, AppendProperties
<1>8. Len(Received) \in Nat
  BY <1>2, StreamTypes DEF TransferPhase
<1> DEFINE W == Wanted
<1>9. /\ srv.src = W /\ Len(Received) + n = Chunks - srv.left
      /\ \A j \in 1..n : dwire[j] = W
      /\ \A j \in 1..Len(Received) : Received[j] = W
      /\ ftp.dproc = ftp.cproc
  BY <1>2, <1>5 DEF Stream
<1>10. Wanted' = W /\ dwire' = p
  BY <1>3, <1>6
<1> HIDE DEF n, p, W
<1>11. Len(Received) + Len(p) = Chunks - (srv.left - 1)
  BY <1>4, <1>7, <1>8, <1>9, BoundAssumption
<1>12. \A j \in 1..Len(p) : p[j] = W
  <2>1. \A j \in 1..(n + 1) : j \in 1..n \/ j = n + 1
    BY <1>7
  <2>2. QED
    BY <1>7, <1>9, <2>1
<1>13. Stream'
  BY <1>2, <1>3, <1>4, <1>5, <1>6, <1>9, <1>10, <1>11, <1>12 DEF Stream
<1>14. TransferPhase'
  <2>1. TransferCmd' <=> TransferCmd
    BY <1>3 DEF TransferCmd
  <2>2. Listed' <=> Listed
    BY <1>3, <1>4 DEF Listed, Content
  <2>3. QED
    BY <1>2, <1>3, <1>4, <1>13, <2>1, <2>2 DEF TransferPhase
<1>15. Steady' /\ StartDirInv' /\ Book'
  <2>1. Book'
    BY <1>3, <1>4, BookSame DEF SessionInv
  <2>2. QED
    BY <1>3, <1>4, <2>1 DEF SessionInv, Steady, StartDirInv
<1>16. QED
  BY <1>3, <1>14, <1>15 DEF SessionInv, Phase

\* The server closes the data connection and sends the final reply.
LEMMA SrvFinishSession ==
    ASSUME Cooperative, IndInv, SessionInv, NEW i \in 1..Len(ftp.wire), SrvFinish(i)
    PROVE  SessionInv' /\ xfer' = xfer
<1> DEFINE e == ftp.wire[1]
           d == [e EXCEPT !.code = 226]
<1>1. /\ i = 1 /\ Len(ftp.wire) = 1 /\ ftp \in FtpState /\ ftp.wire # << >>
      /\ e \in Exchange /\ e.code = 0 /\ e.mark # "none"
      /\ \A c \in Exchange : LET w == [ftp.wire EXCEPT ![1] = c]
                             IN  w \in Seq(Exchange) /\ Len(w) = 1 /\ w[1] = c
  BY OneServed DEF SrvFinish, Serving
<1>2. /\ TransferPhase /\ TransferCmd /\ ftp.data = Open /\ Stream /\ ~Over
      /\ srv.conn = "open"
  BY <1>1, ServedTransfer DEF SrvFinish, Serving
<1>3. d \in Exchange /\ d.cmd = e.cmd /\ d.data = e.data /\ d.code = 226 /\ d.mark = e.mark
  BY <1>1 DEF Exchange, Codes
<1>4. /\ ftp' = [ftp EXCEPT !.wire = [ftp.wire EXCEPT ![1] = d]]
      /\ srv.left = 0 /\ srv' = [srv EXCEPT !.conn = "none"]
      /\ dwire' = Append(dwire, Eof)
      /\ xfer' = xfer /\ pc' = pc /\ startDir' = startDir
  BY <1>1, <1>2, Outcomes DEF SrvFinish
<1> HIDE DEF d
<1>5. SameClient /\ Len(ftp'.wire) = 1 /\ ftp'.wire[1] = d /\ ftp'.wire # << >>
  <2>1. SameClient
    BY <1>1, <1>4 DEF SameClient, Kept, FtpState
  <2>2. ftp'.wire = [ftp.wire EXCEPT ![1] = d]
    BY <1>1, <1>4 DEF FtpState
  <2>3. Len(ftp'.wire) = 1 /\ ftp'.wire[1] = d /\ ftp'.wire \in Seq(Exchange)
    BY <1>1, <1>3, <2>2
  <2>4. ftp'.wire # << >>
    BY <2>3, WireOfOne
  <2>5. QED
    BY <2>1, <2>3, <2>4
<1>6. /\ srv'.src = srv.src /\ srv'.conn = "none"
      /\ srv'.up = srv.up /\ srv'.auth = srv.auth /\ srv'.cwd = srv.cwd
      /\ dwire \in Seq(Sources \cup {Eof})
  BY <1>4 DEF IndInv, TypeOK, SrvState
<1>7. Over' /\ Begun' /\ Begun
  BY <1>1, <1>3, <1>5 DEF Over, Begun
<1>8. Received' = Received /\ Wanted' = Wanted
  BY <1>4, <1>5, <1>6 DEF Received, Wanted, SameClient, Kept
<1> DEFINE n == Len(dwire)
           p == Append(dwire, Eof)
<1>9. /\ n \in Nat /\ Len(p) = n + 1 /\ p[n + 1] = Eof /\ p # << >>
      /\ \A j \in 1..n : p[j] = dwire[j]
  <2>1. p \in Seq(Sources \cup {Eof}) /\ Len(p) = n + 1
    BY <1>6, AppendProperties
  <2>2. n \in Nat
    BY <1>6
  <2>3. Len(p) > 0
    BY <2>1, <2>2
  <2>4. p # << >>
    BY <2>1, <2>3, EmptySeq
  <2>5. QED
    BY <1>6, <2>1, <2>2, <2>4, AppendProperties
<1>10. Len(Received) \in Nat
  BY <1>2, StreamTypes DEF TransferPhase
<1> DEFINE W == Wanted
<1>11. /\ srv.src = W /\ Len(Received) + n = Chunks - srv.left
       /\ \A j \in 1..n : dwire[j] = W
       /\ \A j \in 1..Len(Received) : Received[j] = W
       /\ ftp.dproc = ftp.cproc
  BY <1>2, <1>7 DEF Stream
<1>12. Wanted' = W /\ dwire' = p
  BY <1>4, <1>8
<1> HIDE DEF n, p, W
<1>13. Len(Received) + Len(p) = Chunks + 1
  BY <1>4, <1>9, <1>10, <1>11, BoundAssumption
<1>14. \A j \in 1..Len(p) : p[j] = IF j = Len(p) THEN Eof ELSE W
  <2>1. \A j \in 1..(n + 1) : (j \in 1..n /\ j # n + 1) \/ j = n + 1
    BY <1>9
  <2>2. QED
    BY <1>9, <1>11, <2>1
<1>15. Stream'
  BY <1>5, <1>6, <1>7, <1>8, <1>9, <1>11, <1>12, <1>13, <1>14 DEF Stream, SameClient, Kept
<1>16. TransferPhase'
  <2>1. TransferCmd'
    BY <1>1, <1>2, <1>3, <1>5 DEF TransferCmd, SameClient, Kept
  <2>2. Listed' <=> Listed
    BY <1>5, <1>6 DEF Listed, Content, SameClient, Kept
  <2>3. QED
    BY <1>1, <1>2, <1>5, <1>6, <1>15, <2>1, <2>2 DEF TransferPhase, SameClient, Kept
<1>17. Steady' /\ StartDirInv' /\ Book'
  <2>1. \A x \in Xfers : /\ Current(ftp', x) <=> Current(ftp, x)
                         /\ Queued(ftp', x) <=> Queued(ftp, x)
    BY <1>5 DEF Current, Queued, SameClient, Kept
  <2>2. Book'
    BY <1>4, <1>5, <1>6, <2>1, BookSame DEF SessionInv, SameClient
  <2>3. QED
    BY <1>5, <1>6, <2>2 DEF SessionInv, Steady, StartDirInv, SameClient, Kept
<1>18. QED
  BY <1>4, <1>16, <1>17 DEF SessionInv, Phase

\* The server's answers keep the invariant, and the transfers as they are.
LEMMA SrvAnswerSession ==
    ASSUME Cooperative, IndInv, SessionInv, SrvAnswer
    PROVE  SessionInv' /\ xfer' = xfer
BY SrvReplySession, SrvBeginSession, SrvChunkSession, SrvFinishSession DEF SrvAnswer

\* A step that changes nothing keeps the invariant.
LEMMA StutterSession ==
    ASSUME SessionInv, UNCHANGED vars
    PROVE  SessionInv'
<1>1. /\ ftp' = ftp /\ xfer' = xfer /\ pc' = pc /\ startDir' = startDir
      /\ srv' = srv /\ dwire' = dwire
  BY DEF vars
<1>2. Steady' /\ StartDirInv'
  BY <1>1 DEF SessionInv, Steady, StartDirInv
<1>3. Book'
  BY <1>1, BookSame DEF SessionInv
<1>4. \A cmd, codes : Asking(cmd, codes)' <=> Asking(cmd, codes)
  BY <1>1 DEF Asking
<1>5. Listed' <=> Listed
  BY <1>1 DEF Listed, Content
<1>6. Stream => Stream'
  <2>1. (Over' <=> Over) /\ (Begun' <=> Begun)
    BY <1>1 DEF Over, Begun
  <2>2. QED
    BY <1>1, <2>1, StreamKept
<1>7. LoginPhase => LoginPhase'
  <2>1. Identifying => Identifying'
    BY <1>1, <1>4 DEF Identifying
  <2>2. (Greeting => Greeting') /\ (Refused => Refused') /\ (Typing => Typing')
    BY <1>1, <1>4 DEF Greeting, Refused, Typing, Between
  <2>3. QED
    BY <1>1, <2>1, <2>2 DEF LoginPhase
<1>8. (CwdPhase => CwdPhase') /\ (PwdPhase => PwdPhase')
  BY <1>1, <1>4 DEF CwdPhase, PwdPhase, Between
<1>9. PasvPhase => PasvPhase'
  BY <1>1, <1>4, <1>5 DEF PasvPhase
<1>10. TransferPhase => TransferPhase'
  <2>1. TransferCmd' <=> TransferCmd
    BY <1>1 DEF TransferCmd
  <2>2. QED
    BY <1>1, <1>5, <1>6, <2>1 DEF TransferPhase
<1>11. QED
  BY <1>2, <1>3, <1>7, <1>8, <1>9, <1>10 DEF SessionInv, Phase

\* What a step may do to the downloads: ask for one, write a piece of the one
\* whose turn it is, or finish it.
Asked == \E x \in Xfers, n \in Names :
    /\ xfer[x].st = "none"
    /\ xfer' = [xfer EXCEPT ![x] = [st |-> "live", dir |-> srv.cwd,
                                    name |-> n, got |-> << >>]]

\* a piece of a file was written
Written == \E x \in Xfers :
    /\ Current(ftp, x) /\ Len(xfer[x].got) < Chunks
    /\ xfer' = [xfer EXCEPT ![x].got = Append(@, <<xfer[x].dir, xfer[x].name>>)]

\* the last piece was written and the transfer freed
Finished == \E x \in Xfers :
    /\ Current(ftp, x) /\ Len(xfer[x].got) = Chunks
    /\ xfer' = [xfer EXCEPT ![x].st = "freed"]

\* Every step of a cooperative session keeps the invariant.
LEMMA SessionStep ==
    ASSUME Cooperative, IndInv, SessionInv, Next
    PROVE  SessionInv' /\ (xfer' = xfer \/ Asked \/ Written \/ Finished)
<1>1. CASE DataRecv
  <2>1. CASE Head(dwire) = Eof
    <3>1. xfer' = xfer \/ Finished
      BY <1>1, <2>1, DataEnd DEF Finished
    <3>2. QED
      BY <1>1, <2>1, <3>1, DataEnd
  <2>2. CASE Head(dwire) # Eof
    <3>1. xfer' = xfer \/ Written
      BY <1>1, <2>2, DataPiece DEF Written
    <3>2. QED
      BY <1>1, <2>2, <3>1, DataPiece
  <2>3. QED
    BY <2>1, <2>2
<1>2. CASE User
  BY <1>2, UserSession DEF Asked
<1>3. CASE CtlLine \/ CtlAgain \/ Resume \/ QueueStartDir
  BY <1>3, CtlLineSession, CtlAgainSession, ResumeSession, QueueStartDirSession
<1>4. CASE SrvAnswer
  BY <1>4, SrvAnswerSession
<1>5. QED
  BY <1>1, <1>2, <1>3, <1>4, NoMishap DEF Next, Client, Server

\* A cooperative session is always in one of the phases of SessionInv.
THEOREM SessionInvariant ==
    ASSUME Cooperative
    PROVE  Spec => [](IndInv /\ SessionInv)
<1>1. Init => SessionInv
  BY SessionInit
<1>2. IndInv /\ SessionInv /\ [Next]_vars => SessionInv'
  BY SessionStep, StutterSession
<1>3. QED
  BY <1>1, <1>2, Inductive, PTL DEF Spec

\* No callback touches a transfer after done freed it (xfer_done, main.c),
\* although the replies and the data come on two connections.
THEOREM SessionNoUseAfterFree ==
    ASSUME Cooperative
    PROVE  Spec => []NoUseAfterFree
<1>1. SessionInv => NoUseAfterFree
  BY DEF SessionInv, Book, Books, NoUseAfterFree
<1>2. QED
  BY <1>1, SessionInvariant, PTL

\* A finished download (act_transfer, main.c) holds the file the user picked.
THEOREM SessionFaithfulCopy ==
    ASSUME Cooperative
    PROVE  Spec => []FaithfulCopy
<1>1. SessionInv => FaithfulCopy
  BY DEF SessionInv, Book, Books, FaithfulCopy
<1>2. QED
  BY <1>1, SessionInvariant, PTL

\* When nothing is under way the panel shows the directory the server is in:
\* newconn and cproc_cwd (ftp.c) queue a pwd and a list for every change.
THEOREM SessionPanelMatches ==
    ASSUME Cooperative
    PROVE  Spec => []PanelMatches
<1>1. IndInv /\ SessionInv => PanelMatches
  <2> SUFFICES ASSUME IndInv, SessionInv, AtMainSelect, Idle, srv.auth = 1
               PROVE  Listed
    BY DEF PanelMatches, Listed
  <2>1. /\ ftp.busy = 0 /\ ftp.queue = << >> /\ ftp.wire = << >>
        /\ ftp.wait = << >> /\ pc = "select"
    BY DEF Idle, AtMainSelect, AtSelect
  <2>2. Len(ftp.wire) = 0
    BY <2>1
  <2>3. << >> # <<Op("LIST", NoArg)>> /\ (\A x : << >> # <<XferOp(x)>>)
    BY Short, QueueKinds
  <2>4. TransferPhase
    BY <2>1, <2>2, <2>3
       DEF SessionInv, Phase, LoginPhase, Greeting, Identifying, Refused, Typing,
           CwdPhase, PwdPhase, PasvPhase, Asking, Between
  <2>5. ftp.data = NoSock
    <3>1. ftp.data \in {NoSock, Open}
      BY DEF IndInv, TypeOK, FtpState
    <3>2. ftp.data # Open
      <4>1. ASSUME ftp.data = Open PROVE FALSE
        <5>1. ftp.busy = Len(ftp.wire) + 1
          BY <2>4, <4>1 DEF TransferPhase
        <5>2. QED
          BY <2>1, <2>2, <5>1
      <4>2. QED
        BY <4>1
    <3>3. QED
      BY <3>1, <3>2
  <2>6. QED
    BY <2>4, <2>5 DEF TransferPhase
<1>2. QED
  BY <1>1, SessionInvariant, PTL

\* How Files shows a transfer.
LEMMA FilesOf ==
    ASSUME NEW x \in Xfers, xfer \in [Xfers -> Transfer]
    PROVE  /\ DOMAIN Files = Xfers
           /\ Files[x].got = xfer[x].got /\ Files[x].dir = xfer[x].dir
           /\ Files[x].name = xfer[x].name
           /\ xfer[x].st = "none" => Files[x].st = "none"
           /\ xfer[x].st = "live" => Files[x].st = "asked"
           /\ xfer[x].st = "freed" => Files[x].st = "done"
BY DEF Files, Transfer

\* A function that differs in one place.
LEMMA OneChanged ==
    ASSUME NEW S, NEW f, NEW g, NEW x \in S, NEW v,
           f = [y \in S |-> f[y]], g = [y \in S |-> g[y]],
           g[x] = v, \A y \in S \ {x} : g[y] = f[y]
    PROVE  g = [f EXCEPT ![x] = v]
OBVIOUS

\* Pressing F5 asks for a file.
LEMMA AskedRefines ==
    ASSUME IndInv, Asked
    PROVE  Fetching!Next
<1>1. PICK x \in Xfers, n \in Names :
        /\ xfer[x].st = "none"
        /\ xfer' = [xfer EXCEPT ![x] = [st |-> "live", dir |-> srv.cwd,
                                        name |-> n, got |-> << >>]]
  BY DEF Asked
<1>2. xfer \in [Xfers -> Transfer] /\ srv.cwd \in Dirs
  BY DEF IndInv, TypeOK, SrvState
<1> DEFINE new == [st |-> "live", dir |-> srv.cwd, name |-> n, got |-> << >>]
           shown == [st |-> "asked", dir |-> srv.cwd, name |-> n, got |-> << >>]
<1>3. Files' = [Files EXCEPT ![x] = shown]
  <2>1. [new EXCEPT !.st = "asked"] = shown
    OBVIOUS
  <2>2. xfer'[x] = new /\ \A y \in Xfers \ {x} : xfer'[y] = xfer[y]
    BY <1>1, <1>2
  <2>3. new.st = "live"
    OBVIOUS
  <2> HIDE DEF new, shown
  <2>4. Files'[x] = shown
    BY <2>1, <2>2, <2>3 DEF Files
  <2>5. ASSUME NEW y \in Xfers \ {x} PROVE Files'[y] = Files[y]
    <3>1. xfer'[y] = xfer[y] /\ y \in Xfers
      BY <2>2
    <3>2. QED
      BY <3>1 DEF Files
  <2>6. Files = [y \in Xfers |-> Files[y]] /\ Files' = [y \in Xfers |-> Files'[y]]
    BY DEF Files
  <2>7. QED
    BY <2>4, <2>5, <2>6, OneChanged
<1>4. Files[x].st = "none"
  BY <1>1, <1>2, FilesOf
<1>5. Fetching!Ask(x)
  BY <1>2, <1>3, <1>4 DEF Fetching!Ask
<1>6. QED
  BY <1>5 DEF Fetching!Next

\* The transfer under way is the one whose turn it is.
LEMMA CurrentTurn ==
    ASSUME IndInv, SessionInv, NEW x \in Xfers, Current(ftp, x)
    PROVE  xfer[x].st = "live" /\ Fetching!Turn(x)
<1>1. xfer[x].st = "live" /\ \A y \in 1..(x - 1) : xfer[y].st = "freed"
  BY DEF SessionInv, Book, Books
<1>2. \A y \in 1..(x - 1) : y \in Xfers
  BY BoundAssumption DEF Xfers
<1>3. xfer \in [Xfers -> Transfer]
  BY DEF IndInv, TypeOK
<1>4. QED
  BY <1>1, <1>2, <1>3, FilesOf DEF Fetching!Turn

\* A packet that dproc_xfer writes is a piece of the file.
LEMMA WrittenRefines ==
    ASSUME IndInv, SessionInv, Written
    PROVE  Fetching!Next
<1>1. PICK x \in Xfers :
        /\ Current(ftp, x) /\ Len(xfer[x].got) < Chunks
        /\ xfer' = [xfer EXCEPT ![x].got = Append(@, <<xfer[x].dir, xfer[x].name>>)]
  BY DEF Written
<1>2. xfer \in [Xfers -> Transfer]
  BY DEF IndInv, TypeOK
<1>3. Fetching!Turn(x) /\ xfer[x].st = "live"
  BY <1>1, CurrentTurn
<1> DEFINE g == Append(xfer[x].got, <<xfer[x].dir, xfer[x].name>>)
<1>4. Files' = [Files EXCEPT ![x].got = Append(@, <<Files[x].dir, Files[x].name>>)]
  <2>1. xfer'[x] = [xfer[x] EXCEPT !.got = g] /\ \A y \in Xfers \ {x} : xfer'[y] = xfer[y]
    BY <1>1, <1>2
  <2>2. /\ Files[x] = [xfer[x] EXCEPT !.st = "asked"]
        /\ Append(Files[x].got, <<Files[x].dir, Files[x].name>>) = g
    BY <1>2, <1>3, FilesOf DEF Files
  <2> HIDE DEF g
  <2>3. xfer'[x].st = "live"
    BY <1>2, <1>3, <2>1 DEF Transfer
  <2>4. Files'[x] = [Files[x] EXCEPT !.got = g]
    <3>1. Files'[x] = [xfer'[x] EXCEPT !.st = "asked"]
      BY <2>3 DEF Files
    <3>2. QED
      BY <1>2, <2>1, <2>2, <3>1 DEF Transfer
  <2>5. \A y \in Xfers \ {x} : Files'[y] = Files[y]
    BY <2>1 DEF Files
  <2>6. Files' = [Files EXCEPT ![x] = [Files[x] EXCEPT !.got = g]]
    BY ZenonT(40), <2>4, <2>5 DEF Files
  <2>7. QED
    BY <2>2, <2>6
<1>5. Len(Files[x].got) < Chunks
  BY <1>1, <1>2, FilesOf
<1>6. Fetching!Write(x)
  BY <1>3, <1>4, <1>5 DEF Fetching!Write
<1>7. QED
  BY <1>6 DEF Fetching!Next

\* The end of the data finishes the file, which is whole.
LEMMA FinishedRefines ==
    ASSUME IndInv, SessionInv, Finished
    PROVE  Fetching!Next
<1>1. PICK x \in Xfers :
        /\ Current(ftp, x) /\ Len(xfer[x].got) = Chunks
        /\ xfer' = [xfer EXCEPT ![x].st = "freed"]
  BY DEF Finished
<1>2. xfer \in [Xfers -> Transfer]
  BY DEF IndInv, TypeOK
<1>3. Fetching!Turn(x) /\ xfer[x].st = "live"
  BY <1>1, CurrentTurn
<1>4. Files' = [Files EXCEPT ![x].st = "done"]
  <2>1. xfer'[x] = [xfer[x] EXCEPT !.st = "freed"] /\ \A y \in Xfers \ {x} : xfer'[y] = xfer[y]
    BY <1>1, <1>2
  <2>2. Files[x] = [xfer[x] EXCEPT !.st = "asked"]
    BY <1>2, <1>3 DEF Files
  <2>3. xfer'[x].st = "freed"
    BY <1>2, <2>1 DEF Transfer
  <2>4. Files'[x] = [Files[x] EXCEPT !.st = "done"]
    <3>1. Files'[x] = [xfer'[x] EXCEPT !.st = "done"]
      BY <2>3 DEF Files
    <3>2. QED
      BY ZenonT(40), <1>2, <2>1, <2>2, <3>1 DEF Transfer
  <2>5. \A y \in Xfers \ {x} : Files'[y] = Files[y]
    BY <2>1 DEF Files
  <2>6. QED
    BY ZenonT(40), <2>4, <2>5 DEF Files
<1>5. Len(Files[x].got) = Chunks
  BY <1>1, <1>2, FilesOf
<1>6. Fetching!Finish(x)
  BY <1>3, <1>4, <1>5 DEF Fetching!Finish
<1>7. QED
  BY <1>6 DEF Fetching!Next

\* A cooperative session implements Downloads (act_transfer, ftp_queue_transfer,
\* dproc_xfer, xfer_done): the files are fetched in turn, each one whole.
THEOREM SessionFetches ==
    ASSUME Cooperative
    PROVE  Spec => Fetches
<1>1. Init => Fetching!Init
  <2> SUFFICES ASSUME Init PROVE Fetching!Init
    OBVIOUS
  <2>1. IndInv
    BY InitInd
  <2>2. \A x \in Xfers : Files[x].st = "none"
    BY <2>1, FilesOf DEF Init, IndInv, TypeOK
  <2>3. QED
    BY <2>2 DEF Fetching!Init
<1>2. IndInv /\ SessionInv /\ [Next]_vars => [Fetching!Next]_Files
  <2>1. xfer' = xfer => Files' = Files
    BY DEF Files
  <2>2. ASSUME IndInv, SessionInv, Next PROVE Fetching!Next \/ Files' = Files
    BY <2>1, <2>2, SessionStep, AskedRefines, WrittenRefines, FinishedRefines
  <2>3. UNCHANGED vars => Files' = Files
    BY <2>1 DEF vars
  <2>4. QED
    BY <2>2, <2>3
<1>3. QED
  BY <1>1, <1>2, SessionInvariant, PTL DEF Spec, Fetches, Fetching!Spec
=============================================================================
