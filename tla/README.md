# A TLA+ model of visftp

visftp is a dual-pane FTP client: one thread, a `select` loop, an FTP engine
driven by callbacks, and two list panels with a file viewer over them. This
directory holds TLA+ modules that model its core, TLC configurations that check
them on small instances, and TLAPS proofs of what matters most for instances of
every size. Paths below are relative to `src/` of the repository unless they
start with `src/`.

## 1. Inventory

| Part | Source | State | Operations | Modelled by |
|---|---|---|---|---|
| FTP client | `src/ftp.c` | `struct ftp`: three sockets, `busy`, the queue of operations, `cproc`/`dproc` and their `cls`, `passive`, `status`, `curdir`, `dirent` | `ftp_queue`, `ftp_queue_transfer`, `ftp_handle`, `ftp_waitresp`, the commands, one callback per kind of reply and of data | `FtpClient`; `DataSink` for what the data callbacks do with bytes |
| Control line buffer | `src/ftp.c` | `crecv`, `num_crecv` | `handle_control` | `CtlRecv` |
| Main loop and panels | `src/main.c` | `localdir`, `curdir`, `local_modified`, `cur_xfer`, `focus`, two list widgets | `keypress` and its handlers, `update_localdir`, `updateui`, `xfer_done`, `view_done` | `Panels`, and in part `FtpClient` |
| List widget | `src/tui_list.c` | entries, cursor, first visible line, count of selected entries | moving, selecting, clearing, filling, drawing | `TuiList` |
| Viewer | `src/viewer.c` | the buffer, its lines, scroll position, marks | `view_memopen`, `view_close`, `view_update`, `view_input` | `Viewer` |
| Widgets | `src/tui.c` | dirty marks, focus | `tui_draw`, `tui_focus`, `tui_invalidate` | inside `Panels` |
| Dynamic array | `src/darray.c` | size, capacity, memory | push, pop, resize, clear, strings | `DArray` |
| Tree store | `src/treestor.c`, `src/ts_text.c` | tree of nodes with attributes | build, copy, parse, print | `TreeStor`, `TsText` |
| Server list, arguments | `src/main.c` | `srvlist`, `opt_*` | once, before the loop | `Startup` |
| Text graphics, keyboard, logging | `src/unix`, `src/dos`, `src/util.c` | terminal, log file | output, key tables | not modelled: I/O |

How they interact. `main` parses the arguments, reads the list of servers,
connects, and runs one loop: `select`; `proc_input`, which handles every key
that is waiting; `ftp_handle` for each ready socket; then `view_update` while the
viewer is open and `updateui` otherwise. Keys call `ftp_queue`, which runs an
operation at once when nothing is outstanding (`busy` is 0) and the queue is
empty. `ftp_handle` reads replies or data, calls the current callback, and runs
the next queued operation when `busy` came down to 0. Callbacks queue further
operations (`cwd` is followed by `pwd` and `list`) and call back into `main.c`
when a transfer ends (`xfer_done`, `view_done`). `ftp_waitresp` is a nested loop:
an operation that needs a data connection sends PASV and calls `ftp_handle` on
its own until a reply comes, so a second operation can run inside the first.
Panels share `ftp->dirent` and `localdir` with the rest and keep copies in their
lists, which `updateui` refreshes. Listings, lists, lines of the viewer, files in
memory and tokens of the server file are dynamic arrays.

What is hard:

- the order of replies on one connection, and of replies and data on two;
- operations that run inside the wait of another;
- `busy`, one counter for replies that are outstanding and for data;
- a transfer that two callbacks and `cur_xfer` point to and one of them frees;
- replies that are late (timeout), lost, refused, or that nobody asked for;
- a connection that closes between two steps;
- streams that `recv` cuts anywhere, in buffers of a fixed or doubled size;
- sizes and counts that come from two sources, in any order;
- indices and counts of a list that outlive its entries;
- directories that change between two keys, or behind the viewer;
- screen contents tracked by marks, with the viewer painting over them;
- a file the user edits by hand, with passwords in it.

What makes each part correct:

- FTP client: `busy` never goes below zero, comes back to zero, callbacks get the
  block they expect, waits do not pile up, each file arrives whole in its own
  local file, the panel shows the directory the server is in, login comes first;
- control buffer, data callbacks: no write past a buffer, no line lost, split or
  run together when the connection is tidy, every listed line an entry, the viewer
  given what was received;
- panels: keys act on what is shown, what is drawn exists, the screen is current;
- viewer: lines are the lines of the file, positions are inside it, each row shows
  its line in the right columns, a buffer is freed once, when its viewer closes;
- dynamic array: it is a sequence, and its memory follows its size;
- start: what is saved is read back, and no password goes to another's host.

PROJECT.json lists the hazards line by line with the properties for each.

## 2. Modules

```
LineStream  <- CtlRecv    <- CtlRecvProofs        (refined by, proved in)
DynSeq      <- DArray     <- DArrayProofs
Downloads   <- FtpClient  <- FtpClientProofs <- FtpSessionProofs
TuiList     <- Panels     <- PanelsProofs, MCPanels
               Viewer     <- ViewerProofs, MCViewer
               DataSink   <- DataSinkProofs, MCDataSink
RecFuns     <- CtlRecvProofs, ViewerProofs, DataSinkProofs, PanelsProofs
TreeStor <- TsText <- Startup <- MCStartup
```

### FtpClient, Downloads

`ftp` is a record: `struct ftp` plus what the stack and the kernel hold for it,
namely the exchanges on the control connection (`wire`), the operations blocked in
`ftp_waitresp` (`wait`) and whether the process died (`fault`: the assertion
failed, an undefined `FD_SET`, a crash on freed memory). Every C function that
changes `struct ftp` is an operator with its name (`SendCmd`, `FtpPassive`,
`ExecOp`, `ExecQueued`, `CprocPasv`, `DprocList`, ...) from a record to a record,
composed as in the source. `StartTransfer` is `ftp_list` and `ftp_transfer` up to
the wait; `FinishPrepare` is what they do after it, so the nested loop is
visible as `pc` and `wait` and other operations can run in between.

| Action | Code |
|---|---|
| `CtlLine`, `CtlNoReply`, `CtlAgain`, `CtlEof` | `handle_control`: a complete line, bytes without one, nothing more to read, end of connection; the last two run the end of `ftp_handle` |
| `DataRecv` | one turn of the loop of `handle_data` |
| `LisAccept` | `ftp_handle` on the listening socket |
| `WaitTimeout`, `WaitClosed`, `Resume` | `ftp_waitresp` and the return from it |
| `QueueStartDir` | the end of the loop body of `main` |
| `KeyCdup`, `KeyChdir`, `KeyXfer` | Backspace, Enter and F5 in the remote panel |
| `SrvReply`, `SrvBegin`, `SrvChunk`, `SrvFinish`, `SrvIdle`, `SrvDrop`, `SrvDataClose` | the server (external) |

The server is modelled from the commands the client sends and the replies it
handles; `doc/ftp.txt` (RFC 959) is the protocol. It answers in order, a transfer
with a 150, packets, and a final reply. `Env` says what else than a
cooperative session may happen (refusals, timeouts, lost replies, failing system
calls, and so on). `Pace` is "calm" for a user who waits for the panel, "eager"
for one who presses keys at any time.

A packet is the file it belongs to, so a file that got foreign bytes can be told
from one that is whole. Freed blocks are tracked (`live`, `freed`, `reused`);
what a callback finds in a freed block may be intact, or garbage, which is
fatal.

`Downloads` is what F5 promises: files are fetched one after the other in the
order they were asked for, each grows by pieces of the file it was asked for, and
is finished when it is whole. `FtpClient` implements it in cooperative sessions:
the mapping (`Fetching`) reads a download off the local file and forgets
sockets, queue, callbacks and replies. The property is `Fetches`.

### CtlRecv, LineStream

The buffer of `handle_control`, byte by byte: a byte is the line it is of, its
position in it, and whether it ends it. `Recv` appends what has arrived and
fits, `ProcLine` hands on the next line, `EndRecv` keeps or drops the rest,
`Again` and `Eof` are the other results of `recv`. `LineStream` is the promise:
lines in order, no two run together, and on a `tidy` connection (lines fit, and
`recv` finds what was sent as a whole) every one of them from its first byte. On
any other connection a fragment that does not follow a line in the same `recv`
is thrown away, as the code does; then a line may be missing or lack its
beginning. FtpClient has these two outcomes as `CtlLine` and `CtlNoReply`.

### DataSink

`dproc_list`, `parse_dirent` and `ftp_direntcmp`, and `dproc_xfer`, `cproc_xfer`
and `view_done`, for one data connection that is cut into packets in every way and
may break anywhere. A listing is a sequence of character classes and words;
`SkipField`, `NameEnd` and `ParseDirent` follow the pointer arithmetic of the
source, on a buffer with something unknown behind it (`Tails`), since `strchr`
looks past what was received. `Found` is what the loop of `dproc_list` makes of the
bytes; `Sortings` are the orders `qsort` may leave, which is not stable, so that
entries that compare equal come in any order.

### DArray, DynSeq

The descriptor and the memory of a dynamic array under every sequence of calls.
`Junk` is what memory holds that nobody has written to. `DynSeq` is the sequence
that users see; `DArray` implements it with `seq <- Contents`.

### TreeStor, TsText, Startup

`TreeStor` has values and nodes with the fields of their structs; linked lists
are sequences. `TsText` reads and writes them, as sequences of lexemes: the
descent of `read_node`, `read_array`, `read_value` and `next_token`, and
`ts_text_save`. `Startup` is `main` up to the connection: a file that `ts_save`
wrote and the user may have edited (`Edit` adds, removes or replaces a lexeme),
any arguments, and which host, user and password they come to. These modules
have recursive operators and no theorems.

### TuiList, Panels

`TuiList` has one operator per function of the list widget, on a record with the
fields of `struct tui_list`. `Panels` holds both directories, both lists, the
focus, whether the viewer is open, and where the loop is (`pc`): keys, network,
drawing. One action per key (`KeyMove`, `KeyIns`, `KeyTab`, `KeyEnter`, `KeyF5`,
...), per thing the network may do to a panel (`NetList`, `NetPwd`,
`NetXferDone`, `NetViewDone`), and `UpdateUi`/`ViewUpdate`. What `ftp.c` does
between a key and the new listing is `FtpClient`'s; here listings just arrive.
`hit` records whether the last key acted on the entries its panel showed for it;
`shown` records whether the screen shows a list as it is. Reads outside an
array (keys on an emptied panel) are undefined: the model lets them name any
entry, or crash.

### Viewer

`view_memopen` from both callers, `view_input` key by key, `view_update`, and
`view_close`. Bytes are tabs, line ends or anything else. `screen.text` is the
inside of the frame, row by row and column by column, and a character on it is
named by its buffer and its place there, so a character of another file, line or
position can be told from the right one. `PaintLine` is the loop of `view_update` over
one line: `PutByte` puts a character, or clears up to the next tab stop, over what
the row held before, and the loop ends at column `num_viscol` of the text, with
`hscroll` or without. What it does not come to stays as it was. Rows are read from
`vscroll` on without a look at where the lines end: a row read from behind them
may hold anything (`Junk`), a tab in it or in a line may cut into the frame
(`torn`), and its address may be none (`UpdateCrashes`). `heap` is the set of buffers
handed over and not freed, and `dropped`, a history variable, those that were
replaced while they were shown.

### MC modules

`MCPanels`, `MCViewer`, `MCDataSink` and `MCStartup` define directories, files,
listings, trees and arguments; the other configurations need none.

## 3. Runs

| Run | Question | Result |
|---|---|---|
| FtpCalm | cooperative server, calm user, a start directory, two downloads: do operations end, is the panel right, do files arrive whole, once, in order? | holds, as refinement of `Downloads` and as liveness |
| FtpAdverse | keys at any time after the greeting, refusals, lost replies, timeouts, failing calls, a server that goes away: the assertion on `busy`, `cur_xfer`, login first? | holds |
| FtpHostile | sessions whose count of replies is wrong: do callbacks get their block, do waits stay shallow, is `handle_control` entered once only? | holds |
| CtlLines | lines that fit the control buffer and lines that do not, cut everywhere | implements `LineStream`; every line of a tidy connection arrives |
| DataSinks | listings, files and fetches for the viewer, cut everywhere, broken anywhere, with the 150 at any time | entries, viewer and buffer are right |
| DArrayCalls | every sequence of calls | implements a sequence; memory is given back |
| StartupFile | lists of servers saved, edited, read; arguments | host, user and password go together |
| PanelsSession | all keys, refills, focus, viewer: is what is drawn there, is the screen current, does the first key of an iteration act on what is shown? | holds |
| ViewerSession | two files, the second perhaps while the first is shown, every key, every text of up to three bytes and some with tabs and long lines: lines, positions, the screen column by column, buffers? | holds |
| FtpThreeFiles | F5 with three selected files | contents mixed up |
| FtpBlockingData | the receive loop | blocks |
| FtpActiveMode | PASV refused, PORT accepted | the panel stays empty |

The runs that end in a violation each check one property that a comment, an
assertion or a document of the repository states; PROJECT.json quotes it under
"findings".

**Where the properties end.** What the code does beyond them is in the models
and was seen there:

- `NoUseAfterFree`, `FaithfulCopy` and `Fetches` are about sessions in which no
  transfer is refused, the 150 is read before the data ends, and at most one
  operation is queued behind another. With a refused RETR, or a late 150, the code does use a
  transfer that was freed (`Env` "reject", "crossed").
- `AssertBusy` and `LoginFirst` are about keys after the greeting. A key before it
  sends its command at once, the greeting is counted down as the reply, and
  `busy` ends at -1, where `ftp.c:433` asserts 0 (`Env` "earlykeys"). The same count
  goes wrong with a reply nobody asked for ("idle421"), and with a data connection
  that the server closes before a transfer ("dataclose").
- `FirstKeyActs` is about the first key of an iteration, on a panel with entries
  and a right `num_sel`. `proc_input` handles all keys that wait before `updateui`
  runs, so a second key takes the entry of a new directory by its line in the old
  list; and `tui_clear_list` keeps `num_sel`, although `tui.h:64` describes it as
  the number of selected items.
- `TopLineExists` is about the first file, since `view_memopen` does not reset the
  position. `OwnerFrees` does not say that no buffer is lost: a `view_memopen` while a
  file is shown does not free the one it replaces. It says that these and no
  others are lost.
- `ViewShown` is about the rows that have a line; after Down or Page Down near the
  end, or in a second file, `view_update` also draws what it reads behind the lines.
  In a row that is scrolled to the right it claims the characters of the line, each in its
  place, and what is behind the end of a line that ends before `num_viscol`. The
  loop does not count `hscroll`, so the last `hscroll` columns of a longer line, and
  the places of tabs, keep what was drawn there before. Nor does it claim that the
  frame is whole: a tab next to it is cleared across it.
- `EveryLine`, and the last conjunct of `LineStream`'s `Deliver`, are about tidy
  connections.
- `ListsAll` is about servers that end lines with cr nl. With nl alone,
  `parse_dirent` finds the end of a line by a cr that is not there. It is also
  about names that can be told from the rest of their line (`Legible`): the code
  drops leading spaces, and takes the first arrow in a line for that of a link,
  whatever the line is about.
- `ViewWhole` leaves out a listing that understates the size, and a 150 that is
  read after data: `count` is cut to `total` at each packet.
- `RoundTrip` leaves out vectors (read with a `vec_size` of 0, they are saved as
  "[]", which is not readable), arrays of one value, and numbers that `%g` does
  not print as they were.

**Bounds.** `MaxXfer` (1 to 3 downloads), `MaxQueue` (operations the user queues
ahead), `Chunks` (packets per listing or file), `RecvMax` (4 in the code, 1 or 2
here, so that both ends of the receive loop happen with one or two packets), up
to two directories and three names. Two queued transfers are what nesting needs,
three what mixes up files. `Panels` shows two lines with pages of two over lists
of none, one and three entries, so that lists shrink below the cursor and
scroll; `MaxSel` bounds the selections. `Viewer` draws two lines of three columns
(`NumCol`) with tab stops every two (`Tab`) over files of up to five lines, some longer than
the view; `MaxOpens` is two files, so that one leaves its position and its
characters to the other, and `MaxH` two columns to the right, so that a line begins
before the view, in it, or ends before it. `CtlRecv` has a buffer of 4 bytes (256 in
the code) and three lines (`MaxLines`) of 2, 3 or 5 bytes: lines that are cut by
the end of the buffer, several in one `recv`, one that does not fit. `DArray`
grows to 5 elements (`MaxElem`), where its room doubles three times and is halved
at each size. `DataSink` takes packets of up to 3 bytes (`PacketMax`) into a buffer
of 4 (`BufInit`), listings of up to three lines with the nine fields of the
code, files of up to 5 bytes. `Startup` has lists of two servers, `MaxVal` 3 (31
in the code) and one edit (`MaxEdits`). The proofs do not depend on any of these.

**Fairness.** In FtpCalm the main loop keeps calling `select` and serves what is
ready (`WF(Client)`), and the server answers each command it got
(`WF(SrvAnswer)`). The code justifies the first, as every iteration returns to
`select`; the second is what a cooperative server is. In CtlLines `handle_control`
runs on and is called again when its socket is ready (`WF(Client)`). Keys are
never owed, nor lines of the server: liveness is about what was started or sent.

**CHECK_DEADLOCK FALSE** is said where the system may stop: an idle session with
no more keys inside the bounds, a program that crashed or exited, an array that
was freed, a connection that is closed. The viewer never stops, except in a crash.

**Mutants.** Faulty forms of operators stand beside them (`EndsXferFinal`,
`HandleTailBusy`, `KeptAlways`, `ShrunkNever`, `LoginFilled`, ...): a plausible slip
in the code each. With one in place of the original, the property named in
PROJECT.json fails.

## 4. Proofs

The proof modules are checked by TLAPS from the assumptions on the constants
alone (`DirsAssumption`, `NamesAssumption`, `EnvAssumption`, `BoundAssumption`;
`GeometryAssumption`, `PanelsAssumption`; `CtlAssumption`; `DArrayAssumption`;
`ViewerAssumption`; `SinkAssumption`). Some theorems have a hypothesis more: one
about the Viewer, the three of FtpClient about `busy`, the login and transfers, and
those of FtpSessionProofs. It is named with them below, with what goes wrong without it.

**FtpClient.** `TypeCorrect`, `CallbacksAgree` and `WaitsDoNotNest` follow from one
inductive invariant, `IndInv == TypeOK /\ HandlersAgree /\ WaitInv`. `WaitShallow`
is not inductive: that no second wait nests depends on why `ftp_handle` runs a
queued operation inside the first. `WaitInv` says what holds while an operation
waits on an open control connection: the callback is `cproc_pasv` or
`cproc_active`, and either the PASV is unanswered (`busy` above zero, so the
nested `ftp_handle` runs nothing), or `data` is open, or passive mode was given
up; in the last two cases an operation that runs inside has no reason to wait.
The proof has one lemma per function of `ftp.c` (what it
does to the type, the handlers and the wait), then one step per action. It holds
for every `Env`, hostile ones included. Two more follow from it:
`ControlNotReentered`, since a reply leaves what waits alone, and
`StatusLineLive`, for which `CurXferLive` is inductive: a transfer that the
status line shows is live, so a callback finds it intact, and the one that ends
it clears `cur_xfer`. FtpAdverse checks `CurXferLive` under some flags of `Env`; the
theorem says that it holds under all.

*The login and `busy`.* `LoginComesFirst` assumes that no key comes before the
greeting and that the server sends nothing unasked (`Env` without "earlykeys"
and "idle421"); `BusyNeverNegative` assumes besides that no data connection ends
before a transfer was asked for ("dataclose"). Each of these breaks its theorem in
TLC, none of the other flags does: refusals, timeouts, lost replies and
connections, failing calls, keys at any time and operations inside the wait of
another are all allowed. `LoginInv` says that the client is either entering (a step
of the login is alone on the connection, and `busy` is 1 once the greeting was
read, so that what the user presses is queued), or has entered and no step of
the login is on the wire any more. For the assertion, `busy` need not be exact,
and after a timeout it is not; what is inductive is `Covered`: `busy` is at least
the number of replies on the way, and more than that while the end of a data
connection may still be read. This goes down with each reply only because an
operation is sent at `busy` 0, where by `Covered` itself nothing is on the way
(`RestAtZero`), and because `ftp_waitresp` leaves PASV alone on the wire (`Links`).
The proof has a lemma per function and per action, as for `IndInv`.

*Transfers end once.* `TransfersEndOnce` is `NoUseAfterFree` for a user who does not
wait for the panel and a session that may fail: the login, PASV and PORT may be
refused, sockets and connections may fail, replies may time out, arrive in two
pieces or as several lines, the server may go away, and keys come at any time
after the greeting, for any number of downloads and packets. Two hypotheses are
left. The server ends what it began: after the login it refuses nothing but PASV and
PORT and breaks no transfer ("reject", "abort"), its 150 is read before the data
("crossed"), and it says and closes nothing unasked ("idle421", "dataclose"). And
the user queues behind nothing (`MaxQueue <= 1`). FtpCalm checks the property for a
calm user; with `Pace` "eager", every other flag of `Env`, one directory, one name
and three downloads TLC finds it true in about 90,000 states. It finds a freed
transfer in use with each of these five flags added, and with `MaxQueue` 2: there
a second download runs inside the wait of the first, both ask for their data on
the one connection, and the refusal of the later one frees the transfer that the
data then reaches. "earlykeys" is left out because the proof rests on `BusyInv`; TLC
finds no violation with it.

`OnceInv` is inductive together with `IndInv` and `BusyInv`. Whether a freed transfer
is met depends on which of the two connections speaks of it last, so the
invariant says who may still speak. `Channel`: at most one transfer is asked for on
the wire, and the data connection belongs to it; it is open on the server's side
or its end is on the way, and while an operation waits for it there is nothing on
it. `Owned`: a transfer that a 150, a packet or the end of the data may still reach
is live, and so are those in the queue and in the waits, none of which is the one
under way. `Polite`: after the login no reply to a transfer is 400 or more, so that
`cproc_xfer` ends none (`EndsXfer`) and only the end of the data does. `Stranger`: before
the login the client has no list, hence no operation that moves data, and every
reply is one that `cproc_*` of the login knows. `Lined` and `Behind` are about
nesting: a download is at the head of the queue or the last of the waits, and what
runs inside a wait needs no data connection, so the transfer that waits is still
its own when the wait is over.

**Sessions.** FtpSessionProofs is about all that FtpCalm checks without fairness:
`SessionNoUseAfterFree`, `SessionFaithfulCopy`, `SessionPanelMatches`, and
`SessionFetches`, the refinement of `Downloads`. It holds for any number of directories,
names, downloads, packets and turns of the receive loop, under `Cooperative`: a calm
user who queues one operation behind another at most, and a server that may refuse
the login but nothing after it, loses no connection and reads the 150 out before
the end of the data. PORT and the listening socket may fail, the server may connect
early, keys may come before the greeting (`Pace` "calm" then has nothing to act on).
The invariant `SessionInv` is a map of the protocol as the client goes through it.
For each callback `cproc`, its phase says which one command is on the wire, what
`busy` and the queue are, and what the panel shows: `LoginPhase`, `CwdPhase`, `PwdPhase`,
`PasvPhase`, `TransferPhase`; `Steady` says what never changes. In a transfer, `Stream`
relates the two connections: what was received and what is on its way add up to
what the server sent, all of it of the directory and file that were asked for, with
the end of the data behind it once the 226 is out, in whichever order the two are
read. `Books` relates transfers to operations: a transfer is live exactly while an
operation, a callback or the queue has it, is asked for in the directory the
server is in, and is freed when its file is whole. There is one lemma per action and
phase, `SessionStep` puts them together, and the theorems read off the invariant.
The refinement goes step by step: `KeyXfer` asks for a file, a `DataRecv` with a
packet appends to it, the `DataRecv` that reads the end finishes it, and every other
step leaves `Files` as it is; that only the first unfinished file grows is `Books`.

The hypotheses are where the program ends, not where the proof does. TLC finds
the violation with one flag added to FtpCalm: `NoUseAfterFree` with "reject", "abort",
"idle421", "crossed" or "dataclose"; `FaithfulCopy` with "reject", "abort", "nopasv",
"noconn", "timeout", "multiline", "idle421", "dataclose" or an eager user, and with
two operations queued in FtpThreeFiles; `PanelMatches` with these flags or "drop",
or an eager user. Only "split" (a reply that comes in two pieces, of which
`handle_control` drops the first) breaks none of them: it stalls the session.

**CtlRecv.** `StaysInBuffer`, `NeverFull` and `LinesDelivered` (the refinement of
`LineStream`) hold for every size of the buffer and every length of lines. The
invariant is about one sequence, `Bytes`, of what is in `crecv` and what is still
on its way: from one byte to the next, either the position goes up by one in the
same line, or a line begins after a line end; so a line that is cut out of it at
its first line end is a suffix of one line (`StreamOK`), and a whole one as long
as nothing was thrown away (`TidyOK`). `NeverFull` rests on this: a fragment is kept
only behind a line end in the same buffer, so it is shorter than the buffer.

**DArray.** `StaysInMemory`, `MemoryReclaimed` and `ArrayIsSequence` (the refinement of
`DynSeq`). The arithmetic of halving and doubling is in lemmas of its own; the
refinement goes call by call, with `Contents` of the array after `Doubled` and
`Shrunk` equal to those before.

**Viewer.** `LinesOfEveryFile` is an induction over the bytes of a file: `SplitOK`
says, after `i` bytes of the loop of `view_memopen`, that the lines are the runs
that a line end among those bytes ends, and that `start` is behind the last line
end. `TopLineThere` and `EndsLeaveInside` are arithmetic about the clamps of
`view_input`; the first assumes `NumVis > 1` (a view of no lines has none on top),
and `FirstFile` carries it through the keys. `OpenFileShown` has two parts. That a
line comes out right over any row is `LineShown`, an induction over its bytes: `PaintOK`
says, after `i` of them, that those which are characters are in their places, and that
the loop is at the column where the i-th ends, unless it has stopped. A later
byte does not write over an earlier one because the columns rise (`ColumnsRise`), and
the rectangle behind the end begins behind the last character. That what is not
drawn again is right already is the invariant `Marked`: while a file is open, a part
that is not marked is on the screen as it should be, for the position and the file of
now, and the frame, which clears the text, is never marked without it. `BuffersFreed`
has no hypothesis: fetches may come while a file is shown, and `OwnerFrees` is
inductive.

**DataSink.** `ListingFits`: a packet is no larger than the first size of the
buffer, so doubling once makes room (`Sink`). `ViewerStaysInside` and
`ViewerShowsAll` rest on `Counted`: the file has what was received, `count` is no
more, and is all of it unless `total` was less than the file or the 150 came
after the first bytes. `ListingIsRead` proves `ListsAll`, for every listing of legible
lines that end in cr nl, every cut and every place where the connection breaks. The
invariant, `Listed`, is simple: the buffer is what was received, unless a packet was
lost, and at the end the directory is sorted from what is found in it. The work is
in what is found. A line that begins at `i` has its fields at fixed places (`LineIn`),
so `SKIP_FIELD` goes two bytes on each time (`FieldsSkipped`), the nearest cr is the
line's own (`EndFound`), the name ends where the server ended it (`NameEndFound`), and
`ParseDirent` is the entry the server means (`ParseLine`). The loop calls it where a
line begins and nowhere else within a line (`StartsAre`). An induction over the
positions of the buffer (`FoundAre`) then gives the entries of the lines that are
whole, followed by what the broken one adds, which is one entry at most. Of the
number of fields this uses `SinkAssumption` only: the size comes after the first
field and before the name. `FlattenSeq`, a fold of the community modules, is
replaced by the sequence of its prefixes (`Flattening`).

`RecFuns` (also used for Panels) has induction up to a number, and that a
recursion over `n` steps has a function, as facts about sets and functions. They
take the place of the library's induction theorems, which take an operator.

**Panels.** `ViewStaysInside` says that `draw_list` never reads outside the entries
and shows the cursor. `ViewInside` is not inductive, because `tui_clear_list`
keeps the cursor and the scroll position; `Fits` says what they satisfy even on
an empty list (a scroll position of 0 without a cursor, never below the cursor),
which is what makes `tui_list_setcur(0)` after a refill sufficient. Each function
of the widget keeps `Good`, in lemmas that are then used once per key.
`ScreenStaysCurrent` proves the action property: `Marked` says that a list that
is not on the screen as it is has its mark set, and both have while the viewer
is open. `FirstKeyOnShown` proves `FirstKeyActs`: a list has the entries of its
directory unless that is marked as modified (`Synced`), and when the first key of
an iteration reaches a panel `updateui` has just run, so that no directory is, or
the lists are still empty (`Fresh`). That `tui_list_get_sel` stores the selected
lines and nothing else (`GetSelRight`) is an induction over its loop.

Model-checked only: Startup (`RoundTrip`, `OwnPassword`, `AsWritten`:
its trees and texts are read and written by recursive operators, which are beyond
the prover), and liveness (`Settles`, `Completes`, `EveryLine`), which with fairness
is too. Some leaves name a prover with its time
(`SMTT`, `ZenonT`): they concern the many fields of `struct ftp` at once.

## 5. Not modelled

The quit keys and the end of the program; formatting, colours, titles, button and
status lines (the progress percentage included, which overflows for files above
20 MB where `long` has 32 bits); logging; uploads, remote delete, mkdir and rmdir,
which are stubs (`return -1`, TODO) in the code; parsing of addresses and quoted
names (their success and failure are); allocation failures other than that of the
listing's buffer; reuse of a descriptor number within one iteration; DOS specifics
(`fixname`, whose shortened names may collide, `detect_lfn`, the key and
colour tables); `tui_sort_list`, the widgets and the parts of the tree store
nothing uses.

`libs/` is third-party: of the sources under `src/`, about 5,300 lines are the
program's own, and the rest are the headers of the watt32 TCP stack for DOS,
which the program is compiled against and does not contain.

## 6. Plan

1. Composition of `Panels` with the queue of `FtpClient` (a queued CWD names an
   entry of a listing that is gone), and of `Panels` with `Viewer`.
2. `fixname` and the address of a 227 as pure functions.
