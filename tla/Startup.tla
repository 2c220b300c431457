------------------------------- MODULE Startup -------------------------------
(***************************************************************************)
(* How the program comes to its server (main, parse_args, parse_host,      *)
(* read_servers and find_server in src/main.c): the arguments, the list of *)
(* servers in the user's file, whose name, password and host go together,  *)
(* and ftp_auth and ftp_connect.                                           *)
(*                                                                         *)
(* The file starts out as ts_save writes it, and the user may then edit it *)
(* by hand, a lexeme at a time.                                            *)
(***************************************************************************)
EXTENDS TsText

CONSTANTS
    Trees,      \* the trees the file may be written from
    Slips,      \* lexemes the user's hand may put into the file
    MaxEdits,   \* bound: how often the user edits it
    Argvs       \* the arguments the program may be run with

ASSUME StartupAssumption == MaxVal \in Nat \ {0} /\ MaxEdits \in Nat

VARIABLES
    tree,       \* what the file was written from
    file,       \* the file
    edits,      \* how often it was edited
    opt,        \* opt_host, opt_port, opt_user, opt_pass
    srvlist,    \* the servers read_servers found
    conn,       \* what ftp_auth and ftp_connect were called with
    pc          \* "shell", "args", "servers"; "connected" or "exit"

vars == <<tree, file, edits, opt, srvlist, conn, pc>>

-----------------------------------------------------------------------------
\* one lexeme is added, lost, or another
Edit ==
    /\ pc = "shell"
    /\ edits < MaxEdits
    /\ \E i \in 1..Len(file) :
          \/ file' = RemoveAt(file, i)
          \/ \E l \in Slips : file' = InsertAt(file, i, l)
          \/ \E l \in Slips : file' = ReplaceAt(file, i, l)
    /\ edits' = edits + 1
    /\ UNCHANGED <<tree, opt, srvlist, conn, pc>>

-----------------------------------------------------------------------------
\* parse_host: user, password and host of [[user[:pass]@]hostname].
ParseHost(o, str) ==
    LET at == Find(str, 1, "@")
        login == SubSeq(str, 1, at - 1)
        colon == Find(login, 1, ":")
    IN  IF at > Len(str) THEN [o EXCEPT !.host = str, !.user = Null, !.pass = Null]
        ELSE [o EXCEPT !.host = SubSeq(str, at + 1, Len(str)),
                       !.user = SubSeq(login, 1, colon - 1),
                       !.pass = IF colon > Len(login) THEN Null
                                ELSE SubSeq(login, colon + 1, Len(login))]

Atoi(str) == IF str = <<"2121">> THEN 2121 ELSE IF str = <<"65557">> THEN 65557 ELSE 0

\* one round of the loop of parse_args
ParseArg(p, arg) ==
    IF p.ret # "ok" THEN p
    ELSE IF arg = <<"-h">> THEN [p EXCEPT !.ret = "usage"]
    ELSE IF arg = <<"-x">> \/ p.argidx > 1 THEN [p EXCEPT !.ret = "inval"]
    ELSE IF p.argidx = 0 THEN [p EXCEPT !.argidx = 1, !.opt = ParseHost(@, arg)]
    ELSE [p EXCEPT !.argidx = 2, !.opt.port = Atoi(arg),
                   !.ret = IF Atoi(arg) <= 0 THEN "inval" ELSE "ok"]

ParseArgs(argv) ==
    /\ pc = "shell"
    /\ LET p == FoldLeft(ParseArg, [ret |-> "ok", argidx |-> 0, opt |-> opt], argv)
       IN  /\ opt' = p.opt
           /\ pc' = IF p.ret = "ok" THEN "args" ELSE "exit"
    /\ UNCHANGED <<tree, file, edits, srvlist, conn>>

-----------------------------------------------------------------------------
\* what read_servers takes of a node
Server(node) ==
    [name |-> GetAttrStr(node, <<"name">>), host |-> GetAttrStr(node, <<"host">>),
     user |-> GetAttrStr(node, <<"user">>), pass |-> GetAttrStr(node, <<"pass">>),
     dir |-> GetAttrStr(node, <<"dir">>)]

ServerNode(node) ==
    /\ node.name = <<"server">>
    /\ GetAttrStr(node, <<"name">>) # Null
    /\ GetAttrStr(node, <<"host">>) # Null

ReadServers ==
    /\ pc = "args"
    /\ LET ts == Load(file)
       IN  srvlist' = IF ts.ok /\ ts.res.name = <<"servers">>
                      THEN LET nodes == SelectSeq(ts.res.kids, ServerNode)
                           IN  [i \in DOMAIN nodes |-> Server(nodes[i])]
                      ELSE << >>
    /\ pc' = "servers"
    /\ UNCHANGED <<tree, file, edits, opt, conn>>

\* find_server, as a set.  Faulty form: the last one.
LastServer(name) ==
    {srvlist[i] : i \in {k \in DOMAIN srvlist :
        /\ srvlist[k].name = name
        /\ \A j \in (k + 1)..Len(srvlist) : srvlist[j].name # name}}
FindServer(name) ==
    {srvlist[i] : i \in {k \in DOMAIN srvlist :
        /\ srvlist[k].name = name
        /\ \A j \in 1..(k - 1) : srvlist[j].name # name}}

\* the user and the password for ftp_auth.  Faulty form: the file has the
\* password for a user who was given on the command line.
LoginFilled(srv) ==
    [user |-> IF opt.user = Null THEN srv.user ELSE opt.user,
     pass |-> IF opt.pass = Null THEN srv.pass ELSE opt.pass]
LoginOf(srv) ==
    IF opt.user = Null /\ srv.user # Null
    THEN [user |-> srv.user, pass |-> srv.pass]
    ELSE [user |-> opt.user, pass |-> opt.pass]

\* ftp_auth, if there is a user, and ftp_connect, which may fail; a port is 16
\* bits.  Without a user, or a password, proc_control sends its own.
Connect ==
    /\ pc = "servers"
    /\ LET none == [host |-> opt.host, user |-> Null, pass |-> Null]
       IN  \E srv \in IF FindServer(opt.host) = {} THEN {none} ELSE FindServer(opt.host) :
            LET login == LoginOf(srv)
                auth == login.user # Null
            IN  conn' = [host |-> srv.host, port |-> opt.port % 2^16,
                         user |-> IF auth THEN login.user ELSE <<"anonymous">>,
                         pass |-> IF auth /\ login.pass # Null THEN login.pass
                                  ELSE <<"foobar">>]
    /\ pc' \in {"connected", "exit"}
    /\ UNCHANGED <<tree, file, edits, opt, srvlist>>

-----------------------------------------------------------------------------
NoConn == [host |-> Null, port |-> 0, user |-> Null, pass |-> Null]

Init ==
    /\ tree \in Trees
    /\ file = Save(tree)
    /\ edits = 0
    /\ opt = [host |-> <<"localhost">>, port |-> 21, user |-> Null, pass |-> Null]
    /\ srvlist = << >>
    /\ conn = NoConn
    /\ pc = "shell"

Next ==
    \/ Edit
    \/ \E argv \in Argvs : ParseArgs(argv)
    \/ ReadServers
    \/ Connect

Spec == Init /\ [][Next]_vars

-----------------------------------------------------------------------------
\* What comes back as it was: strings, numbers "%g" prints as they are, arrays
\* read_array has room for; not vectors, which are read with vec_size 0.
RECURSIVE Plain(_)
Plain(v) ==
    CASE v.type = "string" -> v.str # Null /\ \A i \in DOMAIN v.str : v.str[i] # "q"
      [] v.type = "number" -> Printed[v.num] = <<v.num>>
      [] v.type = "vector" -> FALSE
      [] v.type = "array" -> /\ Len(v.array) \in 2..MaxVal
                             /\ \A i \in DOMAIN v.array : Plain(v.array[i])

RECURSIVE PlainTree(_)
PlainTree(t) ==
    /\ \A i \in DOMAIN t.attrs : Plain(t.attrs[i].val)
    /\ \A i \in DOMAIN t.kids : PlainTree(t.kids[i])

\* ts_text_load reads what ts_text_save wrote: comments, braces, line ends and
\* "=" within strings, empty strings, nested arrays up to read_array's limit,
\* and empty nodes included.
RoundTrip ==
    edits = 0 /\ PlainTree(tree) => Load(file).ok /\ Load(file).res = tree

\* No slip of the hand makes the program send a password to the host of another
\* entry, or with the user of another entry, than the one it was written in.
OwnPassword ==
    \A i, j \in DOMAIN tree.kids :
        LET mine == Server(tree.kids[i])
            other == Server(tree.kids[j])
        IN  mine.pass # Null /\ conn.pass = mine.pass =>
                /\ conn.host = other.host => other.pass = mine.pass
                /\ conn.user = other.user => other.pass = mine.pass

\* An untouched file is followed: the first entry of that name that has a host
\* gives the host, and user and password if the command line has no user; a
\* name that is not in the file is a host.
AsWritten ==
    edits = 0 /\ PlainTree(tree) /\ pc = "connected" =>
        LET named == {i \in DOMAIN tree.kids :
                        /\ tree.kids[i].name = <<"server">>
                        /\ Server(tree.kids[i]).name = opt.host
                        /\ Server(tree.kids[i]).host # Null}
            e == Server(tree.kids[CHOOSE i \in named : \A j \in named : i <= j])
        IN  IF named = {} \/ tree.name # <<"servers">>
            THEN conn.host = opt.host /\ opt.user \in {Null, conn.user}
            ELSE /\ conn.host = e.host
                 /\ conn.user = IF opt.user # Null THEN opt.user
                                ELSE IF e.user # Null THEN e.user ELSE <<"anonymous">>
                 /\ opt.user = Null /\ e.user # Null => e.pass \in {Null, conn.pass}
=============================================================================
