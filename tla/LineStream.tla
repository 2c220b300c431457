----------------------------- MODULE LineStream -----------------------------
(***************************************************************************)
(* What reading the control connection promises: proc_control is called    *)
(* with the lines the server sent, in the order they were sent, no two of  *)
(* them run together.  On a tidy connection it gets every line, and gets   *)
(* it whole; on any other a line may be missing, or come without its       *)
(* beginning.  CtlRecv, the buffer of handle_control, implements this.     *)
(***************************************************************************)
EXTENDS Naturals, Sequences

VARIABLES
    tidy,       \* the kind of connection, which does not change
    sent,       \* how many lines the server sent
    got         \* the calls of proc_control: a line, and the byte it starts at

vars == <<tidy, sent, got>>

Init == tidy \in BOOLEAN /\ sent = 0 /\ got = << >>

Send == sent' = sent + 1 /\ UNCHANGED <<tidy, got>>

LastLine == IF got = << >> THEN 0 ELSE got[Len(got)].line

\* one more call: a line after the one before
Deliver ==
    /\ Len(got') = Len(got) + 1
    /\ SubSeq(got', 1, Len(got)) = got
    /\ LET c == got'[Len(got) + 1]
       IN  /\ c.line \in (LastLine + 1)..sent
           /\ c.from \in Nat \ {0}
           /\ tidy => c = [line |-> LastLine + 1, from |-> 1]
    /\ UNCHANGED <<tidy, sent>>

Next == Send \/ Deliver

Spec == Init /\ [][Next]_vars
=============================================================================
