----------------------------- MODULE Downloads ------------------------------
(***************************************************************************)
(* What F5 promises the user (copy selected): the files are fetched one    *)
(* after the other in the order they were asked for, a local file grows by *)
(* pieces of the remote file it was asked for, and it is finished when it  *)
(* is whole.  FtpClient implements this in a cooperative session.          *)
(***************************************************************************)
EXTENDS Naturals, Sequences

CONSTANTS
    Xfers,      \* the downloads, in the order they are asked for
    Dirs, Names,
    Chunks      \* how many pieces a file has

VARIABLE file   \* the downloads: st, the remote dir and name, and what it got

Ask(x) ==
    /\ file[x].st = "none"
    /\ \E d \in Dirs, n \in Names :
        file' = [file EXCEPT ![x] = [st |-> "asked", dir |-> d, name |-> n, got |-> << >>]]

Turn(x) == file[x].st = "asked" /\ \A y \in 1..(x - 1) : file[y].st = "done"

Write(x) ==
    /\ Turn(x)
    /\ Len(file[x].got) < Chunks
    /\ file' = [file EXCEPT ![x].got = Append(@, <<file[x].dir, file[x].name>>)]

Finish(x) ==
    /\ Turn(x)
    /\ Len(file[x].got) = Chunks
    /\ file' = [file EXCEPT ![x].st = "done"]

Init == \A x \in Xfers : file[x].st = "none"

Next == \E x \in Xfers : Ask(x) \/ Write(x) \/ Finish(x)

Spec == Init /\ [][Next]_file
=============================================================================
