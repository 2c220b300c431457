------------------------------ MODULE MCViewer ------------------------------
(***************************************************************************)
(* Instances of Viewer for TLC: a view of two lines of three columns       *)
(* (num_vislines 3), and files of none to five lines, with empty and       *)
(* unfinished ones, a tab in the middle and one over the edge, and a line  *)
(* that is too long.                                                       *)
(***************************************************************************)
EXTENDS Viewer

OneLine == <<"nl", "x", "x", "nl", "x">>
FiveLines == <<"x", "nl", "x", "nl", "x", "nl", "x", "nl", "x", "nl">>
Tabs == <<"tab", "x", "nl", "x", "tab", "x", "nl", "x", "x", "tab", "x", "nl">>
LongLine == <<"x", "x", "x", "x", "nl", "x", "x", "nl">>
SomeFiles == {OneLine, FiveLines, Tabs, LongLine}

\* with every text of up to three bytes without a tab
MCFiles == SomeFiles \cup UNION {[1..n -> {"x", "nl"}] : n \in 0..3}
=============================================================================
