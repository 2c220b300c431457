------------------------------ MODULE MCPanels ------------------------------
(***************************************************************************)
(* Instances of Panels for TLC.  A view of two lines and pages of two make *)
(* lists of up to three entries scroll.                                    *)
(***************************************************************************)
EXTENDS Panels

MCTexts == {"a", "b", "c", "d"}
MCSubdirs == {"a"}
MixedListings == {<<"b">>, <<"a", "c", "d">>}
=============================================================================
