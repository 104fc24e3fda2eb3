------------------------------ MODULE MCPanels ------------------------------
(***************************************************************************)
(* Panels.tla with three or four panels and two screens.  Four panels give *)
(* a deck with two elements between the phantom and the tail, so that a    *)
(* removal or an insertion in the middle has a neighbour on either side    *)
(* that is neither end.                                                    *)
(***************************************************************************)
EXTENDS Panels
=============================================================================
