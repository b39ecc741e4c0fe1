---------------------------- MODULE MCPanelLists ----------------------------
(***************************************************************************)
(* A finite instance of PanelLists.                                        *)
(***************************************************************************)
EXTENDS PanelLists, TLC
=============================================================================
