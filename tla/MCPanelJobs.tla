----------------------------- MODULE MCPanelJobs -----------------------------
(***************************************************************************)
(* A finite instance of PanelJobs.                                         *)
(***************************************************************************)
EXTENDS PanelJobs, TLC
=============================================================================
