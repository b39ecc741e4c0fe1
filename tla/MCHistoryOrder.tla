--------------------------- MODULE MCHistoryOrder ---------------------------
(***************************************************************************)
(* A finite instance of HistoryOrder.  Contents are interchangeable: no    *)
(* operator compares them except for equality.                             *)
(***************************************************************************)
EXTENDS HistoryOrder, TLC

Interchangeable == Permutations(Contents)
=============================================================================
