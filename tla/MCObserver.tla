----------------------------- MODULE MCObserver -----------------------------
(* Small instances of Observer.                                            *)
EXTENDS Observer

CONSTANTS c1
=============================================================================
