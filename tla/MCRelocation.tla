---------------------------- MODULE MCRelocation ----------------------------
(* A small instance of Relocation.                                         *)
EXTENDS Relocation

CONSTANTS d1, d2, a, b, w, late
=============================================================================
