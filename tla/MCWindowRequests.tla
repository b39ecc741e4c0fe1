-------------------------- MODULE MCWindowRequests --------------------------
(* Small instances of WindowRequests.                                      *)
EXTENDS WindowRequests, TLC

CONSTANTS left, right
=============================================================================
