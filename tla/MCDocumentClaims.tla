-------------------------- MODULE MCDocumentClaims --------------------------
(* Small instances of DocumentClaims.                                      *)
EXTENDS DocumentClaims

CONSTANTS alpha, beta, left, right, chip

\* Both projects record untitled documents; the file belongs to one of them.
MCEligible == {e \in Projects \X Documents : e[1] = alpha \/ e[2] = Untitled}
=============================================================================
