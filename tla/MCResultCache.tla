--------------------------- MODULE MCResultCache ---------------------------
(* A small instance of ResultCache.                                        *)
EXTENDS ResultCache

CONSTANTS a, b
MCAsked ==
    {[kind |-> "preview", from |-> a, of |-> a], [kind |-> "diff", from |-> a, of |-> b],
     [kind |-> "diff", from |-> b, of |-> a], [kind |-> "download", from |-> a, of |-> a],
     [kind |-> "image", from |-> a, of |-> a]}
=============================================================================
