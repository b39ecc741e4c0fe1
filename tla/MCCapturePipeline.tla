------------------------- MODULE MCCapturePipeline -------------------------
(***************************************************************************)
(* A finite instance of CapturePipeline.  Three layouts, two of which      *)
(* differ only in their save timestamps, are the fewest that tell equal    *)
(* bytes, equal drawings and different drawings apart.                     *)
(***************************************************************************)
EXTENDS CapturePipeline

CONSTANTS a1, a2, b1

MCLayouts == {a1, a2, b1}
MCDrawing == [l \in MCLayouts |-> IF l = b1 THEN "b" ELSE "a"]
===========================================================================
