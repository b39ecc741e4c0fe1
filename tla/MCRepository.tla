---------------------------- MODULE MCRepository ----------------------------
(***************************************************************************)
(* Finite instances of Repository and Compression.  A behaviour is of one  *)
(* of the two: in Repository the lease lets one snapshot of the history be *)
(* prepared, with one page that every layout uses and chunks that are      *)
(* replaced one after the other; Compression is what snapshots of two      *)
(* histories share.                                                        *)
(***************************************************************************)
EXTENDS Repository, Compression, TLC

CONSTANTS page, first, second, third

OnePage == {page}
ThreeChunks == {first, second, third}
MCLayouts == {{page, first}, {page, second}, {page, second, third}}
SameHandles == Permutations(Handles)

\* One object is twice as large as the others.
MCSize == (page :> 1) @@ (first :> 1) @@ (second :> 2) @@ (third :> 1)
MCStreams == {<<page, first, second, page>>, <<third, page, first, second>>}
MCStored == {third}
MCPolicies ==
  {[mode |-> "auto", max |-> 2], [mode |-> "quiet", max |-> 4], [mode |-> "fixed", max |-> 3]}

VARIABLE half   \* which of the two goes on

MCInit ==
  /\ half \in {"repository", "compression"} /\ Init /\ CompressionInit
  /\ half = "repository" =>
       /\ policy = Parsed(CHOOSE p \in Policies : TRUE)
       /\ \A s \in Saves : save[s].whole = CHOOSE w \in Streams : TRUE

MCNext ==
  \/ half = "repository" /\ Next /\ UNCHANGED <<half, compressionVars>>
  \/ half = "compression" /\ CompressionNext /\ UNCHANGED <<half, vars>>

MCSpec == MCInit /\ [][MCNext]_<<half, vars, compressionVars>>
=============================================================================
