-------------------------- MODULE MCEditorBackend --------------------------
(***************************************************************************)
(* Small instances of EditorBackend, with two untitled drawings, which     *)
(* differ in nothing the editor shows, and of Skills.  A behaviour is of   *)
(* one of the two: what an agent does through the service, in the editor   *)
(* and in the library of skills, has nothing else in common.               *)
(***************************************************************************)
EXTENDS EditorBackend, Skills, TLC

CONSTANTS u1, u2

Interchangeable == Permutations(Untitled)

\* The intervals of a moving history, skills twice over, one skill in many
\* revisions, and many skills in few.
MCBounds ==
  {[versions |-> 3, changes |-> 1, notes |-> 1, skills |-> 1, revisions |-> 1, tasks |-> 0,
    lost |-> 1, again |-> TRUE],
   [versions |-> 3, changes |-> 1, notes |-> 0, skills |-> 2, revisions |-> 1, tasks |-> 0,
    lost |-> 1, again |-> TRUE],
   [versions |-> 2, changes |-> 0, notes |-> 0, skills |-> 1, revisions |-> 4, tasks |-> 1,
    lost |-> 1, again |-> FALSE],
   [versions |-> 2, changes |-> 0, notes |-> 0, skills |-> 3, revisions |-> 2, tasks |-> 0,
    lost |-> 0, again |-> FALSE]}

VARIABLE half   \* which of the two goes on

MCInit ==
  /\ half \in {"editor", "skills"} /\ Init /\ LibraryInit
  /\ half = "editor" => bound = CHOOSE b \in Bounds : TRUE

MCNext ==
  \/ half = "editor" /\ Next /\ UNCHANGED <<half, libraryVars>>
  \/ half = "skills" /\ LibraryNext /\ UNCHANGED <<half, vars>>

MCSpec == MCInit /\ [][MCNext]_<<half, vars, libraryVars>>
=============================================================================
