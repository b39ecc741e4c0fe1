--------------------------- MODULE EditorBackend ---------------------------
(***************************************************************************)
(* The editor as the service sees it, and the jobs that navigate it.       *)
(*                                                                         *)
(* The editor has no stable handle of a document: the adapter names what   *)
(* list_tabs shows, a tab's position and its file, and saves "the current  *)
(* tab".  Between two of its calls the user switches, opens and closes     *)
(* tabs, a deadline passes or an answer is lost.  One backend is used at a *)
(* time: the recorder's, or that of a job which holds the recorder still   *)
(* to show a saved version or to restore the working file to one.  (The    *)
(* first kind of job connects earlier, but does nothing with it.)  Such a  *)
(* job is asked for, and begins later, when the window is in the registry  *)
(* of the editors; from then on nobody looks there again.                  *)
(*                                                                         *)
(* Not here: subscriptions and events (Observer has what it does with      *)
(* them), malformed answers, layouts with several cellviews in a tab,      *)
(* which are tabs here, other writers of the working file, and how the     *)
(* recorder comes to a stop (WindowRequests).                              *)
(***************************************************************************)
EXTENDS Naturals, Sequences, FiniteSets

CONSTANTS
    Source,       \* the working file
    Copy,         \* the file a job writes to show a saved version
    Untitled,     \* drawings that have no file
    MaxTabs,      \* bound: tabs the user opens
    MaxActs,      \* bound: what the user does, and versions shown too late
    MaxFaults,    \* bound: calls that fail, deadlines that pass once dispatched
    MaxConnects   \* bound: connections

ASSUME EditorAssumption ==
    /\ Source # Copy /\ {Source, Copy} \cap Untitled = {}
    /\ {MaxTabs, MaxActs, MaxFaults, MaxConnects} \subseteq Nat

Drawings == {Source, Copy} \cup Untitled
Tab == [drawing: Drawings, cell: {0, 1}]
NoFile == "none"
Outcomes == {"receipt", "not_started", "failed", "unknown"}
Kinds == {"none", "list", "export", "screenshot", "new", "replace"}

VARIABLES
    tabs, current,     \* the editor: a sequence of tabs; 0 when it has none
    online,            \* its record in the registry is fresh
    behind,            \* versions it will show though nobody waits for them
    owner,             \* whose backend is connected: "none", "recorder", "job"
    documents,         \* KLayoutBackend._documents: from references to identities
    refs,              \* references given out so far, 1..refs
    op,                \* the operation of the backend, or the last one
    job,               \* [kind, pc]
    disk,              \* [source, staging, backup]
    recorded,          \* the history has the version of the restore
    stuck,             \* the working file could not be put back
    acts, faults, connects   \* how much of each bound is used

editorVars == <<tabs, current, online, behind>>
backendVars == <<documents, refs>>
jobVars == <<job, disk, recorded, stuck>>
budgets == <<acts, faults, connects>>
vars == <<editorVars, owner, backendVars, op, jobVars, budgets>>

Nothing == [r \in {} |-> <<0, NoFile>>]
NoOp == [kind |-> "none", pc |-> "done", outcome |-> "receipt", ref |-> 0,
         identity |-> <<0, NoFile>>, cell |-> 0, wrote |-> <<>>,
         before |-> FALSE, after |-> FALSE, left |-> FALSE]
NoJob == [kind |-> "none", pc |-> "none"]

Init ==
    /\ tabs = <<[drawing |-> Source, cell |-> 0]>> /\ current = 1 /\ behind = {}
    /\ online = TRUE
    /\ owner = "none" /\ documents = Nothing /\ refs = 0
    /\ op = NoOp /\ job = NoJob
    /\ disk = [source |-> "old", staging |-> FALSE, backup |-> "none"]
    /\ recorded = FALSE /\ stuck = FALSE
    /\ acts = 0 /\ faults = 0 /\ connects = 0

Identities == Nat \X ({NoFile} \cup Drawings)
Op == [kind: Kinds, pc: {"done", "inspect", "ready", "sent", "served"}, outcome: Outcomes,
       ref: Nat, identity: Identities, cell: {0, 1}, wrote: {<<>>} \cup (Identities \X {0, 1}),
       before: BOOLEAN, after: BOOLEAN, left: BOOLEAN]
Job == [kind: {"none", "new", "replace"},
        pc: {"none", "asked", "hold", "held", "copied", "replaced", "written",
             "open", "shown", "done"}]
Contents == {"none", "old", "version"}

TypeOK ==
    /\ tabs \in Seq(Tab) /\ current \in 0..Len(tabs) /\ online \in BOOLEAN
    /\ behind \subseteq {"new", "replace"} /\ owner \in {"none", "recorder", "job"}
    /\ refs \in Nat /\ DOMAIN documents \subseteq 1..refs
    /\ documents \in [DOMAIN documents -> Identities]
    /\ op \in Op /\ job \in Job
    /\ disk \in [source: Contents, staging: BOOLEAN, backup: Contents]
    /\ recorded \in BOOLEAN /\ stuck \in BOOLEAN
    /\ acts \in 0..MaxActs /\ faults \in 0..MaxFaults /\ connects \in 0..MaxConnects

Fault == faults < MaxFaults /\ faults' = faults + 1

---------------------------------------------------------------------------
(* What the adapter reads from one answer to list_tabs.                    *)

FileOf(d) == IF d \in Untitled THEN NoFile ELSE d
Identity(i) == <<i, FileOf(tabs[i].drawing)>>
Anonymous == {i \in DOMAIN tabs : tabs[i].drawing \in Untitled}
Ambiguous == Cardinality(Anonymous) > 1

Known(i) == \E r \in DOMAIN documents : documents[r] = Identity(i)
Unknown == {i \in DOMAIN tabs : ~Known(i)}

\* A tab keeps its reference as long as the identity stays; others get new ones.
RefOf(i) ==
    IF Known(i) THEN CHOOSE r \in DOMAIN documents : documents[r] = Identity(i)
    ELSE refs + Cardinality({j \in Unknown : j <= i})

Scanned ==
    LET at(r) == CHOOSE i \in DOMAIN tabs : RefOf(i) = r
    IN [r \in {RefOf(i) : i \in DOMAIN tabs} |-> Identity(at(r))]

\* Slots renumber, so several untitled drawings cannot be told apart.
Scan ==
    IF Ambiguous THEN documents' = Nothing /\ UNCHANGED refs
    ELSE documents' = Scanned /\ refs' = refs + Cardinality(Unknown)

\* _inspect: the document is known, shown in one tab only, and that is current.
Openings(d) == Cardinality({i \in DOMAIN tabs : tabs[i].drawing = d})
Unclear == current = 0 \/ (tabs[current].drawing \notin Untitled
                             /\ Openings(tabs[current].drawing) > 1)
Shown(r) ==
    /\ ~Ambiguous /\ ~Unclear
    /\ r \in DOMAIN documents /\ Identity(current) = documents[r]
Mismatch(r) ==
    IF ~Ambiguous /\ r \in DOMAIN documents /\ r \in DOMAIN Scanned /\ Unclear
    THEN "failed" ELSE "not_started"

---------------------------------------------------------------------------
(* The user and the editor.                                                *)

\* What happens to the tabs while an operation is under way is remembered.
Touched ==
    op' = [op EXCEPT !.before = @ \/ op.pc \in {"ready", "sent"},
                     !.after = @ \/ op.pc = "served"]
Act == acts < MaxActs /\ acts' = acts + 1 /\ Touched
UserActs == Act /\ UNCHANGED <<online, behind, owner, backendVars, jobVars, faults, connects>>

Switch(i) == UserActs /\ i # current /\ current' = i /\ UNCHANGED tabs

Turn == /\ UserActs /\ current # 0
        /\ tabs' = [tabs EXCEPT ![current].cell = 1 - @]
        /\ UNCHANGED current

\* Positions of the tabs behind a closed one change.
Close(i) ==
    /\ UserActs
    /\ tabs' = SubSeq(tabs, 1, i - 1) \o SubSeq(tabs, i + 1, Len(tabs))
    /\ current' \in (IF Len(tabs) = 1 THEN {0} ELSE 1..(Len(tabs) - 1))

Open(d) ==
    /\ UserActs
    /\ Len(tabs) < MaxTabs
    /\ d \in Untitled => Openings(d) = 0
    /\ tabs' = Append(tabs, [drawing |-> d, cell |-> 0])
    /\ current' = Len(tabs) + 1

\* layout.show_file: a version in a new tab, or the working file again.
Shows(kind) ==
    IF kind = "replace" /\ current # 0
    THEN /\ tabs' = [tabs EXCEPT ![current] = [drawing |-> Source, cell |-> 0]]
         /\ UNCHANGED current
    ELSE /\ tabs' = Append(tabs, [drawing |-> IF kind = "new" THEN Copy ELSE Source,
                                  cell |-> 0])
         /\ current' = Len(tabs) + 1

ShowsLate(kind) ==
    /\ kind \in behind /\ Act /\ Shows(kind)
    /\ behind' = behind \ {kind}
    /\ UNCHANGED <<online, owner, backendVars, jobVars, faults, connects>>

\* The record goes stale or is renewed, whatever the editor does.  A registry
\* that cannot be read leaves the windows as they were.
RegistryChanges ==
    /\ acts < MaxActs /\ acts' = acts + 1
    /\ online' = ~online
    /\ UNCHANGED <<tabs, current, behind, owner, backendVars, op, jobVars, faults, connects>>

EditorStep ==
    \/ RegistryChanges
    \/ \E i \in DOMAIN tabs : Switch(i) \/ Close(i)
    \/ Turn
    \/ \E d \in {Source} \cup Untitled : Open(d)
    \/ \E kind \in behind : ShowsLate(kind)

---------------------------------------------------------------------------
(* One operation of the backend, under the adapter's lock.                 *)

Ends(outcome) == op' = [op EXCEPT !.pc = "done", !.outcome = outcome]
OpOnly == UNCHANGED <<tabs, current, online, owner, jobVars, acts, connects>>

\* Between these steps of a job the recorder stays away.
Holding == {"held", "copied", "replaced", "written", "open", "shown"}

\* connect(): no reference of an earlier connection is known.
Connects(who) ==
    /\ owner = "none" /\ connects < MaxConnects
    /\ owner' = who /\ connects' = connects + 1
    /\ documents' = Nothing

RecorderConnects ==
    /\ Connects("recorder") /\ online /\ job.pc \notin Holding
    /\ UNCHANGED <<editorVars, refs, op, jobVars, acts, faults>>

\* close(), once the operation under way is over.
RecorderCloses ==
    /\ owner = "recorder" /\ op.pc = "done"
    /\ owner' = "none" /\ documents' = Nothing /\ op' = NoOp
    /\ UNCHANGED <<editorVars, refs, jobVars, budgets>>

ListDocuments ==
    /\ owner = "recorder" /\ op.pc = "done"
    /\ Scan
    /\ op' = [NoOp EXCEPT !.kind = "list",
                          !.outcome = IF Ambiguous THEN "not_started" ELSE "receipt"]
    /\ OpOnly /\ UNCHANGED <<behind, faults>>

\* The checks of the guard: the reference is of this session and known, the
\* format is offered, nobody cancelled and the deadline has not passed.
Begin(kind, r) ==
    /\ owner = "recorder" /\ op.pc = "done"
    /\ \E pc \in {"done"} \cup (IF r \in DOMAIN documents THEN {"inspect"} ELSE {}) :
         op' = [NoOp EXCEPT !.kind = kind, !.ref = r, !.pc = pc, !.outcome = "not_started"]
    /\ OpOnly /\ UNCHANGED <<behind, backendVars, faults>>

\* The first look binds the identity and the cell the second must find again.
FirstLook ==
    /\ op.pc = "inspect"
    /\ Scan
    /\ IF Shown(op.ref)
       THEN op' = [op EXCEPT !.pc = "ready", !.identity = documents[op.ref],
                             !.cell = tabs[current].cell]
       ELSE Ends(Mismatch(op.ref))
    /\ OpOnly /\ UNCHANGED <<behind, faults>>

LookFails ==
    /\ op.pc = "inspect" /\ Fault /\ Ends("failed")
    /\ OpOnly /\ UNCHANGED <<behind, backendVars>>

\* The request leaves with what remains of the deadline, if anything does.
Dispatch ==
    /\ op.pc = "ready"
    /\ Ends("not_started") \/ op' = [op EXCEPT !.pc = "sent"]
    /\ OpOnly /\ UNCHANGED <<behind, backendVars, faults>>

\* The editor saves or draws cellview N of the tab that is current now.
Serve ==
    /\ op.pc = "sent" /\ op.kind \in {"export", "screenshot"}
    /\ IF current = 0 THEN Ends("not_started")      \* ERR_NO_VIEW
       ELSE op' = [op EXCEPT !.pc = "served",
                             !.wrote = <<Identity(current), tabs[current].cell>>]
    /\ OpOnly /\ UNCHANGED <<behind, backendVars, faults>>

ServeShow ==
    /\ op.pc = "sent" /\ op.kind \in {"new", "replace"}
    /\ Shows(op.kind)
    /\ op' = [op EXCEPT !.pc = "served"]
    /\ UNCHANGED <<online, behind, owner, backendVars, jobVars, budgets>>

\* The editor answers that it could not.
EditorRefuses ==
    /\ op.pc = "sent" /\ Fault /\ Ends("failed")
    /\ OpOnly /\ UNCHANGED <<behind, backendVars>>

\* What a call reports whose answer did not come in time: "unknown" when it
\* may have changed something, or may still.
Unanswered == IF op.kind = "screenshot" THEN "failed" ELSE "unknown"

GiveUp ==
    /\ op.pc \in {"sent", "served"} /\ Fault
    /\ op' = [op EXCEPT !.pc = "done", !.outcome = Unanswered, !.left = op.pc = "sent"]
    /\ behind' = behind \cup (IF op.pc = "sent" THEN {op.kind} \cap {"new", "replace"} ELSE {})
    /\ OpOnly /\ UNCHANGED backendVars

\* Faulty: a look that succeeds is enough, whatever it finds.
SecondLookAny ==
    /\ op.pc = "served" /\ op.kind \in {"export", "screenshot"}
    /\ Scan /\ Ends("receipt")
    /\ OpOnly /\ UNCHANGED <<behind, faults>>

\* The same document and cell as before, or no receipt.
SecondLook ==
    /\ op.pc = "served" /\ op.kind \in {"export", "screenshot"}
    /\ Scan
    /\ Ends(IF ~Shown(op.ref) THEN Mismatch(op.ref)
            ELSE IF tabs[current].cell = op.cell THEN "receipt" ELSE "failed")
    /\ OpOnly /\ UNCHANGED <<behind, faults>>

\* open_snapshot looks for the file it asked for in the current tab.  A deadline
\* that passed and untitled drawings that met end the call as not started.
Wanted == IF op.kind = "new" THEN Copy ELSE Source
Confirm ==
    /\ op.pc = "served" /\ op.kind \in {"new", "replace"}
    /\ \/ /\ Scan
          /\ Ends(IF Ambiguous THEN "not_started"
                  ELSE IF current # 0 /\ tabs[current].drawing = Wanted
                       THEN "receipt" ELSE "unknown")
          /\ UNCHANGED faults
       \/ Fault /\ Ends("not_started") /\ UNCHANGED backendVars
    /\ OpOnly /\ UNCHANGED behind

BackendStep ==
    \/ RecorderConnects \/ RecorderCloses \/ ListDocuments
    \/ \E kind \in {"export", "screenshot"}, r \in 1..refs : Begin(kind, r)
    \/ FirstLook \/ LookFails \/ Dispatch \/ Serve \/ ServeShow \/ EditorRefuses
    \/ GiveUp \/ SecondLook \/ Confirm

---------------------------------------------------------------------------
(* A job that navigates the editor.  job.pc: a version is to be "open"ed   *)
(* after the recorder is "held"; a restore replaces the file before that.  *)

JobOnly == UNCHANGED <<editorVars, backendVars, acts, connects>>
NoOpStep == UNCHANGED <<owner, op>>
Files == UNCHANGED <<disk, recorded, stuck>>
Goes(pc) == job' = [job EXCEPT !.pc = pc]
\* finally: what was left of the files of the restore is removed.
Finally(source) ==
    /\ Goes("done")
    /\ disk' = [source |-> source, staging |-> FALSE, backup |-> "none"]

\* resolve(): the window is in the registry, and online there.
Resolves == online

\* One recorder of the project is busy with the document in this window.
Recording == owner = "recorder"

RequestOpen ==
    /\ job = NoJob /\ Resolves
    /\ job' = [kind |-> "new", pc |-> "asked"]
    /\ JobOnly /\ NoOpStep /\ Files /\ UNCHANGED faults

RequestRestore ==
    /\ job = NoJob /\ Resolves /\ Recording
    /\ job' = [kind |-> "replace", pc |-> "asked"]
    /\ JobOnly /\ NoOpStep /\ Files /\ UNCHANGED faults

\* It looks again when its turn comes.  What can fail before the recorder is
\* held changes nothing.
JobStarts ==
    /\ job.pc = "asked"
    /\ \/ /\ Resolves /\ (job.kind = "replace" => Recording)
          /\ Goes("hold") /\ UNCHANGED faults
       \/ /\ IF Resolves /\ (job.kind = "replace" => Recording) THEN Fault ELSE UNCHANGED faults
          /\ Goes("done")
    /\ JobOnly /\ NoOpStep /\ Files

\* navigation_hold is answered when the recorder has ended.
JobHolds ==
    /\ job.pc = "hold" /\ owner = "none"
    /\ Goes(IF job.kind = "new" THEN "open" ELSE "held")
    /\ JobOnly /\ NoOpStep /\ Files /\ UNCHANGED faults

\* store.export to a staging file, then a copy of the working file.
Stage ==
    /\ job.pc = "held"
    /\ \/ /\ ~disk.staging /\ disk' = [disk EXCEPT !.staging = TRUE]
          /\ UNCHANGED <<job, faults>>
       \/ /\ disk.staging /\ disk' = [disk EXCEPT !.backup = disk.source]
          /\ Goes("copied") /\ UNCHANGED faults
       \/ Fault /\ Finally(disk.source)
    /\ JobOnly /\ NoOpStep /\ UNCHANGED <<recorded, stuck>>

Replace ==
    /\ job.pc = "copied"
    /\ \/ /\ disk' = [disk EXCEPT !.source = "version", !.staging = FALSE]
          /\ Goes("replaced") /\ UNCHANGED faults
       \/ Fault /\ Finally(disk.source)
    /\ JobOnly /\ NoOpStep /\ UNCHANGED <<recorded, stuck>>

Record ==
    /\ job.pc = "replaced"
    /\ recorded' = TRUE /\ Goes("written")
    /\ JobOnly /\ NoOpStep /\ UNCHANGED <<disk, stuck, faults>>

\* Faulty: the copy is removed, not put back.
RecordFailsDrop ==
    /\ job.pc = "replaced" /\ Fault
    /\ recorded' \in BOOLEAN
    /\ Finally(disk.source) /\ UNCHANGED stuck
    /\ JobOnly /\ NoOpStep

\* The lease is taken, the version cannot be written, or it was and the lease
\* is not given back: the copy takes the place of the working file, if it can.
RecordFails ==
    /\ job.pc = "replaced"
    /\ recorded' \in BOOLEAN
    /\ \/ Fault /\ Finally(disk.backup) /\ UNCHANGED stuck
       \/ /\ faults + 2 <= MaxFaults /\ faults' = faults + 2
          /\ Finally(disk.source) /\ stuck' = TRUE
    /\ JobOnly /\ NoOpStep

\* The copy goes and a backend connects, or the job fails for want of either.
JobConnects ==
    /\ job.pc \in {"written", "open"}
    /\ \/ /\ Connects("job") /\ op' = [NoOp EXCEPT !.kind = job.kind, !.pc = "ready"]
          /\ disk' = [disk EXCEPT !.backup = "none"]
          /\ Goes("shown") /\ UNCHANGED faults
       \/ /\ Fault /\ Finally(disk.source)
          /\ UNCHANGED <<owner, documents, op, connects>>
    /\ UNCHANGED <<editorVars, refs, recorded, stuck, acts>>

\* What the client is told of the outcome is in Jobs.
JobEnds ==
    /\ job.pc = "shown" /\ op.pc = "done"
    /\ Finally(disk.source)
    /\ owner' = "none" /\ documents' = Nothing /\ op' = NoOp
    /\ UNCHANGED <<editorVars, refs, recorded, stuck, budgets>>

\* The service dies: files stay as they are, and nobody waits for the editor.
Crash ==
    /\ Fault
    /\ owner' = "none" /\ documents' = Nothing /\ op' = NoOp
    /\ behind' = behind \cup (IF op.pc = "sent" THEN {op.kind} \cap {"new", "replace"} ELSE {})
    /\ job' = IF job.kind = "none" THEN job ELSE [job EXCEPT !.pc = "done"]
    /\ UNCHANGED <<tabs, current, online, refs, disk, recorded, stuck, acts, connects>>

JobStep ==
    \/ RequestOpen \/ RequestRestore \/ JobStarts
    \/ JobHolds \/ Stage \/ Replace \/ Record \/ RecordFails \/ JobConnects \/ JobEnds
    \/ Crash

Next == EditorStep \/ BackendStep \/ JobStep
Spec == Init /\ [][Next]_vars

---------------------------------------------------------------------------
(* Properties.                                                             *)

\* A receipt of an export or a screenshot is of the document and cell that
\* were asked for, unless the user left them before the editor read them and
\* came back ("switch_and_back_undetectable").  An export or a version to be
\* shown that is told not to have started, or to have failed, is not still
\* under way in the editor, so its file can be removed (capture_runtime).
AnswersTrue ==
    op.pc = "done" =>
        /\ op.kind \in {"export", "screenshot"} /\ op.outcome = "receipt"
             => op.wrote = <<op.identity, op.cell>> \/ (op.before /\ op.after)
        /\ op.kind # "screenshot" /\ op.outcome \in {"not_started", "failed"} => ~op.left

\* What the working file held before a restore is in it, or in the copy beside
\* it, until the history has the restored version, wherever the job fails or
\* the service dies, unless the copy could not be put back either.
OldKept == "old" \in {disk.source, disk.backup} \/ recorded \/ stuck
=============================================================================
