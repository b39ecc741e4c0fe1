--------------------------- MODULE HistoryOrder ---------------------------
(***************************************************************************)
(* The order in which a history shows its versions: the checkpoints table, *)
(* the timeline that is created for the first import, the versions hidden  *)
(* as redundant baselines, the plans by which older files are imported,    *)
(* and a client that pages through the list while writers change it        *)
(* (history_order.py, baseline_duplicates.py, the checkpoint transactions  *)
(* of store.py and storage/engine.py, service/legacy_imports.py,           *)
(* list_checkpoints of service/queries.py).                                *)
(*                                                                         *)
(* A version is named by its ordinal.  The writer lease is implicit: at    *)
(* most one of save and job is active, and either holds it.  A plan is a   *)
(* file of its own, which the import and the requests about the plan read  *)
(* and replace under one lock, and which says what the history and the     *)
(* catalog of jobs say as well; any two of them may differ after a crash.  *)
(* What packs and objects a version needs, the windows that an import      *)
(* holds still (WindowRequests) and stops of the service, which end its    *)
(* jobs as a crash does, are not modelled here.                            *)
(***************************************************************************)
EXTENDS Integers, Sequences, FiniteSets

CONSTANTS
  Contents,        \* layouts, as far as their timestamp-free digest tells
  NoContent,       \* the content of versions nothing compares
  Batches,         \* confirmed import plans
  BatchSize,       \* files in each plan
  PageSize,        \* limit of a page
  BaselineWindow,  \* how many of the oldest versions reconcile() looks at
  MaxRows,         \* bound: versions
  MaxAsked,        \* bound: jobs of a plan
  MaxTroubles,     \* bound: cancellations, refusals, failures, crashes
  StaleUnderOrder  \* whether a format-1 handle outlives the first import

ASSUME OrderAssumption ==
  /\ BatchSize \in Nat \ {0}
  /\ PageSize \in Nat \ {0}
  /\ BaselineWindow \in Nat
  /\ {MaxRows, MaxAsked, MaxTroubles} \subseteq Nat
  /\ StaleUnderOrder \in BOOLEAN
  /\ NoContent \notin Contents
  /\ "none" \notin Batches

VARIABLES
  format,    \* config format_version
  oldHandle, \* a handle that read format 1 when it was opened is still open
  rows,      \* checkpoints by ordinal
  ordered,   \* history_timeline exists
  position,  \* history_timeline: ordinal -> position, 0 for no row
  hidden,    \* history_collapsed: ordinal -> equivalent ordinal, 0 for visible
  revision,  \* config history_revision
  imported,  \* history_import_items: plan -> item -> ordinal, 0 for none
  anchor,    \* before_id of each confirmed plan, 0 for a draft
  plan,      \* the file of each plan and the jobs queued for it
  troubles,  \* how much of the bound is used
  save,      \* a prepared snapshot of the recorder, the command line, ...
  job,       \* the import that is running
  reader     \* a client that loads the whole list page by page

orderVars == <<format, oldHandle, rows, ordered, position, hidden, revision, imported,
               anchor, plan, troubles, save, job, reader>>

Ordinals == 1..MaxRows
Items == 1..BatchSize
Kinds == {"baseline", "save", "import"}
Stored == 1..Len(rows)

\* metadata.legacy_import names the plan and the item of an imported version.
NoItem == [batch |-> "none"]
ImportItem == [batch : Batches, item : Items]
Version == [kind : Kinds, content : Contents \cup {NoContent},
            parent : 0..MaxRows, item : ImportItem \cup {NoItem}]

NoSave == [kind |-> "none"]
Prepared == [kind : {"baseline", "save"}, content : Contents \cup {NoContent},
             parent : 0..MaxRows, item : {NoItem}]

NoJob == [batch |-> "none"]
\* What the file of a plan says beside cancel_requested.  done: how many items
\* are imported; named: active_job_id, 0 for none.
Statuses == {"none", "draft", "ready", "running", "paused", "failed", "completed", "removed"}
File == [status : Statuses, done : 0..BatchSize, named : 0..MaxAsked]
NoFile == [status |-> "none", done |-> 0, named |-> 0]

\* queued: jobs of the plan that have not begun; asked: how many there were.
Plan == [file : File, cancel : BOOLEAN, queued : SUBSET (1..MaxAsked), asked : 0..MaxAsked]
NoPlan == [file |-> NoFile, cancel |-> FALSE, queued |-> {}, asked |-> 0]

\* Where the import is within an item, and the file as it read it before.
Job == [batch : Batches, id : 1..MaxAsked, next : 1..BatchSize + 1,
        pc : {"item", "begun", "prepared", "committed", "ending"},
        copy : File, parent : 0..MaxRows]

\* A list in the making: the revision and the upper bound of its first page,
\* the place of the last version it has shown, and what it has shown.
ReaderState == [at : {"revision", "page", "done"}, revision : Nat,
                upper : 0..MaxRows, before : 0..MaxRows, seen : Seq(Ordinals)]
Idle == [at |-> "idle"]

StoreTypeOK ==
  /\ format \in {1, 2} /\ oldHandle \in BOOLEAN
  /\ rows \in Seq(Version) /\ Len(rows) <= MaxRows
  /\ ordered \in BOOLEAN
  /\ position \in [Ordinals -> 0..MaxRows]
  /\ hidden \in [Ordinals -> 0..MaxRows]
  /\ revision \in Nat
  /\ imported \in [Batches -> [Items -> 0..MaxRows]]
  /\ anchor \in [Batches -> 0..MaxRows]
  /\ plan \in [Batches -> Plan] /\ troubles \in 0..MaxTroubles
  /\ save \in Prepared \cup {NoSave}
  /\ job \in Job \cup {NoJob}

OrderTypeOK == StoreTypeOK /\ reader \in ReaderState \cup {Idle}

OrderInit ==
  /\ format \in {1, 2}
  /\ oldHandle = (format = 1)
  /\ rows = <<>>
  /\ ordered = FALSE
  /\ position = [o \in Ordinals |-> 0]
  /\ hidden = [o \in Ordinals |-> 0]
  /\ revision = 0
  /\ imported = [b \in Batches |-> [i \in Items |-> 0]]
  /\ anchor = [b \in Batches |-> 0]
  /\ plan = [b \in Batches |-> NoPlan] /\ troubles = 0
  /\ save = NoSave
  /\ job = NoJob
  /\ reader = Idle

---------------------------------------------------------------------------
(* The list and its head.                                                  *)

\* Without a timeline the list follows the ordinals.
Place(o) == IF ordered THEN position[o] ELSE o

\* What the queries select: a row in the timeline, if there is one, that is
\* not collapsed.
Listed == {o \in Stored : Place(o) > 0 /\ hidden[o] = 0}

\* The newest of a set of versions, 0 when it is empty.
Newest(S) ==
  IF S = {} THEN 0
  ELSE CHOOSE o \in S : \A p \in S : Place(p) <= Place(o)

HeadVersion == Newest(Listed)

Predecessor(o) == Newest({p \in Listed : Place(p) < Place(o)})

\* ensure() gives every version without a timeline row its ordinal as position.
Ensured == [o \in Ordinals |->
              IF o \in Stored /\ position[o] = 0 THEN o ELSE position[o]]

LastPlace == IF \E o \in Stored : position[o] > 0
             THEN CHOOSE n \in {position[o] : o \in Stored} :
                    \A o \in Stored : position[o] <= n
             ELSE 0

\* publish() without an anchor appends, if there is a timeline to append to.
Appended ==
  IF ordered THEN [position EXCEPT ![Len(rows) + 1] = LastPlace + 1]
  ELSE position

\* Faulty: makes room on the wrong side.
InsertedBehind(a) ==
  [o \in Ordinals |->
     CASE o = Len(rows) + 1 -> position[a]
       [] o \in Stored /\ position[o] <= position[a] -> position[o] + 1
       [] OTHER -> position[o]]

\* publish() with an anchor makes room in front of it.
InsertedBefore(a) ==
  [o \in Ordinals |->
     CASE o = Len(rows) + 1 -> position[a]
       [] o \in Stored /\ position[o] >= position[a] -> position[o] + 1
       [] OTHER -> position[o]]

---------------------------------------------------------------------------
(* Versions saved by the recorder, the command line or the service.        *)

WriterFree == save = NoSave /\ job = NoJob
HasRoom == Len(rows) < MaxRows

\* Only automatic baselines are ever compared with each other.
Saves == ({"baseline"} \X Contents) \cup {<<"save", NoContent>>}

\* prepare(): the visible head becomes the parent.
PrepareSave(s) ==
  /\ WriterFree /\ HasRoom /\ format = 2
  /\ save' = [kind |-> s[1], content |-> s[2], parent |-> HeadVersion,
               item |-> NoItem]
  /\ UNCHANGED <<format, oldHandle, rows, ordered, position, hidden, revision,
                 imported, anchor, plan, troubles, job, reader>>

CommitSave ==
  /\ save # NoSave
  /\ save.parent = HeadVersion
  /\ rows' = Append(rows, save)
  /\ position' = Appended
  /\ save' = NoSave
  /\ UNCHANGED <<format, oldHandle, ordered, hidden, revision, imported,
                 anchor, plan, troubles, job, reader>>

\* discard(), an error or a crash.
AbandonSave ==
  /\ save # NoSave
  /\ save' = NoSave
  /\ UNCHANGED <<format, oldHandle, rows, ordered, position, hidden, revision,
                 imported, anchor, plan, troubles, job, reader>>

\* A handle opened while the history was format 1 goes on writing format-1
\* checkpoints: the newest ordinal is the parent, the timeline is not known.
CheckpointFormat1(s) ==
  /\ WriterFree /\ HasRoom /\ oldHandle
  /\ StaleUnderOrder \/ ~ordered
  /\ rows' = Append(rows, [kind |-> s[1], content |-> s[2], parent |-> Len(rows),
                           item |-> NoItem])
  /\ UNCHANGED <<format, oldHandle, ordered, position, hidden, revision,
                 imported, anchor, plan, troubles, save, job, reader>>

UpgradeStorage ==
  /\ WriterFree /\ format = 1
  /\ format' = 2
  /\ UNCHANGED <<oldHandle, rows, ordered, position, hidden, revision,
                 imported, anchor, plan, troubles, save, job, reader>>

---------------------------------------------------------------------------
(* Plans to import older files in front of a version: what users ask for.  *)

Trouble == troubles < MaxTroubles /\ troubles' = troubles + 1

Status(b) == plan[b].file.status

\* Jobs of the plan that the catalog has as queued or running.
Jobs(b) == plan[b].queued \cup (IF job.batch = b THEN {job.id} ELSE {})

\* _read(): a plan under way whose job has ended is paused.
Read(b) ==
  IF /\ Status(b) \in {"running", "ready"}
     /\ plan[b].file.named # 0 /\ plan[b].file.named \notin Jobs(b)
  THEN [plan[b].file EXCEPT !.status = "paused"] ELSE plan[b].file

PlanOnly == UNCHANGED <<format, oldHandle, rows, ordered, position, hidden, revision,
                        imported, save, reader>>

\* prepare_job(): the sources are looked at and their digests taken.
PreparePlan(b) ==
  /\ Status(b) = "none" /\ format = 2 /\ Stored # {}
  /\ plan' = [plan EXCEPT ![b].file.status = "draft"]
  /\ PlanOnly /\ UNCHANGED <<anchor, troubles, job>>

Died(plans) == [b \in Batches |-> [plans[b] EXCEPT !.queued = {}]]

\* The plan is written, a job submitted, and the plan written with its name;
\* no job can be had, or the service dies in between.
Submit(b, status) ==
  LET id == plan[b].asked + 1
      written == [plan EXCEPT ![b].file.status = status, ![b].cancel = FALSE]
  IN
  \/ /\ id <= MaxAsked
     /\ plan' = [written EXCEPT ![b].file.named = id, ![b].asked = id,
                                ![b].queued = @ \cup {id}]
     /\ UNCHANGED <<job, troubles>>
  \/ /\ Trouble
     /\ \/ plan' = [written EXCEPT ![b].file.status = "paused"] /\ UNCHANGED job
        \/ plan' = Died(written) /\ job' = NoJob

Confirm(b, o) ==
  /\ Status(b) = "draft" /\ o \in Stored
  /\ anchor' = [anchor EXCEPT ![b] = o]
  /\ Submit(b, "ready")
  /\ PlanOnly

\* Whatever stopped the import, it may be run again, also before the last
\* request to do so has been served.
CanResume(b) ==
  \/ Read(b).status \in {"paused", "failed", "completed"}
  \/ Read(b).status = "ready" /\ Read(b).named = 0

Resume(b) ==
  /\ CanResume(b)
  /\ Submit(b, Read(b).status)
  /\ PlanOnly /\ UNCHANGED anchor

CancelPlan(b) ==
  /\ Status(b) \notin {"none", "removed"} /\ ~plan[b].cancel /\ Trouble
  /\ plan' = [plan EXCEPT ![b].cancel = TRUE, ![b].file = Read(b)]
  /\ PlanOnly /\ UNCHANGED <<anchor, job>>

\* delete(): the versions stay.
RemovePlan(b) ==
  /\ Read(b).status \notin {"none", "removed", "running", "ready"}
  /\ plan' = [plan EXCEPT ![b].file.status = "removed"]
  /\ PlanOnly /\ UNCHANGED <<anchor, troubles, job>>

---------------------------------------------------------------------------
(* import_job(): it goes through the plan from its first item, every time. *)

\* What it has read is written back, but for cancel_requested; a plan that is
\* gone stays gone.
WriteBack(b, copy) ==
  plan' = IF Status(b) = "removed" THEN plan ELSE [plan EXCEPT ![b].file = copy]

\* The plan is gone, another writer holds the lease, or the import begins.
StartImport(b) ==
  LET id == CHOOSE i \in plan[b].queued : \A k \in plan[b].queued : i <= k
      taken == [plan EXCEPT ![b].queued = @ \ {id}]
  IN
  /\ job = NoJob /\ plan[b].queued # {}
  /\ IF Status(b) = "removed"
     THEN plan' = taken /\ UNCHANGED job
     ELSE /\ plan' = [taken EXCEPT ![b].file = [Read(b) EXCEPT !.status = "running"]]
          /\ job' = [batch |-> b, id |-> id, next |-> 1, parent |-> 0,
                     pc |-> IF save = NoSave THEN "item" ELSE "ending",
                     copy |-> IF save = NoSave THEN NoFile
                              ELSE [Read(b) EXCEPT !.status = "failed"]]
  /\ PlanOnly /\ UNCHANGED <<anchor, troubles>>

Importing(b, pc) == job # NoJob /\ job.batch = b /\ job.pc = pc

\* The plan is read anew for every item, and not found or cancelled perhaps.
BeginItem(b) ==
  /\ Importing(b, "item") /\ job.next <= BatchSize
  /\ job' = IF Status(b) = "removed" THEN [job EXCEPT !.pc = "ending"]
            ELSE IF plan[b].cancel
            THEN [job EXCEPT !.pc = "ending", !.copy = [Read(b) EXCEPT !.status = "paused"]]
            ELSE [job EXCEPT !.pc = "begun", !.copy = Read(b)]
  /\ PlanOnly /\ UNCHANGED <<anchor, plan, troubles>>

EnsureTimeline ==
  /\ ordered' = TRUE
  /\ position' = Ensured

IsImported(b, i) == imported[b][i] # 0

\* The copy in which the item has its checkpoint_id.
Marked == [job.copy EXCEPT !.done = IF @ < job.next THEN job.next ELSE @]

\* The next item, whose reading makes the copy useless, or the end.
NextItem(copy) ==
  IF job.next = BatchSize
  THEN [job EXCEPT !.next = @ + 1, !.pc = "ending",
                   !.copy = [copy EXCEPT !.status = "completed"]]
  ELSE [job EXCEPT !.next = @ + 1, !.pc = "item", !.copy = NoFile]

\* finally: the plan as it was read is written back with the item marked.
AfterItem(b) ==
  /\ WriteBack(b, Marked)
  /\ job' = IF Status(b) = "removed" THEN [job EXCEPT !.pc = "ending"] ELSE NextItem(Marked)

\* The item was published by an earlier run of the job.
SkipImported(b) ==
  /\ Importing(b, "begun")
  /\ IsImported(b, job.next)
  /\ EnsureTimeline
  /\ AfterItem(b)
  /\ UNCHANGED <<format, oldHandle, rows, hidden, revision, imported, anchor,
                 troubles, save, reader>>

LookUpItem(b) ==
  /\ Importing(b, "begun")
  /\ ~IsImported(b, job.next)
  /\ ~ordered \/ position # Ensured
  /\ EnsureTimeline
  /\ UNCHANGED <<format, oldHandle, rows, hidden, revision, imported, anchor,
                 plan, troubles, save, job, reader>>

\* prepare() with _history_before: the parent is what precedes the anchor.
PrepareImport(b) ==
  /\ Importing(b, "begun")
  /\ ~IsImported(b, job.next)
  /\ ordered /\ position = Ensured
  /\ job' = [job EXCEPT !.pc = "prepared", !.parent = Predecessor(anchor[b])]
  /\ UNCHANGED <<format, oldHandle, rows, ordered, position, hidden, revision,
                 imported, anchor, plan, troubles, save, reader>>

\* The version, its place, the new revision and the mark that the item is
\* done are one transaction.  A cancellation that came late is not seen.
CommitImport(b) ==
  /\ Importing(b, "prepared")
  /\ HasRoom
  /\ job.parent = Predecessor(anchor[b])
  /\ rows' = Append(rows, [kind |-> "import", content |-> NoContent,
                           parent |-> job.parent,
                           item |-> [batch |-> b, item |-> job.next]])
  /\ position' = InsertedBefore(anchor[b])
  /\ revision' = revision + 1
  /\ imported' = [imported EXCEPT ![b][job.next] = Len(rows) + 1]
  /\ job' = [job EXCEPT !.pc = "committed", !.parent = 0]
  /\ UNCHANGED <<format, oldHandle, ordered, hidden, anchor, plan, troubles, save, reader>>

\* Faulty: cancel_requested is written back as it was read before the item.
MarkItemStale(b) ==
  /\ Importing(b, "committed")
  /\ plan' = [plan EXCEPT ![b].file = Marked, ![b].cancel = FALSE]
  /\ job' = NextItem(Marked)
  /\ PlanOnly /\ UNCHANGED <<anchor, troubles>>

MarkItem(b) ==
  /\ Importing(b, "committed")
  /\ AfterItem(b)
  /\ PlanOnly /\ UNCHANGED <<anchor, troubles>>

\* A cancellation is seen while the item is prepared (_Cancelled), its source
\* is not what it was when the plan was made, or the history or the disk fails.
ItemFails(b) ==
  /\ Importing(b, "begun") \/ Importing(b, "prepared")
  /\ \/ /\ plan[b].cancel /\ UNCHANGED troubles
        /\ WriteBack(b, [job.copy EXCEPT !.status = "paused"])
        /\ job' = [job EXCEPT !.pc = "ending", !.copy.status = "paused", !.parent = 0]
     \/ /\ Trouble
        /\ WriteBack(b, [job.copy EXCEPT !.status = "failed"])
        /\ job' = [job EXCEPT !.pc = "ending", !.copy.status = "failed", !.parent = 0]
  /\ PlanOnly /\ UNCHANGED anchor

\* The lease has been given back and the plan is written a last time.
EndImport(b) ==
  /\ Importing(b, "ending")
  /\ WriteBack(b, job.copy)
  /\ job' = NoJob
  /\ PlanOnly /\ UNCHANGED <<anchor, troubles>>

\* The service dies; its jobs are ended when it starts again.
ServiceDies ==
  /\ Trouble
  /\ job' = NoJob /\ plan' = Died(plan)
  /\ PlanOnly /\ UNCHANGED anchor

---------------------------------------------------------------------------
(* reconcile(), run when a recorder starts.                                *)

\* Faulty: the digests are not compared.
RedundantAny(o) ==
  /\ o + 1 \in Stored /\ o + 1 <= BaselineWindow
  /\ hidden[o] = 0
  /\ rows[o].kind = "baseline" /\ rows[o + 1].kind = "baseline"
  /\ Ensured[o] < Ensured[o + 1]

\* Two automatic baselines in a row, by ordinal, of the same drawing; the
\* earlier one is redundant if it is also shown earlier.
Redundant(o) ==
  /\ o + 1 \in Stored /\ o + 1 <= BaselineWindow
  /\ hidden[o] = 0
  /\ rows[o].kind = "baseline" /\ rows[o + 1].kind = "baseline"
  /\ rows[o].content = rows[o + 1].content
  /\ Ensured[o] < Ensured[o + 1]

\* The pairs are treated in order, each in a transaction of its own; the run
\* may stop after any of them.
Reconcile(last) ==
  LET found == {o \in 1..last : Redundant(o)} IN
  /\ WriterFree /\ format = 2
  /\ found # {}
  /\ EnsureTimeline
  /\ hidden' = [o \in Ordinals |-> IF o \in found THEN o + 1 ELSE hidden[o]]
  /\ revision' = revision + Cardinality(found)
  /\ UNCHANGED <<format, oldHandle, rows, imported, anchor, plan, troubles, save, job,
                 reader>>

---------------------------------------------------------------------------
(* list_checkpoints(): the revision is read first, then one page.          *)

\* A new list, or one started over because its cursor is of another revision.
StartList ==
  /\ reader.at # "revision"
  /\ reader' = [at |-> "revision", revision |-> revision, upper |-> 0,
                before |-> 0, seen |-> <<>>]
  /\ UNCHANGED <<format, oldHandle, rows, ordered, position, hidden, revision,
                 imported, anchor, plan, troubles, save, job>>

\* The next page under the cursor of the last; the cursor's scope holds the
\* revision it was issued under.
ContinueList ==
  /\ reader.at = "page"
  /\ reader.revision = revision
  /\ reader' = [reader EXCEPT !.at = "revision"]
  /\ UNCHANGED <<format, oldHandle, rows, ordered, position, hidden, revision,
                 imported, anchor, plan, troubles, save, job>>

\* Faulty: the page does not look at the revision again.
SameRevisionUnchecked == TRUE

SameRevision == reader.revision = revision

RevisionMoved ==
  /\ reader.at = "revision"
  /\ ~SameRevision
  /\ reader' = Idle
  /\ UNCHANGED <<format, oldHandle, rows, ordered, position, hidden, revision,
                 imported, anchor, plan, troubles, save, job>>

LastOf(S) == IF S = {} THEN 0
             ELSE CHOOSE n \in S : \A m \in S : m <= n

\* The versions of a set, newest first.
NewestFirst(S) ==
  [n \in 1..Cardinality(S) |->
     CHOOSE o \in S : Cardinality({p \in S : Place(p) > Place(o)}) = n - 1]

\* page(): from a position down, at most PageSize of the listed versions.
Page(upper, before) ==
  LET under == {o \in Listed : /\ Place(o) <= upper
                               /\ before > 0 => Place(o) < before}
      more == Cardinality(under) > PageSize
  IN [items |-> IF more THEN SubSeq(NewestFirst(under), 1, PageSize)
                ELSE NewestFirst(under),
      more |-> more]

ReadPage ==
  LET upper == IF reader.upper = 0 THEN LastOf({Place(o) : o \in Stored})
               ELSE reader.upper
      result == Page(upper, reader.before)
  IN
  /\ reader.at = "revision"
  /\ SameRevision
  /\ reader' =
       [reader EXCEPT
          !.at = IF result.more THEN "page" ELSE "done",
          !.upper = upper,
          !.before = IF result.more THEN Place(result.items[PageSize]) ELSE 0,
          !.seen = @ \o result.items]
  /\ UNCHANGED <<format, oldHandle, rows, ordered, position, hidden, revision,
                 imported, anchor, plan, troubles, save, job>>

---------------------------------------------------------------------------
Write ==
  \/ \E s \in Saves : PrepareSave(s) \/ CheckpointFormat1(s)
  \/ CommitSave
  \/ AbandonSave
  \/ UpgradeStorage
  \/ \E last \in Ordinals : Reconcile(last)

Import ==
  \/ \E b \in Batches :
       \/ PreparePlan(b)
       \/ \E o \in Ordinals : Confirm(b, o)
       \/ Resume(b)
       \/ CancelPlan(b)
       \/ RemovePlan(b)
       \/ StartImport(b)
       \/ BeginItem(b)
       \/ SkipImported(b)
       \/ LookUpItem(b)
       \/ PrepareImport(b)
       \/ CommitImport(b)
       \/ MarkItem(b)
       \/ ItemFails(b)
       \/ EndImport(b)
  \/ ServiceDies

List == StartList \/ ContinueList \/ RevisionMoved \/ ReadPage

OrderNext == Write \/ Import \/ List

OrderSpec == OrderInit /\ [][OrderNext]_orderVars

---------------------------------------------------------------------------
(* Properties.                                                             *)

\* Every stored version has a place in the list, whatever created it: head(),
\* page() and history() join the timeline, so a version without a row there
\* is neither shown nor built upon (upgrade_storage: an old handle's
\* checkpoints are ones "which the new program reads").
EveryVersionRead == \A o \in Stored : Place(o) > 0

\* No two versions share a place: ORDER BY position decides what the head,
\* a predecessor and the next page are.
PlacesDistinct == \A o, p \in Stored : o # p => Place(o) # Place(p)

\* What a version was compared with and stored against stays before it.
ParentsPrecede ==
  \A o \in Stored : rows[o].parent # 0 => Place(rows[o].parent) < Place(o)

\* A plan's item becomes at most one version, and is marked with that one,
\* however often the job is interrupted and started again.
ImportedOnce ==
  \A b \in Batches, i \in Items :
    {o \in Stored : rows[o].item = [batch |-> b, item |-> i]}
      = {imported[b][i]} \ {0}

\* The files of a plan stand in the confirmed order, in front of its anchor.
PlanInOrder ==
  \A b \in Batches, i \in Items : imported[b][i] # 0 =>
    /\ Place(imported[b][i]) < Place(anchor[b])
    /\ \A j \in 1..i - 1 : /\ imported[b][j] # 0
                           /\ Place(imported[b][j]) < Place(imported[b][i])

\* A hidden version is an automatic baseline whose drawing is still shown by
\* a later one: hiding never removes content from the list.
HiddenHasTwin ==
  \A o \in Stored : hidden[o] # 0 =>
    /\ rows[o].kind = "baseline"
    /\ \E p \in Listed : /\ rows[p].content = rows[o].content
                         /\ rows[p].kind = "baseline"
                         /\ Place(o) < Place(p)

\* Every version is in the list, at a place of its own behind its parent, and
\* what is hidden is still shown by another.
VersionsPlaced ==
  /\ EveryVersionRead /\ PlacesDistinct /\ ParentsPrecede /\ HiddenHasTwin

\* A plan says what is so: what it marks is imported, it is completed when all
\* of it is, and while the job that it names imports it nobody can remove it or
\* run it again; one that seems under way and is not can be run again.  Another
\* job than it names imports it when it was run again while an import of it
\* ended: the last write of that one takes the name of the new job away, and
\* the plan can then be removed or run although it is imported.
PlanTrue(b) ==
  /\ \A i \in 1..plan[b].file.done : IsImported(b, i)
  /\ Read(b).status = "completed" => plan[b].file.done = BatchSize
  /\ job.batch = b /\ job.pc # "ending" /\ plan[b].file.named = job.id
       => Read(b).status = "running"
  /\ Read(b).status \in {"ready", "running"} => Jobs(b) # {} \/ CanResume(b)

\* However often an import was interrupted, and the service died, its versions
\* are there once and in order and its plan is true; and a request to cancel it
\* is not lost while it goes on, although the job writes back a plan that it
\* read before.
PlansKept ==
  /\ [](ImportedOnce /\ PlanInOrder /\ \A b \in Batches : PlanTrue(b))
  /\ [][\A b \in Batches :
         plan[b].cancel /\ job.batch = b /\ Read(b).status = "running" => plan'[b].cancel]_orderVars

\* An import or a collapse never changes what the next save is built on; the
\* durable queue's captures were taken against that head.
HeadMovesBySave ==
  HeadVersion' # HeadVersion => /\ Len(rows') = Len(rows) + 1
                                /\ rows'[Len(rows')].kind # "import"
                                /\ HeadVersion' = Len(rows')

\* Versions never change places with each other, and only a save makes a new
\* head.
OrderKept ==
  [][/\ HeadMovesBySave
     /\ \A o, p \in Stored : Place(o) < Place(p) => Place(o)' < Place(p)']_orderVars

\* Down to its cursor a client has seen each listed version exactly once,
\* newest first, down from the place where its list began.
SeenOnce(r) ==
  LET covered == {o \in Listed : Place(o) <= r.upper /\ Place(o) >= r.before}
  IN /\ {r.seen[n] : n \in DOMAIN r.seen} = covered
     /\ \A n \in 2..Len(r.seen) : Place(r.seen[n]) < Place(r.seen[n - 1])

\* Whenever a client gets a page, what it has loaded so far is the list as it
\* is now: saves, imports and collapses between its requests neither repeat
\* nor skip a version, unless the client is told to start again.
ListConsistent ==
  [][reader' # reader /\ reader'.at \in {"page", "done"} => SeenOnce(reader')]_orderVars
===========================================================================
