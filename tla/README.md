# Vestigraph, specified

Vestigraph records the history of a layout document while an editor has it
open: it exports the layout when it has changed, keeps the exports as versions
in a per-document history, and lets the user name, compare and restore them.
This directory holds TLA+ specifications of the parts of it where order,
failure and concurrency matter, the TLC instances that check them, and proofs
that TLAPS checks. Paths below are relative to `src/vestigraph/` unless they
begin with `vestigraph_backends/`, which is beside it.

## Contents

| file | what it is |
| --- | --- |
| `CaptureSpool.tla` | the durable capture queue of one history: table, raw copies, receipts, versions; one operator per transaction; the safety invariants |
| `CapturePipeline.tla` | the threads around the queue: recorder, organizer, recovery sweep, user, other writers, crashes |
| `CaptureLedger.tla` | what the queue promises, without threads, files or crashes |
| `HistoryOrder.tla` | the list of versions: timeline, import plans, imports in front of a version, hidden baselines, a client that pages through it |
| `Repository.tla` | how a version gets into the packs and the index, and what keeps it readable |
| `Compression.tla` | saves that run at once: batches, the shared scheduler of processors and memory, the pools of threads |
| `Counting.tla` | places of a sequence in order, and sums, by counting; used by `Compression` and `Skills` |
| `DocumentClaims.tla` | who records which document: supervisor, coordinators, claims, leases, recorders that end or hang |
| `WindowRequests.tla` | requests to coordinators: pauses, holds, commands, drains, clients that give up |
| `Observer.tla` | the recorder between the editor's events and its saves: event queue, dirty marks, commands, the end and the tail |
| `EditorBackend.tla` | the adapter of the editor, whose tabs have no stable handle, and the jobs that open and restore a version in it |
| `Jobs.tla` | background jobs: rows, keys, lanes, workers, stops and restarts |
| `Relocation.tla` | moving the histories of a project to another folder while the service runs |
| `ResultCache.tla` | previews, comparisons, downloads and images, the sweep, and what clients are sent |
| `Skills.tla` | what agents and pages refine from an interval of a history, and the revisions they make of it |
| `PanelLists.tla` | the lists of the web page: polls, pages, filters, links, the selection |
| `PanelJobs.tla` | the jobs of the web page: buttons, polls of their state, entries for previews and comparisons |
| `MC*.tla`, `*.cfg` | an instance of each for TLC |
| `CapturePipelineProofs.tla` | every transaction of the table and every step of every thread keeps the pipeline's invariants and implements `CaptureLedger`; the theorems |
| `RepositoryProofs.tla` | inductive invariants and theorems of `Repository` and of `HistoryOrder` |
| `JobsProofs.tla` | the same of `Jobs` and of `ResultCache` |
| `EditorBackendProofs.tla` | the same of `EditorBackend`, of `Skills` and of `Compression` |
| `DocumentClaimsProofs.tla`, `ObserverProofs.tla`, `WindowRequestsProofs.tla`, `RelocationProofs.tla` | inductive invariants and theorems of these modules |

Check with `tlc -config CapturePipeline.cfg MCCapturePipeline` and
`tlapm CapturePipelineProofs.tla`, and so on.

## The system

### Components

**Durable capture queue** (`capture_spool.py`). State: the SQLite table
`capture_queue` (ordinal, state, reserved bytes, digest, predecessor, expected
head, checkpoint), one raw copy per row and one `.verified.json` receipt, all
in the history's directory. Operations: `reserve`, `accept`,
`mark_processing`, `retry`, `block`, `discard`, `cleanup_done`, `recover`.
Called by the recorder, the organizer, the recovery sweep and the user's
requests, each through an object with a lock of its own. Hard: a crash at any
point, files and rows that cannot change together, a capacity that rows enter
and leave by changing state, a comparison that is stale when it is used.
Correct when captures become versions in the order they were taken, each once,
and no accepted copy leaves the disk before it has a version.

**Capture pipeline** (`capture_pipeline.py`, `capture_noop.py`). State: one
organizer thread, its active capture, the count of gates that callers of
`drain` hold open, the cancel and stop events, the exception the thread died
of. Operations: `process_one`, `drain`, `check_health`, `close`,
`validate_capture`, `acknowledge_capture`. It encodes the oldest accepted copy
and commits it with the storage engine. Hard: it runs beside exports and user
requests; the head may have moved; an error may come after the publication.
Correct when publication and acknowledgement are one step, a late error takes
nothing back, and every gate is opened again.

**Capture recovery sweep** (`service/capture_recovery.py`). Every two seconds
it takes the lease of each history that has unfinished work and no recorder,
recovers the queue and organizes until a copy fails. Correct when nothing that
was reserved is forgotten.

**Recorder** (`capture_runtime.py`). State: a bounded queue of editor events,
overflow counters, dirty and boundary marks, the open segment, the pipeline.
Operations: `start` (baseline), the recording loop, named saves from the
command queue, `finish` (tail), `_snapshot_durable`. Interacts with the editor
backend by calls and callbacks and with the coordinator by a command queue and
status reports. Hard: callbacks against the loop, lost events, commands that
arrive while it ends, exports that time out. Correct when an edit is never
silently lost, every command is answered, and no export is attributed to a
document that changed under it.

**Writer lease and repository** (`store.py`, `filelock.py`,
`storage/engine.py`, `storage/publish.py`). State: the file lock, the SQLite
database, pack files, work files, prepared snapshots. Operations:
`acquire_writer`, `release_writer`, `prepare`, `commit`, `cleanup_orphans`,
segments, upgrade, export. Hard: files and transactions, crashes in between,
single-use snapshots, transient leases. Correct when every committed version
can be read back and a lease is released on every path.

**Object store** (`storage/object_*.py`, `storage/packs.py`,
`storage/recovery.py`, `storage/adaptive.py`). Content-addressed objects in
packs, delta chains, a parallel encoder with a quota, index rebuild. All saves
share one scheduler of processors and memory, which learns from the batches it
lets run. Correct when chains are bounded and acyclic, damage stays where it is,
a share is given back once, and threads change when work is done and not what is
stored.

**History order** (`history_order.py`, `baseline_duplicates.py`). State: the
timeline, created for the first import; the hidden baselines; the marks of
imported files; a revision. Operations: `ensure`, `publish`, `predecessor`,
`head`, `page`, `import_checkpoint`, `reconcile`. Called in the transactions
of every commit and by every query of the list. Hard: positions that shift
under clients that page and imports that were interrupted; old handles.

**Legacy imports** (`service/legacy_imports.py`). State: one file per plan,
replaced as a whole; a job that publishes its files one by one in front of a
version. Hard: the job writes back what it read minutes before, requests about
the plan come meanwhile, and the plan, the history and the catalog of jobs can
differ after a crash. Correct when a file becomes one version at most, in the
confirmed order, and the plan says what is so.

**Coordinator** (`service/coordinator.py`), **supervisor**
(`service/supervisor.py`, `service/editors.py`). The supervisor keeps one
coordinator for every project and editor window that is online. State: the
claims of documents, in memory, shared; and in each coordinator a thread, its
recorder, the lease, a queue of requests, pauses and holds, a back-off.
Operations: rescan, `_step`, `_start_recorder`, `_stop_recorder`,
`_recorder_ended`, one handler per request. Hard: windows that come and go
while a drain lasts, a claim and a lease that are taken and given back one
after the other, drains that never end, requests that are handled inside a
drain or after their client has given up. Correct when a document has one
recorder, nothing stays claimed, somebody records what may be recorded, a held
window is still, and every request is answered.

**Editor backends** (`vestigraph_backends/`: `guard.py`, the KLayout adapter
and its protocol). State: the references given out for tabs, the operation
under way, its deadline. Operations: connect, list, export, screenshot, open,
close. Hard: the editor has no handle of a document, saves "the current tab",
and its user acts between two calls; an answer may be lost and the editor act
later. Correct when a receipt is of what was asked for and an outcome says no
more than is known.

**Jobs** (`service/jobs.py`, `service/catalog.py`). Lanes with bounded queues
and workers, rows of a table, request keys, outcomes that could not be written
yet, orphans of an earlier run of the service. Correct when a key acts once,
the row tells what happened, and every job ends.

**Service operations** (`service/application.py`, `service/thumbnails.py`):
retry and discard of a retained copy; restoring a version into the working
file and opening one in the editor; relocation; previews, comparisons,
downloads and images with the cache of their files and its sweep. Each is a
handler that runs in a job beside recorders and other jobs. Correct when a
failure leaves the user's file or a way back to it, a move loses nothing, and
nobody is sent half a file.

**Agent and skills** (`service/agent.py`, `service/skills.py`,
`web/skill_routes.py`, `vesti_skills/`). State: the rows of skills and their
revisions, jobs that generate or validate. A client pages through the versions,
has the evidence between two of them frozen, reads, revises, publishes and
exports; others do the same while the history moves. Correct when a call that is
repeated makes one skill, its evidence is the interval that was seen, and no
revision replaces one that its author had not read.

**Web interface** (`web/static/app.js`, `web/`). The page keeps a list it has
loaded page by page, a selection, a table of jobs and a cache of results, in
one thread; every request is answered later and others overtake it. Correct
when what it shows is of one list and the selection, a button sends one request
and every outcome is told.

**Not stateful enough to model**: comparison, evidence and summaries (pure
functions of two immutable versions), layout formats and codecs, the native
scanner, command line and views. They are listed with their reasons in `PROJECT.json`.

### How they interact

The coordinator starts a recorder, which connects an editor backend, takes the
writer lease and starts the organizer over the same open history. The recorder
appends to the queue, the organizer takes from it; both use SQLite
transactions. Named, baseline and tail saves wait in `drain` until the
organizer is done with them. When the recorder ends it joins the organizer and
releases the lease; whatever it leaves is picked up by the next recorder or by
the sweep. The user's retry and discard go to the table directly, through the
recorder's open history or under a lease of their own. Any other process may
publish while the lease is free.

A click on the page is a request to the service, which answers with a job. Jobs
of the lane "coordinate" run one at a time and ask the coordinators of the
windows concerned to hold still: their recorders save their tails and end, the
job opens, restores, moves or imports, and the windows are released. Heavy jobs
and previews read versions and write into the cache. The page asks for the
state of its jobs until they have ended, and for the lists all the time.

Each of these borders is in one module: the queue and its threads in
`CapturePipeline`, the recorder and its commands in `Observer`, recorders and
requests in `WindowRequests`, recorders and claims in `DocumentClaims`, a
restore and the recorder's backend in `EditorBackend`, a move and the writers
in `Relocation`, a request and its job in `Jobs`, a job and the page in
`PanelJobs`. What a module takes from another it states: `EditorBackend` begins
a job's work when the recorder's backend is closed, which
`QuietWhileNavigating` of `WindowRequests` shows; `CaptureSpool` looks at the
head only, which by `OrderKept` of `HistoryOrder` no import moves.

## The models

### CaptureSpool

A row is a record with the columns the code decides by. `held` is
`reserved_bytes > 0`: slots are counted, bytes are not. A layout is a model
value that stands for the raw bytes and the document identity together;
`Drawing` maps it to what is left when save timestamps are ignored, which is
what the no-op probe compares. `file[o]` is the content of a raw copy
(`NoLayout` when there is none, `Partial` before an export has ended),
`receipt[o]` what its receipt vouches for (`Torn` when its writing was
interrupted). `history` is the sequence of visible versions, its last element
the head. `asked` is a history variable: the captures the user asked to
discard; no action reads it.

Each operator is one transaction, or one file operation between two of them.
`discard` unlinks inside its transaction and `cleanup_done` before its commit,
so `DiscardRolledBack` and the split into `Unlink` and `Release` keep the
states that a failure leaves. `ExpectedHead` follows predecessors through
quarantined rows as `validate_capture` does. Operators marked *faulty* are
what plausible mistakes would look like; nothing uses them but the mutants.

### CapturePipeline

`rec` is the main thread of the lease owner: the recorder
(`_snapshot_durable` and its callers) or the sweep. Its program counter stops
wherever another thread can run in between: after the reservation, after the
file exists, after the export, after hashing and comparing, after the receipt,
at the gates. `mode` says why a save is taken: automatic saves do not wait,
commands are answered and survive some failures, baseline and tail saves end
the recorder when they fail. `org` is the organizer: it marks a copy,
prepares it against a parent, commits, unlinks and releases. `cancel` is the
user's one-shot cancel.

`Acquire` combines the lease with the first transaction of `recover`, since
nothing else of the service works on the table in between and a crash after
either leaves the same rows to the next owner. `OwnerFails` is any exception
at any place in the recorder, including one of `block()` itself: it may leave
a row `writing` behind. `ForeignCheckpoint` is another process that publishes
while the lease is free.

A history may begin empty or with a baseline, and the recorder at work or not.

Bounds, all in guards: `MaxCaptures` rows, `MaxForeign` versions from
elsewhere, `MaxFaults` crashes, cancellations and failed calls. Failures that
the program decides itself (a rejected export, a copy that cannot be
organized, a full queue) are not counted as faults.

### CaptureLedger

Accepted copies leave in order, each once: as a version of its own, as a
reference to the version it repeats, or dropped by the user. The refinement
maps the digest of a row to its content, active rows with a digest to the
queue, and `quarantined` to dropped.

### HistoryOrder

A version is its ordinal, `rows` the `checkpoints` table. `position` is the
`history_timeline` table with 0 for a missing row, `hidden` is
`history_collapsed`, `imported` is `history_import_items`, `revision` the
counter in `config`. `ordered` says that the tables of `ensure` exist: until
the first import or collapse the list follows the ordinals, and `Place` is
what either query sorts by. Only the content of automatic baselines is kept,
as far as their timestamp-free digest tells, since nothing else is compared.

Writers are a save of any origin (`PrepareSave`, `CommitSave`), a handle that
still writes format 1 (`CheckpointFormat1`), the upgrade, the import job and
`reconcile`. Each action is one transaction. `Reconcile(last)` runs the first
transactions of one pass over the window and stops.

`plan` is the plan of a batch: its file (status, items done, the job it names, a
request to cancel) and the jobs for it that wait in their lane. `Confirm` fixes the anchor: the client names any stored
version, a hidden one too. `Submit`, `Resume`, `CancelPlan` and `RemovePlan` are
the requests about it, `StartImport` to `EndImport` the job: `BeginItem`,
`SkipImported` and `LookUpItem` decide what to do with the next file,
`PrepareImport` and `CommitImport` publish it, `MarkItem` and `ItemFails` write the
plan. The job holds the copy that it read, and its writes put that copy back,
with what they take over from the file. `ServiceDies` ends it anywhere; the plan
file, the history and the catalog then differ in every way the code allows.

The lease is implicit: `save` and `job` are never both active, and every other
write needs both idle. The comparison of the head in the commits is kept, but
under the lease it cannot fail.

The reader is a client of `list_checkpoints`. It reads the revision
(`StartList`, `ContinueList`), then one page in another transaction
(`ReadPage`), which looks at the revision again. The cursor is valid only for
the revision in its scope (`service/cursors.py`); a client whose cursor is
refused starts a new list.

Bounds: `MaxRows` versions, `MaxAsked` jobs asked for, `MaxTroubles`
cancellations, refusals, failures and crashes; the properties hold with three jobs
of a plan as well, which takes longer than the run should. `StaleUnderOrder` lets a stale
format-1 handle write after the first import; it is FALSE in the run, see the
disagreements.

### Repository

An object is its digest: an index page (`Metadata`) or a piece of a layout
(`Chunks`). `record[i]` is what the pack of snapshot `i` holds, with the depth
and the base in each record's header; `place[i]` is where the file is (spooled
in `tmp`, in `packs`, set aside in `quarantine`); `row` is the table
`objects`, `packs` the table of that name, `versions` the checkpoints. A
snapshot's identifier is its pack's and its checkpoint's, as in the code.

`BeginPrepare` takes the lease for one snapshot unless the handle holds it
already, removes leftovers, and opens a snapshot on the newest version. `Scan`
is the rest of `prepare`: what the source consists of is deduplicated against
the rows, new pieces are stored full or against one of the two bases a piece
of the previous version offers, index pages that are reused are read back and
stored again when they cannot be. `Rescue` is the second attempt when a base
or an index page of the previous version cannot be read: no deltas, and every
reused object is read back. `Publish` moves the pack, `CommitRows` is the
transaction, `EndCommit` removes the work database and releases the lease.
`Drop`, `CommitFails` and `Crash` may end a snapshot anywhere in between.
Since the lease keeps other preparations out, a scan is one step; where the
snapshot is refused for a changed source it is a `Drop`.

`Readable` is what `ObjectIndex.get` returns: the row agrees with the header
in the pack, its bytes are not damaged, and so for every base. `ChainEnd` and
`Root` are the walk of `_chain_root` over rows alone. `Rebuilt` is the index
that `rebuild_index` makes of all packs, quarantined ones too.

`Damage` is the medium's and `Mend` the backup that the error messages ask
for; rows are never damaged. A file that cannot be removed (`_unlink_orphan`
logs it) leaves what a crash leaves. Versions are appended; which version is
the head is in `HistoryOrder`. The comparison of the head in `CommitRows` is
kept, though under the lease it cannot fail.

Bounds: `MaxSnapshots` preparations, `MaxDamage` records damaged at a time,
`MaxFaults` crashes and failed commits. `MaxDepth` is `MAX_DELTA_DEPTH`, 16 in
the code and 2 in the instances.

### Compression

`save[s]` is the `ObjectWriter` of one save: the objects of its layout (`whole`) and
how far it has come in them (`seen`), the new ones of the batch in hand (`todo`), the tasks of its pool in the order in which they were submitted
(`flight`), the records that it has `written`, and its `share`. `active`, `epoch`
and `samples` are `Scheduler` and `CostModel`. `Flush` makes a batch of what the
history and the save do not have; `Reserve` waits for processors and memory and
chooses a number of workers; `WriteInline`, or `SubmitTask`, `TaskBegins`, `TaskEnds`
and `Take`, compress it, the pool ahead of the writer by the quota and the
lookahead; `BatchEnds`, `Joins` and `Release` give the share back, `Observe`
teaches the scheduler. A codec may raise and a save be cancelled anywhere; what
runs in a pool then goes on until the pool is joined. Which number of workers is
fastest is a choice among those that were measured.

Bounds: `MaxCancels`, `MaxErrors`. Two saves of four objects on three
processors, with memory for 8, a quota of 4, and batches of three objects or four
bytes: a save has two batches, two batches fit into the memory, and the quota holds
the pool up. The policies are "auto", "quiet" and "fixed".

A behaviour of `MCRepository` is of `Repository` or of `Compression`
(`half`). The two have nothing in common there: the lease lets one snapshot of a
history be prepared, and the scheduler is what snapshots of two histories share.

### DocumentClaims

A coordinator is a record: its project and window, `pc` (where its thread is),
the document it is busy with (`key`), its recorder, and whether it was told to
stop (`stopping`) and is still in the supervisor's table (`listed`).
`claims` is the `ClaimRegistry`, `leases` the file locks of the histories. A
history is a project and a document. A document with a file is the same in
every window, the documents without one are one per window, as in
`document_identity` and in the keys of `_start_recorder`.

`Join` and `SessionGone` are `rescan`. `SessionGone` removes a coordinator from
the table and tells it to stop; the supervisor waits 30 seconds at most, a drain
takes up to 180, and other threads rescan too, so the model does not wait: a
window that returns gets another coordinator while the first one works.
`Probe`, `Claim`, `AcquireWriter`, `StartRecorder` are one pass of `_step`, in
the places where other threads can come between. `CatalogFails` and `Refuse` are
its early returns: after the claim, and after the lease (full disk, blocked
queue, catalog, any exception), each going through the releases that the code
makes. `StopRecorder`, `DrainTimesOut`, `RecorderEnded` are a pause;
`Close`, `CloseTimesOut` the end of `_loop`. `ReleaseWriter` precedes
`ReleaseClaim` on every path.

A pause, a hold or a policy is a member of `paused` that appears and disappears
(`Toggle`); `WindowRequests` has the requests that bring it about. Another process that
holds a lease for a moment makes `AcquireWriter` fail; that is a
`CatalogFails`, which has the same outcome.

Bounds: `MaxCoordinators` coordinators made, `MaxReturns`, `MaxHangs`,
`MaxFaults`, `MaxSwitches`, `MaxToggles` events of each kind, and `MaxTogether` of
them in one behaviour. A service that
has made its last coordinator may come to rest, so deadlock is not checked.

### Observer

The recorder's thread (`run_observer`, `Observer`), the editor's callback
(`enqueue`) and the threads that send it commands. An edit is a number, its
place in the order in which the callback heard of the edits; `heard` counts
them, and `exported` and `saved` say which prefix the export in hand and the last
stored copy have. An export has at least what was heard when it began. `queue`,
`lost` and `accepting` are the bounded queue, `lost_events` and the switch that
`freeze` turns off; `dirty`, `operation`, `manualDirty` are the fields
`dirty`, `pending_operation is not None`, `manual_dirty`.

`pc` names the places between which other threads come: `Pass` and `Get` are a
pass of the loop up to `consume`, `Serve` to `PrepareSaves` are
`_serve_commands`, `AutoSave` the decision to save. One procedure serves all
saves, for the reason in `why`: `SaveFold` is the `check_overflow` before the
export, `Export`, `Store` the export and its publication or acceptance,
`Refold` the second `check_overflow` that only a direct save has; `BaselineSaved`,
`AutoSaved`, `CommandSaved` and `TailSaved` are what its callers do afterwards.
`Finish` to `NoTail` are `finish`, `Failed` and `RecordGap` the exception handler,
`Reject` to `Die` the `finally`. A step that fails (`Errs`) may be the write of an
event, an export, a check of the document or a publication; `SaveFails`,
`FlushFails` and `LoopFails` keep what the code has done before it failed: an event
is off the queue, a count is taken.

`CheckAlive` and `PutCommand` are `_milestone` and `prepare_edit` of the
coordinator, which look for the recorder under a lock and put without it. Time is
left out: `AutoSave` and `NotYet` are both possible when the layout is dirty, for
the quiet window, the intervals and the boundaries only choose between them.
Events of another document and started operations are one kind (`quiet`);
`gone` is a lost connection; `invalid` an edit whose event cannot be parsed.

Whether a recording saves through the queue or directly is fixed when it begins
(`durable`); both ways are in the run. Bounds: `MaxEdits`, `MaxNoise` events, `MaxFaults` steps that fail, and the
commands, each sent once. The recorder ends, so deadlock is not checked.

### WindowRequests

One coordinator per window: its thread, its inbox and its recorder, and the
clients that ask it. `copy` is `Coordinator.project`, `held` is
`paused_by_navigation`, `lastLost` says that `last_end_error` is set. `thread`
says whether the thread waits in `_stop_recorder` (`draining`), on behalf of which
request (`outer`; a step waits for nobody), and which command it has handed to the
recorder. `Handle` takes the next request, between steps or while a drain
lasts: a stop within a drain does not wait again and does not count as saved.
`Conclude` is the rest of a handler once the recorder is stopped as far as it
needs. `Step` is one step of the loop.

`job` is the one job of the lane "coordinate" that runs. It asks window after
window, acts when every one has answered, and releases those it counts as held;
an import counts a window before it was answered, the others after. `Answer`
goes to the client if it still waits; a client that gave up has left its request
behind (`Forget`), and it is handled all the same. `ChangePolicy` and `Notify`
are `set_policy`; `ScanReads` and `ScanCreates` a rescan, which makes the
coordinator of a new window from the row that it read before.

Bounds: `MaxJobs`, `MaxAsks` commands of an agent, `MaxTimeouts` clients that give
up, `MaxHangs` drains and commands that reach their limit, `MaxFaults` recorders
that fail, `MaxChanges` of the policy and scans.

### EditorBackend

`tabs` and `current` are the editor, which belongs to the user (external: what
the companion answers is modelled from how `adapter.py` uses it). `documents` is
`KLayoutBackend._documents`. An operation binds a reference, looks at the list
of tabs before and after the editor has acted (`FirstLook`, `Serve`,
`SecondLook`; `Scan` is `_current_from`), and ends with a receipt or as not
started, failed or unknown. `ServeShow` and `Confirm` are the opening of a file;
`GiveUp` is a deadline or a lost answer at any place. `behind` are the versions
that the editor will show although nobody waits for them any more.

`job` opens a version or restores the working file to one: `Hold` waits until the
recorder's backend is closed, then the file is copied beside itself, replaced,
the history written, the file shown in the editor. `disk` is the working file, the
staged file and the copy beside it. `before`, `after` and `left` of an
operation are history variables: whether the user did something between the
first look and the act of the editor, and between that and the second look, and
whether the editor is still to act.

Bounds: `MaxTabs`, `MaxActs` of the user, `MaxFaults`, `MaxConnects`.

### Skills

`timeline`, `hidden`, `order` and `notes` are the history as the evidence sees
it; `skills` the skills with their revisions, of each its body, its state, the
reports on it and the revision that its author had read (`basis`); `tasks` the
jobs of the providers; `client[c]` what a client has been told so far. `FirstPage` and
`NextPage` list the versions, `Choose` picks an interval, `Collect` reads it and
`Create` freezes it under the key of the call; the two are calls of one handler
between which the history moves. `AskAgain` is an agent's second call after a
lost answer. `ListPending` pages through the requests that wait for an agent;
`Read`, `Submit`, `Publish`, `RequestTask`, `RunTask`, `AskExport` and `Export`
work on one skill. `Drop` is a client that turns to something else (external).

A comment at `agent.py:179` says that the stable key survives lost responses. The
evidence is collected before the key is looked up, and its digest has the
annotations: when the history has moved or a note was added meanwhile, the
repeated call is refused. It never makes a second skill, which is what
`RefinedOnce` asks. The page makes a new key for each click.

Bounds: four scenarios (`MCBounds`), for the intervals of a history that moves,
two skills of one interval, one skill in many revisions, and three skills in
few. A behaviour of `MCEditorBackend` is of `EditorBackend` or of `Skills` (`half`).

### Jobs

`rows` is the table `jobs`, `queue` the queues of the lanes with the `None` that
`stop` puts for every worker, `deferred` the outcomes that could not be written.
`Submit` is `submit_job` with `create_job` of the catalog, one transaction that
finds the row of a key or makes one. A worker gets an entry, writes "running" (`begin`),
acts on the world, and writes the outcome; each write may raise, and each
exception leads where the code leads it. `Start` is the start of a service,
which settles the orphans of earlier runs; `Stop`, `Drain` and `Exit` its orderly
end, `Crash` any other. `acts` counts what a job did to the world: a history
variable.

Bounds: `MaxKeys`, `MaxJobs` rows, `MaxRuns` of the service, `MaxFaults` writes
that raise.

### Relocation

`root` and `path` are what the catalog says of a project and its documents,
`store` what each folder has of each history: a shell, a partial copy or a whole
one, with what is in the database file (`main`) and in its log. A writer finds
the path, opens the database and takes the lease of the folder in three steps;
`_check_writer_target` looks whether there is a database where it opened one.
`move` holds the recorders (`Hold`), locks each history and folds its log (`Lock`),
copies and verifies (`CopyBegins` to `Verify`), switches the catalog
(`Switch`), and removes what it left (`Remove`), or rolls back what it copied.
`written` counts the versions and labels that were acknowledged, `astray` those
that went where the catalog no longer points; `former`, `returned` and `untidy`
remember what the conditions of the properties need. No step reads these.

Bounds: `MaxWrites`, `MaxMoves`, `MaxFaults`.

### ResultCache

`folders` and `files` are the cache, `fresh` the files and empty folders that
are not older than their limit. A job looks for what is there, fetches or makes
its sources, places the result as a part, publishes it by renaming, and checks it.
The sweep picks a folder and removes it file by file (`removing`). A client is
promised a file by `job_asset` and fetches it later; `garbled` becomes true when it
is sent something other than all of the result that it asked for.

Only a comparison is of two versions; the other requests name one twice.

Bounds: the requests in `Asked`, `MaxRequests`, `MaxEvictions` folders removed
because the cache is too large, `MaxTroubles`.

### PanelLists

`view` has the fields of `state` in `app.js` that the lists use: the document, the
filter, the items with their scope and cursor, the selection and its details.
`poll`, `opening` and `calls` are the requests under way, each with the generation
of the view that sent it. Requests of a view are aborted when the view changes;
the chain that opens a document is not, and compares generations. An answer is
made (`AnswerLists`, `AnswerMore`, `AnswerDetail`) and shown (`ShowMore`,
`ShowDetail`, and the merge of a poll) at different moments.

`clearDocumentViews` (`app.js:451`) empties the list and forgets its scope, but not
its cursor. Until the first poll of the new view is answered, "Load older
versions" is still on the page and sends that cursor (`LoadMore`). For another
document, filter or revision the service refuses it; for the same ones a later page
comes to the empty list, so that the page begins below the newest versions, with no
scope, and the poll then replaces it. `ImportEnded` is the callback of the import
dialog, which forgets the scope and keeps what is shown.

Bounds: `Earlier` versions a history may begin with, `MaxEvents` of any kind.

### PanelJobs

`service` is the state of the jobs, `tracked` the page's table of them, `told` the
outcomes it has announced. A pass of `pollJobs` asks for a job, gets an answer
and applies it; several passes are under way. `previews` are the entries of a
cache with the number that tells an entry from an older one of the same version,
`waits` the calls that wait for one. `pending`, `disabled` and `sent` are the
buttons.

Bounds: `MaxEvents`, `MaxTroubles`, and jobs: the last one is kept for the
entry that is shown (`HasSpareRoom`), since the service has no such limit.

## What is checked

Twelve runs; all pass.

| run | instance | distinct states |
| --- | --- | --- |
| `pipeline` | 2 captures on an empty history or a baseline, 2 slots, 3 layouts of 2 drawings, 1 foreign version, 1 fault | 0.72 million |
| `claims` | 2 projects that share a window and a file, 4 coordinators, 1 return, hang, failure, change of document or pause | 0.39 million |
| `history_order` | 1 plan of 2 files, 2 contents, pages of 2, a window of 3, 4 rows, 2 jobs, 1 trouble | 1.37 million |
| `repository` | 2 handles, 4 objects in 3 layouts, depth 2, 4 preparations, 1 damaged record, 1 fault; or 2 saves that compress, 1 cancellation, 1 error | 1.49 million |
| `observer` | both ways of saving, a queue of 1, 1 command, 2 edits, 1 other event, 1 fault | 2.06 million |
| `jobs` | an open, a restore and a download under 3 keys, 2 lanes with a worker each, a limit of 2, 3 rows, 2 runs, 1 fault | 0.81 million |
| `windows` | 2 windows, one of them late; pause, resume and move; 2 jobs, 1 of each bound | 0.56 million |
| `editor` | 2 drawings without a file, 2 tabs, 3 acts, 2 faults, 3 connections; or 1 agent and 1 page in 4 scenarios | 3.01 million |
| `relocation` | 2 histories, 2 folders, 2 writers, one of them late, 2 writes, 2 moves, 2 faults | 2.78 million |
| `result_cache` | 2 contents, 5 requests, 2 jobs, 1 eviction, 1 fault | 0.57 million |
| `panel_lists` | 1 history with no or 2 versions, 1 activity, pages of 1, 4 events | 1.00 million |
| `panel_jobs` | 1 version, 2 jobs, 2 passes, 3 events, 1 failure or wait given up | 0.30 million |

Why these bounds. Two captures and two slots fill the queue, and one can be
the predecessor of the other when it is quarantined. Three layouts tell equal
bytes, equal drawings and different drawings apart. Four coordinators are one for
each project before and after a window returns. Four versions are an anchor, a
plan of two files and a save that comes between; a window of three baselines has a
chain of two equal pairs and a version outside it; two jobs are an interrupted
import and its second run. Four preparations are three versions and a failure
between them, so a chain of two deltas, a repair in its middle and a save after
it; layouts share one index page and replace one piece at a time. Two handles
are one that holds the lease and one that wants it. A queue of one overflows at
the second event. Three rows are two keys and a third that meets a full
queue; the lane of two kinds of jobs has both that act on an editor. A late
window is one that a job did not hold. Two faults in `editor` and
`relocation` are a failure and one more in its rollback. Five requests of the
cache are a preview, both directions of a comparison, a download and an image.
Two passes are one that has overtaken the other.

A system that may stop is not checked for deadlock: where the number of
commands, jobs, requests or events is bounded, it comes to rest when they are
used up. `pipeline`, `history_order` and `repository` may always go on and are
checked for it.

Each of the larger modules has a type invariant. It is proved where there are
proofs, so the runs do not repeat it.

Of the captures (`CaptureSpool`, `CapturePipeline`):

- `PublishedOnceInOrder`: versions and references follow the order of reservation
  (`PublishedInOrder`), and a row is committed exactly when one version came from
  it and has its bytes (`ExactlyOnce`).
- `CopiesKept`: the bytes of an accepted copy stay until it has a version or the
  user discards it (`AcceptedKept`); never more copies than slots (`SlotBound`),
  and no file without a row that pays for it (`DiskAccounted`).
- `VersionsSound`: only automatic saves become references, and only to an equal
  drawing (`ElisionSound`); and a copy is never built on a version from elsewhere
  that it was not taken against (`NoForeignParent`).
- `ImplementsLedger`: threads, files and recovery implement `CaptureLedger`.
- `CapturesAnswered`: what is reserved ends organized, retained, or behind a
  retained copy, and a waiting save is answered, unless the user retries a failing
  copy for ever. One exception is in `Settled`: when `block()` fails during
  a named save, the save is answered and recording goes on with a `writing` row at
  the head, and the queue waits until that recording ends.

Of the list (`HistoryOrder`):

- `VersionsPlaced`: every version is in the list (`EveryVersionRead`), at a place
  of its own (`PlacesDistinct`), behind the version that its change record was made
  against (`ParentsPrecede`); a hidden baseline has a later visible one with the
  same drawing (`HiddenHasTwin`).
- `PlansKept`: an import neither repeats nor skips a file (`ImportedOnce`), its
  files stand in the confirmed order before the anchor (`PlanInOrder`), the plan
  says what is so (`PlanTrue`), and a request to cancel is not overwritten.
- `OrderKept`: no version overtakes another, and only a save makes a new head
  (`HeadMovesBySave`); the captures that wait in the queue are compared with it.
- `ListConsistent`: what a client has loaded, page by page, is the list as it
  is, each version once.

Of the store (`Repository`):

- `VersionsRestorable`: every committed version has all its rows, their packs
  are in place and agree with them, and chains lead to full objects, whatever
  failed or crashed or was repaired.
- `NothingLeftOver`: an open snapshot's files are its lease holder's, a lease
  taken for one snapshot ends with it (`LeaseWithSnapshot`), and at most one
  failed save has files left over (`LeftoversBounded`).
- `NeverMadeUnreadable`: no step of the program makes an object unreadable, and
  what a save has stored or read back can be read when it is committed; after a
  rescue this is the whole version. A piece that is reused in an ordinary save
  is not read back, and not promised.
- `RebuildRestores`: an intact set of packs is enough to rebuild an index that
  restores every version.

Of compression (`Compression`):

- `SharesKept`: what the scheduler has given out is what running batches hold,
  within the processors and the memory there are, and no batch uses more threads
  than it was given, however saves end (`BudgetKept`); and the scheduler learns
  only from batches that were alone from beginning to end (`SamplesAlone`).
- `RecordsTrue`: the records of a save are the new objects of its layout, each
  once, in order, with the encoding of that object, and no more of them are in
  memory than the quota allows.

Of the documents (`DocumentClaims`):

- `OneEach`: two recorders never write one history, whatever windows do and
  however long drains take (`OneWriterPerHistory`, which rests on the lease alone);
  and a document has one recorder across projects and windows, until a window
  returns (`OneRecorderUntilReturn`, which rests on the claims).
- `NothingLeftUntilHang`: every claim and lease belongs to a coordinator that
  will release it or to a recorder that runs, until a drain reaches its limit.
- `TakesOver`: what some window goes on showing, to a project that may record
  it, is recorded in the end and for good, unless a drain reaches its limit.

The conditions look at the state of the run, not at its bounds: in the same
run windows do return and drains do hang.

Of the recorder (`Observer`):

- `EditsKept`: with durable saves, while the recorder runs and nothing has
  failed, an edit that no save has is in the dirty mark, in the count of lost
  events or in the queue (`NothingForgotten`); and such a recording that ends
  without an error, and in which nothing failed, has saved every edit heard
  before the queue was shut (`CleanStop`).
- `CommandsTrue`: a command put before the recorder rejects what waits is
  answered, whatever fails (`PromptAnswered`). A named save answered with success
  has every edit heard when it was asked for, also when saves are cancelled; when an
  agent is told to go ahead, the user's edits heard when it asked are saved, with
  durable saves, unless an event was dropped or something failed (`AnswersCover`).
- `EditsSettle`: every edit is saved at last, or the recording ends, is
  cancelled or fails, or a direct save met a full queue.

Of the requests (`WindowRequests`):

- `QuietWhileNavigating`: while an editor is navigated or a history moved or
  imported into, no held window has a recorder, and none lost edits when its
  recorder ended.
- `PausesKept`: a pause that succeeded sticks until somebody resumes, as long as
  no coordinator works with another copy of the row (`PauseSticks`); and a window
  is held for the job of the lane only, as long as no client gives up
  (`HeldForSomeone`).
- `ClientsAnswered`: every request is answered although threads wait for
  recorders, commands and each other.

Of the editor (`EditorBackend`):

- `AnswersTrue`: a receipt is of the document and cell that were asked for, unless
  the user left them and came back, which the adapter declares undetectable; and a
  call that is told not to have started, or to have failed, is not under way any
  more, so that its file can be removed.
- `OldKept`: what the working file held is in it or beside it until the history
  has the restored version, wherever the job fails or the service dies.

Of skills (`Skills`):

- `RefinedOnce`: a call of an agent makes one skill, however often it is repeated
  after lost answers; and the evidence of a skill is the interval that its client
  saw, although it came page by page while the history changed.
- `RevisionsTrue`: every revision was made by one who had read the revision before
  it, reports are about the body they stand with, an outline is never published,
  and an export holds the revision that was asked for.
- `PendingListed`: who walks through the pending requests sees every one that was
  pending all the time, and none twice.

Of the jobs (`Jobs`):

- `ActsOncePerKey`: a request key acts at most once, over retries, restarts and
  failures of the catalog.
- `StatusTruthful`: success means that it happened; a job on an editor that counts
  as not run, interrupted or (unless it is a restore) failed did not touch it.
- `JobsEnd`: every job ends for good, in this run of the service or the next.

Of a move (`Relocation`):

- `NothingLost`: the folder that the catalog names has every version and label
  that was acknowledged, at every moment; something goes astray only where a
  removal failed or the project returns to a folder it left.
- `OneCopy`: a move that ended leaves one copy of each history, unless it crashed
  or a removal failed, so that another is not refused by its remains.

Of results (`ResultCache`):

- `ResultsTrue`: what a client is sent is all of the result, and of the versions
  it asked for in their order.
- `CacheEmpties`: nothing that jobs, failures and crashes leave escapes the sweep.

Of the page (`PanelLists`, `PanelJobs`):

- `PageTrue`: what is shown is a run of one list without a gap or a repetition,
  and the cursor continues exactly there, also where there is no scope because a
  cursor of an earlier view was used or an import has ended; an empty list with a scope
  has no cursor (`ShownGapless`). The details are those of the selected version
  (`DetailOfSelected`). It is not said that the run begins with the newest version:
  it does not where an earlier view's cursor was used, until the poll is answered.
- `PageSettles`: when nothing happens any more, the page shows the newest versions
  of its document and filter, and the details of the selection.
- `ActionsTold`: a button has one request at most (`OneRequestEach`), and the
  outcome of every job that a button started is announced (`OutcomeTold`).
- `PreviewSettles`: what is shown of a version that stays selected does not load
  for ever, and fails only if something failed or the page had given up.

### Disagreements between code and documentation

Where a model has a condition or a bound for it, TLC found the case when that
was left out; the others were met while modelling.

`upgrade_storage` (`store.py:311`) says that an old process which still holds
a handle "writes valid v1 checkpoints, which the new program reads", and
`tests/test_storage_v2.py:407` checks it for a history without a timeline.
Once there was an import, `_checkpoint_locked` still inserts only into
`checkpoints`; the version has no timeline row. It can be fetched by its
identifier, but `history()`, `page()` and `head()` do not see it, and the next
save has another parent. It appears in the list when something calls `ensure`
again. With `StaleUnderOrder = TRUE` it breaks `EveryVersionRead` in three
versions; in the run such a handle is closed before the first import, and may
write between the upgrade and that.

`rebuild_index` (`recovery.py:79`) promises to "copy surviving metadata/packs
and rebuild object rows, with a verification report", and `scan_pack`
(`packs.py:151`) to yield "every well-formed record" up to the first bad one.
But `scan_pack` reports that record by an exception that `rebuild_index` does
not catch: one damaged record in one pack ends it, its transaction is rolled
back, and the destination has neither rebuilt rows nor a report, as
two versions show. A history without damage is
rebuilt (`RebuildRestores`).

`_start_recorder` (`coordinator.py:403`) states that "one document has ONE
recorder at a time across all projects and all windows". `claim` grants a
document again to the same owner, and the owner string of a coordinator is its
project and editor instance. A window that goes offline, because its registry
record was stale, and comes back while its coordinator drains gets a second one
with the same string. The second is granted the claim of the first, fails at
the lease, and releases the claim; or the first releases it when it ends.
Then the coordinator of another project on that window may claim the untitled
document and record it beside the first. Both
write histories of their own (`OneWriterPerHistory`).

`navigation_hold` (`coordinator.py:271`) must not proceed if the tail could not be
saved. It goes by `last_end_error`, which is set when the recording ended with an
error and its `tail_unsaved`. `consume` takes an event and then writes it, and
`check_overflow` the count before its event; when the write fails the edit is in
neither place that `tail_unsaved` looks at. One edit and one
failing step show it.

`_run` of an import (`service/legacy_imports.py:264`) writes the plan when a file has
failed, with its new status, and again at its end, with the plan that it still
holds. The user may resume it in between. The last write then puts the old
`active_job_id` back: when the new job runs, the plan reads "paused", and can
be run a third time or removed while its files are imported, although requests
are to be refused with "The import is running." and "Cancel and wait for the
import before removing its plan." What the history has is right all the same
(`ImportedOnce`, `PlanInOrder`); `PlanTrue` excepts this case: it speaks of a job
that the plan names. A plan that a crash
left "ready" without a job can be run but not removed.

`open_snapshot` (`vestigraph_backends/vesti_backend_klayout/adapter.py:414`) shows
a file and then looks for it in the list of tabs. If the deadline passes before
that second call, or the list is ambiguous, the error has the outcome
"not_started" and the job ends with `OPEN_FAILED`, though the file is open. A
comment at `adapter.py:374` says that a deadline "AFTER dispatch must not claim no
action ran", and one at `protocol.py:223` that "unknown" is the honest answer.
`AnswersTrue` asks only that nothing is still under way.

`_restore_checkpoint` (`service/application.py:1076`) puts the old file back when the
history could not be written. If this rename fails, its `finally` unlinks the
copy beside it, and the old content is lost (`stuck` in `OldKept`). It may also put
the old file back after the version of the restore is in the history, and a
file that the user saves between the copy and the replacement is lost.

`_check_writer_target` (`store.py:354`) keeps "a handle constructed before
relocation" from recreating a history that was moved. It looks for the database
file: where the removal of the old folder failed, or the project has moved back,
there is one, and the handle writes a version to a folder that the catalog does
not name, or no longer named when the handle was made (`returned`, `untidy` in
`NothingLost`). A crash while a history is copied leaves a part of it, and the same
move is then refused as a conflict.

`job_asset` (`service/application.py:1124`) promises "410 when expired". The first
request is answered so, and clears the path of the result; the next one is answered
409, "The task has no result file yet."

In `app.js`: `waitForJob` (1389) gives up on a job and says that a poll will "settle
this entry for real"; when the poll was quicker than the call, the entry is marked
failed afterwards and nothing settles it. The buttons that a render also
computes "go through beginPending/endPending" (1802), but `storage-browse` does
not: a poll enables it while its request is under way; `OneRequestEach` is of
those that do. A lost job is announced once more by each pass that has asked for
it.

### What the conditions of the properties leave out

Some properties hold under a condition that the code does not state. What
happens without it, each found with TLC by leaving the condition out:

- `NothingLeftUntilHang`: `_stop_recorder` (`coordinator.py:646`) leaves a hung
  recorder to "the next step". When that drain is the last one, in the `finally`
  of `_loop`, there is no next step: the recorder ends later, nobody calls
  `_recorder_ended`, and claim and lease stay until the process ends.
- `EditsKept`, `EditsSettle`, direct saves: such a save calls
  `check_overflow` again after its commit (`capture_runtime.py:463`); the mark that
  it sets for events dropped meanwhile is cleared by the caller (755-758).
- `EditsKept` (`CleanStop`): an edit that cannot be parsed ends the recording when the loop takes
  it, but only the command when `prepare_edit` does; the later stop is clean.
- `CommandsTrue` (`AnswersCover`), agents: a dropped event marks the layout dirty, but not as the
  user's; with an operation of an agent pending, `prepare_edit` answers without a
  save. With direct saves a cancelled named save clears `manual_dirty` (817) and
  leaves `dirty`; the service cancels saves only of histories that it saves durably.
- `CommandsTrue` (`PromptAnswered`): a sender that found the recorder's thread alive may put its
  command after `_reject_commands`, and waits for its time limit.
- `PausesKept`: a hold whose client gave up is handled all the same, and nobody
  releases the window (`coordinator.py:262`); and a policy that was read before a pause
  reaches a coordinator after it, or a scan makes a coordinator from a row that
  it read before, so that a recorder starts in a paused project.
- `StatusTruthful`: a restore that ends "failed" may have replaced the file, when a
  later step of it raised (`jobs.py:143`).
- `AnswersTrue`: switching away and back between two looks is not seen, and the
  adapter says so in its receipts.
- `OneCopy`: see the move above.

### Fairness

`pipeline`: `WF` of the organizer, of the recorder and of the sweep's
acquisition. The organizer is a thread with a 0.2 s wake-up; the recorder's calls
end because RPC has timeouts and `drain` polls every 0.1 s; the sweep runs every two
seconds. `ExportRejected` and `OrgBlock` are alternatives of fair steps, so
liveness does not assume that exports or publications succeed.

`claims`: `WF` of every coordinator's thread and every recorder, whose waits are
bounded (`wake.wait(delay)`); of `Join` and `SessionGone`, since the supervisor
polls every three seconds. An action of a coordinator at a time is enabled until it
is taken, so weak fairness of their disjunction is fairness of each. A hang is a
fault: a recorder that was told to stop ends, and the one whose drain reached its
limit ends too, later.

`observer`: `WF` of the recorder's thread, and `SF` of `AutoSave`: a layout
that stays dirty is found quiet for `idle_seconds`, or dirty for `max_interval`,
in some later pass, because the editor's events are finitely many.

`windows`: `WF` of the job, of each coordinator's thread, and of the recorders,
which begin and, when told to stop, end: their calls have time limits.
Nobody is obliged to time out.

`jobs`: `WF` of each worker, of the orderly stop, and of `Start`: a service that
is down is started again by the next command or login. Handlers end because
what they call has time limits.

`result_cache`: `WF` of the jobs, of ageing, and of the sweep, which a loop in
`web/` runs.

`panel_lists`, `panel_jobs`: `WF` of the timer that polls, of answers to requests,
and of the jobs of the service. A pass asks for each job in turn, so asking is fair
for each. A request may fail instead of being answered, at most as often as the bound.

Users, editors, other writers and faults are nowhere fair: no liveness property
may depend on them.

## What is proved

For every value of the constants, under the assumption each module names.

| module | theorem | property |
| --- | --- | --- |
| `CapturePipelineProofs` | `Inductive`, `TypeCorrect` | `TypeOK` |
| | `PublicationOnceInOrder` | `PublishedOnceInOrder` |
| | `ContextInductive`, `VersionsAreSound` | `VersionsSound` |
| | `CopiesAreKept` | `CopiesKept` |
| | `CompletedStaysCompleted` | `CompletedForGood` |
| | `LedgerInductive`, `RefinesLedger` | `ImplementsLedger` |
| `RepositoryProofs` | `Inductive`, `TypeCorrect` | `TypeOK` |
| | `Restorable` | `VersionsRestorable` |
| | `NothingStaysBehind` | `NothingLeftOver` |
| | `ReadableKept` | `NeverMadeUnreadable` |
| | `RebuildingRestores` | `RebuildRestores` |
| | `OrderTypeCorrect` | `OrderTypeOK` |
| | `VersionsStayPlaced` | `VersionsPlaced` |
| | `OrderIsKept` | `OrderKept` |
| | `PlansAreKept` | `PlansKept` |
| | `ListIsConsistent` | `ListConsistent` |
| `DocumentClaimsProofs` | `Inductive`, `TypeCorrect` | `TypeOK` |
| | `OneOfEach` | `OneEach` |
| | `GivenBack` | `NothingLeftUntilHang` |
| `ObserverProofs` | `TypeCorrect` | `TypeOK` |
| | `CommandsAreTrue` | `CommandsTrue` |
| | `EditsAreKept` | `EditsKept` |
| `JobsProofs` | `Inductive`, `TypeCorrect` | `TypeOK` |
| | `KeysActOnce` | `ActsOncePerKey` |
| | `RowsTellTheTruth` | `StatusTruthful` |
| | `CacheTypeCorrect` | `CacheTypeOK` |
| | `ResultsAreTrue` | `ResultsTrue` |
| `EditorBackendProofs` | `Inductive`, `TypeCorrect` | `TypeOK` |
| | `ReceiptsAreTrue` | `AnswersTrue` |
| | `OldLayoutIsKept` | `OldKept` |
| | `LibraryAlways`, `LibraryTypeCorrect` | `LibraryTypeOK` |
| | `SkillsAreRefinedOnce` | `RefinedOnce` |
| | `RevisionsAreTrue` | `RevisionsTrue` |
| | `PendingIsListed` | `PendingListed` |
| | `CompressionAlways`, `CompressionTypeCorrect` | `CompressionTypeOK` |
| | `SharesAreKept` | `SharesKept` |
| | `RecordsAreTrue` | `RecordsTrue` |
| `WindowRequestsProofs` | `Inductive`, `TypeCorrect` | `TypeOK` |
| | `NavigationIsQuiet` | `QuietWhileNavigating` |
| | `PausesAreKept` | `PausesKept` |
| `RelocationProofs` | `Inductive`, `TypeCorrect` | `TypeOK` |
| | `NothingIsLost` | `NothingLost` |
| | `OneCopyRemains` | `OneCopy` |

None of these is inductive alone.

**Captures.** From `SpoolAssumption` (layouts are distinct from the null values, the
queue has at least one slot) and `PipelineAssumption` (bounds are natural numbers).
`SpoolInv` adds what the transactions rely on.
*Order*: everything completed lies below everything pending, completed rows refer
to versions that exist, in order. Since only the oldest pending row is ever
completed, and with the newest version, order is kept. *Storage*: a row that is
written has a reservation and no digest; every file that is not given up is paid
for. Most transactions complete nothing, and lemmas `KeepsOrder` and
`KeepsStorage` treat them together; the acceptance, the acknowledgement, the
publication and the foreign version are argued about one by one. `PipelineInv`
adds what the threads know between two transactions: the recorder's row is being
written, its bytes are a layout once the export has ended and equal the probed
version's when the comparison said so; the organizer's row is processing until it
is published, and the head is the prepared parent until then; rows to be released
are completed and have no file. There is one lemma per action. The transactions
keep `SpoolInv` whoever runs them, so the user's requests need only the observation
that they touch rows nobody works on.

`NoForeignParent` needs a second invariant, `Context`. The captures were taken one
after the other, so the heads they name grow with them (`ExpectGrows`) and
predecessors are older (`PredBelow`); and what is completed has counted the foreign
versions below its own among those it was taken after (`ForeignBelow`). What
`validate_capture` computes by following predecessors is a recursive function;
that its equation has a solution is shown by a least ordinal at which it had
none (`HeadFunction`), and that a capture it accepts has met no foreign version
since it was taken (`ValidIsCurrent`) in the same way. Acceptance of a repetition
and publication go through the second.

The refinement has a third, `LedgerInv`. The ledger lets only the oldest accepted
copy leave and only a newer one enter; so only the head of the queue may be
organized, blocked, or discarded by the user (`Turns`), and what is accepted, by the
recorder or by recovery because it finds a receipt, is the newest row: a receipt
stands beside the newest row only, and then nothing is reserved before the row is
accepted or recovered (`Vouched`). Each step is then an entry of the ledger
or leaves it alone: `CommitAcceptance`, and the recovery of a row with a receipt, is
`Accept` or `AcceptRepeated`; `OrgCommit` is `Publish`; `OrgRawDuplicate` and
`OrgSkip` are `Elide`; `UserDiscard` of a blocked copy is `Drop`;
`ForeignCheckpoint` is `Foreign`; and reservations, exports, retries, cleaning up,
crashes and every failure stutter.

**The store.** From `RepositoryAssumption` (null values are distinct, deltas have a
depth of at least one, bounds are natural numbers). `IInv` adds: *Lease*, a free
lease is nobody's for long. *Identifiers*: one that was not given out has no file,
rows point to packs of the table, and those are in place; so cleaning up touches
nothing a row needs. *Leftovers*: a preparation starts without any, so when it
publishes its pack there is no other pack without rows. *Records*: between scan and
commit, what is stored covers the source, a delta has a base with a row of smaller
depth, and repairs are full; rows cannot change in between, because the snapshot
has the lease. From the last, `CommitRows` keeps every chain: an inserted row
leads to a row, and a repaired one only gets shallower, so the deltas on top of it
still descend.

What is readable is a recursive function of the depth. That its equation has a
solution is shown by a least depth at which it had none (`LevelFunction`); what
can be read is then what has a whole record, full or against a base that can be
read and is nearer to a full one (`ReadsWhat`), and it stays readable when
records that rows point to stay, and rows stay or become full (`StayReadable`, by a
least depth again). Actions that leave rows and packs alone follow from that.
`CommitRows` needs to know what the scan has found out (`FoundInv`): pieces it
stores again are those that could not be read, and unless something was damaged
since, the others and the bases of what it stored can be. For the rebuild, deltas in
packs, in quarantine too, have bases that are nearer to a full record in some
surviving pack (`Descends`), so the shallowest copies of all objects read each other.

**The list.** From `OrderAssumption` and the hypothesis that no stale handle
writes format 1 beside a timeline (`~StaleUnderOrder`): with such a handle the
properties are false, see the disagreements. `OrderInv` has a part for each table.
*Places* (`PlaceInv`): with a timeline the stored versions, and nothing else, have
places among the first as many numbers, each its own. `ListAppended`,
`ListInserted` and `ListReconciled` say what the three kinds of writes do to
them; each keeps the order of what was there (`Preserved`) and the newest listed
version, or adds a new one behind all. *Hidden* (`HiddenInv`): a version is hidden
for the next ordinal, of the same content, which stands behind it and may be
hidden for its own next; the last of such a chain is shown (`TwinShown`, by the
greatest ordinal). *Items* (`ItemInv`): what is imported is stored, in front of its anchor, in the order
of the plan. *Plans and the job* (`PlanInv`, `JobInv`): the file says no more than the
history has, and neither does the copy that the job will write back, whatever the
requests have written in between (`CopyOk`); the running job has imported what is
before its item, and is the job the plan names unless a later one was asked for.
An import that is interrupted after its commit and run again finds its mark. The
attempt to prove `PlanTrue` in an earlier form, without the job's name, failed for the case described
under the disagreements, which needs three jobs of a plan.

For the pages, `ReaderInv` says that as long as the revision is the one the list
began with, the client has seen exactly what is listed from its cursor up to where it
began. A page is the listed versions under the cursor in descending order, as
many as fit (`NewestFirstIs`: ranks are a bijection); what a writer
changes between two pages without a new revision, a save, stands above the
list's upper end (`SeenStays`).

**Documents.** From `EligibleAssumption`, `BoundsAssumption` and `NoneAssumption`.
`IInv` says of every coordinator which fields are set, and that one which has a
recorder, is about to start one or has just lost one holds the lease of its
history; two with the same history would be one holder. Windows that have not
returned give coordinators in different projects or windows different owners: of
two with the same owner one has left the table, and its window is offline for
good, so only one was ever made (`TableInv`, `OwnersDiffer`). Then a claim has one
holder and nobody releases another's (`ClaimInv`). For `GivenBack`, a thread ends
only without a recorder (`NoOrphan`), so a coordinator between claim and release
goes on to its release. `returns` and `hangs` only grow (`Monotone`), so each
invariant is kept as long as its condition holds.

**The recorder.** From `ObserverAssumption` (a queue of at least one, bounds are natural
numbers). `AnswerInv`: a command put in time is in the queue or being served, and
the recorder serves one only while it flushes or saves for it. `CommandInv` and
`ManualInv`: the copy that is stored for a command was exported after it was put,
and an edit of the user that no save has is marked as the user's or waits in the
queue, so an agent is not told to go ahead before it. `CleanInv`: between
the export and its settlement, what the copy lacks is in the queue or counted as
lost, so clearing the marks forgets nothing; from `Finish` on the cutoff is what
was heard, the count is folded, the queue shrinks to nothing, and what remains is
the mark, which the tail save clears. All this is kept until something fails
(`FaultsStay`).

**Jobs.** From `JobsAssumption` (lanes of requests and workers are given, the set of
workers is finite, bounds are natural numbers). A key has one row, since `Submit`
looks and inserts in one transaction; and a job is in one place at most: once in
one queue, with one worker, or among the outcomes that wait. So nobody else writes
its row while a worker has it, and it acts once. What the row may say next
follows from where it is: one that waits has not acted, one whose worker is past
the act has, and an outcome that is kept for later says the same as one that could
be written.

**Results.** From `ResultCacheAssumption`. `CacheInv` says of every finished file that
it is whole and of the versions its folder is named for, or, in a download's own
folder, of those that the job was asked for (`FileTrue`), and that no client was promised an
image. A step of a job keeps it if the files it leaves are true (`CacheKept`), the
sweep and time because they only remove (`CacheShrinks`). The folder that a client is
sent from is named for what it asked, so whatever is in it by now is right, also when
it was swept and made again in between.

**The editor.** From `EditorAssumption`. A reference names one identity and an
identity has one reference, a scan keeps both (`ScanKeeps`), and between the two
looks of an operation its reference names what it was bound to. So what the editor
read in between was that document and cell, or the user acted both before and
after it did, which is what `before` and `after` say. An operation that ends as failed or not started has had the editor's
answer or has asked for nothing, so it leaves nothing behind. `FileInv` says what
is in the working file, the staged file and the copy at each place of the job.

**Skills.** From `SkillsAssumption` (pages are not empty). `LibraryInv` has a part
for each table and one for what each client has in mind. `Seen`: while the revision
of the history is the one a client began its list with, versions were only
appended, and its view is what is shown from its cursor up to some place, in the
order of places. The next page adds the newest places below the cursor, which
are again an interval, so the two views are one (`VersionsJoin`); a choice of two of
its items has in between what is shown between their places (`VersionsBetween`),
which is what `Collect` reads (`Chosen`), or it is refused. That lists are in order
rests on the rank of a number in a finite set, which is a bijection onto the
first numbers (`NthFacts`). `RevisionsGood`: revisions are only appended, by
one who has found that the revision it read is the last, so a report, a job, an
editor and an export go on naming what they named. `Walked`: a page of pending
requests ends at its least number, what is pending and below is still to come, and
no skill begins to wait again.

**Compression.** From `CompressionAssumption`: the saves are finitely many, sizes and
memory are numbers, and the processors, the size of a batch, the lookahead and the
workers of a policy are at least one, as `parse_policy` and the constants of
`ObjectWriter` have it. `CompressionInv` has two parts for each save.
`ShareOK`: a save has a share exactly from `Reserve` to `Release`, of one worker at
least, and at most so many threads. A share of no workers would let a second batch
come without a new epoch, and a sample that was not alone be learnt; TLC does not
reach that, and the induction needs it said. A batch that learns in the last epoch is
alone, because whoever joins begins an epoch (`NoLongerAlone`).
`RecordFor`: what is wanted of the stream up to `seen` is the records that are written,
then the tasks in flight, in the order in which they were submitted, then the rest of
`todo`; so it does not matter in which order tasks end, only that the first is taken
first. The next batch is what the places after `seen` add to it (`NewSplits`,
`AtPlacesJoin`). `SharesAdd`: what is given out is what is held, where a sum is the
number of its units (`Total` in `Counting`), so that a share that comes or goes changes
it by itself (`TotalChanges`) and no induction is needed.

**Requests to windows.** From `WindowsAssumption`. The job of the lane is the only
client that holds and releases. At most one of its requests is on its way, to
the window it waits for, and nothing behind it holds, releases or pauses
(`InboxOf`, `ThreadOf`); so what a client that gave up left in an inbox is handled
before the hold that is answered, and nothing undoes the hold until the job frees the
window (`HoldInv`, `HeldInv`). A pause in a coordinator's copy of the row, with a
recorder that has ended or was told to, stays (`PauseInv`), as long as no policy or scan
brings another copy.

**A move.** From `RelocationAssumption`. `Shape`: the histories that move are those of
one folder, all leased before the first is copied, and the catalog has them all
in one of the two folders. `Verified`: the log of a folder that is copied stays
empty, so a copy that was verified has what its original has, whoever writes to the
copy. `Writing`: who writes where the catalog does not point came back to a
folder the project had left, or found remains there. `Elsewhere`: while nothing
was left over, a second copy is one that the move under way has made or has still
to remove. The rollback and the removal only touch what these parts say is
a second copy.

TLC found these properties, and the inductive invariants on the instances of the
runs, to hold before they were proved.

Only model-checked:

- What is said of the page (`PanelLists`, `PanelJobs`). `PanelLists` filters and
  merges lists with `SelectSeq`, which is recursive: what it returns is an
  induction over data.
- All liveness (`CapturesAnswered`, `TakesOver`, `EditsSettle`, `ClientsAnswered`,
  `JobsEnd`, `CacheEmpties`, `PageSettles`, `OutcomeTold`, `PreviewSettles`): fairness
  and ENABLED are outside the prover's reach.

## Not modelled

- Bytes: sizes, `max_bytes`, free disk space, an exporter that goes on writing
  after its timeout, reconciliation of files without a row.
- In `Compression`, how long anything takes and the cost that is computed from it.
- In `Skills`, the words of instructions and explanations, what a validation finds,
  and the format of an export.
- The recorder's segments, the events it writes and the evidence they are read as,
  and the times that decide when a dirty layout is saved; status reports and the
  back-off of coordinators. `CapturePipeline` sees one command at a time,
  `Observer` any number.
- In `CapturePipeline`, preparing and encoding a snapshot: `OrgPrepare` reads the
  parent and the commit compares it; packs, work files and their orphans are in
  `Repository`.
- In `Repository`, loose objects of format 1, damaged rows, and errors of the file
  system that are reported rather than repaired.
- In `CaptureSpool`, reordered histories: versions are only appended.
  `HistoryOrder` shows that imports and collapses leave the head alone, which
  is all the queue looks at.
- In `DocumentClaims`, the rows of the capture runs, projects that are added or
  removed, the orderly stop of the service.
- The companion inside the editor, malformed answers from it, and the files it
  writes events to. An adapter binds host and port when it connects, and not the
  session that was resolved when the job began; here a window keeps both.
- The drawing of a preview, routing and authentication; what a view of the catalog
  shows; annotations other than the labels a move waits for.
- Comparison, evidence and summaries, layout formats and codecs, the native
  scanner: functions of bytes that do not change. The command line: input and output
  over the operations above.

## What remains

1. Theorems of `PanelJobs` (`OneRequestEach`).
2. The composition of `CapturePipeline` with `Repository`, whose `CommitRows` is
   its publication.
3. A module for the bytes of the queue: reservations cover what is on disk, but
   for late writes.
