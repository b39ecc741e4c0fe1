-------------------------- MODULE CapturePipeline --------------------------
(***************************************************************************)
(* The threads around the capture queue of one history: the recorder,      *)
(* which exports layouts and waits for the ones it must not leave behind;  *)
(* the organizer, which turns accepted copies into checkpoints one at a    *)
(* time; the recovery sweep, which does the same when nothing records; the *)
(* user, who retries and discards; and any other writer of the history     *)
(* while the writer lease is free.  The service may crash at every step.   *)
(*                                                                         *)
(* Sources: capture_pipeline.py, the durable half of capture_runtime.py,   *)
(* service/capture_recovery.py and the retry and discard operations of     *)
(* service/application.py.                                                 *)
(***************************************************************************)
EXTENDS CaptureSpool

CONSTANTS
  MaxForeign,    \* bound: versions written past the queue
  MaxFaults      \* bound: crashes, cancellations and failed calls

ASSUME PipelineAssumption == MaxForeign \in Nat /\ MaxFaults \in Nat

VARIABLES
  owner,         \* who holds the writer lease in this service
  rec,           \* the lease owner's main thread
  org,           \* the organizer
  cancel,        \* the one-shot cancel event of the user
  faults         \* faults so far

vars == <<spoolVars, owner, rec, org, cancel, faults>>

RecPCs == {"off", "recovering", "barrier", "recording", "reserved",
           "exporting", "exported", "hashed", "verified", "elided",
           "awaiting", "finishing", "organizing", "closing"}
OrgPCs == {"idle", "marked", "prepared", "published", "unlinked", "dead"}

\* Why a save is taken.  Only automatic saves do not wait for their version;
\* only commands survive a failed save.
Modes == {"auto", "command", "baseline", "tail"}

Recorder == [pc : RecPCs,
             item : 0..MaxCaptures,      \* the capture being taken
             source : Sources,
             mode : Modes,
             probe : Nat]                \* checkpoint found equal, or 0
Organizer == [pc : OrgPCs, item : 0..MaxCaptures, parent : Nat,
              clean : SUBSET Ordinals]   \* completed rows being removed

RecOff == [pc |-> "off", item |-> 0, source |-> "auto", mode |-> "auto",
           probe |-> 0]
OrgIdle == [pc |-> "idle", item |-> 0, parent |-> 0, clean |-> {}]

TypeOK ==
  /\ SpoolTypeOK
  /\ owner \in {"none", "recorder", "recovery"}
  /\ rec \in Recorder
  /\ org \in Organizer
  /\ cancel \in BOOLEAN
  /\ faults \in 0..MaxFaults

\* Nothing was ever recorded, or a recorder that has its baseline records.
Init ==
  /\ SpoolInit
  /\ \/ history = <<>> /\ owner = "none" /\ rec = RecOff
     \/ history # <<>> /\ owner = "recorder" /\ rec = [RecOff EXCEPT !.pc = "recording"]
  /\ org = OrgIdle
  /\ cancel = FALSE
  /\ faults = 0

---------------------------------------------------------------------------
Fault == faults < MaxFaults /\ faults' = faults + 1
RecGoto(pc) == rec' = [rec EXCEPT !.pc = pc]

\* drain(): the recorder holds a gate open while it waits.
Gated == rec.pc \in {"barrier", "awaiting", "finishing"}

Saving == rec.pc \in {"reserved", "exporting", "exported", "hashed", "verified"}

Stopping == rec.pc = "closing"

\* The organizer may take a copy: recovery is over and nobody closes it.
Organizing == owner # "none" /\ rec.pc \notin {"recovering", "closing", "off"}

\* Where a save leads once it is over, and once it has failed.
AfterSave == IF rec.mode = "tail" THEN "finishing" ELSE "recording"
AfterError == IF rec.mode = "command" THEN {"recording", "closing"}
              ELSE {"closing"}

Drained == Active = {} /\ org.pc = "idle"

\* The awaited capture is organized and the organizer is done with it.
Answered == /\ rec.pc = "awaiting"
            /\ row[rec.item].state \in Terminal
            /\ org.item # rec.item

\* A probe that accept() may come back with: equal raw bytes are always
\* noticed, equal drawings when the head's template can be compared.
Compares(o, probe) ==
  LET equal == row[o].source = "auto" /\ SameDrawing(file[o], HeadId) IN
  \/ probe = HeadId /\ equal
  \/ probe = 0 /\ ~(equal /\ history[HeadId].layout = file[o])

---------------------------------------------------------------------------
(* Lease owners come, recover and go.                                      *)

\* Faulty: interrupted organizations are not work.
RecoveryNeededReady == \E o \in Ordinals : row[o].state = "ready"

RecoveryNeeded ==
  \E o \in Ordinals : \/ row[o].state \in {"writing", "ready", "processing"}
                      \/ o \in Uncleaned

Acquire(kind) ==
  /\ owner = "none"
  /\ kind = "recorder" => ~HeadBlocked
  /\ kind = "recovery" => RecoveryNeeded
  /\ owner' = kind
  /\ RequeueInterrupted
  /\ rec' = [RecOff EXCEPT !.pc = "recovering"]
  /\ UNCHANGED <<org, cancel, faults>>

\* accept() or block() for the oldest writing row; accept compares again.
RecoverWriting ==
  /\ rec.pc = "recovering"
  /\ \E o \in Ordinals :
       /\ row[o].state = "writing"
       /\ \A p \in Ordinals : row[p].state = "writing" => o <= p
       /\ IF Verified(o)
          THEN \E probe \in {0, HeadId} :
                 Compares(o, probe) /\ CommitAcceptance(o, probe)
          ELSE Block(o)
  /\ UNCHANGED <<owner, rec, org, cancel, faults>>

FinishRecover ==
  /\ rec.pc = "recovering"
  /\ \A o \in Ordinals : row[o].state # "writing"
  /\ FinishRecovery
  /\ rec' = IF owner = "recorder"
            THEN [rec EXCEPT !.pc = "barrier", !.mode = "baseline"]
            ELSE [rec EXCEPT !.pc = "organizing"]
  /\ UNCHANGED <<owner, org, cancel, faults>>

\* The owner's thread raises and records nothing: the editor is gone, the
\* database is busy, block() fails too.  A verified export closes the
\* recorder; any other failed command may be answered, its row left behind.
OwnerFails ==
  /\ rec.pc \notin {"off", "closing"}
  /\ Fault
  /\ \E pc \in AfterError :
       /\ rec.pc = "verified" => pc = "closing"
       /\ RecGoto(pc)
  /\ UNCHANGED <<spoolVars, owner, org, cancel>>

\* close() joins the organizer before the lease is released.
Close ==
  /\ \/ rec.pc = "closing"
     \/ rec.pc = "organizing" /\ ~\E o \in Active : First(o) /\ row[o].state = "ready"
     \/ rec.pc = "finishing" /\ Drained
  /\ org.pc \in {"idle", "dead"}
  /\ owner' = "none"
  /\ rec' = RecOff
  /\ org' = OrgIdle
  /\ cancel' = FALSE
  /\ UNCHANGED <<spoolVars, faults>>

\* The lease goes with the process; a receipt being written may be torn.
Crash ==
  /\ owner # "none"
  /\ Fault
  /\ owner' = "none"
  /\ rec' = RecOff
  /\ org' = OrgIdle
  /\ cancel' = FALSE
  /\ IF rec.pc = "hashed"
     THEN receipt' \in {receipt, [receipt EXCEPT ![rec.item] = Torn]}
     ELSE UNCHANGED receipt
  /\ UNCHANGED <<row, count, file, history, asked>>

\* Another process checkpoints while the lease is free.
ForeignCheckpoint(l) ==
  /\ owner = "none"
  /\ Cardinality({k \in 1..HeadId : history[k].capture = 0}) < MaxForeign
  /\ history' = Append(history, [layout |-> l, capture |-> 0, parent |-> HeadId])
  /\ UNCHANGED <<row, count, file, receipt, asked, owner, rec, org, cancel, faults>>

---------------------------------------------------------------------------
(* The recorder: Observer._snapshot_durable and its callers.               *)

\* Named and baseline saves first wait for everything accepted before.
BeginBarrier(source) ==
  /\ rec.pc = "recording"
  /\ ~HeadBlocked /\ org.pc # "dead"
  /\ rec' = [rec EXCEPT !.pc = "barrier", !.source = source, !.mode = "command"]
  /\ UNCHANGED <<spoolVars, owner, org, cancel, faults>>

\* The mode of the save that may begin now: the tail is saved at most once.
Begins(mode) ==
  \/ rec.pc = "recording" /\ mode = "auto" /\ ~HeadBlocked /\ org.pc # "dead"
  \/ rec.pc = "barrier" /\ mode = rec.mode /\ Drained
  \/ rec.pc = "finishing" /\ mode = "tail" /\ rec.mode # "tail" /\ Drained

RecReserve(mode) ==
  /\ Begins(mode)
  /\ LET source == IF mode = "command" THEN rec.source ELSE "auto" IN
       /\ Reserve(source)
       /\ rec' = [pc |-> "reserved", item |-> count + 1, source |-> source,
                  mode |-> mode, probe |-> 0]
  /\ UNCHANGED <<owner, org, cancel, faults>>

\* SpoolFull: too many slots, too many bytes or too little disk.
RecDeferred(mode) ==
  /\ Begins(mode)
  /\ \E pc \in AfterError : RecGoto(pc)
  /\ UNCHANGED <<spoolVars, owner, org, cancel, faults>>

CreateFile ==
  /\ rec.pc = "reserved"
  /\ file' = [file EXCEPT ![rec.item] = Partial]
  /\ RecGoto("exporting")
  /\ UNCHANGED <<row, count, receipt, history, asked, owner, org, cancel, faults>>

Export(l) ==
  /\ rec.pc = "exporting"
  /\ file' = [file EXCEPT ![rec.item] = l]
  /\ RecGoto("exported")
  /\ UNCHANGED <<row, count, receipt, history, asked, owner, org, cancel, faults>>

\* A failed, timed-out or changing export is blocked; then the command is
\* answered or the recorder ends.
ExportRejected ==
  /\ rec.pc \in {"exporting", "exported"}
  /\ Block(rec.item)
  /\ \E pc \in AfterError : RecGoto(pc)
  /\ UNCHANGED <<owner, org, cancel, faults>>

\* accept() hashes the copy and compares it with the head.
Verify ==
  /\ rec.pc = "exported"
  /\ \E probe \in {0, HeadId} :
       /\ Compares(rec.item, probe)
       /\ rec' = [rec EXCEPT !.pc = "hashed", !.probe = probe]
  /\ UNCHANGED <<spoolVars, owner, org, cancel, faults>>

PersistReceipt ==
  /\ rec.pc = "hashed"
  /\ receipt' = [receipt EXCEPT ![rec.item] = file[rec.item]]
  /\ RecGoto("verified")
  /\ UNCHANGED <<row, count, file, history, asked, owner, org, cancel, faults>>

\* The receipt cannot be written: what there is of it stays.
ReceiptFails ==
  /\ rec.pc = "hashed"
  /\ Fault
  /\ row' = [row EXCEPT ![rec.item] = BlockedRow(rec.item)]
  /\ receipt' = [receipt EXCEPT ![rec.item] = Torn]
  /\ \E pc \in AfterError : RecGoto(pc)
  /\ UNCHANGED <<count, file, history, asked, owner, org, cancel>>

Accept ==
  /\ rec.pc = "verified"
  /\ CommitAcceptance(rec.item, rec.probe)
  /\ RecGoto(IF Elides(rec.item, rec.probe) THEN "elided"
             ELSE IF rec.mode = "auto" THEN "recording" ELSE "awaiting")
  /\ UNCHANGED <<owner, org, cancel, faults>>

\* accept() cleans up after an elision, under the lock the organizer's
\* cleanup holds; files that cannot be removed now are removed later.
CleanElided ==
  /\ rec.pc = "elided"
  /\ \/ org.pc # "unlinked" /\ CleanupDone /\ UNCHANGED faults
     \/ UNCHANGED spoolVars /\ Fault
  /\ RecGoto(AfterSave)
  /\ UNCHANGED <<owner, org, cancel>>

\* drain(item) returns the version.
AwaitDone ==
  /\ Answered
  /\ org.pc # "dead"
  /\ RecGoto(AfterSave)
  /\ UNCHANGED <<spoolVars, owner, org, cancel, faults>>

\* drain() raises rather than report retained work as done.
DrainRaises ==
  /\ Gated
  /\ \/ org.pc = "dead"
     \/ HeadStuck /\ ~Answered
     \/ rec.pc = "awaiting" /\ row[rec.item].state = "quarantined"
  /\ \E pc \in AfterError : RecGoto(pc)
  /\ UNCHANGED <<spoolVars, owner, org, cancel, faults>>

\* check_health() of the recording loop.
Unhealthy ==
  /\ rec.pc = "recording"
  /\ HeadBlocked \/ org.pc = "dead"
  /\ RecGoto("closing")
  /\ UNCHANGED <<spoolVars, owner, org, cancel, faults>>

BeginFinish ==
  /\ rec.pc = "recording"
  /\ rec' = [rec EXCEPT !.pc = "finishing", !.mode = "auto"]
  /\ UNCHANGED <<spoolVars, owner, org, cancel, faults>>

---------------------------------------------------------------------------
(* The organizer: CapturePipeline.process_one.                             *)

OrgTake ==
  /\ Organizing
  /\ org.pc = "idle"
  /\ \E o \in Active : /\ MarkProcessing(o)
                       /\ org' = [OrgIdle EXCEPT !.pc = "marked", !.item = o]
  /\ UNCHANGED <<owner, rec, cancel, faults>>

\* Bytes equal to the head's need no second scan.
RawDuplicate(o) ==
  /\ row[o].source = "auto"
  /\ HeadId > 0
  /\ file[o] = row[o].sha
  /\ history[HeadId].layout = row[o].sha

OrgRawDuplicate ==
  /\ org.pc = "marked"
  /\ RawDuplicate(org.item)
  /\ Acknowledge(org.item, HeadId)
  /\ org' = [org EXCEPT !.pc = "published"]
  /\ UNCHANGED <<owner, rec, cancel, faults>>

OrgPrepare ==
  /\ org.pc = "marked"
  /\ Valid(org.item)
  /\ file[org.item] = row[org.item].sha
  /\ ~RawDuplicate(org.item)
  /\ org' = [org EXCEPT !.pc = "prepared", !.parent = HeadId]
  /\ UNCHANGED <<spoolVars, owner, rec, cancel, faults>>

\* Faulty: named versions are elided too.
OrgSkipNamed ==
  /\ org.pc = "prepared"
  /\ SameDrawing(row[org.item].sha, org.parent)
  /\ Acknowledge(org.item, org.parent)
  /\ org' = [org EXCEPT !.pc = "published"]
  /\ UNCHANGED <<owner, rec, cancel, faults>>

\* Automatic saves of an unchanged drawing only acknowledge the head.
OrgSkip ==
  /\ org.pc = "prepared"
  /\ row[org.item].source = "auto"
  /\ SameDrawing(row[org.item].sha, org.parent)
  /\ Acknowledge(org.item, org.parent)
  /\ org' = [org EXCEPT !.pc = "published"]
  /\ UNCHANGED <<owner, rec, cancel, faults>>

OrgCommit ==
  /\ org.pc = "prepared"
  /\ Publish(org.item, org.parent)
  /\ org' = [org EXCEPT !.pc = "published"]
  /\ UNCHANGED <<owner, rec, cancel, faults>>

OrgUnlink ==
  /\ org.pc = "published"
  /\ Unlink(Uncleaned)
  /\ org' = [org EXCEPT !.pc = "unlinked", !.clean = Uncleaned]
  /\ UNCHANGED <<owner, rec, cancel, faults>>

OrgRelease ==
  /\ org.pc = "unlinked"
  /\ Release(org.clean)
  /\ org' = OrgIdle
  /\ cancel' = FALSE
  /\ UNCHANGED <<owner, rec, faults>>

\* A cleanup error never takes a publication back.
OrgCleanupFails ==
  /\ org.pc \in {"published", "unlinked"}
  /\ Fault
  /\ org' = OrgIdle
  /\ cancel' = FALSE
  /\ UNCHANGED <<spoolVars, owner, rec>>

\* Any error: a failed guard, unreadable bytes, a full disk, or a version
\* that cannot be read back.  The recovery sweep stops at the first one.
OrgBlock ==
  /\ org.pc \in {"marked", "prepared", "published"}
  /\ Block(org.item)
  /\ org' = OrgIdle
  /\ cancel' = FALSE
  /\ rec' = IF owner = "recovery" THEN [rec EXCEPT !.pc = "closing"] ELSE rec
  /\ UNCHANGED <<owner, faults>>

\* The encoder polls _Cancel: shutdown always, the user's cancel only while
\* nothing waits at a gate.
OrgCancelled ==
  /\ org.pc = "marked"
  /\ Stopping \/ (cancel /\ ~Gated)
  /\ Retry(org.item)
  /\ org' = OrgIdle
  /\ cancel' = FALSE
  /\ UNCHANGED <<owner, rec, faults>>

\* The error could not be recorded either.
OrgDies ==
  /\ org.pc \in {"marked", "prepared"}
  /\ Fault
  /\ org' = [OrgIdle EXCEPT !.pc = "dead"]
  /\ cancel' = FALSE
  /\ rec' = IF owner = "recovery" THEN [rec EXCEPT !.pc = "closing"] ELSE rec
  /\ UNCHANGED <<spoolVars, owner>>

---------------------------------------------------------------------------
(* The user.  Retry and discard use the recorder's open history when there *)
(* is one, whatever its threads are doing, or take the lease for the call. *)

RequestCancel ==
  /\ owner = "recorder" /\ ~cancel
  /\ Fault
  /\ cancel' = TRUE
  /\ UNCHANGED <<spoolVars, owner, rec, org>>

UserRetry ==
  /\ owner # "recovery"
  /\ \E o \in Active : First(o) /\ row[o].state = "blocked" /\ Retry(o)
  /\ UNCHANGED <<owner, rec, org, cancel, faults>>

UserDiscard ==
  /\ owner # "recovery"
  /\ \E o \in Ordinals : Discard(o)
  /\ UNCHANGED <<owner, rec, org, cancel, faults>>

UserDiscardFails ==
  /\ owner # "recovery"
  /\ Fault
  /\ \E o \in Ordinals : DiscardRolledBack(o)
  /\ UNCHANGED <<owner, rec, org, cancel>>

---------------------------------------------------------------------------
OrgStep == \/ OrgTake \/ OrgRawDuplicate \/ OrgPrepare \/ OrgSkip \/ OrgCommit
           \/ OrgUnlink \/ OrgRelease \/ OrgCleanupFails \/ OrgBlock
           \/ OrgCancelled \/ OrgDies

RecStep == \/ RecoverWriting \/ FinishRecover \/ Close
           \/ CreateFile \/ (\E l \in Layouts : Export(l)) \/ ExportRejected
           \/ Verify \/ PersistReceipt \/ ReceiptFails \/ Accept \/ CleanElided
           \/ AwaitDone \/ DrainRaises \/ Unhealthy
           \/ (\E m \in Modes : rec.pc # "recording" /\ (RecReserve(m) \/ RecDeferred(m)))

Environment ==
  \/ Acquire("recorder") \/ Acquire("recovery") \/ OwnerFails \/ Crash
  \/ (\E l \in Layouts : ForeignCheckpoint(l))
  \/ (\E s \in Sources : BeginBarrier(s))
  \/ (rec.pc = "recording" /\ (RecReserve("auto") \/ RecDeferred("auto")))
  \/ BeginFinish
  \/ RequestCancel \/ UserRetry \/ UserDiscard \/ UserDiscardFails

Next == OrgStep \/ RecStep \/ Environment

Spec == Init /\ [][Next]_vars

\* The threads of the service run; what the user, other writers and faults
\* do is up to them.  Export ends because its RPC has a timeout, the sweep
\* returns every two seconds.
Fairness ==
  /\ WF_vars(OrgStep)
  /\ WF_vars(RecStep)
  /\ WF_vars(Acquire("recovery"))

FairSpec == Spec /\ Fairness

---------------------------------------------------------------------------
(* Steps.                                                                  *)

\* What was published or acknowledged stays so: no retry, block, recovery or
\* late error reopens a completed capture, and no version disappears.
CompletedForGood ==
  [][/\ \A o \in Ordinals : row[o].state \in Terminal =>
          row'[o].state = row[o].state /\ row'[o].ckpt = row[o].ckpt
     /\ HeadId <= Len(history') /\ SubSeq(history', 1, HeadId) = history]_vars

---------------------------------------------------------------------------
(* Liveness.                                                               *)

\* Nothing is under way: captures are organized, retained for the user, or
\* wait behind one that is.  The exception is a row left writing by a failed
\* command: the queue waits until that recording ends.
Settled ==
  \/ \A o \in Ordinals : row[o].state \notin {"writing", "ready", "processing"}
  \/ HeadBlocked
  \/ HeadStuck /\ rec.pc = "recording"

\* Every capture that was reserved ends, and every save that waits for its
\* version is answered, unless the user keeps retrying a copy that keeps
\* failing: again and again, nothing is under way and nobody waits.
CapturesAnswered == <>[][~UserRetry]_vars => []<>(Settled /\ ~Gated)

---------------------------------------------------------------------------
(* Refinement.                                                             *)

Ledger == INSTANCE CaptureLedger WITH
  content  <- [o \in Ordinals |-> row[o].sha],
  queue    <- {o \in Active : row[o].sha # NoLayout},
  versions <- [k \in 1..HeadId |-> history[k].layout],
  outcome  <- [o \in Ordinals |->
                 IF row[o].state = "quarantined" /\ row[o].sha # NoLayout
                 THEN -1 ELSE row[o].ckpt]

\* Threads, files, crashes and recovery implement the ledger.
ImplementsLedger == Ledger!Spec
===========================================================================
