----------------------------- MODULE Compression -----------------------------
(***************************************************************************)
(* How saves that run at the same time compress what they store: each      *)
(* collects objects into batches (ObjectWriter), waits for a share of the  *)
(* processors and the memory of the whole service (Scheduler), compresses  *)
(* the batch itself or with a pool of threads, writes the records in the   *)
(* order in which the objects came and gives its share back.  The          *)
(* scheduler learns how fast a number of workers is from batches that ran  *)
(* alone.  A save may be cancelled, and a codec may fail, at any time.     *)
(*                                                                         *)
(* Not here: what a record is and which base it has, objects that are read *)
(* back and repaired (both Repository), and how fast anything is: when     *)
(* every number of workers was measured, any of them may be the best.      *)
(***************************************************************************)
EXTENDS Counting, SequencesExt, FiniteSetsExt

CONSTANTS
  Saves,          \* saves that prepare a snapshot, each in a thread of its own
  Size,           \* a function from the objects there are to their sizes
  Streams,        \* sequences of objects that a save may have to store
  Stored,         \* objects that the history has
  Policies,       \* [mode, max]: VESTIGRAPH_COMPRESS_WORKERS, .._MAX_WORKERS
  CpuBudget, MemoryBudget,     \* of the service
  BatchItems, BatchBytes,      \* DEDUPE_BATCH, DEDUPE_BATCH_BYTES
  MinItems, MinBytes,          \* COMPRESS_MIN_PARALLEL, .._BYTES
  Lookahead, Quota,            \* COMPRESS_LOOKAHEAD_PER_WORKER, .._QUOTA_BYTES
  MaxCancels, MaxErrors        \* bounds

ASSUME CompressionAssumption ==
  /\ IsFiniteSet(Saves) /\ \A o \in DOMAIN Size : Size[o] \in Nat
  /\ \A w \in Streams : w \in Seq(DOMAIN Size)
  /\ Policies \subseteq [mode : {"auto", "quiet", "fixed"}, max : Nat \ {0}]
  /\ {CpuBudget, BatchItems, Lookahead} \subseteq Nat \ {0}
  /\ {MemoryBudget, BatchBytes, MinItems, MinBytes, Quota} \subseteq Nat

VARIABLES
  save,      \* [Saves -> what the save is doing]
  active,    \* Scheduler: the workers, bytes and batches that were given out
  epoch,     \* Scheduler.contention_epoch
  samples,   \* CostModel.samples: a number of workers, and whether it ran alone
  policy,    \* the policy of this process
  errors     \* how much of its bound is used

compressionVars == <<save, active, epoch, samples, policy, errors>>

Bytes(objects) == Total([i \in DOMAIN objects |-> Size[objects[i]]])
NoShare == [workers |-> 0, bytes |-> 0, epoch |-> 0, learn |-> FALSE, alone |-> FALSE]

\* parse_policy: "quiet" is one worker.
Parsed(p) == IF p.mode = "quiet" THEN [p EXCEPT !.max = 1] ELSE p

CompressionInit ==
  /\ save \in [Saves -> {[whole |-> w, seen |-> 0, pc |-> "fill", todo |-> <<>>, next |-> 0,
                          flight |-> <<>>, written |-> <<>>, share |-> NoShare,
                          cancel |-> FALSE, outcome |-> "fill"] : w \in Streams}]
  /\ active = [workers |-> 0, bytes |-> 0, batches |-> 0]
  /\ epoch = 0 /\ samples = {} /\ errors = 0
  /\ policy \in {Parsed(p) : p \in Policies}

Error == errors < MaxErrors /\ errors' = errors + 1
SaveEnded(s) == save[s].pc \in {"prepared", "cancelled", "failed"}

Only(s) == UNCHANGED <<active, epoch, samples, policy>>

---------------------------------------------------------------------------
(* Batches.                                                                *)

BatchFull(objects) == Len(objects) >= BatchItems \/ Bytes(objects) >= BatchBytes

\* _enqueue: the object that fills the buffer; at the end, the last one.
BufferEnd(s) ==
  LET whole == save[s].whole
      from == save[s].seen + 1
  IN Min({n \in from..Len(whole) : BatchFull(SubSeq(whole, from, n))} \cup {Len(whole)})

\* flush: where there are new objects, once each.
New(objects, from, to, have) ==
  {i \in from..to : objects[i] \notin have /\ \A j \in from..(i - 1) : objects[j] # objects[i]}

Have(s) == Stored \cup {item.object : item \in Range(save[s].written)}

\* A cancelled save is noticed between two batches.
Flush(s) ==
  LET whole == save[s].whole
      end == BufferEnd(s)
      todo == AtPlaces(whole, New(whole, save[s].seen + 1, end, Have(s)))
  IN /\ save[s].pc = "fill" /\ save[s].seen < Len(whole) /\ ~save[s].cancel
     /\ save' = [save EXCEPT ![s].seen = end, ![s].todo = todo, ![s].next = 0,
                             ![s].pc = IF todo = <<>> THEN "fill" ELSE "wait"]
     /\ Only(s) /\ UNCHANGED errors

AllStored(s) ==
  /\ save[s].pc = "fill" /\ save[s].seen = Len(save[s].whole) /\ ~save[s].cancel
  /\ save' = [save EXCEPT ![s].pc = "prepared"]
  /\ Only(s) /\ UNCHANGED errors

---------------------------------------------------------------------------
(* Scheduler.                                                              *)

Parallel(todo) == Len(todo) >= MinItems /\ Bytes(todo) >= MinBytes

\* A batch that is larger than the budget may run, but alone.
Fits(bytes) == active.bytes + bytes <= MemoryBudget \/ active.batches = 0

\* CostModel.choose: every admissible number of workers is tried first.
WorkerChoices(limit) ==
  LET candidates == {1, limit} \cup {w \in {2, 4, 8} : w <= limit}
      unmeasured == {w \in candidates : \A sample \in samples : sample.workers # w}
  IN IF unmeasured = {} THEN candidates ELSE {Min(unmeasured)}

Desired(todo) ==
  LET limit == Min({policy.max, CpuBudget, Len(todo)})
  IN IF ~Parallel(todo) THEN {1}
     ELSE IF policy.mode = "auto" THEN WorkerChoices(limit) ELSE {limit}

\* Faulty: a batch that joins others does not say so.
Unnoticed == epoch

\* Who joins others makes what they measure worthless.
Contention == IF active.batches > 0 THEN epoch + 1 ELSE epoch

\* Every other batch that has a share is no longer alone.
Joined(s, new) ==
  [t \in Saves |-> IF t = s THEN new ELSE [save[t] EXCEPT !.share.alone = FALSE]]

Reserve(s) ==
  LET todo == save[s].todo
      bytes == 2 * Bytes(todo)
  IN /\ save[s].pc = "wait" /\ ~save[s].cancel
     /\ active.workers < CpuBudget /\ Fits(bytes)
     /\ epoch' = Contention
     /\ \E desired \in Desired(todo) :
          LET workers == Min({desired, CpuBudget - active.workers})
              learn == /\ Parallel(todo) /\ policy.mode = "auto"
                       /\ workers = desired /\ active.batches = 0
          IN /\ active' = [workers |-> active.workers + workers, bytes |-> active.bytes + bytes,
                           batches |-> active.batches + 1]
             /\ save' = Joined(s, [save[s] EXCEPT
                  !.share = [workers |-> workers, bytes |-> bytes, epoch |-> epoch', learn |-> learn,
                             alone |-> active.batches = 0],
                  !.pc = IF Parallel(todo) /\ workers > 1 THEN "parallel" ELSE "inline"])
     /\ UNCHANGED <<samples, policy, errors>>

\* observe: only what no other batch has joined.
Observe(s) ==
  LET share == save[s].share
      sample == [workers |-> share.workers, alone |-> share.alone]
  IN /\ save[s].pc = "observe"
     /\ samples' = IF share.learn /\ share.epoch = epoch THEN samples \cup {sample} ELSE samples
     /\ save' = [save EXCEPT ![s].pc = "release", ![s].outcome = "fill"]
     /\ UNCHANGED <<active, epoch, policy, errors>>

\* The end of reserve, however the batch went.
Release(s) ==
  LET share == save[s].share
  IN /\ save[s].pc = "release"
     /\ active' = [workers |-> active.workers - share.workers, bytes |-> active.bytes - share.bytes,
                   batches |-> active.batches - 1]
     /\ save' = [save EXCEPT ![s].share = NoShare, ![s].pc = save[s].outcome]
     /\ UNCHANGED <<epoch, samples, policy, errors>>

---------------------------------------------------------------------------
(* A batch in the thread of its save.                                      *)

\* _write_new: a record holds the encoding it is given.
Wrote(s, object, data) == Append(save[s].written, [object |-> object, data |-> data])

WriteInline(s) ==
  LET object == save[s].todo[save[s].next + 1]
  IN /\ save[s].pc = "inline" /\ save[s].next < Len(save[s].todo) /\ ~save[s].cancel
     /\ \/ /\ save' = [save EXCEPT ![s].written = Wrote(s, object, object), ![s].next = @ + 1]
           /\ UNCHANGED errors
        \/ /\ Error
           /\ save' = [save EXCEPT ![s].pc = "release", ![s].outcome = "failed"]
     /\ Only(s)

InlineEnds(s) ==
  /\ save[s].pc = "inline" /\ save[s].next = Len(save[s].todo)
  /\ save' = [save EXCEPT ![s].pc = "observe"]
  /\ Only(s) /\ UNCHANGED errors

---------------------------------------------------------------------------
(* A batch with a pool of threads: what is in flight is a queue of tasks.  *)

Tasks(s, status) == {i \in DOMAIN save[s].flight : save[s].flight[i].status = status}

\* Bounded by the number of tasks and by their bytes; one task always fits.
TopsUp(s) ==
  LET flight == save[s].flight
      objects == [i \in DOMAIN flight |-> flight[i].object]
  IN /\ save[s].next < Len(save[s].todo)
     /\ Len(flight) < Lookahead * save[s].share.workers
     /\ flight # <<>> => 2 * Bytes(Append(objects, save[s].todo[save[s].next + 1])) <= Quota

SubmitTask(s) ==
  /\ save[s].pc = "parallel" /\ ~save[s].cancel /\ TopsUp(s)
  /\ save' = [save EXCEPT ![s].next = @ + 1, ![s].flight =
                Append(@, [object |-> save[s].todo[save[s].next + 1], status |-> "queued"])]
  /\ Only(s) /\ UNCHANGED errors

\* _compress_if_active, in a thread of the pool: tasks begin in their order,
\* unless the save is cancelled.
TaskBegins(s) ==
  /\ save[s].pc = "parallel" /\ Tasks(s, "queued") # {}
  /\ Cardinality(Tasks(s, "running")) < save[s].share.workers
  /\ save' = [save EXCEPT ![s].flight[Min(Tasks(s, "queued"))].status =
                IF save[s].cancel THEN "failed" ELSE "running"]
  /\ Only(s) /\ UNCHANGED errors

TaskEnds(s, i) ==
  /\ i \in Tasks(s, "running")
  /\ \/ save' = [save EXCEPT ![s].flight[i].status = "done"] /\ UNCHANGED errors
     \/ save' = [save EXCEPT ![s].flight[i].status = "failed"] /\ Error
  /\ Only(s)

\* Faulty: results are taken as they come.
AnyDone(s) == Tasks(s, "done")

\* The tasks whose result may be taken next: the first one, when it is done.
HeadDone(s) == Tasks(s, "done") \cap {1}

\* The result of a task is written for the first object that has none yet.
Take(s) ==
  LET flight == save[s].flight
      object == save[s].todo[save[s].next - Len(flight) + 1]
  IN /\ save[s].pc = "parallel" /\ ~save[s].cancel /\ ~TopsUp(s)
     /\ \E i \in HeadDone(s) :
          save' = [save EXCEPT ![s].written = Wrote(s, object, flight[i].object),
                               ![s].flight = RemoveAt(@, i)]
     /\ Only(s) /\ UNCHANGED errors

\* What is left of a pool that is shut down: tasks that have not begun are
\* cancelled, running ones go on.
Shut(s, outcome) ==
  LET flight == save[s].flight
      left == [i \in DOMAIN flight |->
                 IF flight[i].status = "queued" THEN [flight[i] EXCEPT !.status = "cancelled"]
                 ELSE flight[i]]
  IN [save EXCEPT ![s].pc = "shutdown", ![s].outcome = outcome, ![s].flight = left]

\* All are written, or the first task has failed, or its record cannot be
\* written.
BatchEnds(s) ==
  LET flight == save[s].flight
  IN /\ save[s].pc = "parallel" /\ ~TopsUp(s)
     /\ \/ flight = <<>> /\ save' = Shut(s, "observe") /\ UNCHANGED errors
        \/ /\ ~save[s].cancel /\ flight # <<>> /\ save' = Shut(s, "failed")
           /\ \/ flight[1].status = "failed" /\ UNCHANGED errors
              \/ flight[1].status = "done" /\ Error
     /\ Only(s)

\* Faulty: the pool is left to itself.
NoWait(s) == TRUE

\* shutdown(wait=True)
PoolIdle(s) == Tasks(s, "running") = {}

Joins(s) ==
  /\ save[s].pc = "shutdown" /\ PoolIdle(s)
  /\ save' = [save EXCEPT ![s].pc = IF save[s].outcome = "observe" THEN "observe" ELSE "release"]
  /\ Only(s) /\ UNCHANGED errors

---------------------------------------------------------------------------
(* Cancelling.                                                             *)

Cancel(s) ==
  /\ ~SaveEnded(s) /\ ~save[s].cancel
  /\ Cardinality({t \in Saves : save[t].cancel}) < MaxCancels
  /\ save' = [save EXCEPT ![s].cancel = TRUE]
  /\ Only(s) /\ UNCHANGED errors

\* The next check of the save; a batch that is written is not interrupted.
CancelSeen(s) ==
  /\ save[s].cancel
  /\ \/ save[s].pc \in {"fill", "wait"} /\ save' = [save EXCEPT ![s].pc = "cancelled"]
     \/ /\ save[s].pc = "inline" /\ save[s].next < Len(save[s].todo)
        /\ save' = [save EXCEPT ![s].pc = "release", ![s].outcome = "cancelled"]
     \/ save[s].pc = "parallel" /\ save' = Shut(s, "cancelled")
  /\ Only(s) /\ UNCHANGED errors

---------------------------------------------------------------------------
SaveStep(s) ==
  \/ Flush(s) \/ AllStored(s) \/ Reserve(s) \/ Observe(s) \/ Release(s)
  \/ WriteInline(s) \/ InlineEnds(s)
  \/ SubmitTask(s) \/ TaskBegins(s) \/ Take(s) \/ BatchEnds(s) \/ Joins(s)
  \/ \E i \in DOMAIN save[s].flight : TaskEnds(s, i)
  \/ CancelSeen(s)

\* The service goes on when all saves have ended.
Done == (\A s \in Saves : SaveEnded(s)) /\ UNCHANGED compressionVars

CompressionNext == Done \/ \E s \in Saves : SaveStep(s) \/ Cancel(s)

CompressionSpec == CompressionInit /\ [][CompressionNext]_compressionVars

---------------------------------------------------------------------------
(* Properties.                                                             *)

Threads(s) == IF save[s].pc = "inline" THEN 1 ELSE Cardinality(Tasks(s, "running"))
Sharing == {s \in Saves : save[s].share # NoShare}

\* The saves of the service never use more than they were given, nor are they
\* given more than there is, whoever ends, fails or is cancelled in whatever
\* order: no thread outlives its share ("CPU tokens include inline
\* compression"), and an oversized batch is alone.
BudgetKept ==
  /\ active = [workers |-> Total([s \in Saves |-> save[s].share.workers]),
               bytes |-> Total([s \in Saves |-> save[s].share.bytes]), batches |-> Cardinality(Sharing)]
  /\ active.workers <= CpuBudget
  /\ active.batches > 1 => active.bytes <= MemoryBudget
  /\ \A s \in Saves : Threads(s) <= save[s].share.workers

\* The scheduler learns only from batches that were alone from their beginning
\* to their end.
SamplesAlone == \A sample \in samples : sample.alone

\* The pool changes when work is done and not what is stored: the records of a
\* save are the new objects of its layout, each once, in their order and with
\* the encoding of that object; no more of them are in memory than the quota
\* allows, and a save is prepared only when it has them all.
RecordsTrue ==
  \A s \in Saves :
    LET whole == save[s].whole
        written == save[s].written
        wanted == AtPlaces(whole, New(whole, 1, Len(whole), Stored))
        objects == [i \in DOMAIN save[s].flight |-> save[s].flight[i].object]
    IN /\ \A i \in DOMAIN written : written[i].data = written[i].object
       /\ IsPrefix([i \in DOMAIN written |-> written[i].object], wanted)
       /\ Len(objects) > 1 => 2 * Bytes(objects) <= Quota
       /\ save[s].pc = "prepared" => Len(written) = Len(wanted)

\* Both promises of the scheduler.
SharesKept == BudgetKept /\ SamplesAlone
=============================================================================
