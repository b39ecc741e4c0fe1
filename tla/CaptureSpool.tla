--------------------------- MODULE CaptureSpool ---------------------------
(***************************************************************************)
(* The durable capture queue of one history: the capture_queue table, the  *)
(* raw copies and verification receipts of the capture-spool directory,    *)
(* and the visible checkpoints whose head the queue is ordered against.    *)
(*                                                                         *)
(* Each operator below is one SQLite transaction of class Spool            *)
(* (src/vestigraph/capture_spool.py) or of the acknowledgement that the    *)
(* checkpoint transaction makes, and says how every variable of this       *)
(* module changes.  Module CapturePipeline gives them to the threads that  *)
(* call them.                                                              *)
(*                                                                         *)
(* A layout stands for the document identity and the raw bytes together:   *)
(* equal layouts have equal sha256, size and document.  Drawing maps a     *)
(* layout to what is left of it when save timestamps are ignored.          *)
(* Reserved bytes are kept as "none or some" (field held): the item slots  *)
(* are counted, the byte budget is not.                                    *)
(***************************************************************************)
EXTENDS Integers, Sequences, FiniteSets

CONSTANTS
  Layouts,       \* raw exports, as the queue can tell them apart
  Drawing,       \* function: layout -> its timestamp-free content
  MaxCaptures,   \* bound: captures ever reserved
  MaxItems,      \* capacity of the queue (max_items)
  NoLayout,      \* no file, no receipt, no digest
  Partial,       \* a file created by reserve or left half written
  Torn           \* a receipt whose write was interrupted

ASSUME SpoolAssumption ==
  /\ DOMAIN Drawing = Layouts
  /\ MaxCaptures \in Nat
  /\ MaxItems \in Nat \ {0}
  /\ {NoLayout, Partial, Torn} \cap Layouts = {}
  /\ NoLayout # Partial /\ NoLayout # Torn /\ Partial # Torn

Ordinals == 1..MaxCaptures
Terminal == {"committed", "unchanged"}
Pending == {"writing", "ready", "processing", "blocked"}
States == Pending \cup Terminal \cup {"quarantined", "none"}
Sources == {"auto", "manual"}

VARIABLES
  row,       \* capture_queue: ordinal -> record
  count,     \* ordinals handed out (AUTOINCREMENT)
  file,      \* ordinal -> content of its raw copy
  receipt,   \* ordinal -> layout its .verified.json vouches for
  history,   \* visible checkpoints, oldest first; the head is the last
  asked      \* history variable: captures the user asked to discard

spoolVars == <<row, count, file, receipt, history, asked>>

Row == [state  : States,
        source : Sources,
        pred   : 0..MaxCaptures,        \* predecessor_capture_id, 0 for none
        expect : Nat,                   \* expected_head_id
        sha    : Layouts \cup {NoLayout},
        ckpt   : Nat,                   \* checkpoint_id, 0 for none
        held   : BOOLEAN]               \* reserved_bytes > 0

NoRow == [state |-> "none", source |-> "auto", pred |-> 0, expect |-> 0,
          sha |-> NoLayout, ckpt |-> 0, held |-> FALSE]

\* capture = 0: a version that did not come through the queue.
Checkpoint == [layout : Layouts, capture : 0..MaxCaptures, parent : Nat]

SpoolTypeOK ==
  /\ row \in [Ordinals -> Row]
  /\ count \in 0..MaxCaptures
  /\ file \in [Ordinals -> Layouts \cup {NoLayout, Partial}]
  /\ receipt \in [Ordinals -> Layouts \cup {NoLayout, Torn}]
  /\ history \in Seq(Checkpoint)
  /\ asked \in SUBSET Ordinals

\* The queue is empty; of the versions there are, the last one matters.
SpoolInit ==
  /\ row = [o \in Ordinals |-> NoRow]
  /\ count = 0
  /\ file = [o \in Ordinals |-> NoLayout]
  /\ receipt = [o \in Ordinals |-> NoLayout]
  /\ history \in {<<>>} \cup {<<[layout |-> l, capture |-> 0, parent |-> 0]>> : l \in Layouts}
  /\ asked = {}

---------------------------------------------------------------------------
(* Queries every transaction is built from.                                *)

HeadId == Len(history)

\* WHERE state NOT IN ('committed','unchanged','quarantined')
Active == {o \in Ordinals : row[o].state \in Pending}

\* ... ORDER BY ordinal LIMIT 1
First(o) == o \in Active /\ \A p \in Active : o <= p

\* ... ORDER BY ordinal DESC LIMIT 1; 0 when nothing is active.
LastActive == IF Active = {} THEN 0
              ELSE CHOOSE o \in Active : \A p \in Active : p <= o

HeadBlocked == \E o \in Active : First(o) /\ row[o].state = "blocked"

\* What drain() gives up on: nothing will organize this head.
HeadStuck == \E o \in Active : First(o) /\ row[o].state \in {"blocked", "writing"}

\* Rows that occupy one of the max_items slots.
Slots == {o \in Ordinals : row[o].held /\ row[o].state # "quarantined"}

\* The head a capture was taken against: its nearest predecessor that was
\* organized, skipping the quarantined ones; -1 while one is outstanding.
ExpectedHead(o) ==
  LET expected[c \in Ordinals] ==
        LET p == row[c].pred IN
        IF p = 0 THEN row[c].expect
        ELSE IF row[p].state = "quarantined" THEN expected[p]
        ELSE IF row[p].state \in Terminal THEN row[p].ckpt ELSE -1
  IN expected[o]

\* Faulty: the head is not compared with the capture's context.
ValidAnyHead(o) ==
  row[o].state = "processing" /\ row[o].sha # NoLayout /\ First(o)

\* validate_capture: the guard of every transaction that organizes a capture.
Valid(o) ==
  /\ row[o].state = "processing"
  /\ row[o].sha # NoLayout
  /\ First(o)
  /\ ExpectedHead(o) = HeadId

SameDrawing(l, k) ==
  /\ k \in 1..HeadId
  /\ Drawing[history[k].layout] = Drawing[l]

---------------------------------------------------------------------------
(* Transactions.                                                           *)

SetState(o, s) == row' = [row EXCEPT ![o].state = s]

\* reserve: refused while the head is blocked or every slot is taken.
Reserve(source) ==
  LET o == count + 1 IN
  /\ count < MaxCaptures
  /\ ~HeadBlocked
  /\ Cardinality(Slots) < MaxItems
  /\ count' = o
  /\ row' = [row EXCEPT ![o] =
       [state |-> "writing", source |-> source, pred |-> LastActive,
        expect |-> HeadId, sha |-> NoLayout, ckpt |-> 0, held |-> TRUE]]
  /\ UNCHANGED <<file, receipt, history, asked>>

\* Faulty: a comparison with the head is enough.
ElidesBehindOthers(o, probe) == probe # 0 /\ HeadId = probe

\* The comparison of _commit_acceptance: probe is the checkpoint that the
\* new bytes were compared with, 0 when they were not found equal.
Elides(o, probe) ==
  LET p == row[o].pred
      expected == IF p = 0 THEN row[o].expect
                  ELSE IF row[p].state \in Terminal THEN row[p].ckpt ELSE -1
  IN probe # 0 /\ HeadId = probe /\ probe = expected /\ First(o)

\* _commit_acceptance: the copy is accepted, or acknowledged as the head.
CommitAcceptance(o, probe) ==
  /\ row[o].state = "writing"
  /\ row' = [row EXCEPT
       ![o].state = IF Elides(o, probe) THEN "unchanged" ELSE "ready",
       ![o].ckpt  = IF Elides(o, probe) THEN probe ELSE 0,
       ![o].sha   = file[o],
       ![o].held  = TRUE]
  /\ UNCHANGED <<count, file, receipt, history, asked>>

MarkProcessing(o) ==
  /\ First(o)
  /\ row[o].state = "ready"
  /\ SetState(o, "processing")
  /\ UNCHANGED <<count, file, receipt, history, asked>>

\* retry: an accepted copy goes back to the queue.
Retry(o) ==
  /\ row[o].state \in {"processing", "blocked"}
  /\ row[o].sha # NoLayout
  /\ SetState(o, "ready")
  /\ UNCHANGED <<count, file, receipt, history, asked>>

\* The row block() leaves: accepted copies wait for the user, copies of
\* unknown completeness are only retained.
BlockedRow(o) ==
  [row[o] EXCEPT !.state = IF @ \in Terminal THEN @
                           ELSE IF row[o].sha = NoLayout THEN "quarantined"
                           ELSE "blocked",
                 !.held = IF row[o].state \in Terminal THEN @
                          ELSE file[o] # NoLayout]

Block(o) ==
  /\ row' = [row EXCEPT ![o] = BlockedRow(o)]
  /\ UNCHANGED <<count, file, receipt, history, asked>>

\* discard: the only way an accepted copy leaves without a checkpoint.
Discard(o) ==
  /\ row[o].state \in {"blocked", "quarantined"}
  /\ row' = [row EXCEPT ![o].state = "quarantined", ![o].held = FALSE]
  /\ file' = [file EXCEPT ![o] = NoLayout]
  /\ receipt' = [receipt EXCEPT ![o] = NoLayout]
  /\ asked' = asked \cup {o}
  /\ UNCHANGED <<count, history>>

\* discard unlinks inside its transaction: an error or a crash after the
\* unlink rolls the row back but not the files.
DiscardRolledBack(o) ==
  /\ row[o].state \in {"blocked", "quarantined"}
  /\ file' = [file EXCEPT ![o] = NoLayout]
  /\ receipt' \in {receipt, [receipt EXCEPT ![o] = NoLayout]}
  /\ asked' = asked \cup {o}
  /\ UNCHANGED <<row, count, history>>

\* acknowledge_capture(state = 'unchanged') in its own transaction.
Acknowledge(o, checkpoint) ==
  /\ Valid(o)
  /\ row' = [row EXCEPT ![o].state = "unchanged", ![o].ckpt = checkpoint]
  /\ UNCHANGED <<count, file, receipt, history, asked>>

\* commit_snapshot: the checkpoint row and the acknowledgement are one
\* transaction, refused unless the head is still the prepared parent.
Publish(o, parent) ==
  /\ Valid(o)
  /\ HeadId = parent
  /\ history' = Append(history, [layout |-> row[o].sha, capture |-> o,
                                 parent |-> parent])
  /\ row' = [row EXCEPT ![o].state = "committed", ![o].ckpt = HeadId + 1]
  /\ UNCHANGED <<count, file, receipt, asked>>

\* Faulty: copies are removed as soon as they are accepted.
UncleanedAccepted ==
  {o \in Ordinals : row[o].state \in Terminal \cup {"ready"} /\ row[o].held}

\* cleanup_done removes the files of completed rows, then releases them.
Uncleaned == {o \in Ordinals : row[o].state \in Terminal /\ row[o].held}

Without(f, rows) == [o \in Ordinals |-> IF o \in rows THEN NoLayout ELSE f[o]]

Released(rows) ==
  [o \in Ordinals |-> IF o \in rows THEN [row[o] EXCEPT !.held = FALSE]
                      ELSE row[o]]

\* Faulty: the raw copy stays.
UnlinkReceipts(rows) ==
  /\ receipt' = Without(receipt, rows)
  /\ UNCHANGED <<row, count, file, history, asked>>

Unlink(rows) ==
  /\ file' = Without(file, rows)
  /\ receipt' = Without(receipt, rows)
  /\ UNCHANGED <<row, count, history, asked>>

Release(rows) ==
  /\ row' = Released(rows)
  /\ UNCHANGED <<count, file, receipt, history, asked>>

CleanupDone ==
  /\ row' = Released(Uncleaned)
  /\ file' = Without(file, Uncleaned)
  /\ receipt' = Without(receipt, Uncleaned)
  /\ UNCHANGED <<count, history, asked>>

---------------------------------------------------------------------------
(* recover(), run by each new lease owner before it organizes anything.    *)

\* Faulty: what still has its file is taken for interrupted.
RequeueUncleaned ==
  /\ row' = [o \in Ordinals |->
               IF row[o].state = "processing" \/ o \in Uncleaned
               THEN [row[o] EXCEPT !.state = "ready"] ELSE row[o]]
  /\ UNCHANGED <<count, file, receipt, history, asked>>

\* Its first transaction: an interrupted organization starts again.
RequeueInterrupted ==
  /\ row' = [o \in Ordinals |->
               IF row[o].state = "processing"
               THEN [row[o] EXCEPT !.state = "ready"] ELSE row[o]]
  /\ UNCHANGED <<count, file, receipt, history, asked>>

\* Then each writing row in order: accepted when its receipt still matches
\* its file, retained otherwise.
Verified(o) == receipt[o] \in Layouts /\ receipt[o] = file[o]

\* Last: accepted copies whose file is gone, and completed rows.
FinishRecovery ==
  /\ row' = [o \in Ordinals |->
       IF row[o].state = "ready" /\ file[o] = NoLayout
       THEN [row[o] EXCEPT !.state = "blocked"] ELSE Released(Uncleaned)[o]]
  /\ file' = Without(file, Uncleaned)
  /\ receipt' = Without(receipt, Uncleaned)
  /\ UNCHANGED <<count, history, asked>>

---------------------------------------------------------------------------
(* Safety: what holds of the table, the files and the history whoever runs  *)
(* the transactions, in whatever order, and wherever they stop.             *)

\* Captures are published in the order they were reserved, whatever was
\* blocked, retried, discarded or recovered in between; captures that only
\* acknowledge a version never refer back past a later one.
PublishedInOrder ==
  /\ \A j, k \in 1..HeadId :
       j < k /\ history[j].capture # 0 /\ history[k].capture # 0
         => history[j].capture < history[k].capture
  /\ \A o, p \in Ordinals :
       o < p /\ row[o].state \in Terminal /\ row[p].state \in Terminal
         => row[o].ckpt <= row[p].ckpt

\* A crash between publication and acknowledgement neither loses nor
\* repeats a version: a row is committed exactly when one checkpoint came
\* from it, and that checkpoint holds the bytes that were accepted.
ExactlyOnce ==
  \A o \in Ordinals :
    LET from == {k \in 1..HeadId : history[k].capture = o} IN
    IF row[o].state = "committed"
    THEN from = {row[o].ckpt} /\ history[row[o].ckpt].layout = row[o].sha
    ELSE from = {}

\* Each accepted capture becomes one version at most, and in its turn.
PublishedOnceInOrder == PublishedInOrder /\ ExactlyOnce

\* The raw bytes of an accepted copy stay on disk until it has a version,
\* unless the user asked to discard it.
AcceptedKept ==
  \A o \in Active : row[o].sha # NoLayout /\ o \notin asked
                       => file[o] = row[o].sha

\* Only an automatic save is ever reduced to a no-op, and only to a version
\* with the same drawing.
ElisionSound ==
  \A o \in Ordinals : row[o].state = "unchanged" =>
    row[o].source = "auto" /\ SameDrawing(row[o].sha, row[o].ckpt)

\* A version written past the queue is never built upon by a capture that
\* was taken before it: such captures are blocked for the user instead.
NoForeignParent ==
  \A k \in 1..HeadId : history[k].capture # 0 =>
    \A j \in 1..(k - 1) : history[j].capture = 0 =>
      j <= row[history[k].capture].expect

\* A version is what was captured, on top of what it was captured after.
VersionsSound == ElisionSound /\ NoForeignParent

\* The queue never takes more copies than it has slots for, even though
\* rows change size when they are blocked, retried and recovered.
SlotBound == Cardinality(Slots) <= MaxItems

\* "Reserve durably BEFORE creating a file; crashes cannot leave unbudgeted
\* raw files": every file belongs to a row, and a completed row keeps its
\* reservation until its file is gone.
DiskAccounted ==
  \A o \in Ordinals : file[o] # NoLayout =>
    /\ row[o].state # "none"
    /\ row[o].state \in Terminal => row[o].held

\* What is accepted stays, in the slots and the files that were paid for.
CopiesKept == AcceptedKept /\ SlotBound /\ DiskAccounted
===========================================================================
