------------------------ MODULE CapturePipelineProofs ------------------------
(***************************************************************************)
(* The capture pipeline keeps its invariant, for any number of captures,   *)
(* slots, layouts, faults and other writers.                               *)
(*                                                                         *)
(* First the capture table.  SpoolInv has two parts.  Order relates the    *)
(* table to the history: what is completed lies below everything pending,  *)
(* so the head can only be completed with the newest version.  Storage     *)
(* relates the table to the files.  Most transactions never complete a     *)
(* row; they are treated by one lemma, KeepsOrder, and only the four that  *)
(* do are argued about.                                                    *)
(*                                                                         *)
(* Then the threads.  Each works on one row at a time; the inductive       *)
(* invariant says which: the recorder's row is being written and has the   *)
(* bytes it says, the organizer's row is processing, and the head cannot   *)
(* move under a prepared version.                                          *)
(*                                                                         *)
(* Then the versions that other writers put between the captures.  Context *)
(* says how far a capture knows of them.  ExpectedHead is recursive; that  *)
(* its equation has a solution is proved by a least counterexample, and so *)
(* is that the equation leads to a capture that knows all of them.         *)
(*                                                                         *)
(* Last the refinement of CaptureLedger.  LedgerInv says why the ledger    *)
(* may let only the oldest copy leave and the newest enter; each step is   *)
(* then an entry of the ledger or leaves it alone.                         *)
(***************************************************************************)
EXTENDS CapturePipeline, NaturalsInduction, WellFoundedInduction,
        FiniteSetTheorems, SequenceTheorems, TLAPS

---------------------------------------------------------------------------
(* The inductive invariant of the capture table.                           *)

\* Rows above the counter do not exist.
Counted == \A o \in Ordinals : o > count => row[o].state = "none"

\* Everything completed was reserved before everything that is pending.
CompletedFirst ==
  \A t, p \in Ordinals :
    row[t].state \in Terminal /\ row[p].state \in Pending => t < p

\* A completed capture refers to a version that exists.
RefersBack ==
  \A t \in Ordinals : row[t].state \in Terminal => row[t].ckpt <= HeadId

CompletedInOrder ==
  \A o, p \in Ordinals :
    o < p /\ row[o].state \in Terminal /\ row[p].state \in Terminal
      => row[o].ckpt <= row[p].ckpt

Order == /\ Counted /\ CompletedFirst /\ RefersBack
         /\ CompletedInOrder /\ ExactlyOnce /\ ElisionSound

\* A row being written has a reservation and no digest yet.
WritingHeld ==
  \A o \in Ordinals : row[o].state = "writing" => row[o].held /\ row[o].sha = NoLayout

\* Files belong to rows; the file of a row that is not given up is paid for.
FilesHeld ==
  \A o \in Ordinals : file[o] # NoLayout =>
    /\ row[o].state # "none"
    /\ row[o].state \in Pending \cup Terminal => row[o].held

Storage == WritingHeld /\ FilesHeld /\ AcceptedKept /\ SlotBound

SpoolInv == SpoolTypeOK /\ Order /\ Storage

---------------------------------------------------------------------------
(* Facts about the constants, sequences and sets.                          *)

\* A non-empty set of ordinals has a greatest element.
LEMMA Greatest ==
  ASSUME NEW S \in SUBSET Ordinals, S # {}
  PROVE  \E m \in S : \A n \in S : n <= m
<1> DEFINE D == {MaxCaptures - s : s \in S}
<1>0. MaxCaptures \in Nat /\ \A n \in S : n \in Nat /\ n <= MaxCaptures
  BY SpoolAssumption DEF SpoolAssumption, Ordinals
<1>1. D \subseteq Nat /\ D # {}
  BY <1>0
<1>2. \E d \in D : \A e \in D : ~(<<e, d>> \in OpToRel(<, Nat))
  BY <1>1, WFMin, NatLessThanWellFounded
<1>3. PICK d \in D : \A e \in D : ~(e < d)
  BY <1>1, <1>2 DEF OpToRel
<1>4. PICK m \in S : d = MaxCaptures - m
  OBVIOUS
<1>5. \A n \in S : n <= m
  <2> SUFFICES ASSUME NEW n \in S PROVE n <= m
    OBVIOUS
  <2>1. MaxCaptures - n \in D
    OBVIOUS
  <2> QED BY <1>0, <1>3, <1>4, <2>1
<1> QED BY <1>5

LEMMA LastActiveType == LastActive \in 0..MaxCaptures
<1>1. CASE Active = {}
  BY <1>1, SpoolAssumption DEF SpoolAssumption, LastActive
<1>2. CASE Active # {}
  <2>1. \E m \in Active : \A n \in Active : n <= m
    BY <1>2, Greatest DEF Active
  <2> QED BY <1>2, <2>1 DEF LastActive, Active, Ordinals
<1> QED BY <1>1, <1>2

LEMMA SlotsFinite == IsFiniteSet(Slots) /\ Cardinality(Slots) \in Nat
<1>1. IsFiniteSet(Ordinals)
  BY FS_Interval, SpoolAssumption DEF SpoolAssumption, Ordinals
<1>2. Slots \in SUBSET Ordinals
  BY DEF Slots
<1> QED BY <1>1, <1>2, FS_Subset, FS_CardinalityType

\* Appending a version keeps the others where they are.
LEMMA AppendVersion ==
  ASSUME SpoolTypeOK, NEW c \in Checkpoint, history' = Append(history, c)
  PROVE  /\ history' \in Seq(Checkpoint)
         /\ HeadId \in Nat
         /\ HeadId' = HeadId + 1
         /\ \A k \in 1..HeadId : history'[k] = history[k]
         /\ history'[HeadId + 1] = c
BY AppendProperties DEF SpoolTypeOK, HeadId

---------------------------------------------------------------------------
(* Steps that complete nothing.                                            *)

\* Completed rows keep all but their reservation, none is completed, and no
\* row becomes pending that was not.
NoneCompleted ==
  \A o \in Ordinals :
    /\ row[o].state \in Terminal =>
         /\ row'[o].state = row[o].state
         /\ row'[o].source = row[o].source
         /\ row'[o].sha = row[o].sha
         /\ row'[o].ckpt = row[o].ckpt
    /\ row'[o].state \in Terminal => row[o].state \in Terminal
    /\ row'[o].state \in Pending => row[o].state \in Pending
    /\ row[o].state = "none" => row'[o].state = "none"

LEMMA KeepsOrder ==
  ASSUME SpoolTypeOK, Order, NoneCompleted, UNCHANGED <<count, history>>
  PROVE  Order'
<1>1. Counted'
  BY DEF Order, Counted, NoneCompleted
<1>2. CompletedFirst'
  BY DEF Order, CompletedFirst, NoneCompleted
<1>3. RefersBack'
  BY DEF Order, RefersBack, NoneCompleted, HeadId
<1>4. CompletedInOrder'
  BY DEF Order, CompletedInOrder, NoneCompleted
<1>5. ExactlyOnce'
  <2> SUFFICES ASSUME NEW o \in Ordinals
               PROVE  LET from == {k \in 1..HeadId : history[k].capture = o} IN
                      IF row'[o].state = "committed"
                      THEN /\ from = {row'[o].ckpt}
                           /\ history[row'[o].ckpt].layout = row'[o].sha
                      ELSE from = {}
    BY DEF ExactlyOnce, HeadId
  <2>1. row'[o].state = "committed" <=> row[o].state = "committed"
    BY DEF NoneCompleted, Terminal
  <2> QED BY <2>1 DEF Order, ExactlyOnce, NoneCompleted, Terminal
<1>6. ElisionSound'
  BY DEF Order, ElisionSound, NoneCompleted, SameDrawing, HeadId, Terminal
<1> QED BY <1>1, <1>2, <1>3, <1>4, <1>5, <1>6 DEF Order

\* No row takes a slot that it did not have.
LEMMA KeepsSlots ==
  ASSUME SlotBound, Slots' \subseteq Slots
  PROVE  SlotBound'
<1>1. Cardinality(Slots') <= Cardinality(Slots)
  BY SlotsFinite, FS_Subset
<1>2. Cardinality(Slots') \in Nat
  BY SlotsFinite, FS_Subset, FS_CardinalityType
<1> QED BY <1>1, <1>2, SlotsFinite, SpoolAssumption DEF SlotBound, SpoolAssumption

\* Completed rows stay what they are.
CompletedStay ==
  \A o \in Ordinals : row[o].state \in Terminal =>
    row'[o].state = row[o].state /\ row'[o].ckpt = row[o].ckpt

\* Nothing is accepted, no slot taken, and what has a file is paid for.
NothingTaken ==
  \A o \in Ordinals :
    /\ row'[o].sha = row[o].sha
    /\ row'[o].state = "writing" => row[o].state = "writing" /\ row'[o].held
    /\ row'[o].state \in Pending => row[o].state \in Pending
    /\ row'[o].state = "none" => row[o].state = "none"
    /\ file'[o] # NoLayout /\ row'[o].state \in Pending \cup Terminal => row'[o].held
    /\ row'[o].held /\ row'[o].state # "quarantined" => o \in Slots

\* No file is written, and none removed of a pending row unless asked for.
FilesOnlyLeave ==
  /\ asked \subseteq asked'
  /\ \A o \in Ordinals : file'[o] # file[o] =>
       /\ file'[o] = NoLayout
       /\ o \in asked' \/ row'[o].state \notin Pending

LEMMA KeepsStorage ==
  ASSUME SpoolTypeOK, Storage, NothingTaken, FilesOnlyLeave
  PROVE  Storage'
<1>1. Slots' \subseteq Slots
  BY DEF Slots, NothingTaken
<1>2. WritingHeld'
  BY DEF Storage, WritingHeld, NothingTaken
<1>3. FilesHeld'
  BY DEF Storage, FilesHeld, NothingTaken, FilesOnlyLeave
<1>4. AcceptedKept'
  <2> SUFFICES ASSUME NEW o \in Active', row'[o].sha # NoLayout, o \notin asked'
               PROVE  file'[o] = row'[o].sha
    BY DEF AcceptedKept
  <2>1. o \in Active /\ row'[o].sha = row[o].sha /\ row'[o].state \in Pending
    BY DEF Active, NothingTaken
  <2>2. o \notin asked /\ file'[o] = file[o]
    BY <2>1 DEF FilesOnlyLeave, Active
  <2> QED BY <2>1, <2>2 DEF Storage, AcceptedKept
<1> QED BY <1>1, <1>2, <1>3, <1>4, KeepsSlots DEF Storage

\* A transaction that completes and accepts nothing.
LEMMA KeepsSpool ==
  ASSUME SpoolInv,
         row' \in [Ordinals -> Row],
         file' \in [Ordinals -> Layouts \cup {NoLayout, Partial}],
         receipt' \in [Ordinals -> Layouts \cup {NoLayout, Torn}],
         asked' \in SUBSET Ordinals,
         UNCHANGED <<count, history>>,
         NoneCompleted, NothingTaken, FilesOnlyLeave
  PROVE  SpoolInv'
<1>1. SpoolTypeOK'
  BY DEF SpoolInv, SpoolTypeOK
<1>2. Order'
  BY KeepsOrder DEF SpoolInv
<1>3. Storage'
  BY KeepsStorage DEF SpoolInv
<1> QED BY <1>1, <1>2, <1>3 DEF SpoolInv

\* ... and leaves the files alone.
LEMMA KeepsTable ==
  ASSUME SpoolInv, row' \in [Ordinals -> Row], NoneCompleted, NothingTaken,
         UNCHANGED <<count, file, receipt, history, asked>>
  PROVE  SpoolInv'
<1>1. FilesOnlyLeave
  BY DEF FilesOnlyLeave
<1> QED BY <1>1, KeepsSpool DEF SpoolInv, SpoolTypeOK

LEMMA MarkProcessingKeeps ==
  ASSUME SpoolInv, NEW o \in Ordinals, MarkProcessing(o)
  PROVE  SpoolInv' /\ NoneCompleted
<1> DEFINE r == [row[o] EXCEPT !.state = "processing"]
<1>0. row[o] \in Row /\ "ready" \in States /\ "processing" \in States
  BY DEF SpoolInv, SpoolTypeOK, States, Pending
<1>1. /\ r \in Row
      /\ r.state = "processing"
      /\ r.source = row[o].source
      /\ r.sha = row[o].sha
      /\ r.ckpt = row[o].ckpt
      /\ r.held = row[o].held
  BY <1>0 DEF Row
<1>2. /\ row' = [row EXCEPT ![o] = r]
      /\ row[o].state \in {"ready", "processing", "blocked"}
      /\ UNCHANGED file
  BY DEF SpoolInv, SpoolTypeOK, MarkProcessing, SetState
<1> HIDE DEF r
<1>3. row' \in [Ordinals -> Row]
  BY <1>1, <1>2 DEF SpoolInv, SpoolTypeOK
<1>4. row'[o] = r /\ \A p \in Ordinals : p # o => row'[p] = row[p]
  BY <1>2 DEF SpoolInv, SpoolTypeOK
<1>5. NoneCompleted
  BY <1>1, <1>2, <1>4 DEF NoneCompleted, Terminal, Pending
<1>6. NothingTaken
  BY <1>1, <1>2, <1>4 DEF SpoolInv, Storage, WritingHeld, FilesHeld, NothingTaken,
                          Slots, Terminal, Pending
<1> QED BY <1>3, <1>5, <1>6, KeepsTable DEF MarkProcessing

LEMMA RetryKeeps ==
  ASSUME SpoolInv, NEW o \in Ordinals, Retry(o)
  PROVE  SpoolInv' /\ NoneCompleted
<1> DEFINE r == [row[o] EXCEPT !.state = "ready"]
<1>0. row[o] \in Row /\ "ready" \in States /\ "processing" \in States
  BY DEF SpoolInv, SpoolTypeOK, States, Pending
<1>1. /\ r \in Row
      /\ r.state = "ready"
      /\ r.source = row[o].source
      /\ r.sha = row[o].sha
      /\ r.ckpt = row[o].ckpt
      /\ r.held = row[o].held
  BY <1>0 DEF Row
<1>2. /\ row' = [row EXCEPT ![o] = r]
      /\ row[o].state \in {"ready", "processing", "blocked"}
      /\ UNCHANGED file
  BY DEF SpoolInv, SpoolTypeOK, Retry, SetState
<1> HIDE DEF r
<1>3. row' \in [Ordinals -> Row]
  BY <1>1, <1>2 DEF SpoolInv, SpoolTypeOK
<1>4. row'[o] = r /\ \A p \in Ordinals : p # o => row'[p] = row[p]
  BY <1>2 DEF SpoolInv, SpoolTypeOK
<1>5. NoneCompleted
  BY <1>1, <1>2, <1>4 DEF NoneCompleted, Terminal, Pending
<1>6. NothingTaken
  BY <1>1, <1>2, <1>4 DEF SpoolInv, Storage, WritingHeld, FilesHeld, NothingTaken,
                          Slots, Terminal, Pending
<1> QED BY <1>3, <1>5, <1>6, KeepsTable DEF Retry

\* block() is called for rows being written, organized or already completed.
LEMMA BlockedRowKeeps ==
  ASSUME SpoolInv, NEW o \in Ordinals,
         row[o].state \in {"writing", "processing"} \cup Terminal,
         row' = [row EXCEPT ![o] = BlockedRow(o)], UNCHANGED file
  PROVE  row' \in [Ordinals -> Row] /\ NoneCompleted /\ NothingTaken
<1>1. row'[o] = BlockedRow(o) /\ \A p \in Ordinals : p # o => row'[p] = row[p]
  BY DEF SpoolInv, SpoolTypeOK
<1>2. CASE row[o].state \in Terminal
  <2>1. BlockedRow(o) = row[o]
    BY <1>2 DEF BlockedRow, SpoolInv, SpoolTypeOK, Row
  <2>2. row' = row
    BY <1>1, <2>1 DEF SpoolInv, SpoolTypeOK
  <2> QED BY <2>2 DEF SpoolInv, SpoolTypeOK, Storage, WritingHeld, FilesHeld,
                      NoneCompleted, NothingTaken, Slots
<1>3. CASE row[o].state \in {"writing", "processing"}
  <2>1. BlockedRow(o) = [row[o] EXCEPT
          !.state = IF row[o].sha = NoLayout THEN "quarantined" ELSE "blocked",
          !.held = (file[o] # NoLayout)]
    BY <1>3 DEF BlockedRow, Terminal, SpoolInv, SpoolTypeOK, Row
  <2>2. /\ BlockedRow(o) \in Row
        /\ BlockedRow(o).state \in {"quarantined", "blocked"}
        /\ BlockedRow(o).sha = row[o].sha
        /\ BlockedRow(o).held <=> file[o] # NoLayout
    <3> DEFINE s == IF row[o].sha = NoLayout THEN "quarantined" ELSE "blocked"
               h == file[o] # NoLayout
    <3>1. s \in {"quarantined", "blocked"} /\ h \in BOOLEAN /\ row[o] \in Row
      BY DEF SpoolInv, SpoolTypeOK
    <3>2. BlockedRow(o) = [row[o] EXCEPT !.state = s, !.held = h]
      BY <2>1
    <3> HIDE DEF s, h
    <3>3. s \in States
      BY <3>1 DEF States, Pending
    <3>4. /\ BlockedRow(o) \in Row
          /\ BlockedRow(o).state = s
          /\ BlockedRow(o).sha = row[o].sha
          /\ BlockedRow(o).held = h
      BY <3>1, <3>2, <3>3 DEF Row
    <3> QED BY <3>1, <3>4 DEF h
  <2>3. row' \in [Ordinals -> Row]
    BY <2>2 DEF SpoolInv, SpoolTypeOK
  <2>4. NoneCompleted
    BY <1>1, <1>3, <2>2 DEF NoneCompleted, Terminal, Pending
  <2>5. NothingTaken
    BY <1>1, <1>3, <2>2 DEF SpoolInv, Storage, WritingHeld, FilesHeld,
                            NothingTaken, Slots, Terminal, Pending
  <2> QED BY <2>3, <2>4, <2>5
<1> QED BY <1>2, <1>3

LEMMA BlockKeeps ==
  ASSUME SpoolInv, NEW o \in Ordinals,
         row[o].state \in {"writing", "processing"} \cup Terminal, Block(o)
  PROVE  SpoolInv' /\ NoneCompleted
BY BlockedRowKeeps, KeepsTable DEF Block

LEMMA RequeueKeeps ==
  ASSUME SpoolInv, RequeueInterrupted
  PROVE  SpoolInv' /\ NoneCompleted
<1>1. \A o \in Ordinals :
        row'[o] = IF row[o].state = "processing"
                  THEN [row[o] EXCEPT !.state = "ready"] ELSE row[o]
  BY DEF RequeueInterrupted
<1>2. ASSUME NEW o \in Ordinals
     PROVE  /\ row'[o] \in Row
            /\ row'[o].state = IF row[o].state = "processing" THEN "ready" ELSE row[o].state
            /\ row'[o].source = row[o].source
            /\ row'[o].sha = row[o].sha
            /\ row'[o].ckpt = row[o].ckpt
            /\ row'[o].held = row[o].held
  <2>1. row[o] \in Row /\ "ready" \in States
    BY DEF SpoolInv, SpoolTypeOK, States, Pending
  <2>2. CASE row[o].state = "processing"
    <3>1. row'[o] = [row[o] EXCEPT !.state = "ready"]
      BY <1>1, <2>2
    <3> QED BY <2>1, <2>2, <3>1 DEF Row
  <2>3. CASE row[o].state # "processing"
    BY <1>1, <2>1, <2>3
  <2> QED BY <2>2, <2>3
<1>3. row' \in [Ordinals -> Row]
  BY <1>2 DEF RequeueInterrupted
<1>4. NoneCompleted
  BY <1>2 DEF NoneCompleted, Terminal, Pending
<1>5. NothingTaken
  BY <1>2 DEF SpoolInv, Storage, WritingHeld, FilesHeld, NothingTaken, Slots,
              Terminal, Pending, RequeueInterrupted
<1> QED BY <1>3, <1>4, <1>5, KeepsTable DEF RequeueInterrupted

---------------------------------------------------------------------------
(* Transactions that remove files.                                         *)

LEMMA DiscardKeeps ==
  ASSUME SpoolInv, NEW o \in Ordinals, Discard(o)
  PROVE  SpoolInv' /\ NoneCompleted
<1> DEFINE r == [row[o] EXCEPT !.state = "quarantined", !.held = FALSE]
<1>1. r \in Row /\ r.state = "quarantined" /\ r.sha = row[o].sha /\ r.held = FALSE
  BY DEF SpoolInv, SpoolTypeOK, Row, States
<1>2. row' = [row EXCEPT ![o] = r] /\ row[o].state \in {"blocked", "quarantined"}
  BY DEF SpoolInv, SpoolTypeOK, Discard
<1> HIDE DEF r
<1>3. /\ row' \in [Ordinals -> Row]
      /\ row'[o] = r
      /\ \A p \in Ordinals : p # o => row'[p] = row[p]
  BY <1>1, <1>2 DEF SpoolInv, SpoolTypeOK
<1>4. /\ file' = [file EXCEPT ![o] = NoLayout]
      /\ receipt' = [receipt EXCEPT ![o] = NoLayout]
      /\ asked' = asked \cup {o}
      /\ UNCHANGED <<count, history>>
  BY DEF Discard
<1>5. NoneCompleted
  BY <1>1, <1>2, <1>3 DEF NoneCompleted, Terminal, Pending
<1>6. NothingTaken
  BY <1>1, <1>2, <1>3, <1>4
  DEF SpoolInv, SpoolTypeOK, Storage, WritingHeld, FilesHeld, NothingTaken, Slots,
      Terminal, Pending
<1>7. FilesOnlyLeave
  BY <1>4 DEF FilesOnlyLeave, SpoolInv, SpoolTypeOK
<1> QED BY <1>3, <1>4, <1>5, <1>6, <1>7, KeepsSpool DEF SpoolInv, SpoolTypeOK

LEMMA DiscardRolledBackKeeps ==
  ASSUME SpoolInv, NEW o \in Ordinals, DiscardRolledBack(o)
  PROVE  SpoolInv' /\ NoneCompleted
<1>1. /\ file' = [file EXCEPT ![o] = NoLayout]
      /\ receipt' \in {receipt, [receipt EXCEPT ![o] = NoLayout]}
      /\ asked' = asked \cup {o}
      /\ UNCHANGED <<row, count, history>>
  BY DEF DiscardRolledBack
<1>2. NoneCompleted
  BY <1>1 DEF NoneCompleted
<1>3. NothingTaken
  BY <1>1 DEF SpoolInv, SpoolTypeOK, Storage, WritingHeld, FilesHeld, NothingTaken,
              Slots
<1>4. FilesOnlyLeave
  BY <1>1 DEF FilesOnlyLeave, SpoolInv, SpoolTypeOK
<1> QED BY <1>1, <1>2, <1>3, <1>4, KeepsSpool DEF SpoolInv, SpoolTypeOK

\* Files of completed rows may go at any time.
LEMMA WithoutCompleted ==
  ASSUME SpoolInv, NEW rows \in SUBSET Ordinals,
         \A o \in rows : row'[o].state \in Terminal,
         file' = Without(file, rows), receipt' = Without(receipt, rows),
         UNCHANGED asked
  PROVE  /\ file' \in [Ordinals -> Layouts \cup {NoLayout, Partial}]
         /\ receipt' \in [Ordinals -> Layouts \cup {NoLayout, Torn}]
         /\ FilesOnlyLeave
<1>1. \A o \in Ordinals : file'[o] = IF o \in rows THEN NoLayout ELSE file[o]
  BY DEF Without
<1>2. FilesOnlyLeave
  BY <1>1 DEF FilesOnlyLeave, Terminal, Pending
<1> QED BY <1>2 DEF Without, SpoolInv, SpoolTypeOK

LEMMA UnlinkKeeps ==
  ASSUME SpoolInv, Unlink(Uncleaned)
  PROVE  SpoolInv' /\ NoneCompleted
<1>1. /\ file' = Without(file, Uncleaned)
      /\ receipt' = Without(receipt, Uncleaned)
      /\ UNCHANGED <<row, count, history, asked>>
  BY DEF Unlink
<1>2. Uncleaned \in SUBSET Ordinals /\ \A o \in Uncleaned : row'[o].state \in Terminal
  BY <1>1 DEF Uncleaned
<1>3. NoneCompleted
  BY <1>1 DEF NoneCompleted
<1>4. NothingTaken
  BY <1>1 DEF SpoolInv, SpoolTypeOK, Storage, WritingHeld, FilesHeld, NothingTaken,
              Slots, Without
<1> QED BY <1>1, <1>2, <1>3, <1>4, WithoutCompleted, KeepsSpool
        DEF SpoolInv, SpoolTypeOK

\* Reservations of completed rows without files are given back.
LEMMA ReleasedRows ==
  ASSUME SpoolInv, NEW rows \in SUBSET Ordinals,
         \A o \in rows : row[o].state \in Terminal,
         \A o \in rows : file'[o] = NoLayout,
         \A o \in Ordinals : file'[o] # NoLayout => file[o] # NoLayout,
         row' = Released(rows)
  PROVE  row' \in [Ordinals -> Row] /\ NoneCompleted /\ NothingTaken
<1>1. ASSUME NEW o \in Ordinals
     PROVE  /\ row'[o] \in Row
            /\ row'[o].state = row[o].state
            /\ row'[o].source = row[o].source
            /\ row'[o].sha = row[o].sha
            /\ row'[o].ckpt = row[o].ckpt
            /\ o \in rows => ~row'[o].held
            /\ o \notin rows => row'[o] = row[o]
  <2>1. row[o] \in Row
    BY DEF SpoolInv, SpoolTypeOK
  <2>2. CASE o \in rows
    <3>1. row'[o] = [row[o] EXCEPT !.held = FALSE]
      BY <2>2 DEF Released
    <3> QED BY <2>1, <2>2, <3>1 DEF Row
  <2>3. CASE o \notin rows
    BY <2>1, <2>3 DEF Released
  <2> QED BY <2>2, <2>3
<1>2. row' \in [Ordinals -> Row]
  BY <1>1 DEF Released
<1>3. NoneCompleted
  BY <1>1 DEF NoneCompleted
<1>4. NothingTaken
  BY <1>1 DEF SpoolInv, Storage, WritingHeld, FilesHeld, NothingTaken, Slots,
              Terminal, Pending
<1> QED BY <1>2, <1>3, <1>4

LEMMA ReleaseKeeps ==
  ASSUME SpoolInv, NEW rows \in SUBSET Ordinals,
         \A o \in rows : row[o].state \in Terminal /\ file[o] = NoLayout,
         Release(rows)
  PROVE  SpoolInv' /\ NoneCompleted
<1>1. /\ row' = Released(rows)
      /\ UNCHANGED <<count, file, receipt, history, asked>>
  BY DEF Release
<1> QED BY <1>1, ReleasedRows, KeepsTable

LEMMA CleanupDoneKeeps ==
  ASSUME SpoolInv, CleanupDone
  PROVE  SpoolInv' /\ NoneCompleted
<1>1. /\ row' = Released(Uncleaned)
      /\ file' = Without(file, Uncleaned)
      /\ receipt' = Without(receipt, Uncleaned)
      /\ UNCHANGED <<count, history, asked>>
  BY DEF CleanupDone
<1>2. /\ Uncleaned \in SUBSET Ordinals
      /\ \A o \in Uncleaned : row[o].state \in Terminal
      /\ \A o \in Uncleaned : file'[o] = NoLayout
      /\ \A o \in Ordinals : file'[o] # NoLayout => file[o] # NoLayout
  BY <1>1 DEF Uncleaned, Without
<1>3. row' \in [Ordinals -> Row] /\ NoneCompleted /\ NothingTaken
  BY <1>1, <1>2, ReleasedRows
<1>4. \A o \in Uncleaned : row'[o].state \in Terminal
  BY <1>2, <1>3 DEF NoneCompleted
<1> QED BY <1>1, <1>2, <1>3, <1>4, WithoutCompleted, KeepsSpool
        DEF SpoolInv, SpoolTypeOK

LEMMA FinishRecoveryKeeps ==
  ASSUME SpoolInv, FinishRecovery
  PROVE  SpoolInv' /\ NoneCompleted
<1>1. /\ file' = Without(file, Uncleaned)
      /\ receipt' = Without(receipt, Uncleaned)
      /\ UNCHANGED <<count, history, asked>>
  BY DEF FinishRecovery
<1>2. Uncleaned \in SUBSET Ordinals
  BY DEF Uncleaned
<1>3. ASSUME NEW o \in Ordinals
     PROVE  /\ row'[o] \in Row
            /\ \/ row'[o].state = row[o].state
               \/ (row[o].state = "ready" /\ row'[o].state = "blocked")
            /\ row'[o].source = row[o].source
            /\ row'[o].sha = row[o].sha
            /\ row'[o].ckpt = row[o].ckpt
            /\ o \notin Uncleaned => row'[o].held = row[o].held
            /\ o \in Uncleaned => ~row'[o].held
  <2>1. row[o] \in Row /\ "blocked" \in States
    BY DEF SpoolInv, SpoolTypeOK, States, Pending
  <2>2. CASE row[o].state = "ready" /\ file[o] = NoLayout
    <3>1. row'[o] = [row[o] EXCEPT !.state = "blocked"]
      BY <2>2 DEF FinishRecovery
    <3>2. o \notin Uncleaned
      BY <2>2 DEF Uncleaned, Terminal
    <3> QED BY <2>1, <2>2, <3>1, <3>2 DEF Row
  <2>3. CASE ~(row[o].state = "ready" /\ file[o] = NoLayout) /\ o \in Uncleaned
    <3>1. row'[o] = [row[o] EXCEPT !.held = FALSE]
      BY <2>3 DEF FinishRecovery, Released
    <3> QED BY <2>1, <2>3, <3>1 DEF Row
  <2>4. CASE ~(row[o].state = "ready" /\ file[o] = NoLayout) /\ o \notin Uncleaned
    <3>1. row'[o] = row[o]
      BY <2>4 DEF FinishRecovery, Released
    <3> QED BY <2>1, <2>4, <3>1
  <2> QED BY <2>2, <2>3, <2>4
<1>4. row' \in [Ordinals -> Row]
  BY <1>3 DEF FinishRecovery
<1>5. NoneCompleted
  BY <1>3 DEF NoneCompleted, Terminal, Pending
<1>6. \A o \in Ordinals : file'[o] = IF o \in Uncleaned THEN NoLayout ELSE file[o]
  BY <1>1 DEF Without
<1>7. NothingTaken
  <2>1. ASSUME NEW o \in Ordinals
        PROVE  /\ row'[o].state = "writing" => row[o].state = "writing" /\ row'[o].held
               /\ row'[o].state \in Pending => row[o].state \in Pending
               /\ row'[o].state = "none" => row[o].state = "none"
    BY <1>3 DEF SpoolInv, Storage, WritingHeld, Uncleaned, Pending, Terminal
  <2>2. ASSUME NEW o \in Ordinals, file'[o] # NoLayout,
               row'[o].state \in Pending \cup Terminal
        PROVE  row'[o].held
    <3>1. o \notin Uncleaned /\ file[o] # NoLayout
      BY <1>6, <2>2
    <3>2. row[o].state \in Pending \cup Terminal
      BY <1>3, <2>2 DEF Pending
    <3> QED BY <1>3, <3>1, <3>2 DEF SpoolInv, Storage, FilesHeld
  <2>3. ASSUME NEW o \in Ordinals, row'[o].held, row'[o].state # "quarantined"
        PROVE  o \in Slots
    BY <1>3, <2>3 DEF Slots
  <2> QED BY <1>3, <2>1, <2>2, <2>3 DEF NothingTaken
<1>8. \A o \in Uncleaned : row'[o].state \in Terminal
  BY <1>5 DEF NoneCompleted, Uncleaned
<1> QED BY <1>1, <1>2, <1>4, <1>5, <1>7, <1>8, WithoutCompleted, KeepsSpool
        DEF SpoolInv, SpoolTypeOK

---------------------------------------------------------------------------
(* Files and receipts of the capture being written.                        *)

LEMMA WriteFileKeeps ==
  ASSUME SpoolInv, NEW o \in Ordinals, row[o].state = "writing",
         NEW x \in Layouts \cup {Partial}, file' = [file EXCEPT ![o] = x],
         UNCHANGED <<row, count, receipt, history, asked>>
  PROVE  SpoolInv'
<1>1. SpoolTypeOK'
  BY DEF SpoolInv, SpoolTypeOK
<1>2. NoneCompleted
  BY DEF NoneCompleted
<1>3. Order'
  BY <1>2, KeepsOrder DEF SpoolInv
<1>4. row[o].held /\ row[o].sha = NoLayout
  BY DEF SpoolInv, Storage, WritingHeld
<1>5. \A p \in Ordinals : p # o => file'[p] = file[p]
  BY DEF SpoolInv, SpoolTypeOK
<1>6. WritingHeld' /\ FilesHeld'
  BY <1>4, <1>5 DEF SpoolInv, Storage, WritingHeld, FilesHeld
<1>7. AcceptedKept'
  BY <1>4, <1>5 DEF SpoolInv, Storage, AcceptedKept, Active
<1>8. SlotBound'
  BY DEF SpoolInv, Storage, SlotBound, Slots
<1> QED BY <1>1, <1>3, <1>6, <1>7, <1>8 DEF SpoolInv, Storage

\* No other part of the invariant mentions the receipts.
LEMMA WriteReceiptKeeps ==
  ASSUME SpoolInv, receipt' \in [Ordinals -> Layouts \cup {NoLayout, Torn}],
         UNCHANGED <<row, count, file, history, asked>>
  PROVE  SpoolInv'
<1>1. NoneCompleted
  BY DEF NoneCompleted
<1>2. NothingTaken
  BY DEF SpoolInv, Storage, WritingHeld, FilesHeld, NothingTaken, Slots
<1>3. FilesOnlyLeave
  BY DEF FilesOnlyLeave
<1> QED BY <1>1, <1>2, <1>3, KeepsSpool DEF SpoolInv, SpoolTypeOK

---------------------------------------------------------------------------
(* Reservation.                                                            *)

LEMMA ReserveKeeps ==
  ASSUME SpoolInv, NEW source \in Sources, Reserve(source)
  PROVE  /\ SpoolInv'
         /\ count + 1 \in Ordinals
         /\ row'[count + 1].state = "writing"
         /\ row'[count + 1].source = source
         /\ row[count + 1].state = "none"
         /\ \A o \in Ordinals : o # count + 1 => row'[o] = row[o]
         /\ CompletedStay
<1> DEFINE n == count + 1
           r == [state |-> "writing", source |-> source, pred |-> LastActive,
                 expect |-> HeadId, sha |-> NoLayout, ckpt |-> 0, held |-> TRUE]
<1>1. /\ n \in Ordinals
      /\ n > count
      /\ count \in Nat
      /\ n = count + 1
  BY SpoolAssumption DEF SpoolAssumption, SpoolInv, SpoolTypeOK, Reserve, Ordinals
<1>2. /\ r \in Row
      /\ r.state = "writing"
      /\ r.source = source
      /\ r.sha = NoLayout
      /\ r.held = TRUE
  BY LastActiveType, LenProperties DEF SpoolInv, SpoolTypeOK, HeadId, Row, States, Pending
<1>3. /\ row' = [row EXCEPT ![n] = r]
      /\ count' = n
      /\ UNCHANGED <<file, receipt, history, asked>>
      /\ Cardinality(Slots) < MaxItems
  BY DEF Reserve
<1> HIDE DEF n, r
<1>4. /\ row' \in [Ordinals -> Row]
      /\ row'[n] = r
      /\ \A o \in Ordinals : o # n => row'[o] = row[o]
  BY <1>1, <1>2, <1>3 DEF SpoolInv, SpoolTypeOK
<1>5. row[n].state = "none"
  BY <1>1 DEF SpoolInv, Order, Counted
<1>6. SpoolTypeOK'
  BY <1>1, <1>3, <1>4, SpoolAssumption DEF SpoolInv, SpoolTypeOK, Ordinals, SpoolAssumption
<1>7. Order'
  <2>1. \A o \in Ordinals : row'[o].state \in Terminal => o # n /\ row[o].state \in Terminal
    BY <1>2, <1>4 DEF Terminal
  <2>2. Counted'
    BY <1>1, <1>3, <1>4 DEF SpoolInv, Order, Counted, Ordinals
  <2>3. CompletedFirst'
    <3> SUFFICES ASSUME NEW t \in Ordinals, NEW p \in Ordinals,
                        row'[t].state \in Terminal, row'[p].state \in Pending
                 PROVE  t < p
      BY DEF CompletedFirst
    <3>1. row[t].state \in Terminal /\ row'[t] = row[t]
      BY <1>4, <2>1
    <3>2. CASE p = n
      BY <1>1, <3>1, <3>2 DEF SpoolInv, Order, Counted, Terminal, Ordinals
    <3>3. CASE p # n
      BY <1>4, <3>1, <3>3 DEF SpoolInv, Order, CompletedFirst
    <3> QED BY <3>2, <3>3
  <2>4. RefersBack' /\ CompletedInOrder'
    BY <1>3, <1>4, <2>1 DEF SpoolInv, Order, RefersBack, CompletedInOrder, HeadId
  <2>5. ExactlyOnce'
    <3> SUFFICES ASSUME NEW o \in Ordinals
                 PROVE  LET from == {k \in 1..HeadId : history[k].capture = o} IN
                        IF row'[o].state = "committed"
                        THEN /\ from = {row'[o].ckpt}
                             /\ history[row'[o].ckpt].layout = row'[o].sha
                        ELSE from = {}
      BY <1>3 DEF ExactlyOnce, HeadId
    <3>1. CASE o = n
      BY <1>2, <1>4, <1>5, <3>1 DEF SpoolInv, Order, ExactlyOnce
    <3>2. CASE o # n
      BY <1>4, <3>2 DEF SpoolInv, Order, ExactlyOnce
    <3> QED BY <3>1, <3>2
  <2>6. ElisionSound'
    BY <1>2, <1>3, <1>4 DEF SpoolInv, Order, ElisionSound, SameDrawing, HeadId
  <2> QED BY <2>2, <2>3, <2>4, <2>5, <2>6 DEF Order
<1>8. Storage'
  <2>1. WritingHeld' /\ FilesHeld'
    BY <1>2, <1>3, <1>4, <1>5 DEF SpoolInv, Storage, WritingHeld, FilesHeld
  <2>2. AcceptedKept'
    BY <1>2, <1>3, <1>4 DEF SpoolInv, Storage, AcceptedKept, Active
  <2>3. SlotBound'
    <3>1. Slots' \subseteq Slots \cup {n}
      BY <1>1, <1>4 DEF Slots
    <3>2. /\ IsFiniteSet(Slots \cup {n})
          /\ Cardinality(Slots \cup {n}) <= Cardinality(Slots) + 1
          /\ Cardinality(Slots) \in Nat
      <4>1. Cardinality(Slots \cup {n}) =
              IF n \in Slots THEN Cardinality(Slots) ELSE Cardinality(Slots) + 1
        BY SlotsFinite, FS_AddElement
      <4>2. IsFiniteSet(Slots \cup {n})
        BY SlotsFinite, FS_AddElement
      <4> QED BY <4>1, <4>2, SlotsFinite
    <3>3. Cardinality(Slots') <= Cardinality(Slots \cup {n})
      BY <3>1, <3>2, FS_Subset
    <3>4. Cardinality(Slots') \in Nat /\ Cardinality(Slots \cup {n}) \in Nat
      BY <3>1, <3>2, FS_Subset, FS_CardinalityType
    <3> QED BY <1>3, <3>2, <3>3, <3>4, SpoolAssumption DEF SlotBound, SpoolAssumption
  <2> QED BY <2>1, <2>2, <2>3 DEF Storage
<1>9. CompletedStay
  BY <1>4, <1>5 DEF CompletedStay, Terminal
<1> QED BY <1>1, <1>2, <1>4, <1>5, <1>6, <1>7, <1>8, <1>9 DEF SpoolInv, n

---------------------------------------------------------------------------
(* Completion: the head of the queue gets the newest version.              *)

LEMMA HeadCompleted ==
  ASSUME SpoolTypeOK, Order, NEW o \in Ordinals, First(o),
         \A p \in Ordinals : p # o => row'[p] = row[p],
         row'[o].state \in Terminal, row'[o].ckpt = HeadId',
         HeadId \in Nat, HeadId' \in Nat, HeadId <= HeadId', UNCHANGED count
  PROVE  Counted' /\ CompletedFirst' /\ RefersBack' /\ CompletedInOrder'
<1>1. row[o].state \in Pending /\ o <= count
  BY SpoolAssumption
  DEF First, Active, Order, Counted, Pending, SpoolTypeOK, Ordinals, SpoolAssumption
<1>2. ASSUME NEW p \in Ordinals, row[p].state \in Pending, p # o
      PROVE  o < p
  BY <1>2, SpoolAssumption DEF First, Active, Ordinals, SpoolAssumption
<1>3. ASSUME NEW t \in Ordinals, row'[t].state \in Terminal
      PROVE  t = o \/ (row'[t] = row[t] /\ t < o /\ row[t].state \in Terminal)
  BY <1>1, <1>3 DEF Order, CompletedFirst
<1>4. Counted'
  BY <1>1, SpoolAssumption DEF Order, Counted, Ordinals, SpoolTypeOK, SpoolAssumption
<1>5. CompletedFirst'
  <2> SUFFICES ASSUME NEW t \in Ordinals, NEW p \in Ordinals,
                      row'[t].state \in Terminal, row'[p].state \in Pending
               PROVE  t < p
    BY DEF CompletedFirst
  <2>1. p # o /\ row[p].state \in Pending
    BY DEF Terminal, Pending
  <2>2. CASE t = o
    BY <1>2, <2>1, <2>2
  <2>3. CASE t # o
    BY <1>3, <2>1, <2>3 DEF Order, CompletedFirst
  <2> QED BY <2>2, <2>3
<1>6. \A t \in Ordinals : row[t].ckpt \in Nat
  BY DEF SpoolTypeOK, Row
<1>7. RefersBack'
  BY <1>3, <1>6 DEF Order, RefersBack
<1>8. CompletedInOrder'
  <2> SUFFICES ASSUME NEW t \in Ordinals, NEW p \in Ordinals, t < p,
                      row'[t].state \in Terminal, row'[p].state \in Terminal
               PROVE  row'[t].ckpt <= row'[p].ckpt
    BY DEF CompletedInOrder
  <2>1. t # o
    BY <1>3, SpoolAssumption DEF Ordinals, SpoolAssumption
  <2>2. row'[t] = row[t] /\ row[t].state \in Terminal
    BY <1>3, <2>1
  <2>3. CASE p = o
    BY <1>6, <2>2, <2>3 DEF Order, RefersBack
  <2>4. CASE p # o
    BY <1>3, <2>2, <2>4 DEF Order, CompletedInOrder
  <2> QED BY <2>3, <2>4
<1> QED BY <1>4, <1>5, <1>7, <1>8

\* A capture that repeats the head is completed without a version.
LEMMA ElisionKeepsOrder ==
  ASSUME SpoolTypeOK, Order, NEW o \in Ordinals, First(o),
         \A p \in Ordinals : p # o => row'[p] = row[p],
         row'[o].state = "unchanged", row'[o].ckpt = HeadId,
         row'[o].source = "auto", SameDrawing(row'[o].sha, HeadId),
         UNCHANGED <<count, history>>
  PROVE  Order'
<1>1. HeadId \in Nat /\ HeadId' = HeadId /\ row'[o].state \in Terminal
  BY LenProperties DEF SpoolTypeOK, HeadId, Terminal
<1>2. Counted' /\ CompletedFirst' /\ RefersBack' /\ CompletedInOrder'
  BY <1>1, HeadCompleted
<1>3. ElisionSound'
  BY DEF Order, ElisionSound, SameDrawing, HeadId
<1>4. row[o].state # "committed"
  BY DEF First, Active, Pending
<1>5. ExactlyOnce'
  <2> SUFFICES ASSUME NEW p \in Ordinals
               PROVE  LET from == {k \in 1..HeadId : history[k].capture = p} IN
                      IF row'[p].state = "committed"
                      THEN /\ from = {row'[p].ckpt}
                           /\ history[row'[p].ckpt].layout = row'[p].sha
                      ELSE from = {}
    BY DEF ExactlyOnce, HeadId
  <2>1. CASE p = o
    BY <1>4, <2>1 DEF Order, ExactlyOnce
  <2>2. CASE p # o
    BY <2>2 DEF Order, ExactlyOnce
  <2> QED BY <2>1, <2>2
<1> QED BY <1>2, <1>3, <1>5 DEF Order

LEMMA AcknowledgeKeeps ==
  ASSUME SpoolInv, NEW o \in Ordinals, Acknowledge(o, HeadId),
         row[o].source = "auto", SameDrawing(row[o].sha, HeadId)
  PROVE  SpoolInv' /\ row'[o].state = "unchanged" /\ CompletedStay
<1> DEFINE r == [row[o] EXCEPT !.state = "unchanged", !.ckpt = HeadId]
<1>1. /\ First(o)
      /\ row[o].state = "processing"
      /\ UNCHANGED <<count, file, receipt, history, asked>>
      /\ row' = [row EXCEPT ![o] = r]
  BY DEF Acknowledge, Valid, SpoolInv, SpoolTypeOK
<1>2. /\ r \in Row /\ r.state = "unchanged" /\ r.ckpt = HeadId
      /\ r.source = row[o].source /\ r.sha = row[o].sha /\ r.held = row[o].held
  BY LenProperties DEF SpoolInv, SpoolTypeOK, HeadId, Row, States, Terminal
<1> HIDE DEF r
<1>3. /\ row' \in [Ordinals -> Row]
      /\ row'[o] = r
      /\ \A p \in Ordinals : p # o => row'[p] = row[p]
  BY <1>1, <1>2 DEF SpoolInv, SpoolTypeOK
<1>4. SpoolTypeOK'
  BY <1>1, <1>3 DEF SpoolInv, SpoolTypeOK
<1>5. Order'
  BY <1>1, <1>2, <1>3, ElisionKeepsOrder DEF SpoolInv
<1>6. NothingTaken
  BY <1>1, <1>2, <1>3
  DEF SpoolInv, Storage, WritingHeld, FilesHeld, NothingTaken, Slots, Terminal, Pending
<1>7. Storage'
  BY <1>1, <1>6, KeepsStorage DEF SpoolInv, FilesOnlyLeave
<1>8. CompletedStay
  BY <1>1, <1>3 DEF CompletedStay, Terminal
<1> QED BY <1>8, <1>2, <1>3, <1>4, <1>5, <1>7 DEF SpoolInv

LEMMA PublishKeeps ==
  ASSUME SpoolInv, NEW o \in Ordinals, Publish(o, HeadId)
  PROVE  SpoolInv' /\ row'[o].state = "committed" /\ CompletedStay
<1> DEFINE r == [row[o] EXCEPT !.state = "committed", !.ckpt = HeadId + 1]
           c == [layout |-> row[o].sha, capture |-> o, parent |-> HeadId]
<1>0. HeadId \in Nat
  BY LenProperties DEF SpoolInv, SpoolTypeOK, HeadId
<1>1. /\ First(o)
      /\ row[o].state = "processing"
      /\ row[o].sha # NoLayout
      /\ UNCHANGED <<count, file, receipt, asked>>
      /\ history' = Append(history, c)
      /\ row' = [row EXCEPT ![o] = r]
  BY DEF Publish, Valid, SpoolInv, SpoolTypeOK
<1>2. /\ r \in Row /\ r.state = "committed" /\ r.ckpt = HeadId + 1
      /\ r.source = row[o].source /\ r.sha = row[o].sha /\ r.held = row[o].held
  <2>1. row[o] \in Row /\ "committed" \in States /\ HeadId + 1 \in Nat
    BY <1>0 DEF SpoolInv, SpoolTypeOK, States, Terminal
  <2> QED BY <2>1 DEF Row
<1>3. c \in Checkpoint /\ c.layout = row[o].sha /\ c.capture = o
  BY <1>0, <1>1, SpoolAssumption
  DEF SpoolInv, SpoolTypeOK, Row, Checkpoint, Ordinals, SpoolAssumption
<1> HIDE DEF r, c
<1>4. /\ row' \in [Ordinals -> Row]
      /\ row'[o] = r
      /\ \A p \in Ordinals : p # o => row'[p] = row[p]
  BY <1>1, <1>2 DEF SpoolInv, SpoolTypeOK
<1>5. /\ history' \in Seq(Checkpoint)
      /\ HeadId' = HeadId + 1
      /\ \A k \in 1..HeadId : history'[k] = history[k]
      /\ history'[HeadId + 1] = c
  BY <1>1, <1>3, AppendVersion DEF SpoolInv
<1>6. SpoolTypeOK'
  BY <1>1, <1>4, <1>5 DEF SpoolInv, SpoolTypeOK
<1>7. Order'
  <2>1. Counted' /\ CompletedFirst' /\ RefersBack' /\ CompletedInOrder'
    BY <1>0, <1>1, <1>2, <1>4, <1>5, HeadCompleted DEF SpoolInv, Terminal
  <2>2. ExactlyOnce'
    <3>1. \A p \in Ordinals :
            {k \in 1..HeadId' : history'[k].capture = p} =
              {k \in 1..HeadId : history[k].capture = p}
                \cup (IF p = o THEN {HeadId + 1} ELSE {})
      BY <1>0, <1>3, <1>5
    <3>2. row[o].state # "committed"
      BY <1>1
    <3>3. ASSUME NEW p \in Ordinals, p # o, row[p].state = "committed"
          PROVE  row[p].ckpt \in 1..HeadId
      BY <3>3 DEF SpoolInv, Order, ExactlyOnce
    <3> SUFFICES ASSUME NEW p \in Ordinals
                 PROVE  LET from == {k \in 1..HeadId' : history'[k].capture = p} IN
                        IF row'[p].state = "committed"
                        THEN /\ from = {row'[p].ckpt}
                             /\ history'[row'[p].ckpt].layout = row'[p].sha
                        ELSE from = {}
      BY DEF ExactlyOnce
    <3>4. CASE p = o
      BY <1>2, <1>3, <1>4, <1>5, <3>1, <3>2, <3>4 DEF SpoolInv, Order, ExactlyOnce
    <3>5. CASE p # o /\ row[p].state = "committed"
      BY <1>4, <1>5, <3>1, <3>3, <3>5 DEF SpoolInv, Order, ExactlyOnce
    <3>6. CASE p # o /\ row[p].state # "committed"
      BY <1>4, <3>1, <3>6 DEF SpoolInv, Order, ExactlyOnce
    <3> QED BY <3>4, <3>5, <3>6
  <2>3. ElisionSound'
    BY <1>0, <1>2, <1>4, <1>5 DEF SpoolInv, Order, ElisionSound, SameDrawing
  <2> QED BY <2>1, <2>2, <2>3 DEF Order
<1>8. NothingTaken
  BY <1>1, <1>2, <1>4
  DEF SpoolInv, Storage, WritingHeld, FilesHeld, NothingTaken, Slots, Terminal, Pending
<1>9. Storage'
  BY <1>1, <1>8, KeepsStorage DEF SpoolInv, FilesOnlyLeave
<1>10. CompletedStay
  BY <1>1, <1>4 DEF CompletedStay, Terminal
<1> QED BY <1>10, <1>2, <1>4, <1>6, <1>7, <1>9 DEF SpoolInv

\* accept(): what the recorder found equal is equal.
LEMMA CommitAcceptanceKeeps ==
  ASSUME SpoolInv, NEW o \in Ordinals, file[o] \in Layouts, NEW probe \in Nat,
         probe # 0 => row[o].source = "auto" /\ SameDrawing(file[o], probe),
         CommitAcceptance(o, probe)
  PROVE  SpoolInv' /\ row'[o].state \in {"ready"} \cup Terminal /\ CompletedStay
<1> DEFINE s == IF Elides(o, probe) THEN "unchanged" ELSE "ready"
           c == IF Elides(o, probe) THEN probe ELSE 0
           r == [row[o] EXCEPT !.state = s, !.ckpt = c, !.sha = file[o], !.held = TRUE]
<1>1. /\ row[o].state = "writing"
      /\ row' = [row EXCEPT ![o] = r]
      /\ UNCHANGED <<count, file, receipt, history, asked>>
  BY DEF CommitAcceptance, SpoolInv, SpoolTypeOK
<1>2. /\ r \in Row /\ r.state = s /\ r.ckpt = c /\ r.sha = file[o]
      /\ r.source = row[o].source /\ r.held = TRUE
  <2>1. row[o] \in Row /\ s \in States /\ c \in Nat
    BY LenProperties DEF SpoolInv, SpoolTypeOK, HeadId, States, Pending, Terminal
  <2> HIDE DEF s, c
  <2> QED BY <2>1 DEF Row
<1>3. /\ Elides(o, probe) => s = "unchanged" /\ c = probe
      /\ ~Elides(o, probe) => s = "ready"
  OBVIOUS
<1> HIDE DEF r, s, c
<1>4. /\ row' \in [Ordinals -> Row]
      /\ row'[o] = r
      /\ \A p \in Ordinals : p # o => row'[p] = row[p]
  BY <1>1, <1>2 DEF SpoolInv, SpoolTypeOK
<1>5. SpoolTypeOK'
  BY <1>1, <1>4 DEF SpoolInv, SpoolTypeOK
<1>6. Order'
  <2>1. CASE Elides(o, probe)
    <3>1. First(o) /\ probe = HeadId /\ probe # 0
      BY <2>1 DEF Elides
    <3> QED BY <1>1, <1>2, <1>3, <1>4, <2>1, <3>1, ElisionKeepsOrder DEF SpoolInv
  <2>2. CASE ~Elides(o, probe)
    <3>1. NoneCompleted
      BY <1>1, <1>2, <1>3, <1>4, <2>2 DEF NoneCompleted, Terminal, Pending
    <3> QED BY <1>1, <3>1, KeepsOrder DEF SpoolInv
  <2> QED BY <2>1, <2>2
<1>7. Storage'
  <2>1. s \in {"ready", "unchanged"} /\ row[o].held
    BY <1>1, <1>3 DEF SpoolInv, Storage, WritingHeld
  <2>2. SlotBound'
    <3>1. Slots' \subseteq Slots
      BY <1>1, <1>4, <2>1 DEF Slots
    <3> QED BY <3>1, KeepsSlots DEF SpoolInv, Storage
  <2>3. WritingHeld' /\ FilesHeld'
    BY <1>1, <1>2, <1>4, <2>1 DEF SpoolInv, Storage, WritingHeld, FilesHeld
  <2>4. AcceptedKept'
    BY <1>1, <1>2, <1>4 DEF SpoolInv, Storage, AcceptedKept, Active
  <2> QED BY <2>2, <2>3, <2>4 DEF Storage
<1>8. CompletedStay
  BY <1>1, <1>4 DEF CompletedStay, Terminal
<1> QED BY <1>8, <1>2, <1>3, <1>4, <1>5, <1>6, <1>7 DEF SpoolInv, Terminal

---------------------------------------------------------------------------
(* Other writers, and where it all starts.                                 *)

LEMMA ForeignKeeps ==
  ASSUME SpoolInv, NEW l \in Layouts,
         history' = Append(history, [layout |-> l, capture |-> 0, parent |-> HeadId]),
         UNCHANGED <<row, count, file, receipt, asked>>
  PROVE  SpoolInv'
<1> DEFINE c == [layout |-> l, capture |-> 0, parent |-> HeadId]
<1>0. HeadId \in Nat
  BY LenProperties DEF SpoolInv, SpoolTypeOK, HeadId
<1>1. c \in Checkpoint /\ c.capture = 0
  BY <1>0, SpoolAssumption DEF Checkpoint, SpoolAssumption
<1> HIDE DEF c
<1>2. history' = Append(history, c)
  BY DEF c
<1>3. /\ history' \in Seq(Checkpoint)
      /\ HeadId' = HeadId + 1
      /\ \A k \in 1..HeadId : history'[k] = history[k]
      /\ history'[HeadId + 1] = c
  BY <1>1, <1>2, AppendVersion DEF SpoolInv
<1>4. SpoolTypeOK'
  BY <1>3 DEF SpoolInv, SpoolTypeOK
<1>5. Counted' /\ CompletedFirst' /\ CompletedInOrder'
  BY DEF SpoolInv, Order, Counted, CompletedFirst, CompletedInOrder
<1>6. RefersBack'
  BY <1>0, <1>3 DEF SpoolInv, SpoolTypeOK, Row, Order, RefersBack
<1>7. ExactlyOnce'
  <2>1. \A p \in Ordinals : {k \in 1..HeadId' : history'[k].capture = p} =
                              {k \in 1..HeadId : history[k].capture = p}
    <3> SUFFICES ASSUME NEW p \in Ordinals
                 PROVE  {k \in 1..HeadId' : history'[k].capture = p} =
                          {k \in 1..HeadId : history[k].capture = p}
      OBVIOUS
    <3>1. history'[HeadId + 1].capture # p
      <4>1. p # 0
        BY SpoolAssumption DEF Ordinals, SpoolAssumption
      <4> HIDE DEF HeadId
      <4> QED BY <1>1, <1>3, <4>1
    <3> HIDE DEF HeadId
    <3>2. \A k \in 1..HeadId' : k \in 1..HeadId \/ k = HeadId + 1
      BY <1>0, <1>3
    <3>3. \A k \in 1..HeadId : k \in 1..HeadId'
      BY <1>0, <1>3
    <3> QED BY <1>3, <3>1, <3>2, <3>3
  <2>2. ASSUME NEW p \in Ordinals, row[p].state = "committed"
        PROVE  row[p].ckpt \in 1..HeadId
    BY <2>2 DEF SpoolInv, Order, ExactlyOnce
  <2> QED BY <1>3, <2>1, <2>2 DEF SpoolInv, Order, ExactlyOnce
<1>8. ElisionSound'
  <2> SUFFICES ASSUME NEW o \in Ordinals, row[o].state = "unchanged"
               PROVE  row[o].source = "auto" /\ SameDrawing(row[o].sha, row[o].ckpt)'
    BY DEF ElisionSound
  <2>1. row[o].source = "auto" /\ SameDrawing(row[o].sha, row[o].ckpt)
    BY DEF SpoolInv, Order, ElisionSound
  <2>2. row[o].ckpt \in 1..HeadId'
    BY <1>0, <1>3, <2>1 DEF SameDrawing
  <2> QED BY <1>3, <2>1, <2>2 DEF SameDrawing
<1>9. Storage'
  BY DEF SpoolInv, Storage, WritingHeld, FilesHeld, AcceptedKept, Active, SlotBound, Slots
<1> QED BY <1>4, <1>5, <1>6, <1>7, <1>8, <1>9 DEF SpoolInv, Order

LEMMA SpoolInitInv == SpoolInit => SpoolInv
<1> SUFFICES ASSUME SpoolInit PROVE SpoolInv
  OBVIOUS
<1>1. NoRow \in Row /\ NoRow.state = "none" /\ NoRow.held = FALSE
  BY SpoolAssumption DEF NoRow, Row, States, Sources, SpoolAssumption
<1>2. \A o \in Ordinals : row[o] = NoRow /\ file[o] = NoLayout
  BY DEF SpoolInit
<1>3. history \in Seq(Checkpoint) /\ \A k \in 1..HeadId : history[k].capture = 0
  <2>1. CASE history = <<>>
    BY <2>1, EmptySeq DEF HeadId
  <2>2. ASSUME NEW l \in Layouts, history = <<[layout |-> l, capture |-> 0, parent |-> 0]>>
        PROVE  history \in Seq(Checkpoint) /\ \A k \in 1..HeadId : history[k].capture = 0
    <3>1. [layout |-> l, capture |-> 0, parent |-> 0] \in Checkpoint
      BY SpoolAssumption DEF Checkpoint, SpoolAssumption
    <3> QED BY <2>2, <3>1 DEF HeadId
  <2> QED BY <2>1, <2>2 DEF SpoolInit
<1>4. SpoolTypeOK
  BY <1>1, <1>3, SpoolAssumption DEF SpoolInit, SpoolTypeOK, SpoolAssumption
<1>5. Order
  <2>1. \A o \in Ordinals : row[o].state \notin Terminal \cup Pending /\ row[o].state = "none"
    BY <1>1, <1>2 DEF Terminal, Pending
  <2>2. ExactlyOnce
    BY <1>3, <2>1, SpoolAssumption DEF ExactlyOnce, Ordinals, SpoolAssumption
  <2> QED BY <2>1, <2>2 DEF Order, Counted, CompletedFirst, RefersBack, CompletedInOrder,
                            ElisionSound, Terminal
<1>6. Storage
  <2>1. Slots = {} /\ Active = {}
    BY <1>1, <1>2 DEF Slots, Active, Pending
  <2>2. SlotBound
    BY <2>1, FS_EmptySet, SpoolAssumption DEF SlotBound, SpoolAssumption
  <2> QED BY <1>1, <1>2, <2>1, <2>2
          DEF Storage, WritingHeld, FilesHeld, AcceptedKept
<1> QED BY <1>4, <1>5, <1>6 DEF SpoolInv

\* The invariant says all that the table promises.
LEMMA SpoolInvImplies ==
  ASSUME SpoolInv
  PROVE  PublishedInOrder /\ DiskAccounted
<1>1. ASSUME NEW j \in 1..HeadId, NEW k \in 1..HeadId, j < k,
             history[j].capture # 0, history[k].capture # 0
      PROVE  history[j].capture < history[k].capture
  <2>1. HeadId \in Nat
    BY LenProperties DEF SpoolInv, SpoolTypeOK, HeadId
  <2>2. history[j].capture \in Ordinals /\ history[k].capture \in Ordinals
    <3>1. history[j] \in Checkpoint /\ history[k] \in Checkpoint
      BY LenProperties DEF SpoolInv, SpoolTypeOK, HeadId
    <3> QED BY <1>1, <3>1, SpoolAssumption DEF Checkpoint, Ordinals, SpoolAssumption
  <2>3. ASSUME NEW i \in 1..HeadId, history[i].capture \in Ordinals
        PROVE  /\ row[history[i].capture].state \in Terminal
               /\ row[history[i].capture].ckpt = i
    BY <2>3 DEF SpoolInv, Order, ExactlyOnce, Terminal
  <2> QED BY <1>1, <2>1, <2>2, <2>3, SpoolAssumption
          DEF SpoolInv, Order, CompletedInOrder, Ordinals, SpoolAssumption
<1>2. PublishedInOrder
  BY <1>1 DEF PublishedInOrder, SpoolInv, Order, CompletedInOrder
<1>3. DiskAccounted
  BY DEF DiskAccounted, SpoolInv, Storage, FilesHeld
<1> QED BY <1>2, <1>3

---------------------------------------------------------------------------
(* The inductive invariant of the pipeline.                                *)

ThreadTypeOK ==
  /\ owner \in {"none", "recorder", "recovery"}
  /\ rec \in Recorder
  /\ org \in Organizer
  /\ cancel \in BOOLEAN
  /\ faults \in 0..MaxFaults

\* Without the lease nobody works.
Owned ==
  /\ owner = "none" <=> rec.pc = "off"
  /\ owner = "none" => org.pc = "idle"

\* The row that is saved is being written, and what the recorder found out
\* about its bytes is so.
Saved ==
  /\ Saving =>
       /\ rec.item \in Ordinals
       /\ row[rec.item].state = "writing"
       /\ row[rec.item].source = rec.source
  /\ rec.pc \in {"exported", "hashed", "verified"} => file[rec.item] \in Layouts
  /\ rec.pc \in {"hashed", "verified"} /\ rec.probe # 0 =>
       /\ row[rec.item].source = "auto"
       /\ SameDrawing(file[rec.item], rec.probe)

\* The row that is organized is processing, and nothing is published between
\* its preparation and its publication.
Worked ==
  /\ org.pc \in {"marked", "prepared"} =>
       org.item \in Ordinals /\ row[org.item].state = "processing"
  /\ org.pc = "published" => org.item \in Ordinals /\ row[org.item].state \in Terminal
  /\ org.pc = "prepared" => org.parent = HeadId
  /\ org.pc = "unlinked" =>
       \A o \in org.clean : row[o].state \in Terminal /\ file[o] = NoLayout

PipelineInv == SpoolInv /\ ThreadTypeOK /\ Owned /\ Saved /\ Worked

Threads == Owned /\ Saved /\ Worked

---------------------------------------------------------------------------
(* What a step must leave alone for each thread.                           *)

\* Comparisons with a version do not change.
SameVersions ==
  \A l \in Layouts, k \in Nat : SameDrawing(l, k) => SameDrawing(l, k)'

LEMMA VersionsStay ==
  ASSUME SpoolTypeOK, UNCHANGED history \/ (\E c \in Checkpoint : history' = Append(history, c))
  PROVE  SameVersions
<1>1. CASE UNCHANGED history
  BY <1>1 DEF SameVersions, SameDrawing, HeadId
<1>2. ASSUME NEW c \in Checkpoint, history' = Append(history, c)
      PROVE  SameVersions
  <2>1. HeadId \in Nat /\ HeadId' = HeadId + 1 /\ \A k \in 1..HeadId : history'[k] = history[k]
    BY <1>2, AppendVersion
  <2> QED BY <2>1 DEF SameVersions, SameDrawing
<1> QED BY <1>1, <1>2

LEMMA SavedStays ==
  ASSUME SpoolInv, ThreadTypeOK, Saved, SameVersions, UNCHANGED rec,
         \A o \in Ordinals : row[o].state = "writing" =>
           /\ row'[o].state = row[o].state
           /\ row'[o].source = row[o].source
           /\ file'[o] = file[o]
  PROVE  Saved'
<1>1. rec.probe \in Nat
  BY DEF ThreadTypeOK, Recorder
<1> QED BY <1>1 DEF Saved, Saving, SameVersions

LEMMA WorkedStays ==
  ASSUME ThreadTypeOK, Worked, UNCHANGED <<org, history>>,
         \A o \in Ordinals :
           /\ row[o].state = "processing" => row'[o].state = row[o].state
           /\ row[o].state \in Terminal => row'[o].state \in Terminal
           /\ row[o].state \in Terminal /\ file[o] = NoLayout => file'[o] = NoLayout
  PROVE  Worked'
<1>1. org.clean \subseteq Ordinals
  BY DEF ThreadTypeOK, Organizer
<1> QED BY <1>1 DEF Worked, HeadId

---------------------------------------------------------------------------
(* What a step does to what is completed.                                  *)

HistoryGrows ==
  HeadId <= Len(history') /\ SubSeq(history', 1, HeadId) = history

Completed == CompletedStay /\ HistoryGrows

LEMMA SameHistory ==
  ASSUME SpoolTypeOK, UNCHANGED history
  PROVE  HistoryGrows
BY SubSeqFull, LenProperties DEF HistoryGrows, HeadId, SpoolTypeOK

LEMMA NothingCompletes ==
  ASSUME SpoolTypeOK, NoneCompleted \/ UNCHANGED row, UNCHANGED history
  PROVE  Completed
<1>1. CompletedStay
  BY DEF CompletedStay, NoneCompleted
<1> QED BY <1>1, SameHistory DEF Completed

LEMMA AppendGrows ==
  ASSUME SpoolTypeOK, NEW c \in Checkpoint, history' = Append(history, c)
  PROVE  HistoryGrows
<1>1. /\ history' \in Seq(Checkpoint)
      /\ HeadId \in Nat
      /\ HeadId' = HeadId + 1
      /\ \A k \in 1..HeadId : history'[k] = history[k]
  BY AppendVersion
<1>2. /\ SubSeq(history', 1, HeadId) \in Seq(Checkpoint)
      /\ Len(SubSeq(history', 1, HeadId)) = HeadId
      /\ \A k \in 1..HeadId : SubSeq(history', 1, HeadId)[k] = history'[k]
  BY <1>1, SubSeqProperties DEF HeadId
<1>3. SubSeq(history', 1, HeadId) = history
  BY <1>1, <1>2, SeqEqual DEF SpoolTypeOK, HeadId
<1> QED BY <1>1, <1>3 DEF HistoryGrows, HeadId

LEMMA SpoolSame ==
  ASSUME SpoolInv, UNCHANGED spoolVars
  PROVE  SpoolInv' /\ Completed
<1>1. NoneCompleted
  BY DEF NoneCompleted, spoolVars
<1>2. NothingTaken
  BY DEF NothingTaken, SpoolInv, Storage, WritingHeld, FilesHeld, Slots, spoolVars
<1>3. SpoolInv'
  BY <1>1, <1>2, KeepsTable DEF SpoolInv, SpoolTypeOK, spoolVars
<1> QED BY <1>1, <1>3, NothingCompletes DEF SpoolInv, spoolVars

---------------------------------------------------------------------------
(* Lease owners.                                                           *)

LEMMA AcquireKeeps ==
  ASSUME PipelineInv, NEW kind \in {"recorder", "recovery"}, Acquire(kind)
  PROVE  PipelineInv' /\ Completed
<1>1. SpoolInv' /\ NoneCompleted
  BY RequeueKeeps DEF PipelineInv, Acquire
<1>2. Completed
  BY <1>1, NothingCompletes DEF PipelineInv, SpoolInv, Acquire, RequeueInterrupted
<1>3. rec' = [RecOff EXCEPT !.pc = "recovering"] /\ rec'.pc = "recovering"
  BY DEF Acquire, RecOff
<1>4. rec' \in Recorder
  BY <1>3, SpoolAssumption DEF Recorder, RecOff, RecPCs, Sources, Modes, SpoolAssumption
<1>5. ThreadTypeOK'
  BY <1>4 DEF PipelineInv, ThreadTypeOK, Acquire
<1>6. Owned' /\ Saved' /\ Worked'
  BY <1>3 DEF PipelineInv, Acquire, Owned, Saved, Saving, Worked
<1> QED BY <1>1, <1>2, <1>5, <1>6 DEF PipelineInv

LEMMA RecoverWritingKeeps ==
  ASSUME PipelineInv, RecoverWriting
  PROVE  PipelineInv' /\ Completed
<1>1. PICK o \in Ordinals :
        /\ row[o].state = "writing"
        /\ IF Verified(o)
           THEN \E probe \in {0, HeadId} : Compares(o, probe) /\ CommitAcceptance(o, probe)
           ELSE Block(o)
  BY DEF RecoverWriting
<1>2. /\ SpoolInv /\ SpoolTypeOK /\ HeadId \in Nat
      /\ UNCHANGED <<owner, rec, org, cancel, faults, file, history>>
  BY <1>1, LenProperties DEF PipelineInv, SpoolInv, SpoolTypeOK, HeadId, RecoverWriting,
     CommitAcceptance, Block
<1>3. ThreadTypeOK' /\ Owned'
  BY <1>2 DEF PipelineInv, ThreadTypeOK, Owned
<1>4. Saved'
  BY <1>2 DEF PipelineInv, Saved, Saving, RecoverWriting
<1>5. CASE Verified(o)
  <2>1. PICK probe \in {0, HeadId} : Compares(o, probe) /\ CommitAcceptance(o, probe)
    BY <1>1, <1>5
  <2>2. file[o] \in Layouts
    BY <1>5 DEF Verified
  <2>3. probe \in Nat /\ (probe # 0 => row[o].source = "auto" /\ SameDrawing(file[o], probe))
    BY <1>2, <2>1 DEF Compares
  <2>4. SpoolInv' /\ row'[o].state \in {"ready"} \cup Terminal /\ CompletedStay
    BY <1>2, <2>1, <2>2, <2>3, CommitAcceptanceKeeps
  <2>5. \A p \in Ordinals : p # o => row'[p] = row[p]
    BY <1>2, <2>1 DEF CommitAcceptance, SpoolTypeOK
  <2>6. \A p \in Ordinals :
          /\ row[p].state = "processing" => row'[p].state = row[p].state
          /\ row[p].state \in Terminal => row'[p].state \in Terminal
    BY <1>1, <2>5 DEF Terminal
  <2>7. Worked'
    BY <1>2, <2>6, WorkedStays DEF PipelineInv
  <2>8. HistoryGrows
    BY <1>2, SameHistory
  <2> QED BY <1>3, <1>4, <2>4, <2>7, <2>8 DEF PipelineInv, Completed
<1>6. CASE ~Verified(o)
  <2>1. Block(o)
    BY <1>1, <1>6
  <2>2. SpoolInv' /\ NoneCompleted
    BY <1>1, <1>2, <2>1, BlockKeeps
  <2>3. Completed
    BY <1>2, <2>2, NothingCompletes
  <2>4. \A p \in Ordinals : p # o => row'[p] = row[p]
    BY <1>2, <2>1 DEF Block, SpoolTypeOK
  <2>5. \A p \in Ordinals :
          /\ row[p].state = "processing" => row'[p].state = row[p].state
          /\ row[p].state \in Terminal => row'[p].state \in Terminal
    BY <1>1, <2>4 DEF Terminal
  <2>6. Worked'
    BY <1>2, <2>5, WorkedStays DEF PipelineInv
  <2> QED BY <1>3, <1>4, <2>2, <2>3, <2>6 DEF PipelineInv
<1> QED BY <1>5, <1>6

LEMMA FinishRecoverKeeps ==
  ASSUME PipelineInv, FinishRecover
  PROVE  PipelineInv' /\ Completed
<1>1. SpoolInv' /\ NoneCompleted /\ UNCHANGED <<owner, org, cancel, faults, history>>
  BY FinishRecoveryKeeps DEF PipelineInv, FinishRecover, FinishRecovery
<1>2. Completed
  BY <1>1, NothingCompletes DEF PipelineInv, SpoolInv
<1>3. /\ rec' \in Recorder
      /\ rec'.pc \in {"barrier", "organizing"}
  BY DEF FinishRecover, PipelineInv, ThreadTypeOK, Recorder, RecPCs, Modes
<1>4. ThreadTypeOK'
  BY <1>1, <1>3 DEF PipelineInv, ThreadTypeOK
<1>5. Owned' /\ Saved'
  BY <1>1, <1>3 DEF PipelineInv, Owned, Saved, Saving, FinishRecover
<1>6. \A o \in Ordinals :
        /\ row[o].state = "processing" => row'[o].state = row[o].state
        /\ row[o].state \in Terminal => row'[o].state \in Terminal
        /\ row[o].state \in Terminal /\ file[o] = NoLayout => file'[o] = NoLayout
  <2>1. \A o \in Ordinals : row[o].state \in Terminal => row'[o].state \in Terminal
    BY <1>1 DEF NoneCompleted
  <2>2. \A o \in Ordinals : file[o] = NoLayout => file'[o] = NoLayout
    BY DEF FinishRecover, FinishRecovery, Without
  <2>3. ASSUME NEW o \in Ordinals, row[o].state = "processing"
        PROVE  row'[o].state = row[o].state
    BY <2>3 DEF FinishRecover, FinishRecovery, Released, Uncleaned, Terminal
  <2> QED BY <2>1, <2>2, <2>3
<1>7. Worked'
  BY <1>1, <1>6, WorkedStays DEF PipelineInv
<1> QED BY <1>1, <1>2, <1>4, <1>5, <1>7 DEF PipelineInv

LEMMA OwnerFailsKeeps ==
  ASSUME PipelineInv, OwnerFails
  PROVE  PipelineInv' /\ Completed
<1>1. SpoolInv' /\ Completed /\ UNCHANGED <<row, file, history, owner, org, cancel>>
  BY SpoolSame DEF PipelineInv, OwnerFails, spoolVars
<1>2. /\ rec' \in Recorder
      /\ rec'.pc \in {"recording", "closing"}
      /\ rec.pc # "off"
  BY DEF OwnerFails, AfterError, RecGoto, PipelineInv, ThreadTypeOK, Recorder, RecPCs
<1>3. faults' \in 0..MaxFaults
  BY PipelineAssumption DEF PipelineAssumption, OwnerFails, Fault, PipelineInv, ThreadTypeOK
<1>4. ThreadTypeOK' /\ Owned' /\ Saved'
  BY <1>1, <1>2, <1>3 DEF PipelineInv, ThreadTypeOK, Owned, Saved, Saving
<1>5. Worked'
  BY <1>1 DEF PipelineInv, Worked, HeadId
<1> QED BY <1>1, <1>4, <1>5 DEF PipelineInv

\* Nobody is left working.
LEMMA NobodyWorks ==
  ASSUME owner' = "none", rec' = RecOff, org' = OrgIdle, cancel' = FALSE,
         faults' \in 0..MaxFaults
  PROVE  ThreadTypeOK' /\ Owned' /\ Saved' /\ Worked'
<1>1. RecOff \in Recorder /\ RecOff.pc = "off" /\ OrgIdle \in Organizer /\ OrgIdle.pc = "idle"
  BY SpoolAssumption DEF SpoolAssumption, RecOff, OrgIdle, Recorder, Organizer, RecPCs, OrgPCs,
     Sources, Modes, Ordinals
<1> QED BY <1>1 DEF ThreadTypeOK, Owned, Saved, Saving, Worked

LEMMA CloseKeeps ==
  ASSUME PipelineInv, Close
  PROVE  PipelineInv' /\ Completed
<1>1. SpoolInv' /\ Completed
  BY SpoolSame DEF PipelineInv, Close
<1> QED BY <1>1, NobodyWorks DEF PipelineInv, ThreadTypeOK, Close

LEMMA CrashKeeps ==
  ASSUME PipelineInv, Crash
  PROVE  PipelineInv' /\ Completed
<1>1. receipt' \in [Ordinals -> Layouts \cup {NoLayout, Torn}]
  BY DEF PipelineInv, SpoolInv, SpoolTypeOK, Crash
<1>2. SpoolInv' /\ Completed
  BY <1>1, WriteReceiptKeeps, NothingCompletes DEF PipelineInv, SpoolInv, Crash
<1>3. faults' \in 0..MaxFaults
  BY PipelineAssumption DEF PipelineAssumption, Crash, Fault, PipelineInv, ThreadTypeOK
<1> QED BY <1>2, <1>3, NobodyWorks DEF PipelineInv, Crash

LEMMA ForeignCheckpointKeeps ==
  ASSUME PipelineInv, NEW l \in Layouts, ForeignCheckpoint(l)
  PROVE  PipelineInv' /\ Completed
<1>1. SpoolInv'
  BY ForeignKeeps DEF PipelineInv, ForeignCheckpoint
<1>2. CompletedStay
  BY DEF CompletedStay, ForeignCheckpoint
<1>3. [layout |-> l, capture |-> 0, parent |-> HeadId] \in Checkpoint
  BY SpoolAssumption, LenProperties
  DEF SpoolAssumption, Checkpoint, PipelineInv, SpoolInv, SpoolTypeOK, HeadId
<1>4. HistoryGrows
  BY <1>3, AppendGrows DEF PipelineInv, SpoolInv, ForeignCheckpoint
<1>5. ThreadTypeOK' /\ Owned' /\ Saved' /\ Worked'
  BY DEF PipelineInv, ForeignCheckpoint, ThreadTypeOK, Owned, Saved, Saving, Worked
<1> QED BY <1>1, <1>2, <1>4, <1>5 DEF PipelineInv, Completed

---------------------------------------------------------------------------
(* The recorder.                                                           *)

SavingPCs == {"reserved", "exporting", "exported", "hashed", "verified"}

\* The recorder moves on without touching the table, and saves nothing then.
LEMMA RecMoves ==
  ASSUME PipelineInv, UNCHANGED <<spoolVars, owner, org, cancel>>,
         faults' \in 0..MaxFaults, rec' \in Recorder,
         rec.pc # "off", rec'.pc \notin SavingPCs \cup {"off"}
  PROVE  PipelineInv' /\ Completed
<1>1. SpoolInv' /\ Completed /\ UNCHANGED <<row, file, history>>
  BY SpoolSame DEF PipelineInv, spoolVars
<1>2. ThreadTypeOK' /\ Owned' /\ Saved'
  BY DEF PipelineInv, ThreadTypeOK, Owned, Saved, Saving, SavingPCs
<1>3. Worked'
  BY <1>1 DEF PipelineInv, Worked, HeadId
<1> QED BY <1>1, <1>2, <1>3 DEF PipelineInv

LEMMA RecMovesKeep ==
  ASSUME PipelineInv,
         \/ \E s \in Sources : BeginBarrier(s)
         \/ \E m \in Modes : RecDeferred(m)
         \/ AwaitDone \/ DrainRaises \/ Unhealthy \/ BeginFinish
  PROVE  PipelineInv' /\ Completed
<1> DEFINE Goal == /\ UNCHANGED <<spoolVars, owner, org, cancel>>
                   /\ faults' \in 0..MaxFaults
                   /\ rec' \in Recorder
                   /\ rec.pc # "off"
                   /\ rec'.pc \notin SavingPCs \cup {"off"}
<1>1. rec \in Recorder /\ faults \in 0..MaxFaults
  BY DEF PipelineInv, ThreadTypeOK
<1>2. ASSUME NEW s \in Sources, BeginBarrier(s) PROVE Goal
  BY <1>1, <1>2 DEF BeginBarrier, Recorder, RecPCs, Modes, SavingPCs
<1>3. ASSUME NEW m \in Modes, RecDeferred(m) PROVE Goal
  BY <1>1, <1>3 DEF RecDeferred, Begins, AfterError, RecGoto, Recorder, RecPCs, SavingPCs
<1>4. ASSUME AwaitDone PROVE Goal
  BY <1>1, <1>4 DEF AwaitDone, Answered, AfterSave, RecGoto, Recorder, RecPCs, SavingPCs
<1>5. ASSUME DrainRaises PROVE Goal
  BY <1>1, <1>5 DEF DrainRaises, Gated, AfterError, RecGoto, Recorder, RecPCs, SavingPCs
<1>6. ASSUME Unhealthy PROVE Goal
  BY <1>1, <1>6 DEF Unhealthy, RecGoto, Recorder, RecPCs, SavingPCs
<1>7. ASSUME BeginFinish PROVE Goal
  BY <1>1, <1>7 DEF BeginFinish, Recorder, RecPCs, Modes, SavingPCs
<1>8. Goal
  BY <1>2, <1>3, <1>4, <1>5, <1>6, <1>7
<1> QED BY <1>8, RecMoves

LEMMA RecReserveKeeps ==
  ASSUME PipelineInv, NEW mode \in Modes, RecReserve(mode)
  PROVE  PipelineInv' /\ Completed
<1> DEFINE source == IF mode = "command" THEN rec.source ELSE "auto"
<1>1. /\ source \in Sources
      /\ Reserve(source)
      /\ rec' = [pc |-> "reserved", item |-> count + 1, source |-> source,
                 mode |-> mode, probe |-> 0]
      /\ UNCHANGED <<owner, org, cancel, faults>>
      /\ rec.pc # "off"
  BY DEF RecReserve, Begins, PipelineInv, ThreadTypeOK, Recorder, Sources
<1>2. /\ SpoolInv'
      /\ count + 1 \in Ordinals
      /\ row'[count + 1].state = "writing"
      /\ row'[count + 1].source = source
      /\ row[count + 1].state = "none"
      /\ \A o \in Ordinals : o # count + 1 => row'[o] = row[o]
      /\ CompletedStay
  BY <1>1, ReserveKeeps DEF PipelineInv
<1> HIDE DEF source
<1>3. UNCHANGED <<file, history>>
  BY <1>1 DEF Reserve
<1>4. rec' \in Recorder
  BY <1>1, <1>2 DEF Recorder, RecPCs, Ordinals
<1>5. ThreadTypeOK' /\ Owned' /\ Saved'
  BY <1>1, <1>2, <1>4 DEF PipelineInv, ThreadTypeOK, Owned, Saved, Saving
<1>6. Worked'
  BY <1>1, <1>2, <1>3, WorkedStays DEF PipelineInv, Terminal
<1>7. HistoryGrows
  BY <1>3, SameHistory DEF PipelineInv, SpoolInv
<1> QED BY <1>2, <1>5, <1>6, <1>7 DEF PipelineInv, Completed

\* The recorder works on the bytes of its own row only.
LEMMA WritingBytes ==
  ASSUME PipelineInv, rec.pc \in SavingPCs, rec' \in Recorder, rec'.pc # "off",
         UNCHANGED <<row, history, owner, org, cancel>>, faults' \in 0..MaxFaults,
         \A o \in Ordinals : o # rec.item => file'[o] = file[o]
  PROVE  ThreadTypeOK' /\ Owned' /\ Worked'
<1>1. ThreadTypeOK' /\ Owned'
  BY DEF PipelineInv, ThreadTypeOK, Owned, SavingPCs
<1>2. rec.item \in Ordinals /\ row[rec.item].state = "writing"
  BY DEF PipelineInv, Saved, Saving, SavingPCs
<1>3. Worked'
  BY <1>2, WorkedStays DEF PipelineInv, Terminal
<1> QED BY <1>1, <1>3

LEMMA WriteKeeps ==
  ASSUME PipelineInv, CreateFile \/ (\E l \in Layouts : Export(l))
  PROVE  PipelineInv' /\ Completed
<1>1. PICK x \in Layouts \cup {Partial} :
        /\ file' = [file EXCEPT ![rec.item] = x]
        /\ \/ rec.pc = "reserved" /\ RecGoto("exporting")
           \/ rec.pc = "exporting" /\ RecGoto("exported") /\ x \in Layouts
        /\ UNCHANGED <<row, count, receipt, history, asked, owner, org, cancel, faults>>
  BY DEF CreateFile, Export
<1>2. rec.item \in Ordinals /\ row[rec.item].state = "writing" /\ row[rec.item].source = rec.source
  BY <1>1 DEF PipelineInv, Saved, Saving
<1>3. SpoolInv'
  BY <1>1, <1>2, WriteFileKeeps DEF PipelineInv
<1>4. Completed
  BY <1>1, NothingCompletes DEF PipelineInv, SpoolInv
<1>5. /\ rec' \in Recorder
      /\ rec'.pc \in {"exporting", "exported"}
      /\ rec'.pc = "exported" => x \in Layouts
      /\ rec'.item = rec.item /\ rec'.source = rec.source
  BY <1>1 DEF RecGoto, PipelineInv, ThreadTypeOK, Recorder, RecPCs
<1>6. /\ file'[rec.item] = x
      /\ \A o \in Ordinals : o # rec.item => file'[o] = file[o]
  BY <1>1, <1>2 DEF PipelineInv, SpoolInv, SpoolTypeOK
<1>7. ThreadTypeOK' /\ Owned' /\ Worked'
  BY <1>1, <1>5, <1>6, WritingBytes DEF SavingPCs, PipelineInv, ThreadTypeOK
<1>8. Saved'
  BY <1>1, <1>2, <1>5, <1>6 DEF Saved, Saving
<1> QED BY <1>3, <1>4, <1>7, <1>8 DEF PipelineInv

\* The recorder gives its row up; the organizer's is another one.
LEMMA BlockedSaving ==
  ASSUME PipelineInv, rec.pc \in SavingPCs, SpoolInv', NoneCompleted,
         row' = [row EXCEPT ![rec.item] = BlockedRow(rec.item)],
         UNCHANGED <<file, history, owner, org, cancel>>, faults' \in 0..MaxFaults,
         \E pc \in AfterError : RecGoto(pc)
  PROVE  PipelineInv' /\ Completed
<1>1. Completed
  BY NothingCompletes DEF PipelineInv, SpoolInv
<1>2. rec' \in Recorder /\ rec'.pc \in {"recording", "closing"}
  BY DEF AfterError, RecGoto, PipelineInv, ThreadTypeOK, Recorder, RecPCs
<1>3. ThreadTypeOK' /\ Owned' /\ Saved'
  BY <1>2 DEF PipelineInv, ThreadTypeOK, Owned, Saved, Saving, SavingPCs
<1>4. rec.item \in Ordinals /\ row[rec.item].state = "writing"
  BY DEF PipelineInv, Saved, Saving, SavingPCs
<1>5. \A o \in Ordinals : o # rec.item => row'[o] = row[o]
  BY DEF PipelineInv, SpoolInv, SpoolTypeOK
<1>6. Worked'
  BY <1>4, <1>5, WorkedStays DEF PipelineInv, Terminal
<1> QED BY <1>1, <1>3, <1>6 DEF PipelineInv

LEMMA ExportRejectedKeeps ==
  ASSUME PipelineInv, ExportRejected
  PROVE  PipelineInv' /\ Completed
<1>1. rec.item \in Ordinals /\ row[rec.item].state = "writing"
  BY DEF PipelineInv, Saved, Saving, ExportRejected
<1>2. SpoolInv' /\ NoneCompleted
  BY <1>1, BlockKeeps DEF PipelineInv, ExportRejected
<1> QED BY <1>2, BlockedSaving
        DEF ExportRejected, Block, SavingPCs, PipelineInv, ThreadTypeOK

LEMMA ReceiptFailsKeeps ==
  ASSUME PipelineInv, ReceiptFails
  PROVE  PipelineInv' /\ Completed
<1>1. rec.item \in Ordinals /\ row[rec.item].state = "writing"
  BY DEF PipelineInv, Saved, Saving, ReceiptFails
<1>2. row' \in [Ordinals -> Row] /\ NoneCompleted /\ NothingTaken
  BY <1>1, BlockedRowKeeps DEF PipelineInv, ReceiptFails
<1>3. receipt' \in [Ordinals -> Layouts \cup {NoLayout, Torn}]
  BY DEF ReceiptFails, PipelineInv, SpoolInv, SpoolTypeOK
<1>4. FilesOnlyLeave
  BY DEF FilesOnlyLeave, ReceiptFails
<1>5. SpoolInv'
  BY <1>2, <1>3, <1>4, KeepsSpool DEF ReceiptFails, PipelineInv, SpoolInv, SpoolTypeOK
<1>6. faults' \in 0..MaxFaults
  BY PipelineAssumption DEF PipelineAssumption, ReceiptFails, Fault, PipelineInv, ThreadTypeOK
<1> QED BY <1>2, <1>5, <1>6, BlockedSaving DEF ReceiptFails, SavingPCs

LEMMA VerifyKeeps ==
  ASSUME PipelineInv, Verify
  PROVE  PipelineInv' /\ Completed
<1>1. PICK probe \in {0, HeadId} :
        Compares(rec.item, probe) /\ rec' = [rec EXCEPT !.pc = "hashed", !.probe = probe]
  BY DEF Verify
<1>2. probe \in Nat /\ rec \in Recorder
  <2>1. HeadId \in Nat
    BY LenProperties DEF PipelineInv, SpoolInv, SpoolTypeOK, HeadId
  <2> QED BY <2>1 DEF PipelineInv, ThreadTypeOK
<1>3. SpoolInv' /\ Completed
  BY SpoolSame DEF PipelineInv, Verify
<1>4. /\ rec' \in Recorder
      /\ rec'.pc = "hashed" /\ rec'.probe = probe
      /\ rec'.item = rec.item /\ rec'.source = rec.source
  BY <1>1, <1>2 DEF Recorder, RecPCs
<1>5. UNCHANGED <<row, file, history, owner, org, cancel, faults>> /\ rec.pc = "exported"
  BY DEF Verify, spoolVars
<1>6. ThreadTypeOK' /\ Owned' /\ Worked'
  BY <1>4, <1>5, WritingBytes DEF SavingPCs, PipelineInv, ThreadTypeOK
<1>7. probe # 0 => row[rec.item].source = "auto" /\ SameDrawing(file[rec.item], probe)
  BY <1>1 DEF Compares
<1>8. Saved'
  BY <1>4, <1>5, <1>7 DEF PipelineInv, Saved, Saving, SameDrawing, HeadId
<1> QED BY <1>3, <1>6, <1>8 DEF PipelineInv

LEMMA PersistReceiptKeeps ==
  ASSUME PipelineInv, PersistReceipt
  PROVE  PipelineInv' /\ Completed
<1>1. file[rec.item] \in Layouts
  BY DEF PipelineInv, Saved, PersistReceipt
<1>2. receipt' \in [Ordinals -> Layouts \cup {NoLayout, Torn}]
  BY <1>1 DEF PipelineInv, SpoolInv, SpoolTypeOK, PersistReceipt
<1>3. SpoolInv'
  BY <1>2, WriteReceiptKeeps DEF PipelineInv, PersistReceipt
<1>4. Completed
  BY NothingCompletes DEF PipelineInv, SpoolInv, PersistReceipt
<1>5. /\ rec' \in Recorder
      /\ rec'.pc = "verified" /\ rec'.probe = rec.probe
      /\ rec'.item = rec.item /\ rec'.source = rec.source
  BY DEF PersistReceipt, RecGoto, PipelineInv, ThreadTypeOK, Recorder, RecPCs
<1>6. ThreadTypeOK' /\ Owned' /\ Worked'
  BY <1>5, WritingBytes DEF PersistReceipt, SavingPCs, PipelineInv, ThreadTypeOK
<1>7. Saved'
  BY <1>5 DEF PipelineInv, PersistReceipt, Saved, Saving, SameDrawing, HeadId
<1> QED BY <1>3, <1>4, <1>6, <1>7 DEF PipelineInv

LEMMA AcceptKeeps ==
  ASSUME PipelineInv, Accept
  PROVE  PipelineInv' /\ Completed
<1>1. rec.item \in Ordinals /\ row[rec.item].state = "writing" /\ file[rec.item] \in Layouts
  BY DEF PipelineInv, Saved, Saving, Accept
<1>2. /\ rec.probe \in Nat
      /\ rec.probe # 0 => row[rec.item].source = "auto" /\ SameDrawing(file[rec.item], rec.probe)
  BY DEF PipelineInv, Saved, Accept, ThreadTypeOK, Recorder
<1>3. SpoolInv' /\ CompletedStay
  BY <1>1, <1>2, CommitAcceptanceKeeps DEF PipelineInv, Accept
<1>4. UNCHANGED <<file, history, owner, org, cancel, faults>>
  BY DEF Accept, CommitAcceptance
<1>5. HistoryGrows
  BY <1>4, SameHistory DEF PipelineInv, SpoolInv
<1>6. rec' \in Recorder /\ rec'.pc \in {"elided", "recording", "awaiting"}
  BY DEF Accept, RecGoto, PipelineInv, ThreadTypeOK, Recorder, RecPCs
<1>7. ThreadTypeOK' /\ Owned' /\ Saved'
  BY <1>4, <1>6 DEF PipelineInv, ThreadTypeOK, Owned, Saved, Saving, Accept
<1>8. \A o \in Ordinals : o # rec.item => row'[o] = row[o]
  BY <1>1 DEF Accept, CommitAcceptance, PipelineInv, SpoolInv, SpoolTypeOK
<1>9. Worked'
  BY <1>1, <1>4, <1>8, WorkedStays DEF PipelineInv, Terminal
<1> QED BY <1>3, <1>5, <1>7, <1>9 DEF PipelineInv, Completed

LEMMA CleanElidedKeeps ==
  ASSUME PipelineInv, CleanElided
  PROVE  PipelineInv' /\ Completed
<1>1. /\ faults' \in 0..MaxFaults
      /\ UNCHANGED <<owner, org, cancel, history>>
  BY PipelineAssumption DEF PipelineAssumption, CleanElided, CleanupDone, spoolVars, Fault,
     PipelineInv, ThreadTypeOK
<1>2. rec' \in Recorder /\ rec'.pc \in {"finishing", "recording"} /\ rec.pc = "elided"
  BY DEF CleanElided, AfterSave, RecGoto, PipelineInv, ThreadTypeOK, Recorder, RecPCs
<1>3. ThreadTypeOK' /\ Owned' /\ Saved'
  BY <1>1, <1>2 DEF PipelineInv, ThreadTypeOK, Owned, Saved, Saving
<1>4. CASE CleanupDone
  <2>1. SpoolInv' /\ NoneCompleted
    BY <1>4, CleanupDoneKeeps DEF PipelineInv
  <2>2. Completed
    BY <1>1, <2>1, NothingCompletes DEF PipelineInv, SpoolInv
  <2>3. \A o \in Ordinals : row'[o].state = row[o].state
    BY <1>4 DEF CleanupDone, Released
  <2>4. \A o \in Ordinals : file[o] = NoLayout => file'[o] = NoLayout
    BY <1>4 DEF CleanupDone, Without
  <2>5. Worked'
    BY <1>1, <2>3, <2>4, WorkedStays DEF PipelineInv
  <2> QED BY <1>3, <2>1, <2>2, <2>5 DEF PipelineInv
<1>5. CASE UNCHANGED spoolVars
  <2>1. SpoolInv' /\ Completed
    BY <1>5, SpoolSame DEF PipelineInv
  <2>2. Worked'
    BY <1>1, <1>5 DEF PipelineInv, Worked, HeadId, spoolVars
  <2> QED BY <1>3, <2>1, <2>2 DEF PipelineInv
<1> QED BY <1>4, <1>5 DEF CleanElided

---------------------------------------------------------------------------
(* The organizer.                                                          *)

\* The recorder's row is not the organizer's.
LEMMA SavedApart ==
  ASSUME PipelineInv, NEW o \in Ordinals, row[o].state # "writing",
         \A p \in Ordinals : p # o => row'[p] = row[p],
         UNCHANGED <<file, rec>>, SameVersions
  PROVE  Saved'
BY SavedStays DEF PipelineInv

LEMMA OrgTakeKeeps ==
  ASSUME PipelineInv, OrgTake
  PROVE  PipelineInv' /\ Completed
<1>1. PICK o \in Ordinals : /\ MarkProcessing(o)
                            /\ org' = [OrgIdle EXCEPT !.pc = "marked", !.item = o]
  BY DEF OrgTake, Active
<1>2. SpoolInv' /\ NoneCompleted /\ Completed
  <2>1. SpoolInv' /\ NoneCompleted
    BY <1>1, MarkProcessingKeeps DEF PipelineInv
  <2> QED BY <1>1, <2>1, NothingCompletes DEF PipelineInv, SpoolInv, MarkProcessing
<1>3. UNCHANGED <<file, history, owner, rec, cancel, faults>> /\ owner # "none"
  BY <1>1 DEF OrgTake, MarkProcessing, Organizing
<1>4. org' \in Organizer /\ org'.pc = "marked" /\ org'.item = o
  <2>1. org' = [pc |-> "marked", item |-> o, parent |-> 0, clean |-> {}]
    BY <1>1 DEF OrgIdle
  <2>2. o \in 0..MaxCaptures
    BY SpoolAssumption DEF SpoolAssumption, Ordinals
  <2> QED BY <2>1, <2>2 DEF Organizer, OrgPCs
<1>5. ThreadTypeOK' /\ Owned'
  BY <1>3, <1>4 DEF PipelineInv, ThreadTypeOK, Owned
<1>6. /\ row[o].state = "ready" /\ row'[o].state = "processing"
      /\ \A p \in Ordinals : p # o => row'[p] = row[p]
  BY <1>1 DEF MarkProcessing, SetState, PipelineInv, SpoolInv, SpoolTypeOK, Row
<1>7. Saved'
  BY <1>3, <1>6, SavedApart, VersionsStay DEF PipelineInv, SpoolInv
<1>8. Worked'
  BY <1>4, <1>6 DEF Worked
<1> QED BY <1>2, <1>5, <1>7, <1>8 DEF PipelineInv

LEMMA OrgPrepareKeeps ==
  ASSUME PipelineInv, OrgPrepare
  PROVE  PipelineInv' /\ Completed
<1>1. SpoolInv' /\ Completed /\ UNCHANGED <<row, file, history>>
  BY SpoolSame DEF PipelineInv, OrgPrepare, spoolVars
<1>2. HeadId \in Nat
  BY LenProperties DEF PipelineInv, SpoolInv, SpoolTypeOK, HeadId
<1>3. /\ org' \in Organizer
      /\ org'.pc = "prepared" /\ org'.item = org.item /\ org'.parent = HeadId
  BY <1>2 DEF OrgPrepare, PipelineInv, ThreadTypeOK, Organizer, OrgPCs
<1>4. ThreadTypeOK' /\ Owned'
  BY <1>3 DEF PipelineInv, ThreadTypeOK, Owned, OrgPrepare
<1>5. Saved' /\ Worked'
  BY <1>1, <1>3 DEF PipelineInv, OrgPrepare, Saved, Saving, SameDrawing, Worked, HeadId
<1> QED BY <1>1, <1>4, <1>5 DEF PipelineInv

\* The organizer has completed its row.
LEMMA OrgCompleted ==
  ASSUME PipelineInv, org.pc \in {"marked", "prepared"},
         org' = [org EXCEPT !.pc = "published"],
         SpoolInv', row'[org.item].state \in Terminal, CompletedStay,
         HistoryGrows, SameVersions,
         \A p \in Ordinals : p # org.item => row'[p] = row[p],
         UNCHANGED <<file, owner, rec, cancel, faults>>
  PROVE  PipelineInv' /\ Completed
<1>1. org.item \in Ordinals /\ row[org.item].state = "processing"
  BY DEF PipelineInv, Worked
<1>2. org' \in Organizer /\ org'.pc = "published" /\ org'.item = org.item
  BY DEF PipelineInv, ThreadTypeOK, Organizer, OrgPCs
<1>3. ThreadTypeOK' /\ Owned'
  BY <1>2 DEF PipelineInv, ThreadTypeOK, Owned
<1>4. Saved'
  BY <1>1, SavedApart
<1>5. Worked'
  BY <1>1, <1>2 DEF Worked
<1> QED BY <1>3, <1>4, <1>5 DEF PipelineInv, Completed

LEMMA OrgAcknowledges ==
  ASSUME PipelineInv, OrgRawDuplicate \/ OrgSkip
  PROVE  PipelineInv' /\ Completed
<1>1. /\ org.item \in Ordinals
      /\ Acknowledge(org.item, HeadId)
      /\ row[org.item].source = "auto"
      /\ SameDrawing(row[org.item].sha, HeadId)
  <2>1. CASE OrgRawDuplicate
    <3>1. HeadId \in 1..HeadId
      BY <2>1, LenProperties
      DEF OrgRawDuplicate, RawDuplicate, PipelineInv, SpoolInv, SpoolTypeOK, HeadId
    <3> QED BY <2>1, <3>1
            DEF OrgRawDuplicate, RawDuplicate, SameDrawing, PipelineInv, Worked
  <2>2. CASE OrgSkip
    BY <2>2 DEF OrgSkip, PipelineInv, Worked
  <2> QED BY <2>1, <2>2
<1>2. SpoolInv' /\ row'[org.item].state = "unchanged" /\ CompletedStay
  BY <1>1, AcknowledgeKeeps DEF PipelineInv
<1>3. /\ UNCHANGED <<file, history, owner, rec, cancel, faults>>
      /\ org.pc \in {"marked", "prepared"} /\ org' = [org EXCEPT !.pc = "published"]
  BY DEF OrgRawDuplicate, OrgSkip, Acknowledge
<1>4. \A p \in Ordinals : p # org.item => row'[p] = row[p]
  BY <1>1 DEF Acknowledge, PipelineInv, SpoolInv, SpoolTypeOK
<1>5. HistoryGrows /\ SameVersions
  BY <1>3, SameHistory, VersionsStay DEF PipelineInv, SpoolInv
<1> QED BY <1>2, <1>3, <1>4, <1>5, OrgCompleted DEF Terminal

LEMMA OrgCommitKeeps ==
  ASSUME PipelineInv, OrgCommit
  PROVE  PipelineInv' /\ Completed
<1>1. org.item \in Ordinals /\ Publish(org.item, HeadId)
  BY DEF OrgCommit, PipelineInv, Worked
<1>2. SpoolInv' /\ row'[org.item].state = "committed" /\ CompletedStay
  BY <1>1, PublishKeeps DEF PipelineInv
<1>3. /\ UNCHANGED <<file, owner, rec, cancel, faults>>
      /\ org.pc = "prepared" /\ org' = [org EXCEPT !.pc = "published"]
  BY DEF OrgCommit, Publish
<1>4. \A p \in Ordinals : p # org.item => row'[p] = row[p]
  BY <1>1 DEF Publish, PipelineInv, SpoolInv, SpoolTypeOK
<1> DEFINE version == [layout |-> row[org.item].sha, capture |-> org.item,
                       parent |-> HeadId]
<1>5. version \in Checkpoint /\ history' = Append(history, version)
  <2>1. row[org.item] \in Row /\ row[org.item].sha # NoLayout
    BY <1>1 DEF Publish, Valid, PipelineInv, SpoolInv, SpoolTypeOK
  <2>2. HeadId \in Nat
    BY LenProperties DEF PipelineInv, SpoolInv, SpoolTypeOK, HeadId
  <2> QED BY <1>1, <2>1, <2>2 DEF Publish, Row, Checkpoint, Ordinals
<1> HIDE DEF version
<1>6. HistoryGrows /\ SameVersions
  BY <1>5, AppendGrows, VersionsStay DEF PipelineInv, SpoolInv
<1> QED BY <1>2, <1>3, <1>4, <1>6, OrgCompleted DEF Terminal

\* The organizer stops or gives its row up.
LEMMA OrgStops ==
  ASSUME PipelineInv, org.pc \notin {"idle", "dead"}, SpoolInv', Completed,
         \/ UNCHANGED row
         \/ org.item \in Ordinals /\ row[org.item].state # "writing"
            /\ \A p \in Ordinals : p # org.item => row'[p] = row[p],
         UNCHANGED <<file, history, owner>>, cancel' \in BOOLEAN,
         faults' \in 0..MaxFaults,
         org' = OrgIdle \/ org' = [OrgIdle EXCEPT !.pc = "dead"],
         rec' = rec \/ rec' = [rec EXCEPT !.pc = "closing"]
  PROVE  PipelineInv'
<1>1. org' \in Organizer /\ org'.pc \in {"idle", "dead"}
  BY SpoolAssumption DEF SpoolAssumption, OrgIdle, Organizer, OrgPCs, Ordinals
<1>2. owner # "none" /\ rec.pc # "off"
  BY DEF PipelineInv, Owned, ThreadTypeOK, Organizer
<1>3. rec' \in Recorder /\ rec'.pc # "off"
  BY <1>2 DEF PipelineInv, ThreadTypeOK, Recorder, RecPCs
<1>4. ThreadTypeOK' /\ Owned' /\ Worked'
  BY <1>1, <1>2, <1>3 DEF PipelineInv, ThreadTypeOK, Owned, Worked
<1>5. Saved'
  <2>1. CASE rec' = [rec EXCEPT !.pc = "closing"]
    <3>1. rec'.pc = "closing"
      BY <2>1 DEF PipelineInv, ThreadTypeOK, Recorder
    <3> QED BY <3>1 DEF Saved, Saving
  <2>2. CASE rec' = rec
    BY <2>2, SavedStays, VersionsStay DEF PipelineInv, SpoolInv
  <2> QED BY <2>1, <2>2
<1> QED BY <1>4, <1>5 DEF PipelineInv

LEMMA OrgStopsUnchanged ==
  ASSUME PipelineInv, OrgCleanupFails \/ OrgDies
  PROVE  PipelineInv' /\ Completed
<1>1. SpoolInv' /\ Completed
  BY SpoolSame DEF PipelineInv, OrgCleanupFails, OrgDies
<1>2. faults' \in 0..MaxFaults
  BY PipelineAssumption
  DEF PipelineAssumption, OrgCleanupFails, OrgDies, Fault, PipelineInv, ThreadTypeOK
<1> QED BY <1>1, <1>2, OrgStops DEF OrgCleanupFails, OrgDies, spoolVars

LEMMA OrgBlockKeeps ==
  ASSUME PipelineInv, OrgBlock
  PROVE  PipelineInv' /\ Completed
<1>1. org.item \in Ordinals /\ row[org.item].state \in {"processing"} \cup Terminal
  BY DEF OrgBlock, PipelineInv, Worked
<1>2. SpoolInv' /\ NoneCompleted
  BY <1>1, BlockKeeps DEF PipelineInv, OrgBlock
<1>3. Completed
  BY <1>2, NothingCompletes DEF PipelineInv, SpoolInv, OrgBlock, Block
<1>4. \A p \in Ordinals : p # org.item => row'[p] = row[p]
  BY <1>1 DEF OrgBlock, Block, PipelineInv, SpoolInv, SpoolTypeOK
<1> QED BY <1>1, <1>2, <1>3, <1>4, OrgStops
        DEF OrgBlock, Block, Terminal, PipelineInv, ThreadTypeOK

LEMMA OrgCancelledKeeps ==
  ASSUME PipelineInv, OrgCancelled
  PROVE  PipelineInv' /\ Completed
<1>1. org.item \in Ordinals /\ row[org.item].state = "processing"
  BY DEF OrgCancelled, PipelineInv, Worked
<1>2. SpoolInv' /\ NoneCompleted
  BY <1>1, RetryKeeps DEF PipelineInv, OrgCancelled
<1>3. Completed
  BY <1>2, NothingCompletes DEF PipelineInv, SpoolInv, OrgCancelled, Retry
<1>4. \A p \in Ordinals : p # org.item => row'[p] = row[p]
  BY <1>1 DEF OrgCancelled, Retry, SetState, PipelineInv, SpoolInv, SpoolTypeOK
<1> QED BY <1>1, <1>2, <1>3, <1>4, OrgStops
        DEF OrgCancelled, Retry, PipelineInv, ThreadTypeOK

LEMMA OrgUnlinkKeeps ==
  ASSUME PipelineInv, OrgUnlink
  PROVE  PipelineInv' /\ Completed
<1>1. SpoolInv' /\ NoneCompleted
  BY UnlinkKeeps DEF PipelineInv, OrgUnlink
<1>2. UNCHANGED <<row, history, owner, rec, cancel, faults>> /\ org.pc = "published"
  BY DEF OrgUnlink, Unlink
<1>3. Completed
  BY <1>1, <1>2, NothingCompletes DEF PipelineInv, SpoolInv
<1>4. /\ org' \in Organizer
      /\ org'.pc = "unlinked" /\ org'.clean = Uncleaned
  BY DEF OrgUnlink, PipelineInv, ThreadTypeOK, Organizer, OrgPCs, Uncleaned
<1>5. ThreadTypeOK' /\ Owned'
  BY <1>2, <1>4 DEF PipelineInv, ThreadTypeOK, Owned
<1>6. \A o \in Ordinals : file'[o] = IF o \in Uncleaned THEN NoLayout ELSE file[o]
  BY DEF OrgUnlink, Unlink, Without
<1>7. Saved'
  BY <1>2, <1>6, SavedStays, VersionsStay DEF PipelineInv, SpoolInv, Uncleaned, Terminal
<1>8. Worked'
  BY <1>2, <1>4, <1>6 DEF Worked, Uncleaned
<1> QED BY <1>1, <1>3, <1>5, <1>7, <1>8 DEF PipelineInv

LEMMA OrgReleaseKeeps ==
  ASSUME PipelineInv, OrgRelease
  PROVE  PipelineInv' /\ Completed
<1>1. /\ org.clean \in SUBSET Ordinals
      /\ \A o \in org.clean : row[o].state \in Terminal /\ file[o] = NoLayout
  BY DEF OrgRelease, PipelineInv, Worked, ThreadTypeOK, Organizer
<1>2. SpoolInv' /\ NoneCompleted
  BY <1>1, ReleaseKeeps DEF PipelineInv, OrgRelease
<1>3. UNCHANGED <<file, history, owner, rec, faults>> /\ org.pc = "unlinked" /\ org' = OrgIdle
  BY DEF OrgRelease, Release
<1>4. Completed
  BY <1>2, <1>3, NothingCompletes DEF PipelineInv, SpoolInv
<1>5. org' \in Organizer /\ org'.pc = "idle"
  BY <1>3, SpoolAssumption DEF SpoolAssumption, OrgIdle, Organizer, OrgPCs, Ordinals
<1>6. ThreadTypeOK' /\ Owned' /\ Worked'
  BY <1>3, <1>5 DEF PipelineInv, ThreadTypeOK, Owned, Worked, OrgRelease
<1>7. \A o \in Ordinals : row'[o].state = row[o].state /\ row'[o].source = row[o].source
  BY DEF OrgRelease, Release, Released, PipelineInv, SpoolInv, SpoolTypeOK, Row
<1>8. Saved'
  BY <1>3, <1>7, SavedStays, VersionsStay DEF PipelineInv, SpoolInv
<1> QED BY <1>2, <1>4, <1>6, <1>8 DEF PipelineInv

---------------------------------------------------------------------------
(* The user.                                                               *)

\* The user only touches rows that are given up.
LEMMA UserTouches ==
  ASSUME PipelineInv, NEW o \in Ordinals, row[o].state \in {"blocked", "quarantined"},
         SpoolInv', NoneCompleted,
         \A p \in Ordinals : p # o => row'[p] = row[p] /\ file'[p] = file[p],
         UNCHANGED <<history, owner, rec, org>>,
         cancel' \in BOOLEAN, faults' \in 0..MaxFaults
  PROVE  PipelineInv' /\ Completed
<1>1. Completed
  BY NothingCompletes DEF PipelineInv, SpoolInv
<1>2. ThreadTypeOK' /\ Owned'
  BY DEF PipelineInv, ThreadTypeOK, Owned
<1>3. Saved'
  BY SavedStays, VersionsStay DEF PipelineInv, SpoolInv
<1>4. Worked'
  BY WorkedStays DEF PipelineInv, Terminal
<1> QED BY <1>1, <1>2, <1>3, <1>4 DEF PipelineInv

LEMMA UserKeeps ==
  ASSUME PipelineInv, UserRetry \/ UserDiscard \/ UserDiscardFails
  PROVE  PipelineInv' /\ Completed
<1>1. /\ UNCHANGED <<owner, rec, org, cancel>>
      /\ cancel \in BOOLEAN /\ faults' \in 0..MaxFaults
  BY PipelineAssumption
  DEF PipelineAssumption, UserRetry, UserDiscard, UserDiscardFails, Fault, PipelineInv, ThreadTypeOK
<1>2. CASE UserRetry
  <2>1. PICK o \in Ordinals : row[o].state = "blocked" /\ Retry(o)
    BY <1>2 DEF UserRetry, Active
  <2>2. SpoolInv' /\ NoneCompleted
    BY <2>1, RetryKeeps DEF PipelineInv
  <2>3. /\ \A p \in Ordinals : p # o => row'[p] = row[p] /\ file'[p] = file[p]
        /\ UNCHANGED history
    BY <2>1 DEF Retry, SetState, PipelineInv, SpoolInv, SpoolTypeOK
  <2> QED BY <1>1, <2>1, <2>2, <2>3, UserTouches
<1>3. CASE UserDiscard
  <2>1. PICK o \in Ordinals : Discard(o)
    BY <1>3 DEF UserDiscard
  <2>2. SpoolInv' /\ NoneCompleted
    BY <2>1, DiscardKeeps DEF PipelineInv
  <2>3. /\ \A p \in Ordinals : p # o => row'[p] = row[p] /\ file'[p] = file[p]
        /\ UNCHANGED history
    BY <2>1 DEF Discard, PipelineInv, SpoolInv, SpoolTypeOK
  <2>4. row[o].state \in {"blocked", "quarantined"}
    BY <2>1 DEF Discard
  <2> QED BY <1>1, <2>2, <2>3, <2>4, UserTouches
<1>4. CASE UserDiscardFails
  <2>1. PICK o \in Ordinals : DiscardRolledBack(o)
    BY <1>4 DEF UserDiscardFails
  <2>2. SpoolInv' /\ NoneCompleted
    BY <2>1, DiscardRolledBackKeeps DEF PipelineInv
  <2>3. /\ \A p \in Ordinals : p # o => row'[p] = row[p] /\ file'[p] = file[p]
        /\ UNCHANGED history
    BY <2>1 DEF DiscardRolledBack, PipelineInv, SpoolInv, SpoolTypeOK
  <2>4. row[o].state \in {"blocked", "quarantined"}
    BY <2>1 DEF DiscardRolledBack
  <2> QED BY <1>1, <2>2, <2>3, <2>4, UserTouches
<1> QED BY <1>2, <1>3, <1>4

LEMMA RequestCancelKeeps ==
  ASSUME PipelineInv, RequestCancel
  PROVE  PipelineInv' /\ Completed
<1>1. SpoolInv' /\ Completed /\ UNCHANGED <<row, file, history>>
  BY SpoolSame DEF PipelineInv, RequestCancel, spoolVars
<1>2. faults' \in 0..MaxFaults
  BY PipelineAssumption DEF PipelineAssumption, RequestCancel, Fault, PipelineInv, ThreadTypeOK
<1>3. ThreadTypeOK' /\ Owned' /\ Worked'
  BY <1>1, <1>2 DEF RequestCancel, PipelineInv, ThreadTypeOK, Owned, Worked, HeadId
<1>4. Saved'
  BY <1>1 DEF RequestCancel, PipelineInv, Saved, Saving, SameDrawing, HeadId
<1> QED BY <1>1, <1>3, <1>4 DEF PipelineInv

---------------------------------------------------------------------------
(* The specification.                                                      *)

LEMMA InitInv == Init => PipelineInv
<1> SUFFICES ASSUME Init PROVE PipelineInv
  OBVIOUS
<1>1. SpoolInv
  BY SpoolInitInv DEF Init
<1>2. OrgIdle \in Organizer /\ OrgIdle.pc = "idle"
  BY SpoolAssumption DEF SpoolAssumption, OrgIdle, Organizer, OrgPCs, Ordinals
<1>0. RecOff \in Recorder /\ [RecOff EXCEPT !.pc = "recording"] \in Recorder
  BY SpoolAssumption DEF SpoolAssumption, RecOff, Recorder, RecPCs, Sources, Modes, Ordinals
<1>5. /\ rec \in Recorder
      /\ (rec.pc = "off" /\ owner = "none") \/ (rec.pc = "recording" /\ owner = "recorder")
  BY <1>0 DEF Init, RecOff
<1>3. ThreadTypeOK
  <2>1. faults \in 0..MaxFaults
    BY PipelineAssumption DEF PipelineAssumption, Init
  <2> QED BY <1>2, <1>5, <2>1 DEF Init, ThreadTypeOK
<1>4. Owned /\ Saved /\ Worked
  BY <1>2, <1>5 DEF Init, Owned, Saved, Saving, Worked
<1> QED BY <1>1, <1>3, <1>4 DEF PipelineInv

LEMMA StepKeeps ==
  ASSUME PipelineInv, [Next]_vars
  PROVE  PipelineInv' /\ Completed
<1>1. CASE OrgStep
  BY <1>1, OrgTakeKeeps, OrgPrepareKeeps, OrgAcknowledges, OrgCommitKeeps, OrgUnlinkKeeps,
     OrgReleaseKeeps, OrgStopsUnchanged, OrgBlockKeeps, OrgCancelledKeeps DEF OrgStep
<1>2. CASE RecStep
  <2>1. ASSUME NEW m \in Modes, RecReserve(m) \/ RecDeferred(m)
        PROVE  PipelineInv' /\ Completed
    BY <2>1, RecReserveKeeps, RecMovesKeep
  <2>2. CASE CreateFile \/ \E l \in Layouts : Export(l)
    BY <2>2, WriteKeeps
  <2>3. CASE AwaitDone \/ DrainRaises \/ Unhealthy
    BY <2>3, RecMovesKeep
  <2> QED BY <1>2, <2>1, <2>2, <2>3, RecoverWritingKeeps, FinishRecoverKeeps, CloseKeeps,
             ExportRejectedKeeps, VerifyKeeps, PersistReceiptKeeps, ReceiptFailsKeeps,
             AcceptKeeps, CleanElidedKeeps DEF RecStep
<1>3. CASE Environment
  <2>1. CASE Acquire("recorder") \/ Acquire("recovery")
    BY <2>1, AcquireKeeps
  <2>2. CASE OwnerFails \/ Crash \/ RequestCancel
    BY <2>2, OwnerFailsKeeps, CrashKeeps, RequestCancelKeeps
  <2>3. CASE \E l \in Layouts : ForeignCheckpoint(l)
    BY <2>3, ForeignCheckpointKeeps
  <2>4. CASE \/ \E s \in Sources : BeginBarrier(s)
             \/ RecDeferred("auto") \/ BeginFinish
    BY <2>4, RecMovesKeep DEF Modes
  <2>5. CASE RecReserve("auto")
    BY <2>5, RecReserveKeeps DEF Modes
  <2>6. CASE UserRetry \/ UserDiscard \/ UserDiscardFails
    BY <2>6, UserKeeps
  <2> QED BY <1>3, <2>1, <2>2, <2>3, <2>4, <2>5, <2>6 DEF Environment
<1>4. CASE UNCHANGED vars
  <2>1. SpoolInv' /\ Completed /\ UNCHANGED <<row, file, history, owner, rec, org, cancel, faults>>
    BY <1>4, SpoolSame DEF PipelineInv, vars, spoolVars
  <2>2. ThreadTypeOK' /\ Owned'
    BY <2>1 DEF PipelineInv, ThreadTypeOK, Owned
  <2>3. Saved' /\ Worked'
    BY <2>1 DEF PipelineInv, Saved, Saving, SameDrawing, Worked, HeadId
  <2> QED BY <2>1, <2>2, <2>3 DEF PipelineInv
<1> QED BY <1>1, <1>2, <1>3, <1>4 DEF Next

---------------------------------------------------------------------------
(* Versions that others wrote, and the head a capture was taken against.   *)
(* The captures of the table were taken one after the other, so the heads  *)
(* they name grow with them; whoever is completed has counted every        *)
(* foreign version up to its own among those that it was taken after.      *)

ExpectGrows ==
  \A o, c \in Ordinals :
    o <= c /\ row[o].state # "none" /\ row[c].state # "none"
      => row[o].expect <= row[c].expect /\ row[c].expect <= HeadId

PredBelow == \A c \in Ordinals : row[c].pred < c

ForeignBelow ==
  \A t \in Ordinals : row[t].state \in Terminal =>
    \A j \in 1..HeadId :
      history[j].capture = 0 /\ j <= row[t].ckpt => j <= row[t].expect

Context == ExpectGrows /\ PredBelow /\ ForeignBelow

\* No version has come past the queue since the capture was taken.
Current(o) == \A j \in 1..HeadId : history[j].capture = 0 => j <= row[o].expect

\* One level of ExpectedHead.
HeadStep(f, c) ==
  LET p == row[c].pred IN
  IF p = 0 THEN row[c].expect
  ELSE IF row[p].state = "quarantined" THEN f[p]
  ELSE IF row[p].state \in Terminal THEN row[p].ckpt ELSE -1

\* A set of ordinals that is not empty has a least element.
LEMMA Least ==
  ASSUME NEW S \in SUBSET Ordinals, S # {}
  PROVE  \E m \in S : \A n \in S : m <= n
<1>0. MaxCaptures \in Nat /\ \A n \in S : n \in Nat
  BY SpoolAssumption DEF SpoolAssumption, Ordinals
<1>1. \E m \in S : \A n \in S : ~(<<n, m>> \in OpToRel(<, Nat))
  BY <1>0, WFMin, NatLessThanWellFounded
<1>2. PICK m \in S : \A n \in S : ~(n < m)
  BY <1>0, <1>1 DEF OpToRel
<1> QED BY <1>0, <1>2

\* The recursion of ExpectedHead is well founded: a function with its equation
\* exists, so the one that it chooses has it.
LEMMA HeadFunction ==
  ASSUME SpoolTypeOK, PredBelow
  PROVE  \E f : f = [c \in Ordinals |-> HeadStep(f, c)]
<1> DEFINE Solved(n) == \E f : f = [c \in 1..n |-> HeadStep(f, c)]
           Open == {n \in Ordinals : ~Solved(n)}
<1>0. MaxCaptures \in Nat /\ Ordinals = 1..MaxCaptures
  BY SpoolAssumption DEF SpoolAssumption, Ordinals
<1>1. Solved(0)
  <2> DEFINE g == [c \in 1..0 |-> 0]
  <2>1. g = [c \in 1..0 |-> HeadStep(g, c)]
    OBVIOUS
  <2> QED BY <2>1
<1>2. ASSUME NEW n \in 0..(MaxCaptures - 1), Solved(n)
      PROVE  Solved(n + 1)
  <2>1. PICK f : f = [c \in 1..n |-> HeadStep(f, c)]
    BY <1>2
  <2> DEFINE g == [c \in 1..(n + 1) |-> IF c = n + 1 THEN HeadStep(f, n + 1) ELSE f[c]]
  <2>2. ASSUME NEW c \in 1..(n + 1)
        PROVE  /\ row[c].pred \in Nat /\ row[c].pred < c
               /\ row[c].pred # 0 => row[c].pred \in 1..n /\ g[row[c].pred] = f[row[c].pred]
    <3>1. c \in Ordinals /\ n \in Nat
      BY <1>0, <1>2
    <3>2. row[c].pred \in Nat /\ row[c].pred < c
      BY <3>1, <1>0 DEF SpoolTypeOK, Row, PredBelow
    <3>3. row[c].pred # 0 => row[c].pred \in 1..n
      BY <3>1, <3>2
    <3> QED BY <3>1, <3>2, <3>3
  <2>3. ASSUME NEW c \in 1..(n + 1)
        PROVE  HeadStep(g, c) = HeadStep(f, c)
    <3> HIDE DEF g
    <3> QED BY <2>2, <2>3 DEF HeadStep
  <2>4. ASSUME NEW c \in 1..(n + 1)
        PROVE  g[c] = HeadStep(g, c)
    <3>1. CASE c = n + 1
      BY <2>3, <3>1
    <3>2. CASE c # n + 1
      <4>1. c \in 1..n
        BY <1>2, <2>4, <3>2
      <4>2. f[c] = HeadStep(f, c)
        BY <2>1, <4>1
      <4>3. g[c] = f[c]
        BY <3>2
      <4> QED BY <2>3, <4>2, <4>3
    <3> QED BY <3>1, <3>2
  <2>5. g = [c \in 1..(n + 1) |-> HeadStep(g, c)]
    BY <2>4
  <2> HIDE DEF g
  <2> QED BY <2>5
<1> HIDE DEF Solved
<1>3. Open = {}
  <2> SUFFICES ASSUME Open # {} PROVE FALSE
    OBVIOUS
  <2>1. PICK m \in Open : \A n \in Open : m <= n
    BY Least
  <2>2. m \in 1..MaxCaptures /\ m - 1 \in 0..(MaxCaptures - 1) /\ (m - 1) + 1 = m
    BY <1>0, <2>1
  <2>3. Solved(m - 1)
    <3>1. CASE m = 1
      BY <1>1, <3>1
    <3>2. CASE m # 1
      <4>1. m - 1 \in Ordinals /\ ~(m <= m - 1)
        BY <1>0, <2>2, <3>2
      <4> QED BY <2>1, <4>1
    <3> QED BY <3>1, <3>2
  <2>4. Solved(m)
    BY <1>2, <2>2, <2>3
  <2> QED BY <2>1, <2>4
<1>4. Solved(MaxCaptures)
  <2>1. CASE MaxCaptures = 0
    BY <1>1, <2>1
  <2>2. CASE MaxCaptures # 0
    BY <1>0, <1>3, <2>2
  <2> QED BY <2>1, <2>2
<1> QED BY <1>0, <1>4 DEF Solved

\* A capture that may be organized was taken after every foreign version.
LEMMA ValidIsCurrent ==
  ASSUME SpoolInv, Context, NEW o \in Ordinals, Valid(o)
  PROVE  Current(o)
<1> DEFINE f == CHOOSE g : g = [c \in Ordinals |-> HeadStep(g, c)]
           Bad == {c \in Ordinals : /\ row[c].state # "none" /\ f[c] = HeadId
                                    /\ ~Current(c)}
<1>0. SpoolTypeOK /\ HeadId \in Nat /\ MaxCaptures \in Nat
  BY LenProperties, SpoolAssumption DEF SpoolAssumption, SpoolInv, SpoolTypeOK, HeadId
<1>1. f = [c \in Ordinals |-> HeadStep(f, c)]
  BY <1>0, HeadFunction DEF Context
<1>2. ExpectedHead(o) = f[o]
  BY DEF ExpectedHead, HeadStep
<1> HIDE DEF f
<1>3. Bad = {}
  <2> SUFFICES ASSUME Bad # {} PROVE FALSE
    OBVIOUS
  <2>1. PICK c \in Bad : \A n \in Bad : c <= n
    BY Least
  <2> DEFINE p == row[c].pred
  <2>2. c \in Ordinals /\ row[c].state # "none" /\ ~Current(c) /\ HeadStep(f, c) = HeadId
    BY <1>1, <2>1
  <2>3. row[c] \in Row /\ p \in 0..MaxCaptures /\ p < c
    BY <1>0, <2>2 DEF SpoolTypeOK, Context, PredBelow, Row
  <2>4. row[c].expect \in Nat
    BY <2>3 DEF Row
  <2>5. CASE p = 0
    <3>1. row[c].expect = HeadId
      BY <2>2, <2>5 DEF HeadStep
    <3> QED BY <1>0, <2>2, <3>1 DEF Current
  <2>6. CASE p # 0
    <3>1. p \in Ordinals /\ row[p] \in Row
      BY <1>0, <2>3, <2>6 DEF Ordinals, SpoolTypeOK
    <3>2. row[p].expect \in Nat /\ row[p].ckpt \in Nat
      BY <3>1 DEF Row
    <3>3. ASSUME row[p].state # "none" PROVE row[p].expect <= row[c].expect
      <4>1. p <= c
        BY <1>0, <2>2, <2>3, <3>1 DEF Ordinals
      <4> QED BY <2>2, <3>1, <3>3, <4>1 DEF Context, ExpectGrows
    <3>4. ASSUME row[p].state # "none", Current(p) PROVE Current(c)
      BY <1>0, <2>4, <3>2, <3>3, <3>4 DEF Current
    <3>5. CASE row[p].state = "quarantined"
      <4>1. f[p] = HeadId
        BY <2>2, <2>6, <3>5 DEF HeadStep
      <4>2. p \notin Bad
        BY <1>0, <2>1, <2>2, <2>3, <3>1 DEF Ordinals
      <4> QED BY <2>2, <3>1, <3>4, <3>5, <4>1, <4>2
    <3>6. CASE row[p].state \in Terminal
      <4>1. row[p].ckpt = HeadId /\ row[p].state # "none"
        BY <2>2, <2>6, <3>6 DEF HeadStep, Terminal
      <4>2. Current(p)
        BY <1>0, <3>1, <3>6, <4>1 DEF Current, Context, ForeignBelow
      <4> QED BY <2>2, <3>4, <4>1, <4>2
    <3>7. CASE row[p].state # "quarantined" /\ row[p].state \notin Terminal
      <4>1. HeadId = -1
        BY <2>2, <2>6, <3>7 DEF HeadStep
      <4> QED BY <1>0, <4>1
    <3> QED BY <3>5, <3>6, <3>7
  <2> QED BY <2>5, <2>6
<1>4. row[o].state # "none" /\ f[o] = HeadId
  BY <1>2 DEF Valid
<1> QED BY <1>3, <1>4

---------------------------------------------------------------------------
(* What a step does to the context of the captures.                        *)

\* Whoever has a row keeps the head and the predecessor it was taken with.
SameContext ==
  \A o \in Ordinals :
    /\ row'[o].expect = row[o].expect
    /\ row'[o].pred = row[o].pred
    /\ row'[o].state # "none" => row[o].state # "none"

\* Whoever is completed by this step was taken after every foreign version.
CompletesCurrent ==
  \A t \in Ordinals : row'[t].state \in Terminal =>
    \/ row[t].state \in Terminal /\ row'[t].ckpt = row[t].ckpt
    \/ Current(t)

\* The history grows by a version of the queue at most.
QueueGrows ==
  /\ HeadId' \in Nat
  /\ HeadId <= HeadId'
  /\ \A j \in 1..HeadId : history'[j] = history[j]
  /\ \A j \in (HeadId + 1)..HeadId' : history'[j].capture # 0

LEMMA SameHistoryGrows ==
  ASSUME SpoolTypeOK, UNCHANGED history
  PROVE  QueueGrows
BY LenProperties DEF SpoolTypeOK, QueueGrows, HeadId

LEMMA ContextStays ==
  ASSUME SpoolTypeOK, Context, SameContext, CompletesCurrent, QueueGrows
  PROVE  Context'
<1>0. HeadId \in Nat /\ HeadId' \in Nat /\ HeadId <= HeadId'
  BY LenProperties DEF SpoolTypeOK, HeadId, QueueGrows
<1>1. ExpectGrows'
  <2> SUFFICES ASSUME NEW o \in Ordinals, NEW c \in Ordinals, o <= c,
                      row'[o].state # "none", row'[c].state # "none"
               PROVE  row'[o].expect <= row'[c].expect /\ row'[c].expect <= HeadId'
    BY DEF ExpectGrows
  <2>1. row[o].expect <= row[c].expect /\ row[c].expect <= HeadId
    BY DEF Context, ExpectGrows, SameContext
  <2>2. row[c].expect \in Nat
    BY DEF SpoolTypeOK, Row
  <2>3. row'[o].expect = row[o].expect /\ row'[c].expect = row[c].expect
    BY DEF SameContext
  <2> QED BY <1>0, <2>1, <2>2, <2>3
<1>2. PredBelow'
  BY DEF Context, PredBelow, SameContext
<1>3. ForeignBelow'
  <2> SUFFICES ASSUME NEW t \in Ordinals, row'[t].state \in Terminal,
                      NEW j \in 1..HeadId', history'[j].capture = 0, j <= row'[t].ckpt
               PROVE  j <= row'[t].expect
    BY DEF ForeignBelow
  <2>1. j \in 1..HeadId /\ history[j].capture = 0
    BY <1>0 DEF QueueGrows
  <2>2. j <= row[t].expect
    <3>1. CASE row[t].state \in Terminal /\ row'[t].ckpt = row[t].ckpt
      BY <2>1, <3>1 DEF Context, ForeignBelow
    <3>2. CASE Current(t)
      BY <2>1, <3>2 DEF Current
    <3> QED BY <3>1, <3>2 DEF CompletesCurrent
  <2> QED BY <2>2 DEF SameContext
<1> QED BY <1>1, <1>2, <1>3 DEF Context

\* Steps that complete nothing, and touch neither the rows' context nor the
\* history.
LEMMA ContextQuiet ==
  ASSUME SpoolTypeOK, Context, SameContext, NoneCompleted, UNCHANGED history
  PROVE  Context'
<1>1. CompletesCurrent
  BY DEF NoneCompleted, CompletesCurrent
<1> QED BY <1>1, SameHistoryGrows, ContextStays

\* Transactions that move rows without completing one.
LEMMA QuietTransactions ==
  ASSUME SpoolInv, Context,
         \/ \E o \in Ordinals : MarkProcessing(o) \/ Retry(o) \/ Discard(o)
         \/ RequeueInterrupted \/ FinishRecovery \/ CleanupDone
         \/ \E rows \in SUBSET Ordinals :
              /\ \A c \in rows : row[c].state \in Terminal /\ file[c] = NoLayout
              /\ Release(rows)
  PROVE  Context'
<1>1. SpoolTypeOK /\ \A p \in Ordinals : row[p] \in Row
  BY DEF SpoolInv, SpoolTypeOK
<1>2. NoneCompleted /\ UNCHANGED history
  BY MarkProcessingKeeps, RetryKeeps, DiscardKeeps, RequeueKeeps, FinishRecoveryKeeps,
     CleanupDoneKeeps, ReleaseKeeps
  DEF MarkProcessing, Retry, Discard, RequeueInterrupted, FinishRecovery, CleanupDone, Release
<1>3. \A p \in Ordinals : row'[p].state # "none" => row[p].state # "none"
  BY <1>2 DEF NoneCompleted
<1>4. \A p \in Ordinals : row'[p].expect = row[p].expect /\ row'[p].pred = row[p].pred
  <2>1. ASSUME NEW o \in Ordinals, MarkProcessing(o) \/ Retry(o)
        PROVE  \A p \in Ordinals : row'[p].expect = row[p].expect /\ row'[p].pred = row[p].pred
    <3>1. PICK s : row' = [row EXCEPT ![o] = [row[o] EXCEPT !.state = s]]
      BY <1>1, <2>1 DEF MarkProcessing, Retry, SetState, SpoolTypeOK
    <3>2. /\ row'[o] = [row[o] EXCEPT !.state = s]
          /\ \A p \in Ordinals : p # o => row'[p] = row[p]
      BY <1>1, <3>1 DEF SpoolTypeOK
    <3> QED BY <1>1, <3>2 DEF Row
  <2>2. ASSUME NEW o \in Ordinals, Discard(o)
        PROVE  \A p \in Ordinals : row'[p].expect = row[p].expect /\ row'[p].pred = row[p].pred
    BY <1>1, <2>2 DEF Discard, SpoolTypeOK, Row
  <2>3. CASE RequeueInterrupted
    BY <1>1, <2>3 DEF RequeueInterrupted, Row
  <2>4. CASE FinishRecovery
    BY <1>1, <2>4 DEF FinishRecovery, Released, Row
  <2>5. CASE CleanupDone
    BY <1>1, <2>5 DEF CleanupDone, Released, Row
  <2>6. CASE \E rows \in SUBSET Ordinals : Release(rows)
    BY <1>1, <2>6 DEF Release, Released, Row
  <2> QED BY <2>1, <2>2, <2>3, <2>4, <2>5, <2>6
<1>5. SameContext
  BY <1>3, <1>4 DEF SameContext
<1> QED BY <1>1, <1>2, <1>5, ContextQuiet

LEMMA BlockContext ==
  ASSUME SpoolInv, Context, NEW o \in Ordinals,
         row[o].state \in {"writing", "processing"} \cup Terminal,
         row' = [row EXCEPT ![o] = BlockedRow(o)], UNCHANGED <<file, history>>
  PROVE  Context'
<1>1. SpoolTypeOK /\ NoneCompleted
  BY BlockedRowKeeps DEF SpoolInv
<1>2. BlockedRow(o).expect = row[o].expect /\ BlockedRow(o).pred = row[o].pred
  BY <1>1 DEF BlockedRow, SpoolTypeOK, Row
<1>3. row'[o] = BlockedRow(o) /\ \A p \in Ordinals : p # o => row'[p] = row[p]
  BY <1>1 DEF SpoolTypeOK
<1>4. SameContext
  BY <1>1, <1>2, <1>3 DEF SameContext, NoneCompleted
<1> QED BY <1>1, <1>4, ContextQuiet

\* A capture reduced to a no-op was taken after every foreign version.
LEMMA ElidedIsCurrent ==
  ASSUME SpoolInv, Context, NEW o \in Ordinals, row[o].state # "none",
         NEW probe, Elides(o, probe)
  PROVE  Current(o)
<1> DEFINE p == row[o].pred
<1>0. /\ SpoolTypeOK /\ HeadId \in Nat /\ MaxCaptures \in Nat
      /\ row[o].expect \in Nat /\ p \in 0..MaxCaptures /\ p < o
  BY LenProperties, SpoolAssumption
  DEF SpoolAssumption, SpoolInv, SpoolTypeOK, HeadId, Row, Context, PredBelow
<1>1. CASE p = 0
  <2>1. row[o].expect = HeadId
    BY <1>1 DEF Elides
  <2> QED BY <1>0, <2>1 DEF Current
<1>2. CASE p # 0
  <2>1. p \in Ordinals /\ p <= o
    BY <1>0, <1>2 DEF Ordinals
  <2>2. row[p].state \in Terminal /\ row[p].ckpt = HeadId
    BY <1>0, <1>2 DEF Elides
  <2>3. row[p].expect <= row[o].expect
    BY <2>1, <2>2 DEF Context, ExpectGrows, Terminal
  <2>4. row[p].expect \in Nat
    BY <1>0, <2>1 DEF SpoolTypeOK, Row
  <2> HIDE DEF p
  <2>5. \A j \in 1..HeadId : history[j].capture = 0 => j <= row[p].expect
    BY <1>0, <2>1, <2>2 DEF Context, ForeignBelow
  <2> QED BY <1>0, <2>3, <2>4, <2>5 DEF Current
<1> QED BY <1>1, <1>2

LEMMA AcceptanceContext ==
  ASSUME SpoolInv, Context, NEW o \in Ordinals, NEW probe, CommitAcceptance(o, probe)
  PROVE  Context'
<1> DEFINE r == [row[o] EXCEPT !.state = IF Elides(o, probe) THEN "unchanged" ELSE "ready",
                               !.ckpt = IF Elides(o, probe) THEN probe ELSE 0,
                               !.sha = file[o], !.held = TRUE]
<1>1. SpoolTypeOK /\ row[o].state = "writing" /\ UNCHANGED history
  BY DEF SpoolInv, CommitAcceptance
<1>2. row'[o] = r /\ \A p \in Ordinals : p # o => row'[p] = row[p]
  BY DEF SpoolInv, SpoolTypeOK, CommitAcceptance
<1>3. /\ r.expect = row[o].expect /\ r.pred = row[o].pred
      /\ r.state \in Terminal => Elides(o, probe)
  BY <1>1 DEF SpoolTypeOK, Row, Terminal
<1> HIDE DEF r
<1>4. SameContext
  BY <1>1, <1>2, <1>3 DEF SameContext
<1>5. CompletesCurrent
  BY <1>1, <1>2, <1>3, ElidedIsCurrent DEF CompletesCurrent
<1> QED BY <1>1, <1>4, <1>5, SameHistoryGrows, ContextStays

LEMMA AcknowledgeContext ==
  ASSUME SpoolInv, Context, NEW o \in Ordinals, NEW k, Acknowledge(o, k)
  PROVE  Context'
<1> DEFINE r == [row[o] EXCEPT !.state = "unchanged", !.ckpt = k]
<1>1. SpoolTypeOK /\ row[o].state = "processing" /\ UNCHANGED history
  BY DEF SpoolInv, Acknowledge, Valid
<1>2. row'[o] = r /\ \A p \in Ordinals : p # o => row'[p] = row[p]
  BY DEF SpoolInv, SpoolTypeOK, Acknowledge
<1>3. r.expect = row[o].expect /\ r.pred = row[o].pred
  BY <1>1 DEF SpoolTypeOK, Row
<1> HIDE DEF r
<1>4. SameContext
  BY <1>1, <1>2, <1>3 DEF SameContext
<1>5. Current(o)
  BY ValidIsCurrent DEF Acknowledge
<1>6. CompletesCurrent
  BY <1>2, <1>5 DEF CompletesCurrent
<1> QED BY <1>1, <1>4, <1>6, SameHistoryGrows, ContextStays

LEMMA PublishContext ==
  ASSUME SpoolInv, Context, NEW o \in Ordinals, Publish(o, HeadId)
  PROVE  Context'
<1> DEFINE r == [row[o] EXCEPT !.state = "committed", !.ckpt = HeadId + 1]
           c == [layout |-> row[o].sha, capture |-> o, parent |-> HeadId]
<1>1. SpoolTypeOK /\ row[o].state = "processing" /\ row[o].sha # NoLayout /\ HeadId \in Nat
  BY LenProperties DEF SpoolInv, SpoolTypeOK, HeadId, Publish, Valid
<1>2. row'[o] = r /\ \A p \in Ordinals : p # o => row'[p] = row[p]
  BY DEF SpoolInv, SpoolTypeOK, Publish
<1>3. r.expect = row[o].expect /\ r.pred = row[o].pred
  BY <1>1 DEF SpoolTypeOK, Row
<1>4. c \in Checkpoint /\ c.capture # 0 /\ history' = Append(history, c)
  BY <1>1, SpoolAssumption
  DEF Publish, SpoolTypeOK, Row, Checkpoint, Ordinals, SpoolAssumption
<1> HIDE DEF r, c
<1>5. SameContext
  BY <1>1, <1>2, <1>3 DEF SameContext
<1>6. Current(o)
  BY ValidIsCurrent DEF Publish
<1>7. CompletesCurrent
  BY <1>2, <1>6 DEF CompletesCurrent
<1>8. QueueGrows
  <2>1. /\ HeadId' = HeadId + 1
        /\ \A k \in 1..HeadId : history'[k] = history[k]
        /\ history'[HeadId + 1] = c
    BY <1>1, <1>4, AppendVersion
  <2> HIDE DEF HeadId
  <2>2. HeadId' \in Nat /\ HeadId <= HeadId'
    BY <1>1, <2>1
  <2>3. \A j \in (HeadId + 1)..HeadId' : j = HeadId + 1
    BY <1>1, <2>1
  <2>4. \A j \in (HeadId + 1)..HeadId' : history'[j].capture # 0
    BY <1>4, <2>1, <2>3
  <2> QED BY <2>1, <2>2, <2>4 DEF QueueGrows
<1> QED BY <1>1, <1>5, <1>7, <1>8, ContextStays

\* A capture that is reserved names the head there is.
LEMMA ReserveContext ==
  ASSUME SpoolInv, Context, NEW source \in Sources, Reserve(source)
  PROVE  Context'
<1> DEFINE n == count + 1
<1>0. SpoolTypeOK /\ HeadId \in Nat /\ MaxCaptures \in Nat /\ count \in Nat
  BY LenProperties, SpoolAssumption DEF SpoolAssumption, SpoolInv, SpoolTypeOK, HeadId
<1>1. n \in Ordinals
  BY <1>0 DEF Reserve, Ordinals
<1>2. /\ row'[n].state = "writing" /\ row'[n].pred = LastActive /\ row'[n].expect = HeadId
      /\ \A o \in Ordinals : o # n => row'[o] = row[o]
      /\ UNCHANGED history
  BY <1>0, <1>1 DEF Reserve, SpoolTypeOK
<1>3. \A o \in Ordinals : row[o].state # "none" => o <= count /\ o < n
  BY <1>0 DEF SpoolInv, Order, Counted, Ordinals
<1>4. LastActive < n
  <2>1. CASE Active = {}
    BY <1>0, <2>1 DEF LastActive
  <2>2. CASE Active # {}
    <3>1. \E m \in Active : \A a \in Active : a <= m
      BY <2>2, Greatest DEF Active
    <3>2. LastActive \in Active
      BY <2>2, <3>1 DEF LastActive
    <3>3. LastActive \in Ordinals /\ row[LastActive].state # "none"
      BY <3>2 DEF Active, Pending
    <3> QED BY <1>3, <3>3
  <2> QED BY <2>1, <2>2
<1>5. UNCHANGED HeadId
  BY <1>2 DEF HeadId
<1> HIDE DEF n
<1>6. \A o \in Ordinals : o # n /\ row'[o].state # "none" => row'[o].expect <= HeadId /\ o < n
  <2> SUFFICES ASSUME NEW o \in Ordinals, o # n, row'[o].state # "none"
               PROVE  row'[o].expect <= HeadId /\ o < n
    OBVIOUS
  <2>1. row'[o] = row[o]
    BY <1>2
  <2>2. row[o].expect <= row[o].expect /\ row[o].expect <= HeadId
    <3>1. o <= o
      BY DEF Ordinals
    <3> QED BY <2>1, <3>1 DEF Context, ExpectGrows
  <2> QED BY <1>3, <2>1, <2>2
<1>7. ExpectGrows'
  <2> SUFFICES ASSUME NEW o \in Ordinals, NEW c \in Ordinals, o <= c,
                      row'[o].state # "none", row'[c].state # "none"
               PROVE  row'[o].expect <= row'[c].expect /\ row'[c].expect <= HeadId'
    BY DEF ExpectGrows
  <2>1. CASE c = n
    BY <1>0, <1>2, <1>5, <1>6, <2>1
  <2>2. CASE c # n
    <3>1. o # n
      BY <1>0, <1>1, <1>6, <2>2 DEF Ordinals
    <3> QED BY <1>2, <1>5, <2>2, <3>1 DEF Context, ExpectGrows
  <2> QED BY <2>1, <2>2
<1>8. PredBelow'
  BY <1>2, <1>4 DEF Context, PredBelow, n
<1>9. ForeignBelow'
  BY <1>2, <1>5 DEF Context, ForeignBelow, Terminal
<1> QED BY <1>7, <1>8, <1>9 DEF Context

\* Nobody refers to a version that another writer only just made.
LEMMA ForeignContext ==
  ASSUME SpoolInv, Context, NEW l \in Layouts,
         history' = Append(history, [layout |-> l, capture |-> 0, parent |-> HeadId]),
         UNCHANGED row
  PROVE  Context'
<1>0. SpoolTypeOK /\ HeadId \in Nat
  BY LenProperties DEF SpoolInv, SpoolTypeOK, HeadId
<1>1. [layout |-> l, capture |-> 0, parent |-> HeadId] \in Checkpoint
  BY <1>0, SpoolAssumption DEF SpoolAssumption, Checkpoint
<1>2. HeadId' = HeadId + 1 /\ \A k \in 1..HeadId : history'[k] = history[k]
  BY <1>0, <1>1, AppendVersion
<1>3. \A o \in Ordinals : row[o].expect \in Nat /\ row[o].ckpt \in Nat
  BY <1>0 DEF SpoolTypeOK, Row
<1> HIDE DEF HeadId
<1>4. ExpectGrows'
  BY <1>0, <1>2, <1>3 DEF Context, ExpectGrows
<1>5. PredBelow'
  BY DEF Context, PredBelow
<1>6. ForeignBelow'
  <2> SUFFICES ASSUME NEW t \in Ordinals, row[t].state \in Terminal,
                      NEW j \in 1..HeadId', history'[j].capture = 0, j <= row[t].ckpt
               PROVE  j <= row[t].expect
    BY DEF ForeignBelow
  <2>1. row[t].ckpt <= HeadId
    BY DEF SpoolInv, Order, RefersBack
  <2>2. j \in 1..HeadId
    BY <1>0, <1>2, <1>3, <2>1
  <2> QED BY <1>2, <2>2 DEF Context, ForeignBelow
<1> QED BY <1>4, <1>5, <1>6 DEF Context

\* No step of the pipeline builds on a version a capture does not know of.
LEMMA ContextKeeps ==
  ASSUME PipelineInv, Context, [Next]_vars
  PROVE  Context'
<1>0. SpoolInv
  BY DEF PipelineInv
<1>1. ASSUME UNCHANGED <<row, history>>
      PROVE  Context'
  BY <1>1 DEF Context, ExpectGrows, PredBelow, ForeignBelow, HeadId
<1>2. CASE OrgStep
  <2>1. CASE OrgTake
    BY <1>0, <2>1, QuietTransactions DEF OrgTake, Active
  <2>2. CASE OrgRawDuplicate \/ OrgSkip
    <3>1. org.item \in Ordinals
      BY <2>2 DEF PipelineInv, Worked, OrgRawDuplicate, OrgSkip
    <3> QED BY <1>0, <2>2, <3>1, AcknowledgeContext DEF OrgRawDuplicate, OrgSkip
  <2>3. CASE OrgCommit
    BY <1>0, <2>3, PublishContext DEF OrgCommit, PipelineInv, Worked
  <2>4. CASE OrgRelease
    <3>1. /\ org.clean \in SUBSET Ordinals
          /\ \A o \in org.clean : row[o].state \in Terminal /\ file[o] = NoLayout
      BY <2>4 DEF OrgRelease, PipelineInv, Worked, ThreadTypeOK, Organizer
    <3>2. Release(org.clean)
      BY <2>4 DEF OrgRelease
    <3> QED BY <1>0, <3>1, <3>2, QuietTransactions
  <2>5. CASE OrgBlock
    <3>1. org.item \in Ordinals /\ row[org.item].state \in {"processing"} \cup Terminal
      BY <2>5 DEF OrgBlock, PipelineInv, Worked
    <3> QED BY <1>0, <2>5, <3>1, BlockContext DEF OrgBlock, Block
  <2>6. CASE OrgCancelled
    BY <1>0, <2>6, QuietTransactions DEF OrgCancelled, PipelineInv, Worked
  <2>7. CASE OrgPrepare \/ OrgUnlink \/ OrgCleanupFails \/ OrgDies
    BY <1>1, <2>7 DEF OrgPrepare, OrgUnlink, Unlink, OrgCleanupFails, OrgDies, spoolVars
  <2> QED BY <1>2, <2>1, <2>2, <2>3, <2>4, <2>5, <2>6, <2>7 DEF OrgStep
<1>3. CASE RecStep
  <2>1. CASE RecoverWriting
    <3>1. PICK o \in Ordinals :
            /\ row[o].state = "writing"
            /\ IF Verified(o)
               THEN \E probe \in {0, HeadId} : Compares(o, probe) /\ CommitAcceptance(o, probe)
               ELSE Block(o)
      BY <2>1 DEF RecoverWriting
    <3>2. CASE Verified(o)
      BY <1>0, <3>1, <3>2, AcceptanceContext
    <3>3. CASE ~Verified(o)
      BY <1>0, <3>1, <3>3, BlockContext DEF Block
    <3> QED BY <3>2, <3>3
  <2>2. CASE FinishRecover
    BY <1>0, <2>2, QuietTransactions DEF FinishRecover
  <2>3. CASE ExportRejected \/ ReceiptFails
    <3>1. rec.item \in Ordinals /\ row[rec.item].state = "writing"
      BY <2>3 DEF PipelineInv, Saved, Saving, ExportRejected, ReceiptFails
    <3>2. /\ row' = [row EXCEPT ![rec.item] = BlockedRow(rec.item)]
          /\ UNCHANGED <<file, history>>
      BY <2>3 DEF ExportRejected, ReceiptFails, Block
    <3> QED BY <1>0, <3>1, <3>2, BlockContext
  <2>4. CASE Accept
    BY <1>0, <2>4, AcceptanceContext DEF Accept, PipelineInv, Saved, Saving
  <2>5. CASE CleanElided
    <3>1. CASE UNCHANGED spoolVars
      BY <1>1, <3>1 DEF spoolVars
    <3>2. CASE CleanupDone
      BY <1>0, <3>2, QuietTransactions
    <3> QED BY <2>5, <3>1, <3>2 DEF CleanElided
  <2>6. ASSUME NEW m \in Modes, RecReserve(m)
        PROVE  Context'
    BY <1>0, <2>6, ReserveContext
    DEF RecReserve, PipelineInv, ThreadTypeOK, Recorder, Sources
  <2>7. ASSUME NEW m \in Modes, RecDeferred(m)
        PROVE  Context'
    BY <1>1, <2>7 DEF RecDeferred, spoolVars
  <2>8. CASE CreateFile \/ \E l \in Layouts : Export(l)
    BY <1>1, <2>8 DEF CreateFile, Export
  <2>9. CASE Close \/ Verify \/ PersistReceipt \/ AwaitDone \/ DrainRaises \/ Unhealthy
    BY <1>1, <2>9 DEF Close, Verify, PersistReceipt, AwaitDone, DrainRaises, Unhealthy, spoolVars
  <2> QED BY <1>3, <2>1, <2>2, <2>3, <2>4, <2>5, <2>6, <2>7, <2>8, <2>9 DEF RecStep
<1>4. CASE Environment
  <2>1. CASE Acquire("recorder") \/ Acquire("recovery")
    BY <1>0, <2>1, QuietTransactions DEF Acquire
  <2>2. CASE \E l \in Layouts : ForeignCheckpoint(l)
    BY <1>0, <2>2, ForeignContext DEF ForeignCheckpoint
  <2>3. CASE RecReserve("auto")
    BY <1>0, <2>3, ReserveContext DEF RecReserve, Sources
  <2>4. CASE UserRetry \/ UserDiscard
    BY <1>0, <2>4, QuietTransactions DEF UserRetry, UserDiscard, Active
  <2>5. CASE \/ OwnerFails \/ Crash \/ RequestCancel \/ UserDiscardFails
             \/ \E s \in Sources : BeginBarrier(s)
             \/ RecDeferred("auto") \/ BeginFinish
    BY <1>1, <2>5 DEF OwnerFails, Crash, RequestCancel, UserDiscardFails, DiscardRolledBack,
       BeginBarrier, RecDeferred, BeginFinish, spoolVars
  <2> QED BY <1>4, <2>1, <2>2, <2>3, <2>4, <2>5 DEF Environment
<1>5. CASE UNCHANGED vars
  BY <1>1, <1>5 DEF vars, spoolVars
<1> QED BY <1>2, <1>3, <1>4, <1>5 DEF Next

LEMMA ContextStarts == Init => Context
<1> SUFFICES ASSUME Init PROVE Context
  OBVIOUS
<1>1. \A o \in Ordinals : row[o].state = "none" /\ row[o].pred = 0
  BY DEF Init, SpoolInit, NoRow
<1>2. \A o \in Ordinals : 0 < o
  BY DEF Ordinals
<1> QED BY <1>1, <1>2 DEF Context, ExpectGrows, PredBelow, ForeignBelow, Terminal

\* Who is published was taken after every foreign version below its own.
LEMMA ContextImplies ==
  ASSUME SpoolInv, Context
  PROVE  NoForeignParent
<1> SUFFICES ASSUME NEW k \in 1..HeadId, history[k].capture # 0,
                    NEW j \in 1..(k - 1), history[j].capture = 0
             PROVE  j <= row[history[k].capture].expect
  BY DEF NoForeignParent
<1> DEFINE o == history[k].capture
<1>1. HeadId \in Nat /\ SpoolTypeOK
  BY LenProperties DEF SpoolInv, SpoolTypeOK, HeadId
<1>2. o \in Ordinals
  <2>1. history[k] \in Checkpoint
    BY <1>1, ElementOfSeq DEF SpoolTypeOK, HeadId
  <2> QED BY <2>1, SpoolAssumption DEF SpoolAssumption, Checkpoint, Ordinals
<1>3. row[o].state = "committed" /\ row[o].ckpt = k
  BY <1>2 DEF SpoolInv, Order, ExactlyOnce
<1>4. j \in 1..HeadId /\ j <= k
  BY <1>1
<1> HIDE DEF o
<1>5. j <= row[o].expect
  BY <1>2, <1>3, <1>4 DEF Context, ForeignBelow, Terminal
<1> QED BY <1>5 DEF o

---------------------------------------------------------------------------
(* The order of the queue, as the ledger needs it.  Only its head is ever   *)
(* organized, blocked or without its file, so only the oldest accepted copy *)
(* leaves; and what is accepted is accepted last, because a receipt is only *)
(* ever found beside the newest row.                                        *)

\* Rows above the counter have no past either.
Unborn ==
  \A o \in Ordinals : o > count => row[o] = NoRow /\ o \notin asked

\* What is accepted has a digest.
Digested ==
  \A o \in Ordinals :
    row[o].state \in {"ready", "processing", "blocked"} => row[o].sha # NoLayout

\* Only completed captures have a version.
Unversioned == \A o \in Ordinals : row[o].state \notin Terminal => row[o].ckpt = 0

\* Only the head of the queue is ever organized, blocked, or without its file.
HeadFirst ==
  \A o \in Active :
    row[o].state \in {"processing", "blocked"} \/ o \in asked => First(o)

Turns == Unborn /\ Digested /\ Unversioned /\ HeadFirst

LEMMA TurnsStay ==
  ASSUME SpoolInv, Turns, UNCHANGED count,
         \A o \in Ordinals :
           /\ row[o].state = "none" => row'[o] = row[o]
           /\ row'[o].state \in {"ready", "processing", "blocked"} => row'[o].sha # NoLayout
           /\ row'[o].state \notin Terminal => row'[o].ckpt = 0
           /\ row'[o].state \in Pending => row[o].state \in Pending
           /\ o \in asked' => o \in asked \/ row[o].state # "none"
           /\ row'[o].state \in {"processing", "blocked"} => First(o)
           /\ o \in asked' /\ row'[o].state \in Pending => First(o)
  PROVE  Turns'
<1>1. Unborn'
  <2> SUFFICES ASSUME NEW o \in Ordinals, o > count
               PROVE  row'[o] = NoRow /\ o \notin asked'
    BY DEF Unborn
  <2>1. row[o] = NoRow /\ o \notin asked
    BY DEF Turns, Unborn
  <2>2. NoRow.state = "none"
    BY DEF NoRow
  <2> QED BY <2>1, <2>2
<1>2. Digested' /\ Unversioned'
  BY DEF Digested, Unversioned
<1>3. HeadFirst'
  <2> SUFFICES ASSUME NEW o \in Active',
                      row'[o].state \in {"processing", "blocked"} \/ o \in asked'
               PROVE  First(o)'
    BY DEF HeadFirst
  <2>1. o \in Ordinals /\ row'[o].state \in Pending
    BY DEF Active
  <2>2. First(o)
    BY <2>1
  <2>3. Active' \subseteq Active
    BY DEF Active
  <2> QED BY <2>2, <2>3 DEF First
<1> QED BY <1>1, <1>2, <1>3 DEF Turns

\* One row changes.
LEMMA TurnsStayRow ==
  ASSUME SpoolInv, Turns, UNCHANGED count, NEW o \in Ordinals, NEW r,
         row' = [row EXCEPT ![o] = r],
         row[o].state # "none",
         r.state \in {"ready", "processing", "blocked"} => r.sha # NoLayout,
         r.state \notin Terminal => r.ckpt = 0,
         r.state \in Pending => row[o].state \in Pending,
         asked' \subseteq asked \cup {o},
         r.state \in {"processing", "blocked"} => First(o),
         o \in asked' /\ r.state \in Pending => First(o)
  PROVE  Turns'
<1>1. row'[o] = r /\ \A p \in Ordinals : p # o => row'[p] = row[p]
  BY DEF SpoolInv, SpoolTypeOK
<1>2. \A p \in Ordinals : row[p].state \in Pending => p \in Active
  BY DEF Active
<1>3. \A p \in Ordinals : row[p].state \in {"processing", "blocked"} => First(p)
  BY <1>2 DEF Turns, HeadFirst, Pending
<1>4. \A p \in Ordinals : p \in asked /\ row[p].state \in Pending => First(p)
  BY <1>2 DEF Turns, HeadFirst
<1>5. ASSUME NEW p \in Ordinals
      PROVE  /\ row[p].state = "none" => row'[p] = row[p]
             /\ row'[p].state \in {"ready", "processing", "blocked"} => row'[p].sha # NoLayout
             /\ row'[p].state \notin Terminal => row'[p].ckpt = 0
             /\ row'[p].state \in Pending => row[p].state \in Pending
             /\ p \in asked' => p \in asked \/ row[p].state # "none"
             /\ row'[p].state \in {"processing", "blocked"} => First(p)
             /\ p \in asked' /\ row'[p].state \in Pending => First(p)
  <2>1. CASE p = o
    BY <1>1, <2>1
  <2>2. CASE p # o
    BY <1>1, <1>3, <1>4, <2>2 DEF Turns, Digested, Unversioned
  <2> QED BY <2>1, <2>2
<1> QED BY <1>5, TurnsStay

\* What a pending row that is touched has.
LEMMA TurnsOf ==
  ASSUME SpoolInv, Turns, NEW o \in Ordinals
  PROVE  /\ row[o].state \in {"ready", "processing", "blocked"} => row[o].sha # NoLayout
         /\ row[o].state \notin Terminal => row[o].ckpt = 0
         /\ row[o].state \in {"processing", "blocked"} => First(o)
         /\ o \in asked /\ row[o].state \in Pending => First(o)
<1>1. row[o].state \in Pending => o \in Active
  BY DEF Active
<1> QED BY <1>1 DEF Turns, Digested, Unversioned, HeadFirst, Pending

LEMMA TurnsMove ==
  ASSUME SpoolInv, Turns, NEW o \in Ordinals,
         MarkProcessing(o) \/ Retry(o)
  PROVE  Turns'
<1>1. SpoolTypeOK /\ row[o] \in Row
  BY DEF SpoolInv, SpoolTypeOK
<1>2. PICK s \in {"processing", "ready"} :
        /\ row' = [row EXCEPT ![o] = [row[o] EXCEPT !.state = s]]
        /\ s = "processing" => First(o)
  BY <1>1 DEF MarkProcessing, Retry, SetState, SpoolTypeOK
<1>3. UNCHANGED <<count, asked>> /\ row[o].state \in {"ready", "processing", "blocked"}
  BY DEF MarkProcessing, Retry
<1> DEFINE r == [row[o] EXCEPT !.state = s]
<1>4. r.state = s /\ r.sha = row[o].sha /\ r.ckpt = row[o].ckpt
  BY <1>1 DEF Row
<1>5. row' = [row EXCEPT ![o] = r]
  BY <1>2
<1> HIDE DEF r
<1>6. /\ row[o].state # "none" /\ row[o].state \in Pending /\ row[o].state \notin Terminal
  BY <1>3 DEF Pending, Terminal
<1>7. r.sha # NoLayout /\ r.ckpt = 0
  BY <1>3, <1>4, <1>6, TurnsOf
<1>8. r.state \in {"processing", "blocked"} => First(o)
  BY <1>2, <1>4
<1>9. o \in asked' => First(o)
  BY <1>3, <1>6, TurnsOf
<1> QED BY <1>3, <1>5, <1>6, <1>7, <1>8, <1>9, TurnsStayRow

LEMMA TurnsBlocked ==
  ASSUME SpoolInv, Turns, NEW o \in Ordinals,
         row[o].state \in {"writing", "processing"} \cup Terminal,
         row' = [row EXCEPT ![o] = BlockedRow(o)], UNCHANGED <<count, asked>>
  PROVE  Turns'
<1>1. SpoolTypeOK /\ row[o] \in Row
  BY DEF SpoolInv, SpoolTypeOK
<1> DEFINE r == BlockedRow(o)
<1>2. r.sha = row[o].sha /\ r.ckpt = row[o].ckpt
  BY <1>1 DEF BlockedRow, Row
<1>3. /\ row[o].state \in Terminal => r.state = row[o].state
      /\ row[o].state \notin Terminal /\ row[o].sha = NoLayout => r.state = "quarantined"
      /\ row[o].state \notin Terminal /\ row[o].sha # NoLayout => r.state = "blocked"
  BY <1>1 DEF BlockedRow, Row
<1>4. row[o].state = "writing" => row[o].sha = NoLayout
  BY DEF SpoolInv, Storage, WritingHeld
<1> HIDE DEF r
<1>5. r.state \in Pending =>
        /\ r.state = "blocked" /\ row[o].state = "processing" /\ r.sha # NoLayout
        /\ row[o].state \in Pending /\ First(o)
  BY <1>2, <1>3, <1>4, TurnsOf DEF Pending, Terminal
<1>6. r.state \in {"ready", "processing", "blocked"} => r.state \in Pending
  BY DEF Pending
<1>7. r.state \notin Terminal => r.ckpt = 0
  BY <1>2, <1>3, TurnsOf
<1>8. row[o].state # "none"
  BY DEF Terminal
<1> QED BY <1>5, <1>6, <1>7, <1>8, TurnsStayRow DEF r

LEMMA TurnsDiscard ==
  ASSUME SpoolInv, Turns, NEW o \in Ordinals, Discard(o) \/ DiscardRolledBack(o)
  PROVE  Turns'
<1>1. SpoolTypeOK /\ row[o] \in Row
  BY DEF SpoolInv, SpoolTypeOK
<1>2. /\ row[o].state \in {"blocked", "quarantined"}
      /\ row[o].state # "none" /\ row[o].state \notin Terminal
      /\ UNCHANGED count /\ asked' \subseteq asked \cup {o}
  BY DEF Discard, DiscardRolledBack, Terminal
<1>3. row[o].ckpt = 0
  BY <1>2, TurnsOf
<1>4. CASE Discard(o)
  <2> DEFINE r == [row[o] EXCEPT !.state = "quarantined", !.held = FALSE]
  <2>1. row' = [row EXCEPT ![o] = r]
    BY <1>1, <1>4 DEF Discard, SpoolTypeOK
  <2>2. r.state = "quarantined" /\ r.ckpt = 0
    BY <1>1, <1>3 DEF Row
  <2> HIDE DEF r
  <2>3. r.state \notin Pending
    BY <2>2 DEF Pending
  <2> QED BY <1>2, <2>1, <2>2, <2>3, TurnsStayRow DEF Pending
<1>5. CASE DiscardRolledBack(o)
  <2>1. row' = [row EXCEPT ![o] = row[o]]
    BY <1>1, <1>5 DEF DiscardRolledBack, SpoolTypeOK
  <2>2. row[o].state \in Pending => row[o].state = "blocked" /\ First(o)
    BY <1>2, TurnsOf DEF Pending
  <2>3. row[o].state \in {"ready", "processing", "blocked"} => row[o].sha # NoLayout /\ row[o].state \in Pending
    BY TurnsOf DEF Pending
  <2> QED BY <1>2, <1>3, <2>1, <2>2, <2>3, TurnsStayRow DEF Pending
<1> QED BY <1>4, <1>5

\* A pending row is completed, or a copy accepted.
LEMMA TurnsAdvance ==
  ASSUME SpoolInv, Turns, NEW o \in Ordinals, NEW r,
         row' = [row EXCEPT ![o] = r], UNCHANGED <<count, asked>>,
         row[o].state \in Pending,
         r.state \in Terminal \/ (r.state = "ready" /\ r.ckpt = 0 /\ r.sha # NoLayout)
  PROVE  Turns'
<1>1. row[o].state # "none" /\ (o \in asked => First(o))
  BY TurnsOf DEF Pending
<1>2. r.state \notin {"processing", "blocked"}
  BY DEF Terminal
<1>3. r.state \in {"ready", "processing", "blocked"} => r.sha # NoLayout
  BY DEF Terminal
<1>4. r.state \notin Terminal => r.ckpt = 0
  OBVIOUS
<1> QED BY <1>1, <1>2, <1>3, <1>4, TurnsStayRow

LEMMA TurnsComplete ==
  ASSUME SpoolInv, Turns, NEW o \in Ordinals,
         (\E k : Acknowledge(o, k)) \/ (\E k : Publish(o, k))
  PROVE  Turns'
<1>1. SpoolTypeOK /\ row[o] \in Row
  BY DEF SpoolInv, SpoolTypeOK
<1>5. PICK k :
        \E s \in Terminal : row' = [row EXCEPT ![o] = [row[o] EXCEPT !.state = s, !.ckpt = k]]
  BY <1>1 DEF Acknowledge, Publish, Terminal, SpoolTypeOK
<1>2. PICK s \in Terminal :
        row' = [row EXCEPT ![o] = [row[o] EXCEPT !.state = s, !.ckpt = k]]
  BY <1>5
<1> DEFINE r == [row[o] EXCEPT !.state = s, !.ckpt = k]
<1>3. r.state = s
  BY <1>1 DEF Row
<1>4. row[o].state \in Pending /\ UNCHANGED <<count, asked>>
  BY DEF Acknowledge, Publish, Valid, Pending
<1> QED BY <1>2, <1>3, <1>4, TurnsAdvance

LEMMA TurnsAccept ==
  ASSUME SpoolInv, Turns, NEW o \in Ordinals, NEW probe, CommitAcceptance(o, probe),
         file[o] \in Layouts
  PROVE  Turns'
<1> DEFINE r == [row[o] EXCEPT !.state = IF Elides(o, probe) THEN "unchanged" ELSE "ready",
                               !.ckpt = IF Elides(o, probe) THEN probe ELSE 0,
                               !.sha = file[o], !.held = TRUE]
<1>1. SpoolTypeOK /\ row[o] \in Row /\ file[o] # NoLayout
  BY SpoolAssumption DEF SpoolInv, SpoolTypeOK, SpoolAssumption
<1>2. row' = [row EXCEPT ![o] = r]
  BY <1>1 DEF CommitAcceptance, SpoolTypeOK
<1>3. r.state \in Terminal \/ (r.state = "ready" /\ r.ckpt = 0 /\ r.sha # NoLayout)
  BY <1>1 DEF Row, Terminal
<1>4. row[o].state \in Pending /\ UNCHANGED <<count, asked>>
  BY DEF CommitAcceptance, Pending
<1> HIDE DEF r
<1> QED BY <1>2, <1>3, <1>4, TurnsAdvance

\* Recovery and cleanup.
LEMMA TurnsRecover ==
  ASSUME SpoolInv, Turns,
         \/ RequeueInterrupted \/ FinishRecovery \/ CleanupDone
         \/ \E rows : (\A c \in rows : row[c].state \in Terminal) /\ Release(rows)
  PROVE  Turns'
<1>1. SpoolTypeOK /\ \A o \in Ordinals : row[o] \in Row
  BY DEF SpoolInv, SpoolTypeOK
<1>2. UNCHANGED <<count, asked>>
  BY DEF RequeueInterrupted, FinishRecovery, CleanupDone, Release
<1>3. ASSUME NEW o \in Ordinals
      PROVE  /\ row[o].state = "none" => row'[o] = row[o]
             /\ row'[o].sha = row[o].sha /\ row'[o].ckpt = row[o].ckpt
             /\ \/ row'[o].state = row[o].state
                \/ row[o].state = "processing" /\ row'[o].state = "ready"
                \/ row[o].state = "ready" /\ file[o] = NoLayout /\ row'[o].state = "blocked"
  <2>1. CASE RequeueInterrupted
    BY <1>1, <2>1 DEF RequeueInterrupted, Row
  <2>2. CASE FinishRecovery
    BY <1>1, <2>2 DEF FinishRecovery, Released, Uncleaned, Row, Terminal
  <2>3. CASE CleanupDone
    BY <1>1, <2>3 DEF CleanupDone, Released, Uncleaned, Row, Terminal
  <2>4. ASSUME NEW rows, \A c \in rows : row[c].state \in Terminal, Release(rows)
        PROVE  /\ row[o].state = "none" => row'[o] = row[o]
               /\ row'[o].sha = row[o].sha /\ row'[o].ckpt = row[o].ckpt
               /\ row'[o].state = row[o].state
    BY <1>1, <2>4 DEF Release, Released, Row, Terminal
  <2> QED BY <2>1, <2>2, <2>3, <2>4
<1>4. ASSUME NEW o \in Ordinals, row[o].state = "ready", file[o] = NoLayout
      PROVE  First(o)
  <2>1. o \in Active /\ row[o].sha # NoLayout
    BY <1>4, TurnsOf DEF Active, Pending
  <2>2. o \in asked
    BY <1>4, <2>1 DEF SpoolInv, Storage, AcceptedKept
  <2> QED BY <2>1, <2>2 DEF Turns, HeadFirst
<1>5. ASSUME NEW o \in Ordinals
      PROVE  /\ row[o].state = "none" => row'[o] = row[o]
             /\ row'[o].state \in {"ready", "processing", "blocked"} => row'[o].sha # NoLayout
             /\ row'[o].state \notin Terminal => row'[o].ckpt = 0
             /\ row'[o].state \in Pending => row[o].state \in Pending
             /\ o \in asked' => o \in asked \/ row[o].state # "none"
             /\ row'[o].state \in {"processing", "blocked"} => First(o)
             /\ o \in asked' /\ row'[o].state \in Pending => First(o)
  BY <1>2, <1>3, <1>4, TurnsOf DEF Pending, Terminal
<1> QED BY <1>2, <1>5, TurnsStay

\* A new row is last in the queue.
LEMMA TurnsReserve ==
  ASSUME SpoolInv, Turns, NEW source \in Sources, Reserve(source)
  PROVE  Turns'
<1> DEFINE n == count + 1
<1>1. /\ SpoolTypeOK /\ count \in Nat /\ MaxCaptures \in Nat /\ n \in Ordinals /\ n > count
      /\ count' = n /\ asked' = asked
  BY SpoolAssumption DEF SpoolAssumption, SpoolInv, SpoolTypeOK, Reserve, Ordinals
<1>2. /\ row'[n].state = "writing" /\ row'[n].ckpt = 0
      /\ \A o \in Ordinals : o # n => row'[o] = row[o]
  BY <1>1 DEF Reserve, SpoolTypeOK
<1>3. n \notin asked /\ \A o \in Ordinals : row[o].state # "none" => o <= count
  BY <1>1 DEF Turns, Unborn, SpoolInv, Order, Counted, Ordinals
<1>4. Unborn'
  <2> SUFFICES ASSUME NEW o \in Ordinals, o > n PROVE row'[o] = NoRow /\ o \notin asked
    BY <1>1 DEF Unborn
  <2>1. o > count /\ o # n
    BY <1>1 DEF Ordinals
  <2> QED BY <1>2, <2>1 DEF Turns, Unborn
<1>5. Digested' /\ Unversioned'
  BY <1>2 DEF Turns, Digested, Unversioned
<1>6. HeadFirst'
  <2> SUFFICES ASSUME NEW o \in Active',
                      row'[o].state \in {"processing", "blocked"} \/ o \in asked
               PROVE  First(o)'
    BY <1>1 DEF HeadFirst
  <2>1. o # n /\ o \in Active /\ row'[o] = row[o] /\ o <= count
    BY <1>2, <1>3 DEF Active, Pending
  <2>2. First(o)
    BY <2>1 DEF Turns, HeadFirst
  <2>3. \A p \in Active' : p = n \/ p \in Active
    BY <1>2 DEF Active
  <2>4. o <= n
    BY <1>1, <2>1 DEF Active, Ordinals
  <2> QED BY <2>2, <2>3, <2>4 DEF First
<1> QED BY <1>4, <1>5, <1>6 DEF Turns

\* The recorder saves the newest row, and only that one may have a receipt
\* for its file: once written, nothing is reserved before it is accepted or
\* the next recovery has seen it.
Resting == {"verified", "closing", "off", "recovering"}

Vouched ==
  /\ \A o \in Ordinals : o > count => receipt[o] = NoLayout
  /\ Saving => rec.item = count
  /\ rec.pc \in SavingPCs \ {"verified"} => receipt[rec.item] = NoLayout
  /\ \A o \in Ordinals :
       row[o].state = "writing" /\ receipt[o] \in Layouts => o = count /\ rec.pc \in Resting

\* No row starts being written, and receipts only disappear.
NoReceipts ==
  \A o \in Ordinals :
    /\ row'[o].state = "writing" => row[o].state = "writing"
    /\ receipt'[o] \in Layouts => receipt'[o] = receipt[o]
    /\ receipt[o] = NoLayout => receipt'[o] = NoLayout

LEMMA VouchedStays ==
  ASSUME PipelineInv, Vouched, NoReceipts, UNCHANGED <<count, rec>>
  PROVE  Vouched'
BY DEF Vouched, NoReceipts, PipelineInv, Saved, Saving, SavingPCs

\* The recorder saves nothing.
LEMMA VouchedMoves ==
  ASSUME PipelineInv, Vouched, NoReceipts, UNCHANGED count,
         rec'.pc \notin SavingPCs,
         \/ rec'.pc \in Resting
         \/ rec.pc \notin Resting
         \/ \A o \in Ordinals : row'[o].state = "writing" => receipt[o] \notin Layouts
  PROVE  Vouched'
<1>1. ~Saving'
  BY DEF Saving, SavingPCs
<1>2. \A o \in Ordinals : row'[o].state = "writing" /\ receipt'[o] \in Layouts =>
        o = count /\ rec'.pc \in Resting
  BY DEF Vouched, NoReceipts
<1>3. \A o \in Ordinals : o > count' => receipt'[o] = NoLayout
  BY DEF Vouched, NoReceipts
<1> QED BY <1>1, <1>2, <1>3 DEF Vouched

\* ... or works on the bytes of its row.
LEMMA VouchedWrites ==
  ASSUME PipelineInv, Vouched,
         CreateFile \/ (\E l \in Layouts : Export(l)) \/ Verify \/ PersistReceipt
  PROVE  Vouched'
<1>1. /\ Saving /\ rec.item \in Ordinals /\ UNCHANGED <<row, count>>
      /\ rec' = [rec EXCEPT !.pc = rec'.pc, !.probe = rec'.probe]
      /\ rec.pc \in SavingPCs \ {"verified"} /\ rec'.pc \in SavingPCs
  BY DEF CreateFile, Export, Verify, PersistReceipt, spoolVars, RecGoto, PipelineInv,
     ThreadTypeOK, Recorder, Saved, Saving, SavingPCs
<1>2. rec'.item = rec.item /\ rec.item = count
  BY <1>1 DEF PipelineInv, ThreadTypeOK, Recorder, Vouched
<1>3. CASE PersistReceipt
  <2>1. rec'.pc = "verified" /\ \A o \in Ordinals : o # count => receipt'[o] = receipt[o]
    BY <1>2, <1>3 DEF PersistReceipt, RecGoto, PipelineInv, ThreadTypeOK, Recorder
  <2>2. \A o \in Ordinals : o > count => o # count
    BY SpoolAssumption DEF SpoolAssumption, PipelineInv, SpoolInv, SpoolTypeOK, Ordinals
  <2> QED BY <1>1, <1>2, <2>1, <2>2 DEF Vouched, Saving, SavingPCs, Resting
<1>4. CASE ~PersistReceipt
  <2>1. UNCHANGED receipt /\ rec'.pc # "verified"
    BY <1>4 DEF CreateFile, Export, Verify, spoolVars, RecGoto, PipelineInv, ThreadTypeOK, Recorder
  <2>2. receipt[rec.item] = NoLayout /\ rec.pc # "verified"
    BY <1>1 DEF Vouched
  <2>3. \A o \in Ordinals : row[o].state = "writing" => receipt[o] \notin Layouts
    <3>1. NoLayout \notin Layouts
      BY SpoolAssumption DEF SpoolAssumption
    <3> QED BY <1>1, <1>2, <2>2, <3>1 DEF Vouched
  <2> QED BY <1>1, <1>2, <2>1, <2>2, <2>3 DEF Vouched, Saving, SavingPCs
<1> QED BY <1>3, <1>4

LEMMA VouchedReserve ==
  ASSUME PipelineInv, Vouched, NEW mode \in Modes, RecReserve(mode)
  PROVE  Vouched'
<1> DEFINE n == count + 1
<1>1. /\ count \in Nat /\ MaxCaptures \in Nat /\ n \in Ordinals /\ SpoolTypeOK
      /\ count' = n /\ receipt' = receipt
      /\ rec'.item = n /\ rec'.pc = "reserved"
  BY SpoolAssumption
  DEF SpoolAssumption, PipelineInv, SpoolInv, SpoolTypeOK, RecReserve, Reserve, Ordinals
<1>2. \A o \in Ordinals : o # n => row'[o] = row[o]
  BY <1>1 DEF RecReserve, Reserve, SpoolTypeOK
<1>3. receipt[n] = NoLayout /\ \A o \in Ordinals : o > n => o > count
  BY <1>1 DEF Vouched, Ordinals
<1>4. rec.pc \notin Resting /\ NoLayout \notin Layouts
  BY SpoolAssumption DEF SpoolAssumption, RecReserve, Begins, Resting
<1>5. \A o \in Ordinals : row'[o].state = "writing" => receipt[o] \notin Layouts
  BY <1>2, <1>3, <1>4 DEF Vouched
<1> QED BY <1>1, <1>3, <1>5 DEF Vouched, Saving, SavingPCs

\* A failed recovery ends.
RecoversOnce == rec.pc = "recovering" => rec.mode = "auto"

LedgerInv == Turns /\ Vouched /\ RecoversOnce

LEMMA TurnsSame ==
  ASSUME Turns, UNCHANGED <<row, count, asked>>
  PROVE  Turns'
BY DEF Turns, Unborn, Digested, Unversioned, HeadFirst, Active, First

LEMMA OrgKeepsTurns ==
  ASSUME PipelineInv, LedgerInv, OrgStep
  PROVE  Turns' /\ Vouched'
<1>0. SpoolInv /\ SpoolTypeOK /\ Turns /\ Vouched
  BY DEF PipelineInv, SpoolInv, LedgerInv
<1>1. /\ org.pc \in {"marked", "prepared", "published"} => org.item \in Ordinals
      /\ org.pc \in {"marked", "prepared"} => row[org.item].state = "processing"
      /\ org.pc = "published" => row[org.item].state \in Terminal
      /\ org.pc = "unlinked" => org.clean \subseteq Ordinals
                                /\ \A o \in org.clean : row[o].state \in Terminal
  BY DEF PipelineInv, Worked, ThreadTypeOK, Organizer
<1>2. Turns'
  <2>1. CASE OrgTake
    BY <1>0, <2>1, TurnsMove DEF OrgTake, Active
  <2>2. CASE OrgRawDuplicate \/ OrgSkip \/ OrgCommit
    BY <1>0, <1>1, <2>2, TurnsComplete DEF OrgRawDuplicate, OrgSkip, OrgCommit
  <2>3. CASE OrgRelease
    BY <1>0, <1>1, <2>3, TurnsRecover DEF OrgRelease
  <2>4. CASE OrgBlock
    BY <1>0, <1>1, <2>4, TurnsBlocked DEF OrgBlock, Block
  <2>5. CASE OrgCancelled
    BY <1>0, <1>1, <2>5, TurnsMove DEF OrgCancelled
  <2>6. CASE OrgPrepare \/ OrgUnlink \/ OrgCleanupFails \/ OrgDies
    BY <1>0, <2>6, TurnsSame DEF OrgPrepare, OrgUnlink, Unlink, OrgCleanupFails, OrgDies, spoolVars
  <2> QED BY <2>1, <2>2, <2>3, <2>4, <2>5, <2>6 DEF OrgStep
<1>3. \A o \in Ordinals : row'[o].state = "writing" => row[o].state = "writing"
  <2>1. CASE UNCHANGED row
    BY <2>1
  <2>2. ASSUME NEW p \in Ordinals,
               \/ MarkProcessing(p) \/ Retry(p) \/ Block(p)
               \/ \E k : Acknowledge(p, k) \/ Publish(p, k)
        PROVE  \A o \in Ordinals : row'[o].state = "writing" => row[o].state = "writing"
    <3>1. \A o \in Ordinals : o # p => row'[o] = row[o]
      BY <1>0, <2>2 DEF MarkProcessing, Retry, Block, Acknowledge, Publish, SetState, SpoolTypeOK
    <3>2. row[p] \in Row
      BY <1>0 DEF SpoolTypeOK
    <3>3. BlockedRow(p).state = "writing" => row[p].state = "writing"
      BY <3>2 DEF BlockedRow, Row
    <3>4. row'[p].state = "writing" => row[p].state = "writing"
      <4>1. CASE MarkProcessing(p) \/ Retry(p)
        BY <1>0, <3>2, <4>1 DEF MarkProcessing, Retry, SetState, SpoolTypeOK, Row
      <4>2. CASE Block(p)
        BY <1>0, <3>3, <4>2 DEF Block, SpoolTypeOK
      <4>3. CASE \E k : Acknowledge(p, k) \/ Publish(p, k)
        BY <1>0, <3>2, <4>3 DEF Acknowledge, Publish, SpoolTypeOK, Row
      <4> QED BY <2>2, <4>1, <4>2, <4>3
    <3> QED BY <3>1, <3>4
  <2>3. CASE OrgRelease
    BY <1>0, <2>3 DEF OrgRelease, Release, Released, SpoolTypeOK, Row
  <2>4. UNCHANGED row \/ OrgRelease \/ \E p \in Ordinals :
               \/ MarkProcessing(p) \/ Retry(p) \/ Block(p)
               \/ \E k : Acknowledge(p, k) \/ Publish(p, k)
    <3>1. CASE OrgTake
      BY <3>1 DEF OrgTake, Active
    <3>2. CASE OrgRawDuplicate \/ OrgSkip \/ OrgCommit
      BY <1>1, <3>2 DEF OrgRawDuplicate, OrgSkip, OrgCommit
    <3>3. CASE OrgBlock \/ OrgCancelled
      BY <1>1, <3>3 DEF OrgBlock, OrgCancelled
    <3>4. CASE OrgPrepare \/ OrgUnlink \/ OrgCleanupFails \/ OrgDies
      BY <3>4 DEF OrgPrepare, OrgUnlink, Unlink, OrgCleanupFails, OrgDies, spoolVars
    <3> QED BY <3>1, <3>2, <3>3, <3>4 DEF OrgStep
  <2> QED BY <2>1, <2>2, <2>3, <2>4
<1>4. \A o \in Ordinals : receipt'[o] \in {receipt[o], NoLayout}
  BY DEF OrgStep, OrgTake, OrgRawDuplicate, OrgSkip, OrgCommit, OrgRelease, OrgBlock,
     OrgCancelled, OrgPrepare, OrgUnlink, OrgCleanupFails, OrgDies, MarkProcessing, Acknowledge,
     Publish, Release, Block, Retry, Unlink, Without, spoolVars
<1>5. NoReceipts
  BY <1>3, <1>4, SpoolAssumption DEF NoReceipts, SpoolAssumption
<1>6. UNCHANGED count
  BY DEF OrgStep, OrgTake, OrgRawDuplicate, OrgSkip, OrgCommit, OrgRelease, OrgBlock,
     OrgCancelled, OrgPrepare, OrgUnlink, OrgCleanupFails, OrgDies, MarkProcessing, Acknowledge,
     Publish, Release, Block, Retry, Unlink, spoolVars
<1>7. UNCHANGED rec \/ rec'.pc = "closing"
  BY DEF OrgStep, OrgTake, OrgRawDuplicate, OrgSkip, OrgCommit, OrgRelease, OrgBlock,
     OrgCancelled, OrgPrepare, OrgUnlink, OrgCleanupFails, OrgDies, PipelineInv, ThreadTypeOK, Recorder
<1>8. Vouched'
  BY <1>0, <1>5, <1>6, <1>7, VouchedStays, VouchedMoves DEF SavingPCs, Resting
<1> QED BY <1>2, <1>8

\* A row given up is not being written.
LEMMA BlockedNotWriting ==
  ASSUME SpoolInv, NEW p \in Ordinals, row' = [row EXCEPT ![p] = BlockedRow(p)],
         row[p].state = "writing"
  PROVE  /\ row'[p].state # "writing"
         /\ \A o \in Ordinals : o # p => row'[o] = row[o]
BY DEF SpoolInv, SpoolTypeOK, BlockedRow, Row, Terminal

LEMMA RecoveryKeepsTurns ==
  ASSUME PipelineInv, LedgerInv, RecoverWriting \/ FinishRecover
  PROVE  Turns' /\ Vouched'
<1>0. SpoolInv /\ SpoolTypeOK /\ Turns /\ Vouched
  BY DEF PipelineInv, SpoolInv, LedgerInv
<1>1. CASE RecoverWriting
  <2>1. PICK o \in Ordinals :
          /\ row[o].state = "writing"
          /\ IF Verified(o)
             THEN \E probe \in {0, HeadId} : Compares(o, probe) /\ CommitAcceptance(o, probe)
             ELSE Block(o)
    BY <1>1 DEF RecoverWriting
  <2>2. Turns' /\ \A p \in Ordinals : p # o => row'[p] = row[p]
    <3>1. CASE Verified(o)
      BY <1>0, <2>1, <3>1, TurnsAccept DEF Verified, CommitAcceptance, SpoolTypeOK
    <3>2. CASE ~Verified(o)
      BY <1>0, <2>1, <3>2, TurnsBlocked DEF Block, SpoolTypeOK
    <3> QED BY <3>1, <3>2
  <2>3. UNCHANGED <<count, receipt, rec>>
    BY <1>1, <2>1 DEF RecoverWriting, CommitAcceptance, Block
  <2>4. NoReceipts
    BY <2>1, <2>2, <2>3 DEF NoReceipts
  <2> QED BY <1>0, <2>2, <2>3, <2>4, VouchedStays
<1>2. CASE FinishRecover
  <2>1. Turns' /\ UNCHANGED count
    BY <1>0, <1>2, TurnsRecover DEF FinishRecover, FinishRecovery
  <2>2. \A o \in Ordinals : row'[o].state # "writing"
    BY <1>0, <1>2 DEF FinishRecover, FinishRecovery, Released, SpoolTypeOK, Row
  <2>3. NoReceipts
    BY <1>2, <2>2, SpoolAssumption
    DEF NoReceipts, FinishRecover, FinishRecovery, Without, SpoolAssumption
  <2>4. rec'.pc \notin SavingPCs
    BY <1>2 DEF FinishRecover, SavingPCs, PipelineInv, ThreadTypeOK, Recorder
  <2> QED BY <1>0, <2>1, <2>2, <2>3, <2>4, VouchedMoves
<1> QED BY <1>1, <1>2

LEMMA SavingKeepsTurns ==
  ASSUME PipelineInv, LedgerInv, ExportRejected \/ ReceiptFails \/ Accept \/ CleanElided
  PROVE  Turns' /\ Vouched'
<1>0. SpoolInv /\ SpoolTypeOK /\ Turns /\ Vouched /\ rec \in Recorder
  BY DEF PipelineInv, SpoolInv, LedgerInv, ThreadTypeOK
<1>1. CASE ExportRejected \/ ReceiptFails
  <2>1. /\ rec.item \in Ordinals /\ row[rec.item].state = "writing"
        /\ row' = [row EXCEPT ![rec.item] = BlockedRow(rec.item)]
        /\ UNCHANGED <<count, asked>>
    BY <1>1 DEF PipelineInv, Saved, Saving, ExportRejected, ReceiptFails, Block
  <2>2. Turns' /\ \A o \in Ordinals : row'[o].state = "writing" => row[o].state = "writing"
    BY <1>0, <2>1, TurnsBlocked, BlockedNotWriting
  <2>3. rec'.pc \in {"recording", "closing"} /\ rec.pc \notin Resting
    BY <1>0, <1>1 DEF ExportRejected, ReceiptFails, AfterError, RecGoto, Recorder, Resting
  <2>4. CASE ExportRejected
    <3>1. NoReceipts
      BY <2>2, <2>4 DEF ExportRejected, Block, NoReceipts
    <3> QED BY <1>0, <2>1, <2>2, <2>3, <3>1, VouchedMoves DEF SavingPCs
  <2>5. CASE ReceiptFails
    <3>1. rec.item = count
      BY <1>0, <2>5 DEF ReceiptFails, Vouched, Saving
    <3>2. /\ Torn \notin Layouts /\ receipt' = [receipt EXCEPT ![count] = Torn]
          /\ receipt'[count] = Torn
          /\ \A o \in Ordinals : o # count => receipt'[o] = receipt[o]
      BY <1>0, <2>1, <2>5, <3>1, SpoolAssumption DEF ReceiptFails, SpoolAssumption, SpoolTypeOK
    <3>3. \A o \in Ordinals : o > count => o # count
      BY <1>0 DEF SpoolTypeOK, Ordinals
    <3>4. \A o \in Ordinals : o > count' => receipt'[o] = NoLayout
      BY <1>0, <2>1, <3>2, <3>3 DEF Vouched
    <3>5. \A o \in Ordinals : row'[o].state = "writing" => receipt'[o] \notin Layouts
      BY <1>0, <2>2, <2>3, <3>2 DEF Vouched
    <3>6. ~Saving' /\ rec'.pc \notin SavingPCs
      BY <2>3 DEF Saving, SavingPCs
    <3>7. Vouched'
      BY <3>4, <3>5, <3>6 DEF Vouched
    <3> QED BY <2>2, <3>7
  <2> QED BY <1>1, <2>4, <2>5
<1>2. CASE Accept
  <2>1. /\ rec.item \in Ordinals /\ file[rec.item] \in Layouts /\ rec.item = count
        /\ CommitAcceptance(rec.item, rec.probe)
    BY <1>0, <1>2 DEF PipelineInv, Saved, Saving, Accept, Vouched
  <2>2. Turns' /\ UNCHANGED <<count, receipt>>
    BY <1>0, <2>1, TurnsAccept DEF CommitAcceptance
  <2>3. /\ row'[rec.item].state # "writing"
        /\ \A o \in Ordinals : o # rec.item => row'[o] = row[o]
    BY <1>0, <2>1 DEF CommitAcceptance, SpoolTypeOK, Row
  <2>4. NoReceipts
    BY <2>2, <2>3 DEF NoReceipts
  <2>5. \A o \in Ordinals : row'[o].state = "writing" => receipt[o] \notin Layouts
    BY <1>0, <2>1, <2>3 DEF Vouched
  <2>6. rec'.pc \notin SavingPCs
    BY <1>0, <1>2 DEF Accept, RecGoto, Recorder, SavingPCs
  <2> QED BY <1>0, <2>2, <2>4, <2>5, <2>6, VouchedMoves
<1>3. CASE CleanElided
  <2>1. CleanupDone \/ UNCHANGED spoolVars
    BY <1>3 DEF CleanElided
  <2>2. Turns' /\ UNCHANGED count
    BY <1>0, <2>1, TurnsRecover, TurnsSame DEF CleanupDone, spoolVars
  <2>3. \A o \in Ordinals : row'[o].state = row[o].state /\ receipt'[o] \in {receipt[o], NoLayout}
    BY <1>0, <2>1 DEF CleanupDone, Released, Without, spoolVars, SpoolTypeOK, Row
  <2>4. NoReceipts
    BY <2>3, SpoolAssumption DEF NoReceipts, SpoolAssumption
  <2>5. rec.pc \notin Resting /\ rec'.pc \notin SavingPCs
    BY <1>0, <1>3 DEF CleanElided, AfterSave, RecGoto, Recorder, SavingPCs, Resting
  <2> QED BY <1>0, <2>2, <2>4, <2>5, VouchedMoves
<1> QED BY <1>1, <1>2, <1>3

LEMMA EnvironmentKeepsTurns ==
  ASSUME PipelineInv, LedgerInv,
         \/ \E kind \in {"recorder", "recovery"} : Acquire(kind)
         \/ OwnerFails \/ Crash \/ Close \/ UserRetry \/ UserDiscard \/ UserDiscardFails
  PROVE  Turns' /\ Vouched'
<1>0. SpoolInv /\ SpoolTypeOK /\ Turns /\ Vouched /\ rec \in Recorder
  BY DEF PipelineInv, SpoolInv, LedgerInv, ThreadTypeOK
<1>1. ASSUME NEW kind \in {"recorder", "recovery"}, Acquire(kind)
      PROVE  Turns' /\ Vouched'
  <2>1. Turns' /\ UNCHANGED <<count, receipt>>
    BY <1>0, <1>1, TurnsRecover DEF Acquire, RequeueInterrupted
  <2>2. \A o \in Ordinals : row'[o].state = "writing" => row[o].state = "writing"
    BY <1>0, <1>1 DEF Acquire, RequeueInterrupted, SpoolTypeOK, Row
  <2>3. NoReceipts
    BY <2>1, <2>2 DEF NoReceipts
  <2>4. rec'.pc = "recovering"
    BY <1>1 DEF Acquire, RecOff
  <2> QED BY <1>0, <2>1, <2>3, <2>4, VouchedMoves DEF SavingPCs, Resting
<1>2. CASE OwnerFails \/ Crash \/ Close
  <2>1. Turns' /\ UNCHANGED <<row, count>>
    BY <1>0, <1>2, TurnsSame DEF OwnerFails, Crash, Close, spoolVars
  <2>2. \A o \in Ordinals : receipt'[o] = receipt[o] \/ (receipt'[o] = Torn /\ o = count)
    <3>1. CASE OwnerFails \/ Close
      BY <3>1 DEF OwnerFails, Close, spoolVars
    <3>2. CASE Crash
      <4>1. rec.pc = "hashed" => rec.item = count
        BY <1>0 DEF Vouched, Saving
      <4> QED BY <1>0, <3>2, <4>1 DEF Crash, SpoolTypeOK
    <3> QED BY <1>2, <3>1, <3>2
  <2>3. \A o \in Ordinals : o > count' => receipt'[o] = NoLayout
    BY <1>0, <2>1, <2>2 DEF Vouched, SpoolTypeOK, Ordinals
  <2>4. OwnerFails => rec.pc \notin {"off", "closing"} /\ (rec.pc = "recovering" => rec'.pc = "closing")
    BY <1>0 DEF LedgerInv, RecoversOnce, OwnerFails, AfterError, RecGoto, Recorder
  <2>5. /\ rec'.pc \notin SavingPCs /\ ~Saving'
        /\ rec'.pc \in {"closing", "off"} \/ rec.pc # "verified"
        /\ rec'.pc \in {"closing", "off"} \/ rec.pc \notin {"off", "closing", "recovering"}
    BY <1>0, <1>2, <2>4
    DEF OwnerFails, Crash, Close, AfterError, RecGoto, RecOff, Recorder, SavingPCs, Saving, Resting
  <2>6. Vouched'
    BY <1>0, <2>1, <2>2, <2>3, <2>5, SpoolAssumption DEF Vouched, Resting, SpoolAssumption
  <2> QED BY <2>1, <2>6
<1>3. CASE UserRetry \/ UserDiscard \/ UserDiscardFails
  <2>1. PICK o \in Ordinals : Retry(o) \/ Discard(o) \/ DiscardRolledBack(o)
    BY <1>3 DEF UserRetry, UserDiscard, UserDiscardFails, Active
  <2>2. Turns' /\ UNCHANGED <<count, rec>>
    BY <1>0, <1>3, <2>1, TurnsMove, TurnsDiscard
    DEF UserRetry, UserDiscard, UserDiscardFails, Retry, Discard, DiscardRolledBack
  <2>3. \A p \in Ordinals : receipt'[p] \in {receipt[p], NoLayout}
    BY <1>0, <2>1 DEF Retry, Discard, DiscardRolledBack, SpoolTypeOK
  <2>4. \A p \in Ordinals : row'[p].state = "writing" => row[p].state = "writing"
    BY <1>0, <2>1 DEF Retry, Discard, DiscardRolledBack, SetState, SpoolTypeOK, Row
  <2>5. NoReceipts
    BY <2>3, <2>4, SpoolAssumption DEF NoReceipts, SpoolAssumption
  <2> QED BY <1>0, <2>2, <2>5, VouchedStays
<1> QED BY <1>1, <1>2, <1>3

LEMMA TurnsKeep ==
  ASSUME PipelineInv, LedgerInv, [Next]_vars
  PROVE  Turns' /\ Vouched'
<1>0. SpoolInv /\ SpoolTypeOK /\ Turns /\ Vouched /\ rec \in Recorder
  BY DEF PipelineInv, SpoolInv, LedgerInv, ThreadTypeOK
<1>1. ASSUME UNCHANGED <<row, count, receipt, asked>>, rec.pc \notin Resting, rec'.pc \notin SavingPCs
      PROVE  Turns' /\ Vouched'
  <2>1. NoReceipts
    BY <1>1 DEF NoReceipts
  <2> QED BY <1>0, <1>1, <2>1, TurnsSame, VouchedMoves
<1>2. ASSUME UNCHANGED <<row, count, receipt, asked, rec>>
      PROVE  Turns' /\ Vouched'
  <2>1. NoReceipts
    BY <1>2 DEF NoReceipts
  <2> QED BY <1>0, <1>2, <2>1, TurnsSame, VouchedStays
<1>3. ASSUME NEW m \in Modes, RecReserve(m)
      PROVE  Turns' /\ Vouched'
  <2>1. PICK source \in Sources : Reserve(source)
    BY <1>0, <1>3 DEF RecReserve, Recorder, Sources
  <2> QED BY <1>0, <1>3, <2>1, TurnsReserve, VouchedReserve
<1>4. CASE CreateFile \/ (\E l \in Layouts : Export(l)) \/ Verify \/ PersistReceipt
  <2>1. UNCHANGED <<row, count, asked>>
    BY <1>4 DEF CreateFile, Export, Verify, PersistReceipt, spoolVars
  <2> QED BY <1>0, <1>4, <2>1, TurnsSame, VouchedWrites
<1>5. ASSUME NEW m \in Modes, RecDeferred(m)
      PROVE  Turns' /\ Vouched'
  BY <1>0, <1>1, <1>5 DEF RecDeferred, Begins, AfterError, RecGoto, Recorder, SavingPCs, Resting, spoolVars
<1>6. CASE \E s \in Sources : BeginBarrier(s)
  BY <1>0, <1>1, <1>6 DEF BeginBarrier, Recorder, SavingPCs, Resting, spoolVars
<1>7. CASE AwaitDone \/ DrainRaises
  BY <1>0, <1>1, <1>7
  DEF AwaitDone, DrainRaises, Answered, Gated, AfterSave, AfterError, RecGoto, Recorder,
      SavingPCs, Resting, spoolVars
<1>8. CASE Unhealthy \/ BeginFinish
  BY <1>0, <1>1, <1>8 DEF Unhealthy, BeginFinish, RecGoto, Recorder, SavingPCs, Resting, spoolVars
<1>9. CASE (\E l \in Layouts : ForeignCheckpoint(l)) \/ RequestCancel \/ UNCHANGED vars
  BY <1>2, <1>9 DEF ForeignCheckpoint, RequestCancel, vars, spoolVars
<1>10. CASE RecStep
  BY <1>3, <1>4, <1>5, <1>7, <1>8, <1>10, RecoveryKeepsTurns, SavingKeepsTurns,
     EnvironmentKeepsTurns DEF RecStep
<1>11. CASE Environment
  BY <1>3, <1>5, <1>6, <1>8, <1>9, <1>11, EnvironmentKeepsTurns DEF Environment, Modes
<1> QED BY <1>9, <1>10, <1>11, OrgKeepsTurns DEF Next

\* Only who acquires the lease recovers.
LEMMA RecoversOnceKeeps ==
  ASSUME PipelineInv, RecoversOnce, [Next]_vars
  PROVE  RecoversOnce'
<1>0. rec \in Recorder
  BY DEF PipelineInv, ThreadTypeOK
<1>1. CASE OrgStep
  <2>1. UNCHANGED rec \/ rec' = [rec EXCEPT !.pc = "closing"]
    BY <1>1 DEF OrgStep, OrgTake, OrgRawDuplicate, OrgSkip, OrgCommit, OrgRelease, OrgBlock,
       OrgCancelled, OrgPrepare, OrgUnlink, OrgCleanupFails, OrgDies
  <2> QED BY <1>0, <2>1 DEF RecoversOnce, Recorder
<1>2. CASE RecStep
  <2>1. CASE \/ FinishRecover \/ Close \/ CreateFile \/ (\E l \in Layouts : Export(l))
             \/ ExportRejected \/ Verify \/ PersistReceipt \/ ReceiptFails
    <3>1. rec'.pc # "recovering"
      <4>1. CASE FinishRecover
        BY <1>0, <4>1 DEF FinishRecover, Recorder
      <4>4. CASE Close
        BY <4>4 DEF Close, RecOff
      <4>2. CASE CreateFile \/ (\E l \in Layouts : Export(l)) \/ Verify \/ PersistReceipt
        BY <1>0, <4>2 DEF CreateFile, Export, Verify, PersistReceipt, RecGoto, Recorder
      <4>3. CASE ExportRejected \/ ReceiptFails
        BY <1>0, <4>3 DEF ExportRejected, ReceiptFails, AfterError, RecGoto, Recorder
      <4> QED BY <2>1, <4>1, <4>2, <4>3, <4>4
    <3> QED BY <3>1 DEF RecoversOnce
  <2>2. CASE Accept \/ CleanElided \/ AwaitDone \/ DrainRaises \/ Unhealthy
    BY <1>0, <2>2 DEF Accept, CleanElided, AwaitDone, DrainRaises, Unhealthy, AfterSave,
       AfterError, RecGoto, Recorder, RecoversOnce
  <2>3. CASE \E m \in Modes : RecReserve(m) \/ RecDeferred(m)
    BY <1>0, <2>3 DEF RecReserve, RecDeferred, AfterError, RecGoto, Recorder, RecoversOnce
  <2>4. CASE RecoverWriting
    BY <2>4 DEF RecoverWriting, RecoversOnce
  <2> QED BY <1>2, <2>1, <2>2, <2>3, <2>4 DEF RecStep
<1>3. CASE Environment
  <2>1. CASE Acquire("recorder") \/ Acquire("recovery")
    BY <2>1 DEF Acquire, RecOff, RecoversOnce
  <2>2. CASE \/ OwnerFails \/ Crash \/ (\E s \in Sources : BeginBarrier(s)) \/ BeginFinish
             \/ RecReserve("auto") \/ RecDeferred("auto")
    <3>1. rec'.pc # "recovering"
      <4>1. CASE OwnerFails \/ RecDeferred("auto")
        BY <1>0, <4>1 DEF OwnerFails, RecDeferred, AfterError, RecGoto, Recorder
      <4>2. CASE (\E s \in Sources : BeginBarrier(s)) \/ BeginFinish
        BY <1>0, <4>2 DEF BeginBarrier, BeginFinish, Recorder
      <4>3. CASE RecReserve("auto")
        BY <4>3 DEF RecReserve
      <4>4. CASE Crash
        BY <4>4 DEF Crash, RecOff
      <4> QED BY <2>2, <4>1, <4>2, <4>3, <4>4
    <3> QED BY <3>1 DEF RecoversOnce
  <2>3. CASE \/ (\E l \in Layouts : ForeignCheckpoint(l)) \/ RequestCancel
             \/ UserRetry \/ UserDiscard \/ UserDiscardFails
    BY <2>3 DEF ForeignCheckpoint, RequestCancel, UserRetry, UserDiscard, UserDiscardFails, RecoversOnce
  <2> QED BY <1>3, <2>1, <2>2, <2>3 DEF Environment
<1>4. CASE UNCHANGED vars
  BY <1>4 DEF vars, RecoversOnce
<1> QED BY <1>1, <1>2, <1>3, <1>4 DEF Next

LEMMA LedgerInvKeeps ==
  ASSUME PipelineInv, LedgerInv, [Next]_vars
  PROVE  LedgerInv'
BY TurnsKeep, RecoversOnceKeeps DEF LedgerInv

LEMMA LedgerInvStarts == Init => LedgerInv
<1> SUFFICES ASSUME Init PROVE LedgerInv
  OBVIOUS
<1>1. /\ \A o \in Ordinals : row[o] = NoRow /\ receipt[o] = NoLayout
      /\ NoRow.state = "none" /\ NoRow.ckpt = 0 /\ asked = {}
      /\ rec.pc \in {"off", "recording"}
  BY DEF Init, SpoolInit, NoRow, RecOff
<1>2. Turns
  BY <1>1 DEF Turns, Unborn, Digested, Unversioned, HeadFirst, Active, Pending
<1>3. Vouched
  BY <1>1 DEF Vouched, Saving, SavingPCs
<1>4. RecoversOnce
  BY <1>1 DEF RecoversOnce
<1> QED BY <1>2, <1>3, <1>4 DEF LedgerInv

---------------------------------------------------------------------------
(* What the ledger sees of a step.                                          *)

\* What the ledger sees of the table, the files and the history.
Content == [o \in Ordinals |-> row[o].sha]
Queue == {o \in Active : row[o].sha # NoLayout}
Versions == [k \in 1..HeadId |-> history[k].layout]
Outcome == [o \in Ordinals |->
              IF row[o].state = "quarantined" /\ row[o].sha # NoLayout THEN -1
              ELSE row[o].ckpt]

LEMMA Seen ==
  /\ Ledger!vars = <<Content, Queue, Versions, Outcome>>
  /\ Ledger!vars' = <<Content', Queue', Versions', Outcome'>>
BY DEF Ledger!vars, Content, Queue, Versions, Outcome, Ledger!Captures

\* No accepted copy enters or leaves, and no version comes.
LEMMA LedgerStutters ==
  ASSUME SpoolTypeOK, UNCHANGED history,
         \A o \in Ordinals :
           /\ row'[o].sha = row[o].sha
           /\ row'[o].ckpt = row[o].ckpt
           /\ row[o].sha # NoLayout => /\ row'[o].state \in Pending <=> row[o].state \in Pending
                                       /\ row'[o].state = "quarantined" <=> row[o].state = "quarantined"
  PROVE  UNCHANGED Ledger!vars
<1>1. Content' = Content
  BY DEF Content
<1>2. Queue' = Queue
  BY DEF Queue, Active
<1>3. Versions' = Versions
  BY DEF Versions, HeadId
<1>4. Outcome' = Outcome
  BY DEF Outcome
<1> QED BY <1>1, <1>2, <1>3, <1>4, Seen

LEMMA VersionsSeq ==
  ASSUME SpoolTypeOK
  PROVE  Versions \in Seq(Layouts) /\ Len(Versions) = HeadId /\ HeadId \in Nat
<1>1. HeadId \in Nat /\ history \in Seq(Checkpoint)
  BY LenProperties DEF SpoolTypeOK, HeadId
<1>2. ASSUME NEW k \in 1..HeadId
      PROVE  history[k].layout \in Layouts
  <2>1. history[k] \in Checkpoint
    BY <1>1, ElementOfSeq DEF HeadId
  <2> QED BY <2>1 DEF Checkpoint
<1>3. Versions \in Seq(Layouts)
  BY <1>1, <1>2 DEF Versions
<1>4. Len(Versions) = HeadId
  BY <1>1, <1>3, LenProperties DEF Versions
<1> QED BY <1>1, <1>3, <1>4

LEMMA VersionsAppend ==
  ASSUME SpoolTypeOK, NEW c \in Checkpoint, history' = Append(history, c)
  PROVE  Versions' = Append(Versions, c.layout)
<1>1. /\ history' \in Seq(Checkpoint) /\ HeadId \in Nat /\ HeadId' = HeadId + 1
      /\ \A k \in 1..HeadId : history'[k] = history[k]
      /\ history'[HeadId + 1] = c
  BY AppendVersion
<1>2. Versions \in Seq(Layouts) /\ Len(Versions) = HeadId /\ c.layout \in Layouts
  BY VersionsSeq DEF Checkpoint
<1> DEFINE a == Append(Versions, c.layout)
<1>3. /\ a \in Seq(Layouts) /\ Len(a) = HeadId + 1 /\ a[HeadId + 1] = c.layout
      /\ \A k \in 1..HeadId : a[k] = Versions[k]
  BY <1>1, <1>2, AppendProperties
<1>4. a = [k \in 1..(HeadId + 1) |-> a[k]]
  BY <1>1, <1>3, LenProperties
<1> HIDE DEF a
<1>5. Versions' = [k \in 1..(HeadId + 1) |-> history'[k].layout]
  BY <1>1 DEF Versions, HeadId
<1>6. ASSUME NEW k \in 1..(HeadId + 1)
      PROVE  history'[k].layout = a[k]
  <2>1. CASE k = HeadId + 1
    BY <1>1, <1>3, <2>1
  <2>2. CASE k # HeadId + 1
    <3>1. k \in 1..HeadId
      BY <1>1, <2>2
    <3> QED BY <1>1, <1>3, <3>1 DEF Versions
  <2> QED BY <2>1, <2>2
<1>7. [k \in 1..(HeadId + 1) |-> history'[k].layout] = [k \in 1..(HeadId + 1) |-> a[k]]
  BY <1>6
<1>8. Versions' = a
  BY <1>4, <1>5, <1>7
<1> QED BY <1>8 DEF a

\* Versions of other writers.
LEMMA LedgerForeign ==
  ASSUME SpoolTypeOK, NEW l \in Layouts, ForeignCheckpoint(l)
  PROVE  Ledger!Foreign(l)
<1> DEFINE c == [layout |-> l, capture |-> 0, parent |-> HeadId]
<1>1. c \in Checkpoint /\ c.layout = l
  BY VersionsSeq, SpoolAssumption DEF Checkpoint, SpoolAssumption
<1>2. history' = Append(history, c) /\ UNCHANGED row
  BY DEF ForeignCheckpoint
<1> HIDE DEF c
<1>3. Versions' = Append(Versions, l)
  BY <1>1, <1>2, VersionsAppend
<1>4. Content' = Content /\ Queue' = Queue /\ Outcome' = Outcome
  BY <1>2 DEF Content, Queue, Outcome, Active
<1> QED BY <1>3, <1>4 DEF Ledger!Foreign, Content, Queue, Outcome, Versions

\* What is first among the pending copies is the oldest accepted one.
LEMMA OldestFirst ==
  ASSUME SpoolTypeOK, NEW o \in Ordinals, First(o), row[o].sha # NoLayout
  PROVE  Ledger!Oldest(o)
BY DEF Ledger!Oldest, First, Active

\* Equal to the head is equal to the last version of the ledger.
LEMMA RepeatsHead ==
  ASSUME SpoolTypeOK, NEW o, NEW l \in Layouts, SameDrawing(l, HeadId)
  PROVE  Ledger!Repeats(o, l)
<1>1. Len(Versions) = HeadId /\ HeadId \in Nat /\ HeadId \in 1..HeadId
  BY VersionsSeq DEF SameDrawing
<1>2. Versions[HeadId] = history[HeadId].layout
  BY <1>1 DEF Versions
<1>3. Len(Versions) > 0 /\ Drawing[Versions[Len(Versions)]] = Drawing[l]
  BY <1>1, <1>2 DEF SameDrawing
<1> QED BY <1>3 DEF Ledger!Repeats, Versions

\* One row changes.
LEMMA ContentSeen ==
  ASSUME SpoolTypeOK, NEW o \in Ordinals, NEW r, row' = [row EXCEPT ![o] = r], NEW l, l = r.sha
  PROVE  Content' = [Content EXCEPT ![o] = l] /\ (l = row[o].sha => Content' = Content)
<1>1. row'[o] = r /\ \A p \in Ordinals : p # o => row'[p] = row[p]
  BY DEF SpoolTypeOK
<1>2. Content'[o] = l /\ Content[o] = row[o].sha
      /\ \A p \in Ordinals : p # o => Content'[p] = Content[p]
  BY <1>1 DEF Content
<1>3. /\ Content' = [p \in Ordinals |-> Content'[p]]
      /\ Content = [p \in Ordinals |-> Content[p]]
  BY DEF Content
<1> QED BY <1>2, <1>3

LEMMA OutcomeSeen ==
  ASSUME SpoolTypeOK, NEW o \in Ordinals, NEW r, row' = [row EXCEPT ![o] = r], NEW out,
         out = IF r.state = "quarantined" /\ r.sha # NoLayout THEN -1 ELSE r.ckpt
  PROVE  Outcome' = [Outcome EXCEPT ![o] = out] /\ (out = Outcome[o] => Outcome' = Outcome)
<1>1. row'[o] = r /\ \A p \in Ordinals : p # o => row'[p] = row[p]
  BY DEF SpoolTypeOK
<1>2. Outcome'[o] = out /\ \A p \in Ordinals : p # o => Outcome'[p] = Outcome[p]
  BY <1>1 DEF Outcome
<1>3. /\ Outcome' = [p \in Ordinals |-> Outcome'[p]]
      /\ Outcome = [p \in Ordinals |-> Outcome[p]]
  BY DEF Outcome
<1> QED BY <1>2, <1>3

LEMMA QueueSeen ==
  ASSUME SpoolTypeOK, NEW o \in Ordinals, NEW r, row' = [row EXCEPT ![o] = r]
  PROVE  /\ r.state \notin Pending => Queue' = Queue \ {o}
         /\ r.state \in Pending /\ r.sha # NoLayout => Queue' = Queue \cup {o}
<1>1. row'[o] = r /\ \A p \in Ordinals : p # o => row'[p] = row[p]
  BY DEF SpoolTypeOK
<1> QED BY <1>1 DEF Queue, Active

LEMMA LedgerNext ==
  ASSUME \/ \E o \in Ordinals : \/ \E l \in Layouts : Ledger!Accept(o, l) \/ Ledger!AcceptRepeated(o, l)
                                \/ Ledger!Publish(o) \/ Ledger!Elide(o) \/ Ledger!Drop(o)
         \/ \E l \in Layouts : Ledger!Foreign(l)
  PROVE  Ledger!Next
BY DEF Ledger!Next, Ledger!Captures, Ordinals

\* An accepted copy that the user gives up is the oldest.
LEMMA LedgerDiscards ==
  ASSUME SpoolInv, Turns, NEW o \in Ordinals, Discard(o)
  PROVE  Ledger!Drop(o) \/ UNCHANGED Ledger!vars
<1> DEFINE r == [row[o] EXCEPT !.state = "quarantined", !.held = FALSE]
<1>1. SpoolTypeOK /\ row[o] \in Row /\ UNCHANGED history
  BY DEF SpoolInv, SpoolTypeOK, Discard
<1>2. row' = [row EXCEPT ![o] = r]
  BY <1>1 DEF Discard, SpoolTypeOK
<1>3. r.state = "quarantined" /\ r.sha = row[o].sha /\ r.ckpt = row[o].ckpt
  BY <1>1 DEF Row
<1> HIDE DEF r
<1>4. Versions' = Versions /\ Content' = Content
  <2>1. Versions' = Versions
    BY <1>1 DEF Versions, HeadId
  <2>2. Content' = Content
    BY <1>1, <1>2, <1>3, ContentSeen
  <2> QED BY <2>1, <2>2
<1>5. CASE row[o].state = "blocked" /\ row[o].sha # NoLayout
  <2>1. Ledger!Oldest(o)
    BY <1>1, <1>5, TurnsOf, OldestFirst
  <2>2. Queue' = Queue \ {o}
    BY <1>1, <1>2, <1>3, QueueSeen DEF Pending
  <2>3. Outcome' = [Outcome EXCEPT ![o] = -1]
    <3>1. -1 = IF r.state = "quarantined" /\ r.sha # NoLayout THEN -1 ELSE r.ckpt
      BY <1>3, <1>5
    <3> QED BY <1>1, <1>2, <3>1, OutcomeSeen
  <2> QED BY <1>4, <2>1, <2>2, <2>3 DEF Ledger!Drop, Ledger!Dropped, Content, Queue, Versions, Outcome
<1>6. CASE ~(row[o].state = "blocked" /\ row[o].sha # NoLayout)
  <2>1. row'[o] = r /\ \A p \in Ordinals : p # o => row'[p] = row[p]
    BY <1>1, <1>2 DEF SpoolTypeOK
  <2>2. row[o].sha # NoLayout => row[o].state = "quarantined"
    BY <1>6 DEF Discard
  <2> QED BY <1>1, <1>3, <2>1, <2>2, LedgerStutters DEF Pending
<1> QED BY <1>5, <1>6

\* A capture that repeats the head gets its version.
LEMMA LedgerElides ==
  ASSUME SpoolInv, Turns, NEW o \in Ordinals, NEW k, Acknowledge(o, k), k = HeadId,
         SameDrawing(row[o].sha, k)
  PROVE  Ledger!Elide(o)
<1> DEFINE r == [row[o] EXCEPT !.state = "unchanged", !.ckpt = k]
<1>1. /\ SpoolTypeOK /\ row[o] \in Row /\ UNCHANGED history
      /\ First(o) /\ row[o].sha # NoLayout /\ row[o].sha \in Layouts
  BY DEF SpoolInv, SpoolTypeOK, Acknowledge, Valid, Row
<1>2. row' = [row EXCEPT ![o] = r]
  BY <1>1 DEF Acknowledge, SpoolTypeOK
<1>3. r.state = "unchanged" /\ r.sha = row[o].sha /\ r.ckpt = HeadId
  BY <1>1 DEF Row
<1> HIDE DEF r
<1>4. /\ Versions' = Versions /\ Content' = Content /\ Queue' = Queue \ {o}
      /\ Outcome' = [Outcome EXCEPT ![o] = HeadId]
  <2>1. Versions' = Versions
    BY <1>1 DEF Versions, HeadId
  <2>2. Content' = Content
    BY <1>1, <1>2, <1>3, ContentSeen
  <2>3. Queue' = Queue \ {o}
    BY <1>1, <1>2, <1>3, QueueSeen DEF Pending
  <2>4. Outcome' = [Outcome EXCEPT ![o] = HeadId]
    BY <1>1, <1>2, <1>3, OutcomeSeen
  <2> QED BY <2>1, <2>2, <2>3, <2>4
<1>5. Len(Versions) = HeadId
  BY <1>1, VersionsSeq
<1>6. Ledger!Oldest(o) /\ Ledger!Repeats(o, Content[o])
  BY <1>1, OldestFirst, RepeatsHead DEF Content
<1> QED BY <1>4, <1>5, <1>6 DEF Ledger!Elide, Content, Queue, Versions, Outcome

\* The head of the queue becomes a version.
LEMMA LedgerPublishes ==
  ASSUME SpoolInv, Turns, NEW o \in Ordinals, NEW k, Publish(o, k)
  PROVE  Ledger!Publish(o)
<1> DEFINE r == [row[o] EXCEPT !.state = "committed", !.ckpt = HeadId + 1]
           c == [layout |-> row[o].sha, capture |-> o, parent |-> k]
<1>1. /\ SpoolTypeOK /\ row[o] \in Row
      /\ First(o) /\ row[o].sha # NoLayout /\ row[o].sha \in Layouts
  BY DEF SpoolInv, SpoolTypeOK, Publish, Valid, Row
<1>2. row' = [row EXCEPT ![o] = r] /\ history' = Append(history, c)
  BY <1>1 DEF Publish, SpoolTypeOK
<1>3. r.state = "committed" /\ r.sha = row[o].sha /\ r.ckpt = HeadId + 1
  BY <1>1 DEF Row
<1>4. c \in Checkpoint /\ c.layout = row[o].sha
  BY <1>1, VersionsSeq, SpoolAssumption DEF Checkpoint, Publish, Ordinals, SpoolAssumption
<1> HIDE DEF r, c
<1>5. /\ Content' = Content /\ Queue' = Queue \ {o}
      /\ Outcome' = [Outcome EXCEPT ![o] = HeadId + 1]
  <2>1. Content' = Content
    BY <1>1, <1>2, <1>3, ContentSeen
  <2>2. Queue' = Queue \ {o}
    BY <1>1, <1>2, <1>3, QueueSeen DEF Pending
  <2>3. Outcome' = [Outcome EXCEPT ![o] = HeadId + 1]
    BY <1>1, <1>2, <1>3, OutcomeSeen
  <2> QED BY <2>1, <2>2, <2>3
<1>6. Versions' = Append(Versions, Content[o])
  BY <1>1, <1>2, <1>4, VersionsAppend DEF Content
<1>7. Len(Versions) = HeadId
  BY <1>1, VersionsSeq
<1>8. Ledger!Oldest(o)
  BY <1>1, OldestFirst
<1> QED BY <1>5, <1>6, <1>7, <1>8 DEF Ledger!Publish, Content, Queue, Versions, Outcome

\* A copy is accepted after all others, or repeats the head of an empty queue.
LEMMA LedgerAccepts ==
  ASSUME SpoolInv, Turns, NEW o \in Ordinals, NEW probe, CommitAcceptance(o, probe),
         \A d \in Ordinals : d > o => d > count,
         file[o] \in Layouts, probe # 0 => SameDrawing(file[o], probe)
  PROVE  Ledger!Next
<1> DEFINE e == Elides(o, probe)
           r == [row[o] EXCEPT !.state = IF e THEN "unchanged" ELSE "ready",
                               !.ckpt = IF e THEN probe ELSE 0,
                               !.sha = file[o], !.held = TRUE]
<1>1. /\ SpoolTypeOK /\ row[o] \in Row /\ UNCHANGED history /\ file[o] # NoLayout
      /\ row[o].state = "writing" /\ row[o].sha = NoLayout /\ row[o].ckpt = 0
  BY TurnsOf, SpoolAssumption
  DEF SpoolInv, SpoolTypeOK, CommitAcceptance, Storage, WritingHeld, Terminal, SpoolAssumption
<1>2. row' = [row EXCEPT ![o] = r]
  BY <1>1 DEF CommitAcceptance, SpoolTypeOK
<1>3. /\ r.sha = file[o]
      /\ e => r.state = "unchanged" /\ r.ckpt = probe
      /\ ~e => r.state = "ready" /\ r.ckpt = 0
  BY <1>1 DEF Row
<1> HIDE DEF r
<1>4. Versions' = Versions /\ Content' = [Content EXCEPT ![o] = file[o]]
  <2>1. Versions' = Versions
    BY <1>1 DEF Versions, HeadId
  <2>2. file[o] = r.sha
    BY <1>3
  <2>3. Content' = [Content EXCEPT ![o] = file[o]]
    <3>1. SpoolTypeOK
      BY <1>1
    <3> QED BY <3>1, <1>2, <2>2, ContentSeen, Zenon
  <2> QED BY <2>1, <2>3
<1>5. Ledger!Fresh(o)
  <2>1. ASSUME NEW d \in Ordinals, d >= o PROVE row[d].sha = NoLayout
    <3>1. CASE d = o
      BY <1>1, <3>1
    <3>2. CASE d # o
      <4>1. d > count
        BY <2>1, <3>2 DEF Ordinals
      <4> QED BY <4>1 DEF Turns, Unborn, NoRow
    <3> QED BY <3>1, <3>2
  <2> QED BY <2>1 DEF Ledger!Fresh, Ledger!Captures, Ordinals
<1> PICK l \in Layouts : l = file[o]
  OBVIOUS
<1>6. ASSUME ~e
      PROVE  Ledger!Accept(o, l)
  <2>1. Queue' = Queue \cup {o}
    BY <1>1, <1>2, <1>3, <1>6, QueueSeen DEF Pending
  <2>2. Outcome' = Outcome
    <3>1. Outcome[o] = 0
      BY <1>1 DEF Outcome
    <3>2. 0 = IF r.state = "quarantined" /\ r.sha # NoLayout THEN -1 ELSE r.ckpt
      BY <1>3, <1>6
    <3> QED BY <1>1, <1>2, <3>1, <3>2, OutcomeSeen
  <2> QED BY <1>4, <1>5, <2>1, <2>2 DEF Ledger!Accept, Content, Queue, Versions, Outcome
<1>7. ASSUME e
      PROVE  Ledger!AcceptRepeated(o, l)
  <2>1. Outcome' = [Outcome EXCEPT ![o] = HeadId]
    <3>1. HeadId = IF r.state = "quarantined" /\ r.sha # NoLayout THEN -1 ELSE r.ckpt
      BY <1>3, <1>7 DEF Elides
    <3>2. SpoolTypeOK
      BY <1>1
    <3> QED BY <1>2, <3>1, <3>2, OutcomeSeen, Zenon
  <2>2. Queue' = Queue \ {o}
    BY <1>1, <1>2, <1>3, <1>7, QueueSeen DEF Pending
  <2>3. Queue = {}
    <3>1. \A p \in Active : p = o
      <4>1. \A p \in Active : ~(p > o)
        BY DEF SpoolInv, Order, Counted, Active, Pending
      <4>2. \A p \in Active : o <= p
        BY <1>7 DEF Elides, First
      <4> QED BY <4>1, <4>2 DEF Active, Ordinals
    <3> QED BY <1>1, <3>1 DEF Queue
  <2>4. Ledger!Repeats(o, file[o])
    <3>1. SameDrawing(file[o], HeadId)
      BY <1>7 DEF Elides
    <3> QED BY <1>1, <3>1, RepeatsHead
  <2>5. Len(Versions) = HeadId
    BY <1>1, VersionsSeq
  <2> QED BY <1>4, <1>5, <2>1, <2>2, <2>3, <2>4, <2>5
          DEF Ledger!AcceptRepeated, Content, Queue, Versions, Outcome
<1>8. \E k \in Layouts : Ledger!Accept(o, k) \/ Ledger!AcceptRepeated(o, k)
  BY <1>6, <1>7
<1> QED BY <1>8, LedgerNext

\* Transactions that the ledger does not see.
LEMMA QuietSeen ==
  ASSUME SpoolInv, Turns,
         \/ \E o \in Ordinals : MarkProcessing(o) \/ Retry(o) \/ DiscardRolledBack(o)
         \/ RequeueInterrupted \/ FinishRecovery \/ CleanupDone
         \/ \E rows \in SUBSET Ordinals : Release(rows) \/ Unlink(rows)
  PROVE  UNCHANGED Ledger!vars
<1>1. SpoolTypeOK /\ \A p \in Ordinals : row[p] \in Row
  BY DEF SpoolInv, SpoolTypeOK
<1>2. UNCHANGED history
  BY DEF MarkProcessing, Retry, DiscardRolledBack, RequeueInterrupted, FinishRecovery,
     CleanupDone, Release, Unlink
<1>3. ASSUME NEW p \in Ordinals
      PROVE  /\ row'[p].sha = row[p].sha /\ row'[p].ckpt = row[p].ckpt
             /\ row'[p].state = row[p].state
                \/ {row[p].state, row'[p].state} \subseteq {"ready", "processing", "blocked"}
  <2>1. ASSUME NEW o \in Ordinals, MarkProcessing(o) \/ Retry(o)
        PROVE  /\ row'[p].sha = row[p].sha /\ row'[p].ckpt = row[p].ckpt
               /\ row'[p].state = row[p].state
                  \/ {row[p].state, row'[p].state} \subseteq {"ready", "processing", "blocked"}
    <3>1. PICK s \in {"processing", "ready"} :
            row' = [row EXCEPT ![o] = [row[o] EXCEPT !.state = s]]
      BY <1>1, <2>1 DEF MarkProcessing, Retry, SetState, SpoolTypeOK
    <3>2. /\ row'[o] = [row[o] EXCEPT !.state = s]
          /\ \A q \in Ordinals : q # o => row'[q] = row[q]
      BY <1>1, <3>1 DEF SpoolTypeOK
    <3>3. row[o].state \in {"ready", "processing", "blocked"}
      BY <2>1 DEF MarkProcessing, Retry
    <3>4. CASE p = o
      BY <1>1, <3>2, <3>3, <3>4 DEF Row
    <3>5. CASE p # o
      BY <3>2, <3>5
    <3> QED BY <3>4, <3>5
  <2>2. CASE RequeueInterrupted
    BY <1>1, <2>2 DEF RequeueInterrupted, Row
  <2>3. CASE FinishRecovery
    BY <1>1, <2>3 DEF FinishRecovery, Released, Row
  <2>4. CASE CleanupDone \/ \E rows : Release(rows)
    BY <1>1, <2>4 DEF CleanupDone, Release, Released, Row
  <2>5. ASSUME UNCHANGED row
        PROVE  row'[p].sha = row[p].sha /\ row'[p].ckpt = row[p].ckpt /\ row'[p].state = row[p].state
    BY <2>5
  <2> QED BY <2>1, <2>2, <2>3, <2>4, <2>5 DEF DiscardRolledBack, Unlink
<1> QED BY <1>1, <1>2, <1>3, LedgerStutters DEF Pending

LEMMA BlockSeen ==
  ASSUME SpoolInv, NEW o \in Ordinals,
         row[o].state \in {"writing", "processing"} \cup Terminal,
         row' = [row EXCEPT ![o] = BlockedRow(o)], UNCHANGED history
  PROVE  UNCHANGED Ledger!vars
<1>1. SpoolTypeOK /\ row[o] \in Row
  BY DEF SpoolInv, SpoolTypeOK
<1>2. row'[o] = BlockedRow(o) /\ \A p \in Ordinals : p # o => row'[p] = row[p]
  BY <1>1 DEF SpoolTypeOK
<1>3. BlockedRow(o).sha = row[o].sha /\ BlockedRow(o).ckpt = row[o].ckpt
  BY <1>1 DEF BlockedRow, Row
<1>4. row[o].sha # NoLayout => BlockedRow(o).state = IF row[o].state \in Terminal
                                                     THEN row[o].state ELSE "blocked"
  BY <1>1 DEF BlockedRow, Row
<1>5. row[o].state = "writing" => row[o].sha = NoLayout
  BY DEF SpoolInv, Storage, WritingHeld
<1>6. row[o].sha # NoLayout =>
        /\ row'[o].state \in Pending <=> row[o].state \in Pending
        /\ row'[o].state = "quarantined" <=> row[o].state = "quarantined"
  BY <1>2, <1>4, <1>5 DEF Pending, Terminal
<1> QED BY <1>1, <1>2, <1>3, <1>6, LedgerStutters

\* A reservation is no capture yet.
LEMMA ReserveSeen ==
  ASSUME SpoolInv, Turns, NEW source \in Sources, Reserve(source)
  PROVE  UNCHANGED Ledger!vars
<1> DEFINE n == count + 1
<1>1. /\ SpoolTypeOK /\ n \in Ordinals /\ n > count /\ UNCHANGED history
  BY SpoolAssumption DEF SpoolAssumption, SpoolInv, SpoolTypeOK, Reserve, Ordinals
<1>2. /\ row'[n].sha = NoLayout /\ row'[n].ckpt = 0
      /\ \A o \in Ordinals : o # n => row'[o] = row[o]
  BY <1>1 DEF Reserve, SpoolTypeOK
<1>3. row[n].sha = NoLayout /\ row[n].ckpt = 0
  BY <1>1 DEF Turns, Unborn, NoRow
<1> QED BY <1>1, <1>2, <1>3, LedgerStutters

LEMMA UnchangedSeen ==
  ASSUME UNCHANGED <<row, history>>
  PROVE  UNCHANGED Ledger!vars
<1>1. Content' = Content /\ Queue' = Queue /\ Versions' = Versions /\ Outcome' = Outcome
  BY DEF Content, Queue, Active, Versions, HeadId, Outcome
<1> QED BY <1>1, Seen

LEMMA OrgSeen ==
  ASSUME PipelineInv, LedgerInv, OrgStep
  PROVE  Ledger!Next \/ UNCHANGED Ledger!vars
<1>0. SpoolInv /\ SpoolTypeOK /\ Turns /\ HeadId \in Nat
  BY VersionsSeq DEF PipelineInv, SpoolInv, LedgerInv
<1>1. /\ org.pc \in {"marked", "prepared", "published"} => org.item \in Ordinals
      /\ org.pc \in {"marked", "prepared"} => row[org.item].state = "processing"
      /\ org.pc = "published" => row[org.item].state \in Terminal
      /\ org.pc = "prepared" => org.parent = HeadId
      /\ org.pc = "unlinked" => org.clean \in SUBSET Ordinals
  BY DEF PipelineInv, Worked, ThreadTypeOK, Organizer
<1>2. CASE OrgTake
  BY <1>0, <1>2, QuietSeen DEF OrgTake, Active
<1>3. CASE OrgRawDuplicate
  <2>1. SameDrawing(row[org.item].sha, HeadId)
    BY <1>0, <1>3 DEF OrgRawDuplicate, RawDuplicate, SameDrawing
  <2> QED BY <1>0, <1>1, <1>3, <2>1, LedgerElides, LedgerNext DEF OrgRawDuplicate
<1>4. CASE OrgSkip
  BY <1>0, <1>1, <1>4, LedgerElides, LedgerNext DEF OrgSkip
<1>5. CASE OrgCommit
  BY <1>0, <1>1, <1>5, LedgerPublishes, LedgerNext DEF OrgCommit
<1>6. CASE OrgRelease
  BY <1>0, <1>1, <1>6, QuietSeen DEF OrgRelease
<1>7. CASE OrgUnlink
  BY <1>0, <1>7, QuietSeen DEF OrgUnlink, Uncleaned
<1>8. CASE OrgBlock
  BY <1>0, <1>1, <1>8, BlockSeen DEF OrgBlock, Block
<1>9. CASE OrgCancelled
  BY <1>0, <1>1, <1>9, QuietSeen DEF OrgCancelled
<1>10. CASE OrgPrepare \/ OrgCleanupFails \/ OrgDies
  BY <1>10, UnchangedSeen DEF OrgPrepare, OrgCleanupFails, OrgDies, spoolVars
<1> QED BY <1>2, <1>3, <1>4, <1>5, <1>6, <1>7, <1>8, <1>9, <1>10 DEF OrgStep

LEMMA SavingSeen ==
  ASSUME PipelineInv, LedgerInv,
         RecoverWriting \/ ExportRejected \/ ReceiptFails \/ Accept
  PROVE  Ledger!Next \/ UNCHANGED Ledger!vars
<1>0. SpoolInv /\ SpoolTypeOK /\ Turns /\ Vouched
  BY DEF PipelineInv, SpoolInv, LedgerInv
<1>1. CASE RecoverWriting
  <2>1. PICK o \in Ordinals :
          /\ row[o].state = "writing"
          /\ IF Verified(o)
             THEN \E probe \in {0, HeadId} : Compares(o, probe) /\ CommitAcceptance(o, probe)
             ELSE Block(o)
    BY <1>1 DEF RecoverWriting
  <2>2. CASE ~Verified(o)
    BY <1>0, <2>1, <2>2, BlockSeen DEF Block
  <2>3. CASE Verified(o)
    <3>1. PICK probe \in {0, HeadId} : Compares(o, probe) /\ CommitAcceptance(o, probe)
      BY <2>1, <2>3
    <3>2. file[o] \in Layouts /\ \A d \in Ordinals : d > o => d > count
      BY <1>0, <2>1, <2>3 DEF Verified, Vouched
    <3>3. probe # 0 => SameDrawing(file[o], probe)
      BY <3>1 DEF Compares
    <3> QED BY <1>0, <3>1, <3>2, <3>3, LedgerAccepts, Zenon
  <2> QED BY <2>2, <2>3
<1>2. CASE ExportRejected \/ ReceiptFails
  <2>1. /\ rec.item \in Ordinals /\ row[rec.item].state = "writing"
        /\ row' = [row EXCEPT ![rec.item] = BlockedRow(rec.item)]
        /\ UNCHANGED history
    BY <1>2 DEF PipelineInv, Saved, Saving, ExportRejected, ReceiptFails, Block
  <2> QED BY <1>0, <2>1, BlockSeen
<1>3. CASE Accept
  <2>1. /\ rec.item \in Ordinals /\ file[rec.item] \in Layouts
        /\ \A d \in Ordinals : d > rec.item => d > count
        /\ rec.probe # 0 => SameDrawing(file[rec.item], rec.probe)
        /\ CommitAcceptance(rec.item, rec.probe)
    BY <1>0, <1>3 DEF PipelineInv, Saved, Saving, Accept, Vouched
  <2> QED BY <1>0, <2>1, LedgerAccepts, Zenon
<1> QED BY <1>1, <1>2, <1>3

LEMMA LedgerStep ==
  ASSUME PipelineInv, LedgerInv, [Next]_vars
  PROVE  Ledger!Next \/ UNCHANGED Ledger!vars
<1>0. SpoolInv /\ SpoolTypeOK /\ Turns /\ rec \in Recorder
  BY DEF PipelineInv, SpoolInv, LedgerInv, ThreadTypeOK
<1>1. ASSUME NEW m \in Modes, RecReserve(m)
      PROVE  UNCHANGED Ledger!vars
  <2>1. PICK source \in Sources : Reserve(source)
    BY <1>0, <1>1 DEF RecReserve, Recorder, Sources
  <2> QED BY <1>0, <2>1, ReserveSeen
<1>2. ASSUME NEW m \in Modes, RecDeferred(m)
      PROVE  UNCHANGED Ledger!vars
  BY <1>2, UnchangedSeen DEF RecDeferred, spoolVars
<1>3. CASE RecStep
  <2>1. CASE FinishRecover
    BY <1>0, <2>1, QuietSeen DEF FinishRecover
  <2>2. CASE CleanElided
    <3>1. CASE CleanupDone
      BY <1>0, <3>1, QuietSeen
    <3>2. CASE UNCHANGED spoolVars
      BY <3>2, UnchangedSeen DEF spoolVars
    <3> QED BY <2>2, <3>1, <3>2 DEF CleanElided
  <2>3. CASE \/ Close \/ CreateFile \/ (\E l \in Layouts : Export(l)) \/ Verify \/ PersistReceipt
             \/ AwaitDone \/ DrainRaises \/ Unhealthy
    BY <2>3, UnchangedSeen DEF Close, CreateFile, Export, Verify, PersistReceipt, AwaitDone,
       DrainRaises, Unhealthy, spoolVars
  <2> QED BY <1>1, <1>2, <1>3, <2>1, <2>2, <2>3, SavingSeen DEF RecStep
<1>4. CASE Environment
  <2>1. CASE Acquire("recorder") \/ Acquire("recovery")
    BY <1>0, <2>1, QuietSeen DEF Acquire
  <2>2. CASE \E l \in Layouts : ForeignCheckpoint(l)
    BY <1>0, <2>2, LedgerForeign, LedgerNext
  <2>3. CASE UserDiscard
    BY <1>0, <2>3, LedgerDiscards, LedgerNext DEF UserDiscard
  <2>4. CASE UserRetry \/ UserDiscardFails
    BY <1>0, <2>4, QuietSeen DEF UserRetry, UserDiscardFails, Active
  <2>5. CASE \/ OwnerFails \/ Crash \/ RequestCancel \/ (\E s \in Sources : BeginBarrier(s))
             \/ BeginFinish
    BY <2>5, UnchangedSeen DEF OwnerFails, Crash, RequestCancel, BeginBarrier, BeginFinish, spoolVars
  <2> QED BY <1>1, <1>2, <1>4, <2>1, <2>2, <2>3, <2>4, <2>5 DEF Environment, Modes
<1>5. CASE UNCHANGED vars
  BY <1>5, UnchangedSeen DEF vars, spoolVars
<1> QED BY <1>3, <1>4, <1>5, OrgSeen DEF Next

LEMMA LedgerStarts == Init => Ledger!Init
<1> SUFFICES ASSUME Init PROVE Ledger!Init
  OBVIOUS
<1>1. \A o \in Ordinals : row[o].state = "none" /\ row[o].sha = NoLayout /\ row[o].ckpt = 0
  BY DEF Init, SpoolInit, NoRow
<1>2. Content = [o \in Ordinals |-> NoLayout] /\ Queue = {} /\ Outcome = [o \in Ordinals |-> 0]
  BY <1>1 DEF Content, Queue, Active, Pending, Outcome
<1>3. CASE history = <<>>
  <2>1. Versions = <<>>
    BY <1>3 DEF Versions, HeadId
  <2> QED BY <1>2, <2>1 DEF Ledger!Init, Ledger!Captures, Ordinals, Content, Queue, Versions, Outcome
<1>4. ASSUME NEW l \in Layouts, history = <<[layout |-> l, capture |-> 0, parent |-> 0]>>
      PROVE  Ledger!Init
  <2>1. Versions = <<l>>
    BY <1>4 DEF Versions, HeadId
  <2> QED BY <1>2, <2>1 DEF Ledger!Init, Ledger!Captures, Ordinals, Content, Queue, Versions, Outcome
<1> QED BY <1>3, <1>4 DEF Init, SpoolInit

---------------------------------------------------------------------------
(* Theorems.                                                               *)

\* The inductive invariant holds throughout.
THEOREM Inductive == Spec => []PipelineInv
<1>1. PipelineInv /\ [Next]_vars => PipelineInv'
  BY StepKeeps
<1> QED BY InitInv, <1>1, PTL DEF Spec

\* Every variable of the table and of the threads has its type.
THEOREM TypeCorrect == Spec => []TypeOK
<1>1. PipelineInv => TypeOK
  BY DEF PipelineInv, SpoolInv, ThreadTypeOK, TypeOK
<1> QED BY Inductive, <1>1, PTL

\* Captures get their versions in the order they were taken, whoever blocks,
\* retries, discards, crashes or recovers in between.
THEOREM PublicationOrder == Spec => []PublishedInOrder
<1>1. PipelineInv => PublishedInOrder
  BY SpoolInvImplies DEF PipelineInv
<1> QED BY Inductive, <1>1, PTL

\* A capture is committed exactly when one version holds its bytes.
THEOREM PublicationOnce == Spec => []ExactlyOnce
<1>1. PipelineInv => ExactlyOnce
  BY DEF PipelineInv, SpoolInv, Order
<1> QED BY Inductive, <1>1, PTL

\* Both together: each capture becomes one version at most, and in its turn.
THEOREM PublicationOnceInOrder == Spec => []PublishedOnceInOrder
<1>1. PublishedInOrder /\ ExactlyOnce => PublishedOnceInOrder
  BY DEF PublishedOnceInOrder
<1> QED BY PublicationOrder, PublicationOnce, <1>1, PTL

\* An accepted copy is on disk until it has a version or the user gives it up.
THEOREM NothingAcceptedIsLost == Spec => []AcceptedKept
<1>1. PipelineInv => AcceptedKept
  BY DEF PipelineInv, SpoolInv, Storage
<1> QED BY Inductive, <1>1, PTL

\* A save that only acknowledges a version was automatic, and the version
\* shows the same drawing.
THEOREM ElisionsAreSound == Spec => []ElisionSound
<1>1. PipelineInv => ElisionSound
  BY DEF PipelineInv, SpoolInv, Order
<1> QED BY Inductive, <1>1, PTL

\* With the context of the captures the invariant is inductive again.
THEOREM ContextInductive == Spec => []Context
<1>1. PipelineInv /\ Context /\ [Next]_vars => Context'
  BY ContextKeeps
<1> QED BY Inductive, ContextStarts, <1>1, PTL DEF Spec

\* A capture that was taken before another writer's version never becomes a
\* version after it: expected_head compares the head through any chain of
\* quarantined predecessors (Spool.validate_capture).
THEOREM ForeignVersionsRespected == Spec => []NoForeignParent
<1>1. PipelineInv /\ Context => NoForeignParent
  BY ContextImplies DEF PipelineInv
<1> QED BY Inductive, ContextInductive, <1>1, PTL

\* Both together: each capture becomes the version it was taken to become,
\* on top of the versions it was taken after.
THEOREM VersionsAreSound == Spec => []VersionsSound
<1>1. ElisionSound /\ NoForeignParent => VersionsSound
  BY DEF VersionsSound
<1> QED BY ElisionsAreSound, ForeignVersionsRespected, <1>1, PTL

\* With LedgerInv the invariant is inductive again.
THEOREM LedgerInductive == Spec => []LedgerInv
<1>1. PipelineInv /\ LedgerInv /\ [Next]_vars => LedgerInv'
  BY LedgerInvKeeps
<1> QED BY Inductive, LedgerInvStarts, <1>1, PTL DEF Spec

\* The recorder, the organizer, recovery, the user and the crashes between
\* any two of their steps implement the ledger: accepted copies leave in the
\* order of acceptance, once, as a version, as a reference to the version they
\* repeat, or because the user dropped them.
THEOREM RefinesLedger == Spec => ImplementsLedger
<1>1. PipelineInv /\ LedgerInv /\ [Next]_vars => [Ledger!Next]_(Ledger!vars)
  BY LedgerStep
<1> QED BY Inductive, LedgerInductive, LedgerStarts, <1>1, PTL DEF Spec, ImplementsLedger, Ledger!Spec

\* The queue never holds more copies than it has slots.
THEOREM SlotsBounded == Spec => []SlotBound
<1>1. PipelineInv => SlotBound
  BY DEF PipelineInv, SpoolInv, Storage
<1> QED BY Inductive, <1>1, PTL

\* No file is on disk without a row that accounts for it.
THEOREM FilesAccounted == Spec => []DiskAccounted
<1>1. PipelineInv => DiskAccounted
  BY SpoolInvImplies DEF PipelineInv
<1> QED BY Inductive, <1>1, PTL

\* The queue keeps what it accepted and no more than it may (Spool.reserve,
\* Spool.discard, Spool.cleanup_done).
THEOREM CopiesAreKept == Spec => []CopiesKept
<1>1. AcceptedKept /\ SlotBound /\ DiskAccounted => CopiesKept
  BY DEF CopiesKept
<1>2. QED
  BY <1>1, NothingAcceptedIsLost, SlotsBounded, FilesAccounted, PTL

\* No step of any thread, failure or recovery takes back what was published
\* or acknowledged.
THEOREM CompletedStaysCompleted == Spec => CompletedForGood
<1>1. PipelineInv /\ [Next]_vars
        => [/\ \A o \in Ordinals : row[o].state \in Terminal =>
                 row'[o].state = row[o].state /\ row'[o].ckpt = row[o].ckpt
            /\ HeadId <= Len(history') /\ SubSeq(history', 1, HeadId) = history]_vars
  BY StepKeeps DEF Completed, CompletedStay, HistoryGrows
<1> QED BY Inductive, <1>1, PTL DEF Spec, CompletedForGood
=============================================================================
