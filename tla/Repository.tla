---------------------------- MODULE Repository ----------------------------
(***************************************************************************)
(* How a version gets into a format-2 history, and what keeps it readable: *)
(* the writer lease, the prepared snapshot with its spooled pack and work  *)
(* database, the publication of the pack and then of its rows, the leftover*)
(* files of whoever failed or crashed, delta chains and the repair of      *)
(* damaged objects, and the rebuilding of a lost index (store.py,          *)
(* storage/engine.py, object_writer.py, object_access.py, recovery.py).    *)
(*                                                                         *)
(* An object is its digest.  Only the bytes in a pack can be damaged; the  *)
(* index is SQLite's.  The lease excludes every other preparation, so the  *)
(* scan of a source is one step and its end another.                       *)
(***************************************************************************)
EXTENDS Integers, Sequences, FiniteSets

CONSTANTS
  Handles,       \* open Repository objects, in one process or several
  Metadata,      \* objects that are index pages
  Chunks,        \* objects that are pieces of layouts
  Layouts,       \* what a source file may consist of
  NoHandle, NoBase,
  MaxDepth,      \* policy.MAX_DELTA_DEPTH
  MaxSnapshots,  \* bound: prepared snapshots, failed ones too
  MaxDamage,     \* bound: damaged records
  MaxFaults      \* bound: crashes and failed commits

Objects == Metadata \cup Chunks

ASSUME RepositoryAssumption ==
  /\ Metadata \cap Chunks = {}
  /\ Layouts \subseteq SUBSET Objects
  /\ NoHandle \notin Handles
  /\ NoBase \notin Objects
  /\ MaxDepth \in Nat \ {0}
  /\ MaxSnapshots \in Nat
  /\ MaxDamage \in Nat
  /\ MaxFaults \in Nat

VARIABLES
  lease,     \* who holds writer.lock
  long,      \* whether it was taken by acquire_writer(), not for one snapshot
  snap,      \* the snapshot each handle has open
  place,     \* where the pack file of a snapshot is
  record,    \* what is in that file
  work,      \* snapshots whose work database is on disk
  packs,     \* table packs
  row,       \* table objects
  versions,  \* table checkpoints
  damaged,   \* records whose bytes are damaged
  used,      \* snapshot identifiers given out
  faults

vars == <<lease, long, snap, place, record, work, packs, row, versions, damaged, used,
          faults>>

Ids == 1..MaxSnapshots
Places == {"none", "spool", "packs", "quarantine"}
Record == [depth : 0..MaxDepth, base : Objects \cup {NoBase}]
Row == [pack : Ids, depth : 0..MaxDepth, base : Objects \cup {NoBase}]
Full == [depth |-> 0, base |-> NoBase]

\* Tables and packs are functions on the objects they hold.
IsIndex(f, R) == DOMAIN f \subseteq Objects /\ f \in [DOMAIN f -> R]
Empty == [o \in {} |-> Full]

Closed == [pc |-> "closed"]
Snapshot == [pc : {"open", "ready", "moved", "committed"}, id : Ids, layout : Layouts,
             parent : Nat, rescue : BOOLEAN, repair : SUBSET Objects,
             saw : SUBSET (Ids \X Objects)]
Checkpoint == [id : Ids, layout : Layouts]

TypeOK ==
  /\ lease \in Handles \cup {NoHandle}
  /\ long \in BOOLEAN
  /\ snap \in [Handles -> Snapshot \cup {Closed}]
  /\ place \in [Ids -> Places]
  /\ DOMAIN record = Ids
  /\ \A i \in Ids : IsIndex(record[i], Record)
  /\ work \subseteq Ids
  /\ packs \subseteq Ids
  /\ IsIndex(row, Row)
  /\ versions \in Seq(Checkpoint)
  /\ damaged \subseteq Ids \X Objects
  /\ used \in 0..MaxSnapshots
  /\ faults \in 0..MaxFaults

Init ==
  /\ lease = NoHandle
  /\ long = FALSE
  /\ snap = [h \in Handles |-> Closed]
  /\ place = [i \in Ids |-> "none"]
  /\ record = [i \in Ids |-> Empty]
  /\ work = {}
  /\ packs = {}
  /\ row = Empty
  /\ versions = <<>>
  /\ damaged = {}
  /\ used = 0
  /\ faults = 0

---------------------------------------------------------------------------
(* Reading objects.                                                        *)

InPacks == {i \in Ids : place[i] = "packs"}
InQuarantine == {i \in Ids : place[i] = "quarantine"}

\* What ObjectIndex.get returns something for, given an index, the packs it
\* finds and the damaged records: the header of the record agrees with the
\* row, and the depth decreases along a chain that can be read.
Reads(index, there, bad) ==
  LET Intact(o) == /\ index[o].pack \in there
                   /\ <<index[o].pack, o>> \notin bad
                   /\ o \in DOMAIN record[index[o].pack]
                   /\ record[index[o].pack][o] = [depth |-> index[o].depth,
                                                  base |-> index[o].base]
      upTo[d \in 0..MaxDepth] ==
        LET below == IF d = 0 THEN {} ELSE upTo[d - 1]
        IN below \cup {o \in DOMAIN index : /\ index[o].depth = d
                                            /\ Intact(o)
                                            /\ IF d = 0 THEN index[o].base = NoBase
                                               ELSE index[o].base \in below}
  IN upTo[MaxDepth]

Readable == Reads(row, InPacks, damaged)

\* Where the bases of an object lead, each nearer to a full one than the last.
ChainEnd(o) ==
  LET endOf[d \in 0..MaxDepth] ==
        [p \in {q \in DOMAIN row : row[q].depth <= d} |->
           CASE row[p].depth = 0 -> p
             [] row[p].base \in DOMAIN row /\ row[p].depth = d
                  /\ row[row[p].base].depth < d -> endOf[d - 1][row[p].base]
             [] row[p].depth < d -> endOf[d - 1][p]
             [] OTHER -> NoBase]
  IN IF o \in DOMAIN row THEN endOf[MaxDepth][o] ELSE NoBase

\* The full object a chain ends with, NoBase for a broken chain.
Root(o) ==
  IF ChainEnd(o) \in DOMAIN row /\ row[ChainEnd(o)].depth = 0 THEN ChainEnd(o)
  ELSE NoBase

\* The two bases a chunk of the previous version offers.
DeltaBases(b) ==
  (IF row[b].depth < MaxDepth THEN {b} ELSE {}) \cup ({Root(b)} \ {b})

---------------------------------------------------------------------------
(* The lease.                                                              *)

\* Faulty: a lease taken for one snapshot does not keep others out.
LeaseFreeOfLong == lease = NoHandle \/ ~long

LeaseFree == lease = NoHandle

\* Faulty: only the pack of the newest version is known.
CleanedButNewest ==
  [i \in Ids |-> CASE place[i] = "spool" -> "none"
                   [] place[i] = "packs" /\ \A n \in DOMAIN versions :
                        n = Len(versions) => versions[n].id # i -> "quarantine"
                   [] OTHER -> place[i]]

\* cleanup_orphans(): temporary files go, packs without rows are set aside.
Cleaned ==
  [i \in Ids |-> CASE place[i] = "spool" -> "none"
                   [] place[i] = "packs" /\ i \notin packs -> "quarantine"
                   [] OTHER -> place[i]]

AcquireWriter(h) ==
  /\ LeaseFree
  /\ lease' = h
  /\ long' = TRUE
  /\ place' = Cleaned
  /\ work' = {}
  /\ UNCHANGED <<snap, record, packs, row, versions, damaged, used, faults>>

\* Every caller closes its snapshot first.
ReleaseWriter(h) ==
  /\ lease = h /\ long
  /\ snap[h] = Closed
  /\ lease' = NoHandle
  /\ long' = FALSE
  /\ UNCHANGED <<snap, place, record, work, packs, row, versions, damaged, used,
                 faults>>

\* PreparedSnapshot._release(): a lease taken for the snapshot goes with it.
ReleaseTransient ==
  /\ lease' = IF long THEN lease ELSE NoHandle
  /\ UNCHANGED long

---------------------------------------------------------------------------
(* prepare().                                                              *)

NewSnapshot(i, l, p, rescue) ==
  [pc |-> "open", id |-> i, layout |-> l, parent |-> p, rescue |-> rescue,
   repair |-> {}, saw |-> {}]

BeginPrepare(h, l) ==
  /\ snap[h] = Closed
  /\ LeaseFree \/ (lease = h /\ long)
  /\ used < MaxSnapshots
  /\ lease' = h
  /\ used' = used + 1
  /\ snap' = [snap EXCEPT ![h] = NewSnapshot(used + 1, l, Len(versions), FALSE)]
  /\ place' = [Cleaned EXCEPT ![used + 1] = "spool"]
  /\ work' = {used + 1}
  /\ UNCHANGED <<long, record, packs, row, versions, damaged, faults>>

Previous(s) == IF s.parent = 0 THEN {} ELSE versions[s.parent].layout

\* load_previous() needs the index pages of the parent.
PreviousLost(s) == ~(Previous(s) \cap Metadata \subseteq Readable)

\* Chunks of the parent whose bases can be read.
Usable(s) == {b \in Previous(s) \cap Chunks : DeltaBases(b) \subseteq Readable}

\* What new chunks may be stored against.  A format without an index of the
\* parent never has a base.
Bases(s) == IF s.rescue \/ PreviousLost(s) THEN {}
            ELSE UNION {DeltaBases(b) : b \in Usable(s)}

Fresh(s) == s.layout \ DOMAIN row

\* Objects that are read back before they are reused.
Checked(s) ==
  {o \in s.layout \cap DOMAIN row : o \in Metadata \/ s.rescue}

\* Faulty: a damaged object is stored against the deepest one at hand.
RepairRecordDelta(o) ==
  IF Readable = {} THEN Full
  ELSE LET b == CHOOSE b \in Readable :
                  \A p \in Readable : row[p].depth <= row[b].depth
       IN [depth |-> row[b].depth + 1, base |-> b]

\* A damaged object is replaced by a full one.
RepairRecord(o) == Full

\* The scan of the source, ended: objects the history does not have are
\* stored, full or against a base, and damaged ones once more.
Scan(h) ==
  LET s == snap[h]
      repair == Checked(s) \ Readable
  IN
  /\ s.pc = "open"
  /\ \E against \in [Fresh(s) \cap Chunks -> Bases(s) \cup {NoBase}] :
       record' = [record EXCEPT ![s.id] =
                    [o \in Fresh(s) \cup repair |->
                       CASE o \in repair -> RepairRecord(o)
                         [] o \in DOMAIN against /\ against[o] # NoBase ->
                              [depth |-> row[against[o]].depth + 1, base |-> against[o]]
                         [] OTHER -> Full]]
  /\ snap' = [snap EXCEPT ![h] = [s EXCEPT !.pc = "ready", !.repair = repair,
                                           !.saw = damaged]]
  /\ UNCHANGED <<lease, long, place, work, packs, row, versions, damaged, used,
                 faults>>

\* DeltaBaseUnavailable: the first attempt is discarded, the second one uses
\* no base and reads back everything it reuses.
Rescue(h) ==
  LET s == snap[h] IN
  /\ s.pc = "open"
  /\ ~s.rescue
  /\ \/ PreviousLost(s)
     \/ Fresh(s) \cap Chunks # {} /\ Usable(s) # Previous(s) \cap Chunks
  /\ used < MaxSnapshots
  /\ used' = used + 1
  /\ snap' = [snap EXCEPT ![h] = NewSnapshot(used + 1, s.layout, s.parent, TRUE)]
  /\ place' = [place EXCEPT ![s.id] = "none", ![used + 1] = "spool"]
  /\ work' = (work \ {s.id}) \cup {used + 1}
  /\ UNCHANGED <<lease, long, record, packs, row, versions, damaged, faults>>

\* discard(), cancellation, a failed scan, a source that has changed.
Drop(h) ==
  LET s == snap[h] IN
  /\ s.pc \in {"open", "ready"}
  /\ snap' = [snap EXCEPT ![h] = Closed]
  /\ place' = [place EXCEPT ![s.id] = "none"]
  /\ work' = work \ {s.id}
  /\ ReleaseTransient
  /\ UNCHANGED <<record, packs, row, versions, damaged, used, faults>>

---------------------------------------------------------------------------
(* commit().                                                               *)

\* os.replace() of the spooled pack, unless there is nothing in it.
Publish(h) ==
  LET s == snap[h] IN
  /\ s.pc = "ready"
  /\ place[s.id] = "spool"
  /\ place' = [place EXCEPT ![s.id] = IF DOMAIN record[s.id] = {} THEN "none"
                                      ELSE "packs"]
  /\ snap' = [snap EXCEPT ![h].pc = "moved"]
  /\ UNCHANGED <<lease, long, record, work, packs, row, versions, damaged, used,
                 faults>>

\* Rows of new objects are inserted, rows of repaired ones repointed.
Indexed(s) ==
  [o \in DOMAIN row \cup DOMAIN record[s.id] |->
     IF o \in DOMAIN record[s.id] /\ (o \in s.repair \/ o \notin DOMAIN row)
     THEN [pack |-> s.id, depth |-> record[s.id][o].depth,
           base |-> record[s.id][o].base]
     ELSE row[o]]

CommitRows(h) ==
  LET s == snap[h] IN
  /\ s.pc = "moved"
  /\ s.id \in work
  /\ Len(versions) = s.parent
  /\ packs' = packs \cup {i \in {s.id} : DOMAIN record[i] # {}}
  /\ row' = Indexed(s)
  /\ versions' = Append(versions, [id |-> s.id, layout |-> s.layout])
  /\ snap' = [snap EXCEPT ![h].pc = "committed"]
  /\ UNCHANGED <<lease, long, place, record, work, damaged, used, faults>>

\* The version is published, whatever becomes of the work database.
EndCommit(h) ==
  LET s == snap[h] IN
  /\ s.pc = "committed"
  /\ work' = work \ {s.id}
  /\ snap' = [snap EXCEPT ![h] = Closed]
  /\ ReleaseTransient
  /\ UNCHANGED <<place, record, packs, row, versions, damaged, used, faults>>

\* An error before or in the transaction: whatever was published stays, the
\* spooled pack, too.
CommitFails(h) ==
  LET s == snap[h] IN
  /\ s.pc \in {"ready", "moved"}
  /\ faults < MaxFaults
  /\ faults' = faults + 1
  /\ work' = work \ {s.id}
  /\ snap' = [snap EXCEPT ![h] = Closed]
  /\ ReleaseTransient
  /\ UNCHANGED <<place, record, packs, row, versions, damaged, used>>

---------------------------------------------------------------------------
\* The process of the lease holder dies; the files stay.
Crash(h) ==
  /\ lease = h
  /\ faults < MaxFaults
  /\ faults' = faults + 1
  /\ lease' = NoHandle
  /\ long' = FALSE
  /\ snap' = [snap EXCEPT ![h] = Closed]
  /\ UNCHANGED <<place, record, work, packs, row, versions, damaged, used>>

\* A record of a published pack can no longer be read.
Damage(i, o) ==
  /\ place[i] = "packs" /\ o \in DOMAIN record[i]
  /\ Cardinality(damaged) < MaxDamage
  /\ damaged' = damaged \cup {<<i, o>>}
  /\ UNCHANGED <<lease, long, snap, place, record, work, packs, row, versions, used,
                 faults>>

\* The packs are restored from a backup, as the error of a reader says; writers
\* are stopped for it.
Mend ==
  /\ damaged # {}
  /\ LeaseFree
  /\ damaged' = {}
  /\ UNCHANGED <<lease, long, snap, place, record, work, packs, row, versions, used,
                 faults>>

Next ==
  \/ \E h \in Handles :
       \/ AcquireWriter(h) \/ ReleaseWriter(h)
       \/ \E l \in Layouts : BeginPrepare(h, l)
       \/ Scan(h) \/ Rescue(h) \/ Drop(h)
       \/ Publish(h) \/ CommitRows(h) \/ EndCommit(h) \/ CommitFails(h)
       \/ Crash(h)
  \/ \E i \in Ids, o \in Objects : Damage(i, o)
  \/ Mend

Spec == Init /\ [][Next]_vars

---------------------------------------------------------------------------
(* rebuild_index(): the objects of every pack, quarantined ones too, by    *)
(* the shallowest record.  A pack that cannot be scanned ends the rebuild, *)
(* and its transaction is rolled back to the index it was given.           *)

Surviving == InPacks \cup InQuarantine
Copies(o) == {i \in Surviving : o \in DOMAIN record[i]}

\* Faulty: the record that is found first wins.
ShallowestFirst(o) == CHOOSE i \in Copies(o) : \A j \in Copies(o) : i <= j

Shallowest(o) ==
  CHOOSE i \in Copies(o) :
    \A j \in Copies(o) : record[i][o].depth <= record[j][o].depth

Rebuilt(index) ==
  IF damaged \cap (Surviving \X Objects) # {} THEN index
  ELSE [o \in {p \in Objects : Copies(p) # {}} |->
          [pack |-> Shallowest(o), depth |-> record[Shallowest(o)][o].depth,
           base |-> record[Shallowest(o)][o].base]]

---------------------------------------------------------------------------
(* Properties.                                                             *)

\* Whatever failed or crashed on the way, every committed version has all its
\* objects: rows, packs in place, and chains within the depth a reader
\* follows.  Damage is not a fault of the program.
VersionsRestorable ==
  /\ \A v \in 1..Len(versions) : versions[v].layout \subseteq DOMAIN row
  /\ \A o \in DOMAIN row :
       /\ place[row[o].pack] = "packs"
       /\ o \in DOMAIN record[row[o].pack]
       /\ record[row[o].pack][o] = [depth |-> row[o].depth, base |-> row[o].base]
       /\ \/ row[o].depth = 0 /\ row[o].base = NoBase
          \/ row[o].base \in DOMAIN row /\ row[row[o].base].depth < row[o].depth

\* A prepared snapshot is its holder's alone: nobody cleans up its files or
\* indexes them while it is open.
SnapshotProtected ==
  \A h \in Handles : snap[h] # Closed =>
    /\ lease = h
    /\ snap[h].id \in work
    /\ \/ /\ snap[h].pc \in {"open", "ready"}
          /\ place[snap[h].id] = "spool"
       \/ /\ snap[h].pc \in {"moved", "committed"}
          /\ DOMAIN record[snap[h].id] # {} => place[snap[h].id] = "packs"
    /\ snap[h].id \in packs => snap[h].pc = "committed"

\* A lease taken for one snapshot does not outlive it: recorders and other
\* writers would be locked out until the process ends.
NoForgottenLease == lease # NoHandle /\ ~long => snap[lease] # Closed

\* Lease and snapshot go together: one protects the other, and ends with it.
LeaseWithSnapshot == SnapshotProtected /\ NoForgottenLease

\* However many saves fail or crash, at most one of them has files left over.
LeftoversBounded ==
  /\ Cardinality({i \in InPacks : i \notin packs}) <= 1
  /\ Cardinality({i \in Ids : place[i] = "spool"}) <= 1
  /\ Cardinality(work) <= 1

\* Nothing outlives a snapshot: neither its lease nor, but for one, its files.
NothingLeftOver == LeaseWithSnapshot /\ LeftoversBounded

\* What the commit of a snapshot makes readable: what it has stored or read
\* back, and after a failed base every object.
Promised(h) == snap[h].layout \ (IF snap[h].rescue THEN {} ELSE DOMAIN row \cap Chunks)
Commits(h) ==
  snap[h].pc = "moved" /\ snap'[h].pc = "committed" /\ snap[h].saw = damaged

\* No save, repair or clean-up makes an object unreadable that was readable,
\* and a committed version is as readable as the save has promised.
NeverMadeUnreadable ==
  [][/\ damaged' \subseteq damaged => Readable \subseteq Readable'
     /\ \A h \in Handles : Commits(h) => Promised(h) \subseteq Readable']_vars

\* A lost index is rebuilt from the packs alone, failed saves among them.
RebuildRestores ==
  damaged = {} => \A v \in 1..Len(versions) :
    versions[v].layout \subseteq Reads(Rebuilt(Empty), Surviving, {})
===========================================================================
