-------------------------- MODULE RepositoryProofs --------------------------
(***************************************************************************)
(* What holds of the repository for any number of handles, objects,        *)
(* snapshots, damaged records and faults: committed versions are complete  *)
(* in the index and in the packs, a snapshot belongs to the holder of the  *)
(* lease, leftovers do not accumulate, nothing that could be read is lost, *)
(* and a lost index can be rebuilt.                                        *)
(***************************************************************************)
EXTENDS Repository, HistoryOrder, FiniteSetTheorems, WellFoundedInduction, TLAPS

\* The lease is free, someone's for long, or for the one snapshot.
LeaseInv ==
  /\ lease = NoHandle => ~long
  /\ NoForgottenLease

\* Identifiers that were not given out have no files; parents exist; packs of the table, and
\* only they, are what rows point to.
IdInv ==
  /\ \A h \in Handles : snap[h] # Closed =>
       snap[h].id <= used /\ snap[h].parent <= Len(versions)
  /\ \A i \in Ids : i > used => place[i] = "none" /\ i \notin packs
  /\ \A i \in packs : place[i] = "packs"
  /\ \A o \in DOMAIN row : row[o].pack \in packs

\* One of each at most, and no pack without rows before the snapshot has
\* published its own.
LeftoverInv ==
  /\ \A i, j \in Ids : place[i] = "spool" /\ place[j] = "spool" => i = j
  /\ \A i, j \in InPacks \ packs : i = j
  /\ \A i, j \in work : i = j
  /\ \A h \in Handles : snap[h].pc \in {"open", "ready"} =>
       InPacks \subseteq packs

\* What a scan has stored can be indexed: together with the rows it is the
\* whole source, and a delta has a base with a row, unless it is a repair.
Complete(s) ==
  /\ s.layout \subseteq DOMAIN row \cup DOMAIN record[s.id]
  /\ \A o \in DOMAIN record[s.id] :
       \/ record[s.id][o] = Full
       \/ /\ o \notin s.repair
          /\ record[s.id][o].base \in DOMAIN row
          /\ row[record[s.id][o].base].depth < record[s.id][o].depth

RecordInv ==
  \A h \in Handles : snap[h].pc \in {"ready", "moved"} => Complete(snap[h])

IInv ==
  /\ TypeOK
  /\ LeaseInv
  /\ IdInv
  /\ SnapshotProtected
  /\ LeftoverInv
  /\ RecordInv
  /\ VersionsRestorable

---------------------------------------------------------------------------
(* Facts about the state.                                                  *)

\* An open snapshot excludes every other.
LEMMA Held ==
  ASSUME IInv, NEW h \in Handles, snap[h].pc # "closed"
  PROVE  /\ snap[h] \in Snapshot
         /\ snap[h] # Closed
         /\ lease = h
         /\ work = {snap[h].id}
         /\ snap[h].id <= used
         /\ \A k \in Handles \ {h} : snap[k] = Closed
<1>1. snap[h] # Closed /\ snap[h] \in Snapshot
  BY DEF IInv, TypeOK, Closed
<1>2. lease = h /\ snap[h].id \in work
  BY <1>1 DEF IInv, SnapshotProtected
<1>3. \A k \in Handles \ {h} : snap[k] = Closed
  BY <1>2 DEF IInv, SnapshotProtected
<1>4. snap[h].id <= used
  BY <1>1 DEF IInv, IdInv
<1>5. work = {snap[h].id}
  BY <1>2 DEF IInv, LeftoverInv
<1> QED BY <1>1, <1>2, <1>3, <1>4, <1>5

\* Who holds the lease is the only one with a snapshot.
LEMMA Free ==
  ASSUME IInv, NEW h \in Handles, snap[h] = Closed, lease \in {h, NoHandle}
  PROVE  \A k \in Handles : snap[k] = Closed
BY RepositoryAssumption DEF RepositoryAssumption, IInv, SnapshotProtected

\* What cleaning up leaves: packs with rows, and what it has set aside.
LEMMA CleanedKeeps ==
  ASSUME TypeOK
  PROVE  /\ Cleaned \in [Ids -> Places \ {"spool"}]
         /\ \A i \in Ids : Cleaned[i] = "packs" <=> place[i] = "packs" /\ i \in packs
         /\ \A i \in Ids : place[i] = "none" => Cleaned[i] = "none"
BY DEF TypeOK, Cleaned, Places

\* Rows, the versions and the packs of the table stay: so do the versions.
LEMMA KeepsVersions ==
  ASSUME VersionsRestorable, IdInv, row' = row, versions' = versions,
         \A i \in packs : place'[i] = "packs" /\ record'[i] = record[i]
  PROVE  VersionsRestorable'
BY DEF VersionsRestorable, IdInv

---------------------------------------------------------------------------
(* The lease.                                                              *)

LEMMA AcquireStep ==
  ASSUME IInv, NEW h \in Handles, AcquireWriter(h)
  PROVE  IInv'
<1>1. \A k \in Handles : snap[k] = Closed
  BY RepositoryAssumption
  DEF RepositoryAssumption, IInv, SnapshotProtected, AcquireWriter, LeaseFree
<1>2. /\ Cleaned \in [Ids -> Places \ {"spool"}]
      /\ \A i \in Ids : Cleaned[i] = "packs" <=> place[i] = "packs" /\ i \in packs
      /\ \A i \in Ids : place[i] = "none" => Cleaned[i] = "none"
  BY CleanedKeeps DEF IInv
<1>3. TypeOK'
  BY <1>2 DEF IInv, TypeOK, AcquireWriter
<1>4. LeaseInv'
  BY RepositoryAssumption DEF RepositoryAssumption, LeaseInv, NoForgottenLease, AcquireWriter
<1>5. IdInv'
  BY <1>2 DEF IInv, IdInv, TypeOK, AcquireWriter
<1>6. SnapshotProtected'
  BY <1>1 DEF SnapshotProtected, AcquireWriter
<1>7. LeftoverInv'
  BY <1>1, <1>2 DEF LeftoverInv, InPacks, AcquireWriter, Closed
<1>8. RecordInv'
  BY <1>1 DEF RecordInv, AcquireWriter, Closed
<1>9. VersionsRestorable'
  BY <1>2, KeepsVersions DEF IInv, IdInv, TypeOK, AcquireWriter
<1> QED BY <1>3, <1>4, <1>5, <1>6, <1>7, <1>8, <1>9 DEF IInv

LEMMA ReleaseStep ==
  ASSUME IInv, NEW h \in Handles, ReleaseWriter(h)
  PROVE  IInv'
<1>1. \A k \in Handles : snap[k] = Closed
  BY Free DEF ReleaseWriter
<1>2. TypeOK'
  BY DEF IInv, TypeOK, ReleaseWriter
<1>3. LeaseInv'
  BY DEF LeaseInv, NoForgottenLease, ReleaseWriter
<1>4. IdInv'
  BY DEF IInv, IdInv, ReleaseWriter
<1>5. SnapshotProtected'
  BY <1>1 DEF SnapshotProtected, ReleaseWriter
<1>6. LeftoverInv'
  BY DEF IInv, LeftoverInv, InPacks, ReleaseWriter
<1>7. RecordInv'
  BY <1>1 DEF RecordInv, ReleaseWriter, Closed
<1>8. VersionsRestorable'
  BY KeepsVersions DEF IInv, IdInv, ReleaseWriter
<1> QED BY <1>2, <1>3, <1>4, <1>5, <1>6, <1>7, <1>8 DEF IInv

---------------------------------------------------------------------------
(* prepare().                                                              *)

LEMMA NewSnapshotType ==
  ASSUME NEW i \in Ids, NEW l \in Layouts, NEW p \in Nat, NEW r \in BOOLEAN
  PROVE  /\ NewSnapshot(i, l, p, r) \in Snapshot
         /\ NewSnapshot(i, l, p, r) # Closed
         /\ NewSnapshot(i, l, p, r).pc = "open"
         /\ NewSnapshot(i, l, p, r).id = i
         /\ NewSnapshot(i, l, p, r).parent = p
BY DEF NewSnapshot, Snapshot, Closed

LEMMA BeginStep ==
  ASSUME IInv, NEW h \in Handles, NEW l \in Layouts, BeginPrepare(h, l)
  PROVE  IInv'
<1> DEFINE i == used + 1
           s == NewSnapshot(i, l, Len(versions), FALSE)
<1>1. \A k \in Handles : snap[k] = Closed
  BY Free DEF BeginPrepare, LeaseFree
<1>2. /\ Cleaned \in [Ids -> Places \ {"spool"}]
      /\ \A j \in Ids : Cleaned[j] = "packs" <=> place[j] = "packs" /\ j \in packs
      /\ \A j \in Ids : place[j] = "none" => Cleaned[j] = "none"
  BY CleanedKeeps DEF IInv
<1>3. i \in Ids /\ used \in Nat
  BY RepositoryAssumption DEF RepositoryAssumption, BeginPrepare, Ids, IInv, TypeOK
<1>4. s \in Snapshot /\ s # Closed /\ s.pc = "open" /\ s.id = i
      /\ s.parent = Len(versions) /\ Len(versions) \in Nat
  <2>1. Len(versions) \in Nat
    BY DEF IInv, TypeOK
  <2> QED BY <1>3, <2>1, NewSnapshotType
<1> HIDE DEF s
<1>5. /\ lease' = h /\ used' = i /\ work' = {i}
      /\ snap' = [snap EXCEPT ![h] = s]
      /\ place' = [Cleaned EXCEPT ![i] = "spool"]
      /\ UNCHANGED <<long, record, packs, row, versions, damaged, faults>>
  BY DEF BeginPrepare, s
<1>6. /\ \A k \in Handles : k # h => snap'[k] = Closed
      /\ snap'[h] = s
  BY <1>1, <1>5 DEF IInv, TypeOK
<1>7. i \notin packs
  BY <1>3 DEF IInv, IdInv, Ids
<1>8. TypeOK'
  <2>1. snap' \in [Handles -> Snapshot \cup {Closed}]
    BY <1>4, <1>5 DEF IInv, TypeOK
  <2>2. place' \in [Ids -> Places]
    BY <1>2, <1>3, <1>5 DEF Places
  <2>3. used' \in 0..MaxSnapshots
    BY <1>3, <1>5 DEF Ids
  <2> QED BY <1>3, <1>5, <2>1, <2>2, <2>3 DEF IInv, TypeOK
<1>9. LeaseInv'
  BY <1>4, <1>5, <1>6, RepositoryAssumption
  DEF RepositoryAssumption, LeaseInv, NoForgottenLease
<1>10. IdInv'
  <2>1. \A k \in Handles : snap'[k] # Closed =>
          snap'[k].id <= used' /\ snap'[k].parent <= Len(versions')
    BY <1>3, <1>4, <1>5, <1>6
  <2>2. \A j \in Ids : j > used' => place'[j] = "none" /\ j \notin packs'
    BY <1>2, <1>3, <1>5 DEF IInv, IdInv, Ids
  <2>3. \A j \in packs' : place'[j] = "packs"
    BY <1>2, <1>5, <1>7 DEF IInv, IdInv, TypeOK
  <2> QED BY <1>5, <2>1, <2>2, <2>3 DEF IInv, IdInv
<1>11. SnapshotProtected'
  BY <1>2, <1>3, <1>4, <1>5, <1>6, <1>7 DEF SnapshotProtected
<1>12. LeftoverInv'
  <2>1. \A j \in Ids : place'[j] = "spool" => j = i
    BY <1>2, <1>5
  <2>2. \A j \in Ids : place'[j] = "packs" => j \in packs'
    BY <1>2, <1>3, <1>5
  <2> QED BY <1>5, <2>1, <2>2 DEF LeftoverInv, InPacks
<1>13. RecordInv'
  BY <1>4, <1>6 DEF RecordInv, Closed
<1>14. VersionsRestorable'
  <2>1. \A j \in packs : place'[j] = "packs"
    BY <1>2, <1>5, <1>7 DEF IInv, IdInv, TypeOK
  <2> QED BY <1>5, <2>1, KeepsVersions DEF IInv
<1> QED BY <1>8, <1>9, <1>10, <1>11, <1>12, <1>13, <1>14 DEF IInv

\* Every base has a row, and one that can be a step away.
LEMMA BasesHaveRows ==
  ASSUME IInv, NEW h \in Handles, snap[h].pc # "closed",
         NEW o \in Bases(snap[h]), o # NoBase
  PROVE  o \in DOMAIN row /\ row[o].depth < MaxDepth
<1>1. PICK b \in Previous(snap[h]) : o \in DeltaBases(b)
  BY DEF Bases, Usable
<1>2. CASE o = b /\ row[b].depth < MaxDepth
  <2>1. Len(versions) \in Nat /\ DOMAIN versions = 1..Len(versions)
    BY DEF IInv, TypeOK
  <2>2. snap[h] \in Snapshot /\ snap[h] # Closed
    BY Held
  <2>3. snap[h].parent \in Nat /\ snap[h].parent <= Len(versions)
    BY <2>2 DEF Snapshot, IInv, IdInv
  <2>4. snap[h].parent \in 1..Len(versions)
    BY <1>1, <2>1, <2>3 DEF Previous
  <2> QED BY <1>1, <1>2, <2>4 DEF Previous, IInv, VersionsRestorable
<1>3. CASE o = Root(b)
  BY <1>3, RepositoryAssumption DEF RepositoryAssumption, Root
<1> QED BY <1>1, <1>2, <1>3 DEF DeltaBases

LEMMA ScanStep ==
  ASSUME IInv, NEW h \in Handles, Scan(h)
  PROVE  IInv'
<1> DEFINE s == snap[h]
           repair == Checked(s) \ Readable
           t == [s EXCEPT !.pc = "ready", !.repair = repair, !.saw = damaged]
<1>1. s.pc = "open"
  BY DEF Scan
<1>2. /\ s \in Snapshot /\ s # Closed /\ lease = h /\ work = {s.id}
      /\ s.id <= used
      /\ \A k \in Handles \ {h} : snap[k] = Closed
  BY <1>1, Held
<1>3. /\ s.id \in Ids /\ s.layout \in Layouts /\ s.layout \subseteq Objects
      /\ place[s.id] = "spool" /\ s.id \notin packs
  BY <1>1, <1>2, RepositoryAssumption
  DEF RepositoryAssumption, Snapshot, IInv, SnapshotProtected
<1>4. PICK against \in [Fresh(s) \cap Chunks -> Bases(s) \cup {NoBase}] :
        record' = [record EXCEPT ![s.id] =
                     [o \in Fresh(s) \cup repair |->
                        CASE o \in repair -> RepairRecord(o)
                          [] o \in DOMAIN against /\ against[o] # NoBase ->
                               [depth |-> row[against[o]].depth + 1,
                                base |-> against[o]]
                          [] OTHER -> Full]]
  BY DEF Scan
<1>5. /\ snap' = [snap EXCEPT ![h] = t]
      /\ UNCHANGED <<lease, long, place, work, packs, row, versions, damaged, used,
                     faults>>
  BY DEF Scan
<1>6. repair \subseteq s.layout \cap DOMAIN row
  BY DEF Checked
<1>7. /\ t \in Snapshot /\ t # Closed /\ t.pc = "ready"
      /\ t.id = s.id /\ t.layout = s.layout /\ t.parent = s.parent
      /\ t.repair = repair
  BY <1>2, <1>3, <1>6 DEF Snapshot, Closed, IInv, TypeOK
<1> DEFINE new == record'[s.id]
<1>8. /\ new = [o \in Fresh(s) \cup repair |->
                CASE o \in repair -> RepairRecord(o)
                  [] o \in DOMAIN against /\ against[o] # NoBase ->
                       [depth |-> row[against[o]].depth + 1, base |-> against[o]]
                  [] OTHER -> Full]
      /\ DOMAIN new = Fresh(s) \cup repair /\ DOMAIN new \subseteq Objects
  BY <1>3, <1>4, <1>6 DEF IInv, TypeOK, Fresh
<1>9. \A o \in DOMAIN new :
        \/ new[o] = Full
        \/ /\ o \notin repair
           /\ new[o] \in Record
           /\ new[o].base \in DOMAIN row
           /\ row[new[o].base].depth < new[o].depth
  <2> SUFFICES ASSUME NEW o \in DOMAIN new, new[o] # Full
               PROVE  /\ o \notin repair
                      /\ new[o] \in Record
                      /\ new[o].base \in DOMAIN row
                      /\ row[new[o].base].depth < new[o].depth
    OBVIOUS
  <2>1. /\ o \notin repair
        /\ o \in DOMAIN against /\ against[o] # NoBase
        /\ new[o] = [depth |-> row[against[o]].depth + 1, base |-> against[o]]
    <3>1. CASE o \in repair
      <4>1. o \notin DOMAIN against
        BY <1>6, <3>1 DEF Fresh
      <4> HIDE DEF repair, new
      <4> QED BY <1>8, <3>1, <4>1 DEF RepairRecord
    <3>2. CASE o \notin repair /\ ~(o \in DOMAIN against /\ against[o] # NoBase)
      BY <1>8, <3>2
    <3>3. CASE o \notin repair /\ o \in DOMAIN against /\ against[o] # NoBase
      <4> HIDE DEF repair, new
      <4> QED BY <1>8, <3>3
    <3> QED BY <3>1, <3>2, <3>3
  <2>2. against[o] \in Bases(s)
    BY <2>1
  <2>3. against[o] \in DOMAIN row /\ row[against[o]].depth < MaxDepth
    BY <1>1, <2>1, <2>2, BasesHaveRows
  <2>4. row[against[o]].depth \in 0..MaxDepth /\ against[o] \in Objects
    BY <2>3 DEF IInv, TypeOK, IsIndex, Row
  <2>5. row[against[o]].depth + 1 \in 0..MaxDepth
    BY <2>3, <2>4, RepositoryAssumption DEF RepositoryAssumption
  <2> QED BY <2>1, <2>3, <2>4, <2>5 DEF Record
<1>10. \A i \in Ids : i # s.id => record'[i] = record[i]
  BY <1>4 DEF IInv, TypeOK
<1> HIDE DEF new, repair, t
<1>11. TypeOK'
  <2>1. snap' \in [Handles -> Snapshot \cup {Closed}]
    BY <1>5, <1>7 DEF IInv, TypeOK
  <2>2. DOMAIN record' = Ids
    BY <1>4 DEF IInv, TypeOK
  <2>3. IsIndex(record'[s.id], Record)
    <3>1. Full \in Record
      BY RepositoryAssumption DEF RepositoryAssumption, Full, Record
    <3>2. \A o \in DOMAIN new : new[o] \in Record
      BY <1>9, <3>1
    <3>3. new = [o \in DOMAIN new |-> new[o]]
      BY <1>8
    <3>4. new \in [DOMAIN new -> Record]
      BY <3>2, <3>3
    <3> QED BY <1>8, <3>4 DEF IsIndex, new
  <2>4. \A i \in Ids : IsIndex(record'[i], Record)
    BY <1>10, <2>3 DEF IInv, TypeOK
  <2> QED BY <1>5, <2>1, <2>2, <2>4 DEF IInv, TypeOK
<1>12. LeaseInv'
  BY <1>2, <1>5, <1>7 DEF LeaseInv, NoForgottenLease, IInv, TypeOK
<1>13. /\ \A k \in Handles : k # h => snap'[k] = Closed
       /\ snap'[h] = t
  BY <1>2, <1>5 DEF IInv, TypeOK
<1>14. IdInv'
  <2>1. \A k \in Handles : snap'[k] # Closed =>
          snap'[k].id <= used' /\ snap'[k].parent <= Len(versions')
    BY <1>2, <1>5, <1>7, <1>13 DEF IInv, IdInv
  <2> QED BY <1>5, <2>1 DEF IInv, IdInv
<1>15. SnapshotProtected'
  BY <1>2, <1>3, <1>5, <1>7, <1>13 DEF SnapshotProtected
<1>16. LeftoverInv'
  <2>1. InPacks \subseteq packs
    BY <1>1 DEF IInv, LeftoverInv
  <2> QED BY <1>5, <2>1 DEF IInv, LeftoverInv, InPacks
<1>17. RecordInv'
  <2>1. record'[t.id] = new
    BY <1>7 DEF new
  <2>2. t.layout \subseteq DOMAIN row' \cup DOMAIN record'[t.id]
    BY <1>5, <1>7, <1>8, <2>1 DEF Fresh
  <2>3. \A o \in DOMAIN record'[t.id] :
          \/ record'[t.id][o] = Full
          \/ /\ o \notin t.repair
             /\ record'[t.id][o].base \in DOMAIN row'
             /\ row'[record'[t.id][o].base].depth < record'[t.id][o].depth
    BY <1>5, <1>7, <1>9, <2>1
  <2>4. Complete(snap[h])'
    BY <1>13, <2>2, <2>3 DEF Complete
  <2> QED BY <1>13, <2>4 DEF RecordInv, Closed
<1>18. VersionsRestorable'
  <2>1. \A i \in packs : i \in Ids /\ i # s.id
    BY <1>3 DEF IInv, TypeOK
  <2> QED BY <1>5, <1>10, <2>1, KeepsVersions DEF IInv, IdInv
<1> QED BY <1>11, <1>12, <1>14, <1>15, <1>16, <1>17, <1>18 DEF IInv

LEMMA RescueStep ==
  ASSUME IInv, NEW h \in Handles, Rescue(h)
  PROVE  IInv'
<1> DEFINE s == snap[h]
           i == used + 1
           t == NewSnapshot(i, s.layout, s.parent, TRUE)
<1>1. s.pc = "open"
  BY DEF Rescue
<1>2. /\ s \in Snapshot /\ s # Closed /\ lease = h /\ work = {s.id}
      /\ s.id <= used
      /\ \A k \in Handles \ {h} : snap[k] = Closed
  BY <1>1, Held
<1>3. /\ i \in Ids /\ used \in Nat /\ s.id \in Ids
      /\ s.layout \in Layouts /\ s.parent \in Nat /\ s.parent <= Len(versions)
  BY <1>2, RepositoryAssumption
  DEF RepositoryAssumption, Rescue, Ids, IInv, TypeOK, IdInv, Snapshot
<1>4. /\ t \in Snapshot /\ t # Closed /\ t.pc = "open" /\ t.id = i
      /\ t.parent = s.parent
  <2> HIDE DEF s, i
  <2> QED BY <1>3, NewSnapshotType
<1> HIDE DEF t
<1>5. /\ used' = i /\ work' = (work \ {s.id}) \cup {i}
      /\ snap' = [snap EXCEPT ![h] = t]
      /\ place' = [place EXCEPT ![s.id] = "none", ![i] = "spool"]
      /\ UNCHANGED <<lease, long, record, packs, row, versions, damaged, faults>>
  BY DEF Rescue, t
<1>6. /\ \A k \in Handles : k # h => snap'[k] = Closed
      /\ snap'[h] = t
  BY <1>2, <1>5 DEF IInv, TypeOK
<1>7. /\ work' = {i} /\ i # s.id
      /\ place'[i] = "spool" /\ place'[s.id] = "none"
      /\ \A j \in Ids : j # i /\ j # s.id => place'[j] = place[j]
  BY <1>2, <1>3, <1>5 DEF IInv, TypeOK
<1>8. i \notin packs /\ s.id \notin packs /\ place[s.id] = "spool"
  BY <1>1, <1>2, <1>3 DEF IInv, IdInv, SnapshotProtected
<1>9. TypeOK'
  <2>1. snap' \in [Handles -> Snapshot \cup {Closed}]
    BY <1>4, <1>5 DEF IInv, TypeOK
  <2>2. place' \in [Ids -> Places]
    BY <1>3, <1>5 DEF IInv, TypeOK, Places
  <2>3. used' \in 0..MaxSnapshots
    BY <1>3, <1>5 DEF Ids
  <2> QED BY <1>3, <1>5, <1>7, <2>1, <2>2, <2>3 DEF IInv, TypeOK
<1>10. LeaseInv'
  BY <1>2, <1>4, <1>5, <1>6 DEF LeaseInv, NoForgottenLease, IInv
<1>11. IdInv'
  <2>1. \A k \in Handles : snap'[k] # Closed =>
          snap'[k].id <= used' /\ snap'[k].parent <= Len(versions')
    BY <1>3, <1>4, <1>5, <1>6
  <2>2. \A j \in Ids : j > used' => place'[j] = "none" /\ j \notin packs'
    <3> SUFFICES ASSUME NEW j \in Ids, j > i
                 PROVE  place'[j] = "none" /\ j \notin packs
      BY <1>5
    <3>1. j > used /\ j # i /\ j # s.id
      BY <1>2, <1>3 DEF Ids
    <3> QED BY <1>7, <3>1 DEF IInv, IdInv
  <2>3. \A j \in packs' : place'[j] = "packs"
    BY <1>5, <1>7, <1>8 DEF IInv, IdInv, TypeOK
  <2> QED BY <1>5, <2>1, <2>2, <2>3 DEF IInv, IdInv
<1>12. SnapshotProtected'
  BY <1>2, <1>4, <1>5, <1>6, <1>7, <1>8 DEF SnapshotProtected
<1>13. LeftoverInv'
  <2>1. \A j \in Ids : place'[j] = "spool" => j = i
    BY <1>3, <1>7, <1>8 DEF IInv, LeftoverInv
  <2>2. \A j \in Ids : place'[j] = "packs" => j \in packs'
    BY <1>1, <1>3, <1>5, <1>7 DEF IInv, LeftoverInv, InPacks
  <2> QED BY <1>7, <2>1, <2>2 DEF LeftoverInv, InPacks
<1>14. RecordInv'
  BY <1>4, <1>6 DEF RecordInv, Closed
<1>15. VersionsRestorable'
  <2>1. \A j \in packs : place'[j] = "packs"
    BY <1>7, <1>8 DEF IInv, IdInv, TypeOK
  <2> QED BY <1>5, <2>1, KeepsVersions DEF IInv
<1> QED BY <1>9, <1>10, <1>11, <1>12, <1>13, <1>14, <1>15 DEF IInv

\* The ends of a snapshot: nothing is added to the files, and what is removed
\* is not a pack.
LEMMA EndsSnapshot ==
  ASSUME IInv, NEW h \in Handles, snap[h].pc # "closed",
         snap' = [snap EXCEPT ![h] = Closed],
         \/ ReleaseTransient
         \/ lease' = NoHandle /\ long' = FALSE,
         work' \in SUBSET work,
         \/ place' = place
         \/ /\ snap[h].pc \in {"open", "ready"}
            /\ place' = [place EXCEPT ![snap[h].id] = "none"],
         UNCHANGED <<record, packs, row, versions, damaged, used>>,
         faults' \in 0..MaxFaults
  PROVE  IInv'
<1>1. /\ snap[h] \in Snapshot /\ snap[h] # Closed /\ lease = h
      /\ \A k \in Handles \ {h} : snap[k] = Closed
  BY Held
<1>2. \A k \in Handles : snap'[k] = Closed
  BY <1>1 DEF IInv, TypeOK
<1>3. lease' \in Handles \cup {NoHandle} /\ long' \in BOOLEAN /\ (~long' => lease' = NoHandle)
  BY DEF ReleaseTransient, IInv, TypeOK
<1>4. long' => lease' # NoHandle
  BY <1>1, RepositoryAssumption
  DEF RepositoryAssumption, ReleaseTransient
<1>5. snap[h].id \in Ids
  BY <1>1 DEF Snapshot
<1>6. /\ \A i \in Ids : place'[i] = place[i] \/ (place'[i] = "none" /\ place[i] = "spool")
      /\ place' \in [Ids -> Places]
  BY <1>1, <1>5 DEF IInv, TypeOK, SnapshotProtected, Places
<1>7. TypeOK'
  BY <1>2, <1>3, <1>6 DEF IInv, TypeOK
<1>8. LeaseInv'
  BY <1>3, <1>4 DEF LeaseInv, NoForgottenLease
<1>9. IdInv'
  BY <1>2, <1>6 DEF IInv, IdInv, TypeOK
<1>10. SnapshotProtected'
  BY <1>2 DEF SnapshotProtected
<1>11. LeftoverInv'
  BY <1>2, <1>6 DEF IInv, LeftoverInv, InPacks, Closed
<1>12. RecordInv'
  BY <1>2 DEF RecordInv, Closed
<1>13. VersionsRestorable'
  <2>1. \A i \in packs : place'[i] = "packs"
    BY <1>6 DEF IInv, IdInv, TypeOK
  <2> QED BY <2>1, KeepsVersions DEF IInv
<1> QED BY <1>7, <1>8, <1>9, <1>10, <1>11, <1>12, <1>13 DEF IInv

LEMMA DropStep ==
  ASSUME IInv, NEW h \in Handles, Drop(h)
  PROVE  IInv'
<1>1. faults' \in 0..MaxFaults
  BY DEF Drop, IInv, TypeOK
<1> QED BY <1>1, EndsSnapshot DEF Drop

---------------------------------------------------------------------------
(* commit().                                                               *)

LEMMA PublishStep ==
  ASSUME IInv, NEW h \in Handles, Publish(h)
  PROVE  IInv'
<1> DEFINE s == snap[h]
           t == [s EXCEPT !.pc = "moved"]
<1>1. s.pc = "ready"
  BY DEF Publish
<1>2. /\ s \in Snapshot /\ s # Closed /\ lease = h /\ work = {s.id}
      /\ \A k \in Handles \ {h} : snap[k] = Closed
  BY <1>1, Held
<1>3. s.id \in Ids /\ s.id \notin packs /\ place[s.id] = "spool"
  BY <1>1, <1>2 DEF Snapshot, IInv, SnapshotProtected
<1>4. /\ t \in Snapshot /\ t # Closed /\ t.pc = "moved"
      /\ t.id = s.id /\ t.layout = s.layout /\ t.parent = s.parent
      /\ t.repair = s.repair
  BY <1>2 DEF Snapshot, Closed
<1>5. /\ snap' = [snap EXCEPT ![h] = t]
      /\ place' = [place EXCEPT ![s.id] = IF DOMAIN record[s.id] = {} THEN "none"
                                          ELSE "packs"]
      /\ UNCHANGED <<lease, long, record, work, packs, row, versions, damaged, used,
                     faults>>
  BY DEF Publish
<1>6. /\ \A k \in Handles : k # h => snap'[k] = Closed
      /\ snap'[h] = t
  BY <1>2, <1>5 DEF IInv, TypeOK
<1>7. /\ \A j \in Ids : j # s.id => place'[j] = place[j]
      /\ place'[s.id] = IF DOMAIN record[s.id] = {} THEN "none" ELSE "packs"
  BY <1>3, <1>5 DEF IInv, TypeOK
<1> HIDE DEF t
<1>8. TypeOK'
  <2>1. snap' \in [Handles -> Snapshot \cup {Closed}]
    BY <1>4, <1>5 DEF IInv, TypeOK
  <2>2. place' \in [Ids -> Places]
    BY <1>3, <1>5 DEF IInv, TypeOK, Places
  <2> QED BY <1>5, <2>1, <2>2 DEF IInv, TypeOK
<1>9. LeaseInv'
  BY <1>2, <1>4, <1>5, <1>6 DEF LeaseInv, NoForgottenLease, IInv
<1>10. IdInv'
  <2>1. \A k \in Handles : snap'[k] # Closed =>
          snap'[k].id <= used' /\ snap'[k].parent <= Len(versions')
    BY <1>2, <1>4, <1>5, <1>6 DEF IInv, IdInv
  <2>2. \A j \in Ids : j > used' => place'[j] = "none" /\ j \notin packs'
    BY <1>3, <1>5, <1>7 DEF IInv, IdInv
  <2>3. \A j \in packs' : place'[j] = "packs"
    BY <1>3, <1>5, <1>7 DEF IInv, IdInv, TypeOK
  <2> QED BY <1>5, <2>1, <2>2, <2>3 DEF IInv, IdInv
<1>11. SnapshotProtected'
  BY <1>2, <1>3, <1>4, <1>5, <1>6, <1>7 DEF SnapshotProtected
<1>12. LeftoverInv'
  <2>1. \A j \in Ids : place'[j] # "spool"
    BY <1>3, <1>7 DEF IInv, LeftoverInv
  <2>2. \A j \in Ids : place'[j] = "packs" /\ j \notin packs' => j = s.id
    BY <1>1, <1>5, <1>7 DEF IInv, LeftoverInv, InPacks
  <2> QED BY <1>4, <1>5, <1>6, <2>1, <2>2 DEF IInv, LeftoverInv, InPacks, Closed
<1>13. RecordInv'
  <2>1. Complete(snap[h])'
    BY <1>1, <1>4, <1>5, <1>6 DEF IInv, RecordInv, Complete
  <2> QED BY <1>6, <2>1 DEF RecordInv, Closed
<1>14. VersionsRestorable'
  <2>1. \A j \in packs : place'[j] = "packs"
    BY <1>3, <1>7 DEF IInv, IdInv, TypeOK
  <2> QED BY <1>5, <2>1, KeepsVersions DEF IInv
<1> QED BY <1>8, <1>9, <1>10, <1>11, <1>12, <1>13, <1>14 DEF IInv

\* Indexing a complete snapshot: the rows of the new index.
LEMMA IndexedRows ==
  ASSUME IInv, NEW h \in Handles, snap[h].pc = "moved"
  PROVE  /\ IsIndex(Indexed(snap[h]), Row)
         /\ DOMAIN Indexed(snap[h]) = DOMAIN row \cup DOMAIN record[snap[h].id]
         /\ \A o \in DOMAIN Indexed(snap[h]) :
              \/ /\ o \in DOMAIN row
                 /\ Indexed(snap[h])[o] = row[o]
              \/ /\ o \in DOMAIN record[snap[h].id]
                 /\ o \in snap[h].repair \/ o \notin DOMAIN row
                 /\ Indexed(snap[h])[o] =
                      [pack |-> snap[h].id, depth |-> record[snap[h].id][o].depth,
                       base |-> record[snap[h].id][o].base]
<1> DEFINE s == snap[h]
           new == record[s.id]
           index == Indexed(s)
<1>1. s.id \in Ids
  BY Held DEF Snapshot
<1>2. IsIndex(new, Record) /\ IsIndex(row, Row)
  BY <1>1 DEF IInv, TypeOK
<1>3. index = [o \in DOMAIN row \cup DOMAIN new |->
                 IF o \in DOMAIN new /\ (o \in s.repair \/ o \notin DOMAIN row)
                 THEN [pack |-> s.id, depth |-> new[o].depth, base |-> new[o].base]
                 ELSE row[o]]
  BY DEF Indexed
<1> HIDE DEF index, new, s
<1>4. \A o \in DOMAIN new : new[o] \in Record
  BY <1>2 DEF IsIndex
<1>5. \A o \in DOMAIN row : row[o] \in Row
  BY <1>2 DEF IsIndex
<1>6. \A o \in DOMAIN new :
        [pack |-> s.id, depth |-> new[o].depth, base |-> new[o].base] \in Row
  BY <1>1, <1>4 DEF Record, Row
<1>7. index \in [DOMAIN row \cup DOMAIN new -> Row]
  BY <1>3, <1>5, <1>6
<1>8. DOMAIN index = DOMAIN row \cup DOMAIN new
  BY <1>3
<1>9. IsIndex(index, Row)
  BY <1>2, <1>7, <1>8 DEF IsIndex
<1>10. ASSUME NEW o \in DOMAIN index
       PROVE  \/ o \in DOMAIN row /\ index[o] = row[o]
              \/ /\ o \in DOMAIN new
                 /\ o \in s.repair \/ o \notin DOMAIN row
                 /\ index[o] = [pack |-> s.id, depth |-> new[o].depth,
                                base |-> new[o].base]
  BY <1>3, <1>8
<1> QED BY <1>8, <1>9, <1>10 DEF index, new, s

LEMMA CommitRowsStep ==
  ASSUME IInv, NEW h \in Handles, CommitRows(h)
  PROVE  IInv'
<1> DEFINE s == snap[h]
           new == record[s.id]
           t == [s EXCEPT !.pc = "committed"]
           version == [id |-> s.id, layout |-> s.layout]
           Inserted(o) == /\ o \in DOMAIN new
                          /\ o \in s.repair \/ o \notin DOMAIN row
                          /\ row'[o] = [pack |-> s.id, depth |-> new[o].depth,
                                        base |-> new[o].base]
<1>1. s.pc = "moved"
  BY DEF CommitRows
<1>2. /\ s \in Snapshot /\ s # Closed /\ lease = h /\ work = {s.id}
      /\ s.id <= used
      /\ \A k \in Handles \ {h} : snap[k] = Closed
  BY <1>1, Held
<1>3. /\ s.id \in Ids /\ s.id \notin packs /\ s.layout \in Layouts
      /\ DOMAIN new # {} => place[s.id] = "packs"
      /\ Complete(s)
  BY <1>1, <1>2 DEF Snapshot, IInv, SnapshotProtected, RecordInv
<1>4. /\ t \in Snapshot /\ t # Closed /\ t.pc = "committed"
      /\ t.id = s.id /\ t.layout = s.layout /\ t.parent = s.parent
  BY <1>2 DEF Snapshot, Closed
<1>5. /\ snap' = [snap EXCEPT ![h] = t]
      /\ row' = Indexed(s)
      /\ packs' = packs \cup {i \in {s.id} : DOMAIN record[i] # {}}
      /\ versions' = Append(versions, version)
      /\ UNCHANGED <<lease, long, place, record, work, damaged, used, faults>>
  BY DEF CommitRows
<1>6. /\ \A k \in Handles : k # h => snap'[k] = Closed
      /\ snap'[h] = t
  BY <1>2, <1>5 DEF IInv, TypeOK
<1>7. /\ IsIndex(row', Row)
      /\ DOMAIN row' = DOMAIN row \cup DOMAIN new
      /\ \A o \in DOMAIN row' : (o \in DOMAIN row /\ row'[o] = row[o]) \/ Inserted(o)
  BY <1>1, <1>5, IndexedRows
<1>8. /\ versions' \in Seq(Checkpoint) /\ Len(versions') = Len(versions) + 1
      /\ versions'[Len(versions')] = version
      /\ \A v \in 1..Len(versions) : versions'[v] = versions[v]
      /\ Len(versions) \in Nat
  <2>1. version \in Checkpoint
    BY <1>3 DEF Checkpoint
  <2> HIDE DEF version
  <2> QED BY <1>5, <2>1 DEF IInv, TypeOK
<1>9. packs' \subseteq packs \cup {s.id} /\ (DOMAIN new # {} => s.id \in packs')
      /\ packs \subseteq packs' /\ \A i \in packs' : place'[i] = "packs"
  BY <1>3, <1>5 DEF IInv, IdInv
<1> HIDE DEF t, new, version
<1>10. \A p \in DOMAIN row : p \in DOMAIN row' /\ row'[p].depth <= row[p].depth
  <2> SUFFICES ASSUME NEW p \in DOMAIN row PROVE row'[p].depth <= row[p].depth
    BY <1>7
  <2>1. row[p].depth \in 0..MaxDepth
    BY DEF IInv, TypeOK, IsIndex, Row
  <2>2. CASE row'[p] = row[p]
    BY <2>1, <2>2, RepositoryAssumption DEF RepositoryAssumption
  <2>3. CASE Inserted(p)
    <3>1. new[p] = Full
      BY <1>3, <2>3 DEF Complete, new
    <3>2. row'[p].depth = 0
      BY <2>3, <3>1 DEF Full
    <3> QED BY <2>1, <3>2
  <2> QED BY <1>7, <2>2, <2>3
<1>11. TypeOK'
  <2>1. snap' \in [Handles -> Snapshot \cup {Closed}]
    BY <1>4, <1>5 DEF IInv, TypeOK
  <2>2. packs' \subseteq Ids
    BY <1>3, <1>5 DEF IInv, TypeOK
  <2> QED BY <1>5, <1>7, <1>8, <2>1, <2>2 DEF IInv, TypeOK
<1>12. LeaseInv'
  BY <1>2, <1>4, <1>5, <1>6 DEF LeaseInv, NoForgottenLease, IInv
<1>13. IdInv'
  <2>1. s.parent \in Nat /\ s.parent <= Len(versions)
    BY <1>2 DEF Snapshot, IInv, IdInv
  <2>2. \A k \in Handles : snap'[k] # Closed =>
          snap'[k].id <= used' /\ snap'[k].parent <= Len(versions')
    BY <1>2, <1>4, <1>5, <1>6, <1>8, <2>1
  <2>3. \A j \in Ids : j > used' => place'[j] = "none" /\ j \notin packs'
    <3> SUFFICES ASSUME NEW j \in Ids, j > used
                 PROVE  place[j] = "none" /\ j \notin packs'
      BY <1>5
    <3>1. j # s.id
      BY <1>2, <1>3 DEF Ids, IInv, TypeOK
    <3> QED BY <1>9, <3>1 DEF IInv, IdInv
  <2>4. \A o \in DOMAIN row' : row'[o].pack \in packs'
    <3> SUFFICES ASSUME NEW o \in DOMAIN row' PROVE row'[o].pack \in packs'
      OBVIOUS
    <3>1. CASE o \in DOMAIN row /\ row'[o] = row[o]
      BY <1>9, <3>1 DEF IInv, IdInv
    <3>2. CASE Inserted(o)
      <4>1. DOMAIN new # {}
        BY <3>2
      <4>2. row'[o].pack = s.id
        BY <3>2
      <4> QED BY <1>9, <4>1, <4>2
    <3> QED BY <1>7, <3>1, <3>2
  <2> QED BY <1>9, <2>2, <2>3, <2>4 DEF IdInv
<1>14. SnapshotProtected'
  BY <1>2, <1>3, <1>4, <1>5, <1>6 DEF SnapshotProtected, new
<1>15. LeftoverInv'
  BY <1>4, <1>5, <1>6, <1>9 DEF IInv, LeftoverInv, InPacks, Closed
<1>16. RecordInv'
  BY <1>4, <1>6 DEF RecordInv, Closed
<1>17. VersionsRestorable'
  <2>1. ASSUME NEW v \in 1..Len(versions')
        PROVE  versions'[v].layout \subseteq DOMAIN row'
    <3>1. CASE v \in 1..Len(versions)
      BY <1>7, <1>8, <3>1 DEF IInv, VersionsRestorable
    <3>2. CASE v = Len(versions')
      BY <1>3, <1>7, <1>8, <3>2 DEF Complete, new, version
    <3> QED BY <1>8, <3>1, <3>2
  <2>2. ASSUME NEW o \in DOMAIN row'
        PROVE  /\ place'[row'[o].pack] = "packs"
               /\ o \in DOMAIN record'[row'[o].pack]
               /\ record'[row'[o].pack][o] =
                    [depth |-> row'[o].depth, base |-> row'[o].base]
               /\ \/ row'[o].depth = 0 /\ row'[o].base = NoBase
                  \/ /\ row'[o].base \in DOMAIN row'
                     /\ row'[row'[o].base].depth < row'[o].depth
    <3>1. CASE o \in DOMAIN row /\ row'[o] = row[o]
      <4>1. /\ place[row[o].pack] = "packs"
            /\ o \in DOMAIN record[row[o].pack]
            /\ record[row[o].pack][o] = [depth |-> row[o].depth, base |-> row[o].base]
            /\ \/ row[o].depth = 0 /\ row[o].base = NoBase
               \/ /\ row[o].base \in DOMAIN row
                  /\ row[row[o].base].depth < row[o].depth
        BY <3>1 DEF IInv, VersionsRestorable
      <4>2. CASE row[o].base \in DOMAIN row /\ row[row[o].base].depth < row[o].depth
        <5>1. /\ row[o].base \in DOMAIN row'
              /\ row'[row[o].base].depth <= row[row[o].base].depth
          BY <1>10, <4>2
        <5>2. /\ row'[row[o].base] \in Row /\ row[row[o].base] \in Row /\ row[o] \in Row
          BY <1>7, <3>1, <4>2, <5>1 DEF IInv, TypeOK, IsIndex
        <5>3. /\ row'[row[o].base].depth \in Int
              /\ row[row[o].base].depth \in Int /\ row[o].depth \in Int
          BY <5>2 DEF Row
        <5> QED BY <1>5, <3>1, <4>1, <4>2, <5>1, <5>3
      <4> QED BY <1>5, <3>1, <4>1, <4>2
    <3>2. CASE Inserted(o)
      <4>1. new[o] \in Record
        BY <1>3, <3>2 DEF new, IInv, TypeOK, IsIndex
      <4>2. new[o] = [depth |-> new[o].depth, base |-> new[o].base]
        BY <4>1 DEF Record
      <4>3. \/ new[o].depth = 0 /\ new[o].base = NoBase
            \/ /\ new[o].base \in DOMAIN row'
               /\ row'[new[o].base].depth < new[o].depth
        <5>1. CASE new[o] = Full
          BY <5>1 DEF Full
        <5>2. CASE /\ new[o].base \in DOMAIN row
                   /\ row[new[o].base].depth < new[o].depth
          <6>1. /\ new[o].base \in DOMAIN row'
                /\ row'[new[o].base].depth <= row[new[o].base].depth
            BY <1>10, <5>2
          <6>2. row'[new[o].base] \in Row /\ row[new[o].base] \in Row
            BY <1>7, <5>2, <6>1 DEF IInv, TypeOK, IsIndex
          <6>3. /\ row'[new[o].base].depth \in Int /\ new[o].depth \in Int
                /\ row[new[o].base].depth \in Int
            BY <4>1, <6>2 DEF Row, Record
          <6> QED BY <5>2, <6>1, <6>3
        <5> QED BY <1>3, <3>2, <5>1, <5>2 DEF Complete, new
      <4> QED BY <1>3, <1>5, <3>2, <4>2, <4>3 DEF new
    <3> QED BY <1>7, <3>1, <3>2
  <2> QED BY <2>1, <2>2 DEF VersionsRestorable
<1> QED BY <1>11, <1>12, <1>13, <1>14, <1>15, <1>16, <1>17 DEF IInv

LEMMA EndCommitStep ==
  ASSUME IInv, NEW h \in Handles, EndCommit(h)
  PROVE  IInv'
<1>1. faults' \in 0..MaxFaults
  BY DEF EndCommit, IInv, TypeOK
<1> QED BY <1>1, EndsSnapshot DEF EndCommit

LEMMA CommitFailsStep ==
  ASSUME IInv, NEW h \in Handles, CommitFails(h)
  PROVE  IInv'
<1>1. faults' \in 0..MaxFaults
  BY RepositoryAssumption DEF RepositoryAssumption, CommitFails, IInv, TypeOK
<1> QED BY <1>1, EndsSnapshot DEF CommitFails

---------------------------------------------------------------------------
(* Faults.                                                                 *)

LEMMA CrashStep ==
  ASSUME IInv, NEW h \in Handles, Crash(h)
  PROVE  IInv'
<1>1. faults' \in 0..MaxFaults
  BY RepositoryAssumption DEF RepositoryAssumption, Crash, IInv, TypeOK
<1>2. CASE snap[h].pc # "closed"
  BY <1>1, <1>2, EndsSnapshot DEF Crash
<1>3. CASE snap[h].pc = "closed"
  <2>1. snap[h] = Closed
    BY <1>3 DEF IInv, TypeOK, Snapshot
  <2>2. \A k \in Handles : snap[k] = Closed
    BY <2>1, Free DEF Crash
  <2>3. snap' = snap
    BY <2>1 DEF Crash, IInv, TypeOK
  <2>4. TypeOK'
    BY <1>1, <2>3 DEF Crash, IInv, TypeOK
  <2>5. LeaseInv'
    BY DEF Crash, LeaseInv, NoForgottenLease
  <2>6. IdInv'
    BY <2>3 DEF Crash, IInv, IdInv
  <2>7. SnapshotProtected'
    BY <2>2, <2>3 DEF SnapshotProtected
  <2>8. LeftoverInv'
    BY <2>3 DEF Crash, IInv, LeftoverInv, InPacks
  <2>9. RecordInv'
    BY <2>2, <2>3 DEF RecordInv, Closed
  <2>10. VersionsRestorable'
    BY KeepsVersions DEF Crash, IInv, IdInv
  <2> QED BY <2>4, <2>5, <2>6, <2>7, <2>8, <2>9, <2>10 DEF IInv
<1> QED BY <1>2, <1>3

\* Damage and its repair from a backup change nothing else.
LEMMA OnlyDamage ==
  ASSUME IInv, damaged' \subseteq Ids \X Objects,
         UNCHANGED <<lease, long, snap, place, record, work, packs, row, versions, used,
                     faults>>
  PROVE  IInv'
<1>1. TypeOK'
  BY DEF IInv, TypeOK
<1>2. LeaseInv' /\ IdInv' /\ SnapshotProtected'
  BY DEF IInv, LeaseInv, NoForgottenLease, IdInv, SnapshotProtected
<1>3. LeftoverInv' /\ RecordInv' /\ VersionsRestorable'
  BY DEF IInv, LeftoverInv, InPacks, RecordInv, Complete, VersionsRestorable
<1> QED BY <1>1, <1>2, <1>3 DEF IInv

---------------------------------------------------------------------------
(* The theorems.                                                           *)

LEMMA InitIInv == Init => IInv
<1> SUFFICES ASSUME Init PROVE IInv
  OBVIOUS
<1>1. TypeOK
  <2>1. IsIndex(Empty, Record) /\ IsIndex(Empty, Row)
    BY DEF IsIndex, Empty
  <2>2. faults \in 0..MaxFaults /\ used \in 0..MaxSnapshots
    BY RepositoryAssumption DEF RepositoryAssumption, Init
  <2>3. place \in [Ids -> Places] /\ snap \in [Handles -> Snapshot \cup {Closed}]
    BY DEF Init, Places
  <2>4. versions \in Seq(Checkpoint)
    BY DEF Init
  <2> QED BY <2>1, <2>2, <2>3, <2>4 DEF Init, TypeOK
<1>2. LeaseInv /\ SnapshotProtected /\ RecordInv
  BY DEF Init, LeaseInv, NoForgottenLease, SnapshotProtected, RecordInv, Closed
<1>3. IdInv
  BY DEF Init, IdInv, Empty
<1>4. LeftoverInv
  BY DEF Init, LeftoverInv, InPacks, Closed
<1>5. VersionsRestorable
  BY DEF Init, VersionsRestorable, Empty
<1> QED BY <1>1, <1>2, <1>3, <1>4, <1>5 DEF IInv

LEMMA StepIInv == IInv /\ [Next]_vars => IInv'
<1> SUFFICES ASSUME IInv, [Next]_vars PROVE IInv'
  OBVIOUS
<1>1. ASSUME NEW h \in Handles,
             \/ AcquireWriter(h) \/ ReleaseWriter(h)
             \/ \E l \in Layouts : BeginPrepare(h, l)
             \/ Scan(h) \/ Rescue(h) \/ Drop(h)
             \/ Publish(h) \/ CommitRows(h) \/ EndCommit(h) \/ CommitFails(h)
             \/ Crash(h)
      PROVE  IInv'
  BY <1>1, AcquireStep, ReleaseStep, BeginStep, ScanStep, RescueStep, DropStep,
     PublishStep, CommitRowsStep, EndCommitStep, CommitFailsStep, CrashStep
<1>2. ASSUME NEW i \in Ids, NEW o \in Objects, Damage(i, o)
      PROVE  IInv'
  BY <1>2, OnlyDamage DEF Damage, IInv, TypeOK
<1>3. CASE Mend
  BY <1>3, OnlyDamage DEF Mend
<1>4. CASE UNCHANGED vars
  BY <1>4, OnlyDamage DEF vars, IInv, TypeOK
<1> QED BY <1>1, <1>2, <1>3, <1>4 DEF Next

\* The inductive invariant: the lease, the identifiers, the leftovers and what
\* a scan has stored, together with the properties below.
THEOREM Inductive == Spec => []IInv
BY InitIInv, StepIInv, PTL DEF Spec

\* Every variable of the repository has its type; in particular no delta is
\* deeper than MAX_DELTA_DEPTH.
THEOREM TypeCorrect == Spec => []TypeOK
<1>1. IInv => TypeOK
  BY DEF IInv
<1> QED BY <1>1, Inductive, PTL

\* However saves fail or crash: every committed version has all its objects,
\* with rows that agree with packs in place and chains that end.
THEOREM Restorable == Spec => []VersionsRestorable
<1>1. IInv => VersionsRestorable
  BY DEF IInv
<1> QED BY <1>1, Inductive, PTL

\* A prepared snapshot's files are its holder's until it is closed.
THEOREM SnapshotsProtected == Spec => []SnapshotProtected
<1>1. IInv => SnapshotProtected
  BY DEF IInv
<1> QED BY <1>1, Inductive, PTL

\* A lease taken for one snapshot ends with it.
THEOREM LeasesReleased == Spec => []NoForgottenLease
<1>1. IInv => NoForgottenLease
  BY DEF IInv, LeaseInv
<1> QED BY <1>1, Inductive, PTL

\* Lease and snapshot go together (Repository._writer and
\* PreparedSnapshot._release, engine.py:125-131).
THEOREM LeasesWithSnapshots == Spec => []LeaseWithSnapshot
<1>1. SnapshotProtected /\ NoForgottenLease => LeaseWithSnapshot
  BY DEF LeaseWithSnapshot
<1>2. QED
  BY <1>1, SnapshotsProtected, LeasesReleased, PTL

\* A set without two different elements has at most one.
LEMMA AtMostOne ==
  ASSUME NEW S, \A x, y \in S : x = y
  PROVE  Cardinality(S) <= 1
<1>1. CASE S = {}
  BY <1>1, FS_EmptySet
<1>2. CASE S # {}
  <2>1. PICK x \in S : S = {x}
    BY <1>2
  <2>2. Cardinality({x}) = 1
    BY FS_Singleton
  <2> QED BY <2>1, <2>2
<1> QED BY <1>1, <1>2

\* Failed and crashed saves do not accumulate files.
THEOREM LeftoversStayBounded == Spec => []LeftoversBounded
<1>1. IInv => LeftoversBounded
  <2> SUFFICES ASSUME IInv PROVE LeftoversBounded
    OBVIOUS
  <2> DEFINE loose == {i \in InPacks : i \notin packs}
             spooled == {i \in Ids : place[i] = "spool"}
  <2>1. /\ \A i, j \in loose : i = j
        /\ \A i, j \in spooled : i = j
        /\ \A i, j \in work : i = j
    BY DEF IInv, LeftoverInv
  <2> HIDE DEF loose, spooled
  <2>2. Cardinality(loose) <= 1 /\ Cardinality(spooled) <= 1 /\ Cardinality(work) <= 1
    BY <2>1, AtMostOne
  <2> QED BY <2>2 DEF LeftoversBounded, loose, spooled
<1> QED BY <1>1, Inductive, PTL

\* Both together: neither a lease nor, but for one, files outlive a snapshot.
THEOREM NothingStaysBehind == Spec => []NothingLeftOver
<1>1. LeaseWithSnapshot /\ LeftoversBounded => NothingLeftOver
  BY DEF NothingLeftOver
<1>2. QED
  BY <1>1, LeasesWithSnapshots, LeftoversStayBounded, PTL

---------------------------------------------------------------------------
(* What can be read.  Reads is a recursive function of the depth; it has   *)
(* its equation, and so is a fixed point that goes along the chains.  The  *)
(* records are a parameter here, to speak of them before and after a step. *)

Whole(records, index, there, bad, o) ==
  /\ index[o].pack \in there
  /\ <<index[o].pack, o>> \notin bad
  /\ o \in DOMAIN records[index[o].pack]
  /\ records[index[o].pack][o] = [depth |-> index[o].depth, base |-> index[o].base]

\* One level of Reads.
Level(records, index, there, bad, f, d) ==
  LET below == IF d = 0 THEN {} ELSE f[d - 1]
  IN below \cup {o \in DOMAIN index : /\ index[o].depth = d
                                      /\ Whole(records, index, there, bad, o)
                                      /\ IF d = 0 THEN index[o].base = NoBase
                                         ELSE index[o].base \in below}

IsLevels(records, index, there, bad, f) ==
  f = [d \in 0..MaxDepth |-> Level(records, index, there, bad, f, d)]

ReadsOf(records, index, there, bad) ==
  (CHOOSE f : IsLevels(records, index, there, bad, f))[MaxDepth]

LEMMA ReadsIsReadsOf ==
  ASSUME NEW index, NEW there, NEW bad
  PROVE  Reads(index, there, bad) = ReadsOf(record, index, there, bad)
BY DEF Reads, ReadsOf, IsLevels, Level, Whole

LEMMA ReadableOf ==
  /\ Readable = ReadsOf(record, row, InPacks, damaged)
  /\ Readable' = ReadsOf(record', row', InPacks', damaged')
<1>1. Readable = ReadsOf(record, row, InPacks, damaged)
  BY DEF Readable, Reads, ReadsOf, IsLevels, Level, Whole
<1>2. Readable' = ReadsOf(record', row', InPacks', damaged')
  BY DEF Readable, Reads, ReadsOf, IsLevels, Level, Whole
<1> QED BY <1>1, <1>2

\* A set of numbers that is not empty has a least element.
LEMMA LeastNumber ==
  ASSUME NEW S \in SUBSET Nat, S # {}
  PROVE  \E m \in S : \A n \in S : m <= n
<1>1. \E m \in S : \A n \in S : ~(<<n, m>> \in OpToRel(<, Nat))
  BY WFMin, NatLessThanWellFounded
<1>2. PICK m \in S : \A n \in S : ~(n < m)
  BY <1>1 DEF OpToRel
<1> QED BY <1>2

\* The recursion has a solution.
LEMMA LevelFunction ==
  ASSUME NEW records, NEW index, NEW there, NEW bad
  PROVE  \E f : IsLevels(records, index, there, bad, f)
<1> DEFINE L(f, d) == Level(records, index, there, bad, f, d)
           Solved(n) == \E f : f = [d \in 0..n |-> L(f, d)]
           Open == {n \in 0..MaxDepth : ~Solved(n)}
<1>0. MaxDepth \in Nat
  BY RepositoryAssumption DEF RepositoryAssumption
<1>1. Solved(0)
  <2> DEFINE g == [d \in 0..0 |-> L(<<>>, 0)]
  <2>1. ASSUME NEW d \in 0..0 PROVE g[d] = L(g, d)
    <3>1. d = 0
      OBVIOUS
    <3>2. L(g, 0) = L(<<>>, 0)
      <4> HIDE DEF g
      <4> QED BY DEF Level
    <3> QED BY <3>1, <3>2
  <2>2. g = [d \in 0..0 |-> L(g, d)]
    <3> HIDE DEF L
    <3> QED BY <2>1
  <2> HIDE DEF g, L
  <2> QED BY <2>2
<1>2. ASSUME NEW n \in 0..MaxDepth, n # MaxDepth, Solved(n)
      PROVE  Solved(n + 1)
  <2>1. PICK f : f = [d \in 0..n |-> L(f, d)]
    BY <1>2
  <2> DEFINE g == [d \in 0..(n + 1) |-> IF d = n + 1 THEN L(f, n + 1) ELSE f[d]]
  <2>2. ASSUME NEW d \in 0..(n + 1)
        PROVE  L(g, d) = L(f, d)
    <3>1. d # 0 => d - 1 \in 0..n /\ g[d - 1] = f[d - 1]
      <4>1. d # 0 => d - 1 \in 0..n /\ d - 1 \in 0..(n + 1) /\ d - 1 # n + 1
        BY <1>0, <1>2
      <4> QED BY <4>1
    <3> HIDE DEF g
    <3> QED BY <3>1 DEF Level
  <2>3. ASSUME NEW d \in 0..(n + 1)
        PROVE  g[d] = L(g, d)
    <3>1. CASE d = n + 1
      <4>1. g[d] = L(f, d)
        BY <3>1
      <4> HIDE DEF L, g
      <4> QED BY <2>2, <4>1
    <3>2. CASE d # n + 1
      <4>1. d \in 0..n
        BY <1>0, <1>2, <3>2
      <4>2. g[d] = f[d]
        BY <3>2
      <4> HIDE DEF L, g
      <4>3. f[d] = L(f, d)
        BY <2>1, <4>1
      <4> QED BY <2>2, <4>2, <4>3
    <3> QED BY <3>1, <3>2
  <2> HIDE DEF L
  <2>4. g = [d \in 0..(n + 1) |-> L(g, d)]
    BY <2>3
  <2> HIDE DEF g
  <2> QED BY <2>4
<1> HIDE DEF Solved
<1>3. Open = {}
  <2> SUFFICES ASSUME Open # {} PROVE FALSE
    OBVIOUS
  <2>1. PICK m \in Open : \A n \in Open : m <= n
    <3>1. Open \in SUBSET Nat
      BY <1>0
    <3> HIDE DEF Open
    <3> QED BY <3>1, LeastNumber
  <2>2. m # 0
    BY <1>1, <2>1
  <2>3. m - 1 \in 0..MaxDepth /\ m - 1 # MaxDepth /\ (m - 1) + 1 = m /\ ~(m <= m - 1)
    BY <1>0, <2>1, <2>2
  <2>4. Solved(m - 1)
    BY <2>1, <2>3
  <2>5. Solved((m - 1) + 1)
    BY <1>2, <2>3, <2>4
  <2>6. Solved(m)
    BY <2>3, <2>5
  <2> QED BY <2>1, <2>6
<1>4. Solved(MaxDepth)
  BY <1>0, <1>3
<1> QED BY <1>4 DEF Solved, IsLevels

\* An object can be read if its record is whole, and full or against a base
\* that can be read and is nearer to a full one.
LEMMA ReadsWhat ==
  ASSUME NEW records, NEW index, NEW there, NEW bad,
         \A o \in DOMAIN index : index[o].depth \in 0..MaxDepth
  PROVE  LET R == ReadsOf(records, index, there, bad) IN
         /\ R \subseteq DOMAIN index
         /\ \A o \in DOMAIN index :
              o \in R <=> /\ Whole(records, index, there, bad, o)
                          /\ \/ index[o].depth = 0 /\ index[o].base = NoBase
                             \/ /\ index[o].depth # 0
                                /\ index[o].base \in R
                                /\ index[index[o].base].depth < index[o].depth
<1> DEFINE W(o) == Whole(records, index, there, bad, o)
           f == CHOOSE g : IsLevels(records, index, there, bad, g)
           D(o) == index[o].depth
           R == ReadsOf(records, index, there, bad)
           At(d, o) == o \in f[d] <=> o \in DOMAIN index /\ D(o) <= d /\ o \in f[D(o)]
           Bad == {d \in 0..MaxDepth : ~\A o : At(d, o)}
<1>0. MaxDepth \in Nat
  BY RepositoryAssumption DEF RepositoryAssumption
<1>1. f = [d \in 0..MaxDepth |-> Level(records, index, there, bad, f, d)]
  <2>1. IsLevels(records, index, there, bad, f)
    BY LevelFunction
  <2> QED BY <2>1 DEF IsLevels
<1>2. R = f[MaxDepth]
  BY DEF ReadsOf
<1> HIDE DEF f, R
<1>3. ASSUME NEW d \in 0..MaxDepth
      PROVE  f[d] = Level(records, index, there, bad, f, d)
  BY <1>1
<1>4. ASSUME NEW o
      PROVE  o \in f[0] <=> o \in DOMAIN index /\ D(o) = 0 /\ W(o) /\ index[o].base = NoBase
  <2>1. f[0] = Level(records, index, there, bad, f, 0)
    BY <1>0, <1>3
  <2> QED BY <2>1 DEF Level
<1>5. ASSUME NEW d \in 0..MaxDepth, d # 0, NEW o
      PROVE  o \in f[d] <=> \/ o \in f[d - 1]
                            \/ o \in DOMAIN index /\ D(o) = d /\ W(o) /\ index[o].base \in f[d - 1]
  <2>1. f[d] = Level(records, index, there, bad, f, d)
    BY <1>3
  <2> QED BY <1>5, <2>1 DEF Level
<1>6. \A d \in 0..MaxDepth : \A o : At(d, o)
  <2> SUFFICES ASSUME Bad # {} PROVE FALSE
    OBVIOUS
  <2>1. PICK m \in Bad : \A n \in Bad : m <= n
    <3>1. Bad \in SUBSET Nat
      BY <1>0
    <3> HIDE DEF Bad
    <3> QED BY <3>1, LeastNumber
  <2>2. m \in 0..MaxDepth
    BY <2>1
  <2>3. PICK o : ~At(m, o)
    BY <2>1
  <2>4. o \in DOMAIN index => D(o) \in 0..MaxDepth
    OBVIOUS
  <2>5. m # 0
    <3>1. ASSUME m = 0 PROVE At(0, o)
      <4>1. o \in DOMAIN index => (D(o) <= 0 <=> D(o) = 0)
        BY <2>4
      <4> QED BY <1>4, <4>1
    <3> QED BY <2>3, <3>1
  <2>6. m - 1 \in 0..MaxDepth /\ ~(m <= m - 1)
    BY <1>0, <2>2, <2>5
  <2>7. At(m - 1, o)
    BY <2>1, <2>6
  <2>8. o \in f[m] <=> \/ o \in f[m - 1]
                       \/ o \in DOMAIN index /\ D(o) = m /\ W(o) /\ index[o].base \in f[m - 1]
    BY <1>5, <2>2, <2>5
  <2>9. CASE o \notin DOMAIN index
    BY <2>3, <2>7, <2>8, <2>9
  <2>10. CASE o \in DOMAIN index
    <3>1. D(o) <= m <=> D(o) <= m - 1 \/ D(o) = m
      BY <2>2, <2>4, <2>5, <2>10
    <3>2. D(o) = m => ~(D(o) <= m - 1)
      BY <2>2, <2>6
    <3> QED BY <2>3, <2>7, <2>8, <2>10, <3>1, <3>2
  <2> QED BY <2>9, <2>10
<1>7. \A o : o \in R <=> o \in DOMAIN index /\ o \in f[D(o)]
  BY <1>0, <1>2, <1>6
<1>8. ASSUME NEW o \in DOMAIN index
      PROVE  o \in f[D(o)] <=> /\ W(o)
                               /\ \/ D(o) = 0 /\ index[o].base = NoBase
                                  \/ D(o) # 0 /\ index[o].base \in R /\ D(index[o].base) < D(o)
  <2>1. D(o) \in 0..MaxDepth
    OBVIOUS
  <2>2. CASE D(o) = 0
    BY <1>4, <2>2
  <2>3. CASE D(o) # 0
    <3> DEFINE b == index[o].base
    <3>1. D(o) - 1 \in 0..MaxDepth /\ ~(D(o) <= D(o) - 1)
      BY <1>0, <2>1, <2>3
    <3>2. o \notin f[D(o) - 1]
      BY <1>6, <3>1
    <3>3. b \in f[D(o) - 1] <=> b \in DOMAIN index /\ D(b) <= D(o) - 1 /\ b \in f[D(b)]
      BY <1>6, <3>1
    <3>4. b \in DOMAIN index => (D(b) <= D(o) - 1 <=> D(b) < D(o))
      <4>1. b \in DOMAIN index => D(b) \in 0..MaxDepth
        OBVIOUS
      <4> QED BY <2>1, <4>1
    <3>5. b \in f[D(o) - 1] <=> b \in R /\ D(b) < D(o)
      BY <1>7, <3>3, <3>4
    <3> HIDE DEF b
    <3>6. o \in f[D(o)] <=> W(o) /\ b \in f[D(o) - 1]
      BY <1>5, <2>1, <2>3, <3>2 DEF b
    <3> QED BY <2>3, <3>5, <3>6 DEF b
  <2> QED BY <2>2, <2>3
<1> HIDE DEF W, D
<1>9. R \subseteq DOMAIN index
  BY <1>7
<1>10. \A o \in DOMAIN index :
         o \in R <=> /\ W(o)
                     /\ \/ D(o) = 0 /\ index[o].base = NoBase
                        \/ D(o) # 0 /\ index[o].base \in R /\ D(index[o].base) < D(o)
  BY <1>7, <1>8
<1> QED BY <1>9, <1>10 DEF R, W, D

\* Objects stay readable whose records stay whole, where they are or as full ones.
LEMMA StayReadable ==
  ASSUME NEW records1, NEW index1, NEW there1, NEW bad1,
         NEW records2, NEW index2, NEW there2, NEW bad2,
         \A o \in DOMAIN index1 : index1[o].depth \in 0..MaxDepth,
         \A o \in DOMAIN index2 : index2[o].depth \in 0..MaxDepth,
         \A o \in ReadsOf(records1, index1, there1, bad1) :
           /\ o \in DOMAIN index2
           /\ Whole(records2, index2, there2, bad2, o)
           /\ \/ index2[o].depth = index1[o].depth /\ index2[o].base = index1[o].base
              \/ index2[o].depth = 0 /\ index2[o].base = NoBase
  PROVE  ReadsOf(records1, index1, there1, bad1) \subseteq ReadsOf(records2, index2, there2, bad2)
<1> DEFINE R1 == ReadsOf(records1, index1, there1, bad1)
           R2 == ReadsOf(records2, index2, there2, bad2)
           Lost == {d \in 0..MaxDepth : \E o \in R1 : o \notin R2 /\ index1[o].depth = d}
<1>1. /\ R1 \subseteq DOMAIN index1
      /\ \A o \in DOMAIN index1 :
           o \in R1 => \/ index1[o].depth = 0 /\ index1[o].base = NoBase
                       \/ /\ index1[o].base \in R1
                          /\ index1[index1[o].base].depth < index1[o].depth
  BY ReadsWhat
<1>2. \A o \in DOMAIN index2 :
        o \in R2 <=> /\ Whole(records2, index2, there2, bad2, o)
                     /\ \/ index2[o].depth = 0 /\ index2[o].base = NoBase
                        \/ /\ index2[o].depth # 0
                           /\ index2[o].base \in R2
                           /\ index2[index2[o].base].depth < index2[o].depth
  BY ReadsWhat
<1> HIDE DEF R2
<1>3. Lost = {}
  <2> SUFFICES ASSUME Lost # {} PROVE FALSE
    OBVIOUS
  <2>1. PICK m \in Lost : \A n \in Lost : m <= n
    <3>1. Lost \in SUBSET Nat
      BY RepositoryAssumption DEF RepositoryAssumption
    <3> HIDE DEF Lost
    <3> QED BY <3>1, LeastNumber
  <2>2. PICK o \in R1 : o \notin R2 /\ index1[o].depth = m
    BY <2>1
  <2>3. /\ o \in DOMAIN index2
        /\ Whole(records2, index2, there2, bad2, o)
        /\ \/ index2[o].depth = index1[o].depth /\ index2[o].base = index1[o].base
           \/ index2[o].depth = 0 /\ index2[o].base = NoBase
    BY <2>2
  <2>4. ~(index2[o].depth = 0 /\ index2[o].base = NoBase)
    BY <1>2, <2>2, <2>3
  <2>5. index2[o].depth = index1[o].depth /\ index2[o].base = index1[o].base
    BY <2>3, <2>4
  <2> DEFINE b == index1[o].base
  <2>6. b \in R1 /\ index1[b].depth < index1[o].depth
    BY <1>1, <2>2, <2>4, <2>5
  <2>7. index1[b].depth \in 0..MaxDepth /\ index1[o].depth \in 0..MaxDepth
    BY <1>1, <2>2, <2>6
  <2>8. b \in R2
    <3>1. b \notin R2 => index1[b].depth \in Lost
      BY <2>6, <2>7
    <3>2. ~(m <= index1[b].depth)
      BY <2>2, <2>6, <2>7
    <3> QED BY <2>1, <3>1, <3>2
  <2>9. b \in DOMAIN index2 /\ (index2[b].depth = index1[b].depth \/ index2[b].depth = 0)
    BY <2>6
  <2>10. index2[b].depth < index2[o].depth /\ index2[o].depth # 0
    BY <2>5, <2>6, <2>7, <2>9
  <2> QED BY <1>2, <2>2, <2>3, <2>5, <2>8, <2>10
<1>4. \A o \in R1 : o \in R2
  BY <1>1, <1>3
<1> QED BY <1>4 DEF R2

---------------------------------------------------------------------------
(* What a scan finds out.                                                  *)

\* What is damaged was in a pack, and never in one that is still spooled.
DamageInv ==
  /\ \A x \in damaged : x[1] <= used
  /\ \A h \in Handles : snap[h].pc \in {"open", "ready"} =>
       \A x \in damaged : x[1] # snap[h].id

\* What a scan has found out about the objects it reuses: it stores again those
\* that could not be read; and unless anything has been damaged since, the
\* others can, and so can the bases of what it has stored.
Found(s) ==
  /\ s.repair \subseteq DOMAIN record[s.id]
  /\ s.repair \cap Readable = {}
  /\ s.saw \subseteq damaged
  /\ \A x \in s.saw : x[1] # s.id
  /\ s.saw = damaged =>
       /\ Checked(s) \subseteq s.repair \cup Readable
       /\ \A o \in DOMAIN record[s.id] :
            \/ record[s.id][o] = Full
            \/ record[s.id][o].base \in Readable

FoundInv == \A h \in Handles : snap[h].pc \in {"ready", "moved"} => Found(snap[h])

\* In the packs, set aside ones too, every delta has a base nearer to a full
\* object than itself.
Descends ==
  \A i \in Surviving : \A o \in DOMAIN record[i] :
    \/ record[i][o] = Full
    \/ \E j \in Surviving : /\ record[i][o].base \in DOMAIN record[j]
                            /\ record[j][record[i][o].base].depth < record[i][o].depth

FullInv == IInv /\ DamageInv /\ FoundInv /\ Descends

\* The rows, and the packs they point to, stay: what can be read can be read
\* as long as nothing is damaged, and nothing else can unless something is mended.
LEMMA StepReadable ==
  ASSUME IInv, row' = row,
         \A i \in packs : place'[i] = "packs" /\ record'[i] = record[i]
  PROVE  /\ damaged' \subseteq damaged => Readable \subseteq Readable'
         /\ damaged \subseteq damaged' => Readable' \subseteq Readable
<1>1. \A o \in DOMAIN row : row[o].depth \in 0..MaxDepth
  BY DEF IInv, TypeOK, IsIndex, Row
<1>2. \A o \in DOMAIN row' : row'[o].depth \in 0..MaxDepth
  BY <1>1
<1>3. \A i \in packs : i \in Ids /\ place[i] = "packs"
  BY DEF IInv, IdInv, TypeOK
<1>4. \A o \in DOMAIN row :
        /\ row[o].pack \in packs
        /\ row[o].pack \in InPacks
        /\ row[o].pack \in InPacks'
        /\ record'[row[o].pack] = record[row[o].pack]
  BY <1>3 DEF IInv, IdInv, InPacks
<1>5. /\ ReadsOf(record, row, InPacks, damaged) \subseteq DOMAIN row
      /\ \A o \in ReadsOf(record, row, InPacks, damaged) :
           Whole(record, row, InPacks, damaged, o)
  BY <1>1, ReadsWhat
<1>6. /\ ReadsOf(record', row', InPacks', damaged') \subseteq DOMAIN row'
      /\ \A o \in ReadsOf(record', row', InPacks', damaged') :
           Whole(record', row', InPacks', damaged', o)
  BY <1>2, ReadsWhat
<1>7. ASSUME damaged' \subseteq damaged
      PROVE  ReadsOf(record, row, InPacks, damaged)
               \subseteq ReadsOf(record', row', InPacks', damaged')
  <2>1. \A o \in ReadsOf(record, row, InPacks, damaged) :
          o \in DOMAIN row' /\ Whole(record', row', InPacks', damaged', o)
    BY <1>4, <1>5, <1>7 DEF Whole
  <2> QED BY <1>1, <1>2, <2>1, StayReadable
<1>8. ASSUME damaged \subseteq damaged'
      PROVE  ReadsOf(record', row', InPacks', damaged')
               \subseteq ReadsOf(record, row, InPacks, damaged)
  <2>1. \A o \in ReadsOf(record', row', InPacks', damaged') :
          o \in DOMAIN row /\ Whole(record, row, InPacks, damaged, o)
    BY <1>4, <1>6, <1>8 DEF Whole
  <2> QED BY <1>1, <1>2, <2>1, StayReadable
<1> QED BY <1>7, <1>8, ReadableOf

\* Steps after which no scan has its results to commit.
LEMMA NothingFound ==
  ASSUME \A h \in Handles : snap'[h].pc \notin {"ready", "moved"}
  PROVE  FoundInv'
BY DEF FoundInv

LEMMA StillDescends ==
  ASSUME Descends, \A i \in Ids : i \in Surviving' <=> i \in Surviving,
         \A i \in Surviving : record'[i] = record[i]
  PROVE  Descends'
<1>1. Surviving' = Surviving
  BY DEF Surviving, InPacks, InQuarantine
<1>2. Surviving \subseteq Ids
  BY DEF Surviving, InPacks, InQuarantine
<1> QED BY <1>1, <1>2 DEF Descends

\* Cleaning up moves packs, but loses none.
LEMMA CleanedSurvive ==
  ASSUME IInv, NEW i \in Ids
  PROVE  Cleaned[i] \in {"packs", "quarantine"} <=> place[i] \in {"packs", "quarantine"}
BY DEF Cleaned, IInv, TypeOK, Places

LEMMA AcquireFull ==
  ASSUME FullInv, NEW h \in Handles, AcquireWriter(h)
  PROVE  DamageInv' /\ FoundInv' /\ Descends'
<1>1. \A k \in Handles : snap[k] = Closed
  BY RepositoryAssumption
  DEF RepositoryAssumption, FullInv, IInv, SnapshotProtected, AcquireWriter, LeaseFree
<1>2. DamageInv'
  BY <1>1 DEF FullInv, DamageInv, AcquireWriter, Closed
<1>3. FoundInv'
  BY <1>1, NothingFound DEF AcquireWriter, Closed
<1>4. Descends'
  BY CleanedSurvive, StillDescends
  DEF FullInv, AcquireWriter, Surviving, InPacks, InQuarantine
<1> QED BY <1>2, <1>3, <1>4

LEMMA ReleaseFull ==
  ASSUME FullInv, NEW h \in Handles, ReleaseWriter(h)
  PROVE  DamageInv' /\ FoundInv' /\ Descends'
<1>1. \A k \in Handles : snap[k] = Closed
  BY Free DEF FullInv, ReleaseWriter
<1>2. DamageInv'
  BY DEF FullInv, DamageInv, ReleaseWriter
<1>3. FoundInv'
  BY <1>1, NothingFound DEF ReleaseWriter, Closed
<1>4. Descends'
  BY StillDescends DEF FullInv, ReleaseWriter, Surviving, InPacks, InQuarantine
<1> QED BY <1>2, <1>3, <1>4

LEMMA BeginFull ==
  ASSUME FullInv, NEW h \in Handles, NEW l \in Layouts, BeginPrepare(h, l)
  PROVE  DamageInv' /\ FoundInv' /\ Descends'
<1> DEFINE i == used + 1
           s == NewSnapshot(i, l, Len(versions), FALSE)
<1>1. \A k \in Handles : snap[k] = Closed
  BY Free DEF BeginPrepare, LeaseFree, FullInv
<1>2. i \in Ids /\ used \in Nat /\ i > used
  BY RepositoryAssumption
  DEF RepositoryAssumption, BeginPrepare, Ids, FullInv, IInv, TypeOK
<1>3. s.pc = "open" /\ s.id = i
  BY DEF NewSnapshot
<1>4. snap' = [snap EXCEPT ![h] = s] /\ used' = i
      /\ place' = [Cleaned EXCEPT ![i] = "spool"]
      /\ UNCHANGED <<record, damaged>>
  BY DEF BeginPrepare
<1> HIDE DEF s
<1>5. /\ \A k \in Handles : k # h => snap'[k] = Closed
      /\ snap'[h] = s
  BY <1>1, <1>4 DEF FullInv, IInv, TypeOK
<1>6. DamageInv'
  <2>1. \A x \in damaged : x[1] \in Ids /\ x[1] <= used
    BY DEF FullInv, IInv, TypeOK, DamageInv
  <2>2. \A x \in damaged : x[1] <= i /\ x[1] # i
    BY <1>2, <2>1 DEF Ids
  <2> QED BY <1>3, <1>4, <1>5, <2>2 DEF DamageInv, Closed
<1>7. FoundInv'
  BY <1>3, <1>5, NothingFound DEF Closed
<1>8. Descends'
  <2>1. place[i] = "none"
    BY <1>2 DEF FullInv, IInv, IdInv
  <2>2. \A j \in Ids : j # i => place'[j] = Cleaned[j]
    BY <1>4 DEF Cleaned
  <2>3. place'[i] = "spool"
    BY <1>2, <1>4 DEF Cleaned
  <2>4. \A j \in Ids : j \in Surviving' <=> j \in Surviving
    BY <1>2, <2>1, <2>2, <2>3, CleanedSurvive DEF FullInv, Surviving, InPacks, InQuarantine
  <2> QED BY <1>4, <2>4, StillDescends DEF FullInv
<1> QED BY <1>6, <1>7, <1>8

LEMMA RescueFull ==
  ASSUME FullInv, NEW h \in Handles, Rescue(h)
  PROVE  DamageInv' /\ FoundInv' /\ Descends'
<1> DEFINE s == snap[h]
           i == used + 1
           t == NewSnapshot(i, s.layout, s.parent, TRUE)
<1>1. s.pc = "open"
  BY DEF Rescue
<1>2. /\ s \in Snapshot /\ s # Closed /\ s.id <= used
      /\ \A k \in Handles \ {h} : snap[k] = Closed
  BY <1>1, Held DEF FullInv
<1>3. /\ i \in Ids /\ used \in Nat /\ i > used /\ s.id \in Ids
  BY <1>2, RepositoryAssumption
  DEF RepositoryAssumption, Rescue, Ids, FullInv, IInv, TypeOK, Snapshot
<1>4. t.pc = "open" /\ t.id = i
  BY DEF NewSnapshot
<1>5. /\ used' = i /\ snap' = [snap EXCEPT ![h] = t]
      /\ place' = [place EXCEPT ![s.id] = "none", ![i] = "spool"]
      /\ UNCHANGED <<record, damaged>>
  BY DEF Rescue
<1> HIDE DEF t
<1>6. /\ \A k \in Handles : k # h => snap'[k] = Closed
      /\ snap'[h] = t
  BY <1>2, <1>5 DEF FullInv, IInv, TypeOK
<1>7. DamageInv'
  <2>1. \A x \in damaged : x[1] \in Ids /\ x[1] <= used
    BY DEF FullInv, IInv, TypeOK, DamageInv
  <2>2. \A x \in damaged : x[1] <= i /\ x[1] # i
    BY <1>3, <2>1 DEF Ids
  <2> QED BY <1>4, <1>5, <1>6, <2>2 DEF DamageInv, Closed
<1>8. FoundInv'
  BY <1>4, <1>6, NothingFound DEF Closed
<1>9. Descends'
  <2>1. place[i] = "none" /\ place[s.id] = "spool"
    BY <1>1, <1>2, <1>3 DEF FullInv, IInv, IdInv, SnapshotProtected
  <2>2. /\ i # s.id /\ place'[i] = "spool" /\ place'[s.id] = "none"
        /\ \A j \in Ids : j # i /\ j # s.id => place'[j] = place[j]
    BY <1>2, <1>3, <1>5, <2>1 DEF FullInv, IInv, TypeOK
  <2>3. \A j \in Ids : j \in Surviving' <=> j \in Surviving
    BY <1>3, <2>1, <2>2 DEF Surviving, InPacks, InQuarantine
  <2> QED BY <1>5, <2>3, StillDescends DEF FullInv
<1> QED BY <1>7, <1>8, <1>9

\* The ends of a snapshot, and a crash without one.
LEMMA EndsFull ==
  ASSUME FullInv, NEW h \in Handles, snap'= [snap EXCEPT ![h] = Closed],
         lease = h \/ snap[h].pc # "closed",
         \/ place' = place
         \/ /\ snap[h].pc \in {"open", "ready"}
            /\ place' = [place EXCEPT ![snap[h].id] = "none"],
         UNCHANGED <<record, damaged, used>>
  PROVE  DamageInv' /\ FoundInv' /\ Descends'
<1>1. \A k \in Handles : k # h => snap[k] = Closed
  <2>1. CASE snap[h].pc # "closed"
    BY <2>1, Held DEF FullInv
  <2>2. CASE lease = h
    BY <2>2 DEF FullInv, IInv, SnapshotProtected
  <2> QED BY <2>1, <2>2
<1>2. \A k \in Handles : snap'[k] = Closed
  BY <1>1 DEF FullInv, IInv, TypeOK
<1>3. DamageInv'
  BY <1>2 DEF FullInv, DamageInv, Closed
<1>4. FoundInv'
  BY <1>2, NothingFound DEF Closed
<1>5. \A j \in Ids : j \in Surviving' <=> j \in Surviving
  <2>1. CASE place' = place
    BY <2>1 DEF Surviving, InPacks, InQuarantine
  <2>2. CASE /\ snap[h].pc \in {"open", "ready"}
             /\ place' = [place EXCEPT ![snap[h].id] = "none"]
    <3>1. snap[h] # Closed /\ snap[h].id \in Ids
      BY <2>2, Held DEF FullInv, Snapshot
    <3>2. place[snap[h].id] = "spool"
      BY <2>2, <3>1 DEF FullInv, IInv, SnapshotProtected
    <3> QED BY <2>2, <3>1, <3>2 DEF FullInv, IInv, TypeOK, Surviving, InPacks, InQuarantine
  <2> QED BY <2>1, <2>2
<1>6. Descends'
  BY <1>5, StillDescends DEF FullInv
<1> QED BY <1>3, <1>4, <1>6

\* Bases are only chosen where the whole chain can be read.
LEMMA BasesReadable ==
  ASSUME NEW s, NEW b \in Bases(s)
  PROVE  b \in Readable
BY DEF Bases, Usable

LEMMA ScanFull ==
  ASSUME FullInv, NEW h \in Handles, Scan(h)
  PROVE  DamageInv' /\ FoundInv' /\ Descends'
<1> DEFINE s == snap[h]
           repair == Checked(s) \ Readable
           t == [s EXCEPT !.pc = "ready", !.repair = repair, !.saw = damaged]
           new == record'[s.id]
<1>1. s.pc = "open"
  BY DEF Scan
<1>2. /\ s \in Snapshot /\ s # Closed
      /\ \A k \in Handles \ {h} : snap[k] = Closed
  BY <1>1, Held DEF FullInv
<1>3. s.id \in Ids /\ place[s.id] = "spool" /\ s.id \notin packs
  BY <1>1, <1>2 DEF Snapshot, FullInv, IInv, SnapshotProtected
<1>4. PICK against \in [Fresh(s) \cap Chunks -> Bases(s) \cup {NoBase}] :
        record' = [record EXCEPT ![s.id] =
                     [o \in Fresh(s) \cup repair |->
                        CASE o \in repair -> RepairRecord(o)
                          [] o \in DOMAIN against /\ against[o] # NoBase ->
                               [depth |-> row[against[o]].depth + 1,
                                base |-> against[o]]
                          [] OTHER -> Full]]
  BY DEF Scan
<1>5. /\ snap' = [snap EXCEPT ![h] = t]
      /\ UNCHANGED <<place, packs, row, damaged, used>>
  BY DEF Scan
<1>6. /\ t.pc = "ready" /\ t.id = s.id /\ t.repair = repair /\ t.saw = damaged
      /\ t.layout = s.layout /\ t.rescue = s.rescue
  BY <1>2 DEF Snapshot
<1>7. /\ DOMAIN new = Fresh(s) \cup repair
      /\ \A o \in DOMAIN new : new[o] = Full \/ new[o].base \in Readable
  <2>1. new = [o \in Fresh(s) \cup repair |->
                 CASE o \in repair -> RepairRecord(o)
                   [] o \in DOMAIN against /\ against[o] # NoBase ->
                        [depth |-> row[against[o]].depth + 1, base |-> against[o]]
                   [] OTHER -> Full]
    BY <1>3, <1>4 DEF FullInv, IInv, TypeOK
  <2> HIDE DEF new, repair
  <2>2. ASSUME NEW o \in DOMAIN new, new[o] # Full
        PROVE  new[o].base \in Readable
    <3>1. o \in DOMAIN against /\ against[o] # NoBase /\ o \notin repair
      <4>1. o \notin repair
        <5>1. ASSUME o \in repair PROVE new[o] = RepairRecord(o)
          <6>1. o \notin DOMAIN against
            BY <5>1 DEF Fresh, repair, Checked
          <6> QED BY <2>1, <5>1, <6>1
        <5> QED BY <2>2, <5>1 DEF RepairRecord
      <4> QED BY <2>1, <2>2, <4>1
    <3>2. new[o].base = against[o]
      BY <2>1, <3>1
    <3>3. against[o] \in Bases(s)
      BY <3>1
    <3> QED BY <3>2, <3>3, BasesReadable
  <2> QED BY <2>1, <2>2
<1>8. \A i \in Ids : i # s.id => record'[i] = record[i]
  BY <1>4 DEF FullInv, IInv, TypeOK
<1> HIDE DEF t, new, repair
<1>9. /\ \A k \in Handles : k # h => snap'[k] = Closed
      /\ snap'[h] = t
  BY <1>2, <1>5 DEF FullInv, IInv, TypeOK
<1>10. Readable' = Readable
  <2>1. \A i \in packs : place'[i] = "packs" /\ record'[i] = record[i]
    BY <1>3, <1>5, <1>8 DEF FullInv, IInv, IdInv, TypeOK
  <2> QED BY <1>5, <2>1, StepReadable DEF FullInv
<1>11. DamageInv'
  BY <1>1, <1>5, <1>6, <1>9 DEF FullInv, DamageInv, Closed
<1>12. FoundInv'
  <2>1. \A x \in damaged : x[1] # s.id
    BY <1>1 DEF FullInv, DamageInv
  <2>2. repair \subseteq DOMAIN new /\ repair \cap Readable = {}
    BY <1>7 DEF repair
  <2>3. Checked(s) \subseteq repair \cup Readable
    BY DEF repair
  <2>4. Checked(snap[h])' = Checked(s)
    BY <1>5, <1>6, <1>9 DEF Checked
  <2>5. record'[snap'[h].id] = new
    BY <1>6, <1>9 DEF new
  <2>6. Found(snap[h])'
    BY <1>5, <1>6, <1>7, <1>9, <1>10, <2>1, <2>2, <2>3, <2>4, <2>5 DEF Found
  <2> QED BY <1>9, <2>6 DEF FoundInv, Closed
<1>13. Descends'
  <2>1. \A i \in Ids : i \in Surviving' <=> i \in Surviving
    BY <1>5 DEF Surviving, InPacks, InQuarantine
  <2>2. \A i \in Surviving : i \in Ids /\ i # s.id
    BY <1>3 DEF Surviving, InPacks, InQuarantine
  <2> QED BY <1>8, <2>1, <2>2, StillDescends DEF FullInv
<1> QED BY <1>11, <1>12, <1>13

\* A row is a record of a pack that is in place.
LEMMA RowSurvives ==
  ASSUME IInv, NEW o \in DOMAIN row
  PROVE  /\ row[o].pack \in Surviving
         /\ o \in DOMAIN record[row[o].pack]
         /\ record[row[o].pack][o].depth = row[o].depth
<1>1. row[o].pack \in Ids
  BY DEF IInv, TypeOK, IsIndex, Row
<1>2. /\ place[row[o].pack] = "packs" /\ o \in DOMAIN record[row[o].pack]
      /\ record[row[o].pack][o] = [depth |-> row[o].depth, base |-> row[o].base]
  BY DEF IInv, VersionsRestorable
<1> QED BY <1>1, <1>2 DEF Surviving, InPacks

LEMMA PublishFull ==
  ASSUME FullInv, NEW h \in Handles, Publish(h)
  PROVE  DamageInv' /\ FoundInv' /\ Descends'
<1> DEFINE s == snap[h]
           t == [s EXCEPT !.pc = "moved"]
<1>1. s.pc = "ready"
  BY DEF Publish
<1>2. /\ s \in Snapshot /\ s # Closed
      /\ \A k \in Handles \ {h} : snap[k] = Closed
  BY <1>1, Held DEF FullInv
<1>3. s.id \in Ids /\ place[s.id] = "spool" /\ s.id \notin packs
  BY <1>1, <1>2 DEF Snapshot, FullInv, IInv, SnapshotProtected
<1>4. /\ t.pc = "moved" /\ t.id = s.id /\ t.repair = s.repair /\ t.saw = s.saw
      /\ t.layout = s.layout /\ t.rescue = s.rescue
  BY <1>2 DEF Snapshot
<1>5. /\ snap' = [snap EXCEPT ![h] = t]
      /\ place' = [place EXCEPT ![s.id] = IF DOMAIN record[s.id] = {} THEN "none"
                                          ELSE "packs"]
      /\ UNCHANGED <<record, packs, row, damaged, used>>
  BY DEF Publish
<1> HIDE DEF t
<1>6. /\ \A k \in Handles : k # h => snap'[k] = Closed
      /\ snap'[h] = t
  BY <1>2, <1>5 DEF FullInv, IInv, TypeOK
<1>7. /\ \A j \in Ids : j # s.id => place'[j] = place[j]
      /\ place'[s.id] = IF DOMAIN record[s.id] = {} THEN "none" ELSE "packs"
  BY <1>3, <1>5 DEF FullInv, IInv, TypeOK
<1>8. Readable' = Readable
  <2>1. \A i \in packs : place'[i] = "packs" /\ record'[i] = record[i]
    BY <1>3, <1>5, <1>7 DEF FullInv, IInv, IdInv, TypeOK
  <2> QED BY <1>5, <2>1, StepReadable DEF FullInv
<1>9. DamageInv'
  BY <1>4, <1>5, <1>6 DEF FullInv, DamageInv, Closed
<1>10. FoundInv'
  <2>1. Found(s)
    BY <1>1 DEF FullInv, FoundInv
  <2>2. Checked(snap[h])' = Checked(s)
    BY <1>4, <1>5, <1>6 DEF Checked
  <2>3. Found(snap[h])'
    BY <1>4, <1>5, <1>6, <1>8, <2>1, <2>2 DEF Found
  <2> QED BY <1>6, <2>3 DEF FoundInv, Closed
<1>11. Descends'
  <2>1. Surviving \subseteq Surviving' /\ \A i \in Surviving' : i = s.id \/ i \in Surviving
    BY <1>3, <1>7 DEF Surviving, InPacks, InQuarantine
  <2>2. ASSUME NEW i \in Surviving', NEW o \in DOMAIN record[i], record[i][o] # Full
        PROVE  \E j \in Surviving : /\ record[i][o].base \in DOMAIN record[j]
                                    /\ record[j][record[i][o].base].depth < record[i][o].depth
    <3>1. CASE i \in Surviving
      BY <2>2, <3>1 DEF FullInv, Descends
    <3>2. CASE i = s.id
      <4> DEFINE b == record[i][o].base
      <4>1. Complete(s)
        BY <1>1 DEF FullInv, IInv, RecordInv
      <4>2. b \in DOMAIN row /\ row[b].depth < record[i][o].depth
        BY <2>2, <3>2, <4>1 DEF Complete
      <4> QED BY <4>2, RowSurvives DEF FullInv
    <3> QED BY <2>1, <3>1, <3>2
  <2> QED BY <1>5, <2>1, <2>2 DEF Descends
<1> QED BY <1>9, <1>10, <1>11

LEMMA CommitRowsFull ==
  ASSUME FullInv, NEW h \in Handles, CommitRows(h)
  PROVE  DamageInv' /\ FoundInv' /\ Descends'
<1> DEFINE t == [snap[h] EXCEPT !.pc = "committed"]
<1>1. snap[h].pc = "moved" /\ snap' = [snap EXCEPT ![h] = t]
      /\ UNCHANGED <<place, record, damaged, used>>
  BY DEF CommitRows
<1>2. snap[h] \in Snapshot /\ \A k \in Handles \ {h} : snap[k] = Closed
  BY <1>1, Held DEF FullInv
<1>3. t.pc = "committed"
  BY <1>2 DEF Snapshot
<1> HIDE DEF t
<1>4. snap'[h] = t /\ \A k \in Handles : k # h => snap'[k] = Closed
  BY <1>1, <1>2 DEF FullInv, IInv, TypeOK
<1>5. DamageInv'
  BY <1>1, <1>3, <1>4 DEF FullInv, DamageInv, Closed
<1>6. FoundInv'
  BY <1>3, <1>4, NothingFound DEF Closed
<1>7. Descends'
  BY <1>1, StillDescends DEF FullInv, Surviving, InPacks, InQuarantine
<1> QED BY <1>5, <1>6, <1>7

LEMMA DamageFull ==
  ASSUME FullInv, NEW i \in Ids, NEW o \in Objects, Damage(i, o)
  PROVE  DamageInv' /\ FoundInv' /\ Descends'
<1>1. /\ place[i] = "packs" /\ damaged' = damaged \cup {<<i, o>>}
      /\ UNCHANGED <<snap, place, record, packs, row, used>>
  BY DEF Damage
<1>2. i <= used
  BY <1>1 DEF FullInv, IInv, IdInv, TypeOK, Ids
<1>3. DamageInv'
  <2>1. \A x \in damaged' : x[1] <= used'
    BY <1>1, <1>2 DEF FullInv, DamageInv
  <2>2. ASSUME NEW k \in Handles, snap[k].pc \in {"open", "ready"}
        PROVE  \A x \in damaged' : x[1] # snap[k].id
    <3>1. snap[k] # Closed
      BY <2>2 DEF Closed
    <3>2. place[snap[k].id] = "spool"
      BY <2>2, <3>1 DEF FullInv, IInv, SnapshotProtected
    <3> QED BY <1>1, <2>2, <3>2 DEF FullInv, DamageInv
  <2> QED BY <1>1, <2>1, <2>2 DEF DamageInv
<1>4. FoundInv'
  <2> SUFFICES ASSUME NEW k \in Handles, snap[k].pc \in {"ready", "moved"}
               PROVE  Found(snap[k])'
    BY <1>1 DEF FoundInv
  <2> DEFINE s == snap[k]
  <2>1. Found(s)
    BY DEF FullInv, FoundInv
  <2>2. \A j \in packs : place'[j] = "packs" /\ record'[j] = record[j]
    BY <1>1 DEF FullInv, IInv, IdInv
  <2>3. Readable' \subseteq Readable
    BY <1>1, <2>2, StepReadable DEF FullInv
  <2>4. s.saw \subseteq damaged' /\ s.repair \cap Readable' = {}
    BY <1>1, <2>1, <2>3 DEF Found
  <2>5. CASE s.saw = damaged'
    <3>1. damaged' = damaged
      BY <1>1, <2>1, <2>5 DEF Found
    <3>2. Readable' = Readable
      BY <1>1, <2>2, <3>1, StepReadable DEF FullInv
    <3> QED BY <1>1, <2>1, <3>1, <3>2 DEF Found, Checked
  <2>6. CASE s.saw # damaged'
    BY <1>1, <2>1, <2>4, <2>6 DEF Found
  <2> QED BY <2>5, <2>6
<1>5. Descends'
  BY <1>1, StillDescends DEF FullInv, Surviving, InPacks, InQuarantine
<1> QED BY <1>3, <1>4, <1>5

LEMMA MendFull ==
  ASSUME FullInv, Mend
  PROVE  DamageInv' /\ FoundInv' /\ Descends'
<1>1. \A k \in Handles : snap[k] = Closed
  BY RepositoryAssumption
  DEF RepositoryAssumption, FullInv, IInv, SnapshotProtected, Mend, LeaseFree
<1>2. DamageInv'
  BY DEF Mend, DamageInv
<1>3. FoundInv'
  BY <1>1, NothingFound DEF Mend, Closed
<1>4. Descends'
  BY StillDescends DEF FullInv, Mend, Surviving, InPacks, InQuarantine
<1> QED BY <1>2, <1>3, <1>4

LEMMA InitFull == Init => FullInv
<1> SUFFICES ASSUME Init PROVE FullInv
  OBVIOUS
<1>1. IInv
  BY InitIInv
<1>2. DamageInv /\ FoundInv
  BY DEF Init, DamageInv, FoundInv, Closed
<1>3. Descends
  BY DEF Init, Descends, Surviving, InPacks, InQuarantine
<1> QED BY <1>1, <1>2, <1>3 DEF FullInv

LEMMA StepFull == FullInv /\ [Next]_vars => FullInv'
<1> SUFFICES ASSUME FullInv, [Next]_vars PROVE FullInv'
  OBVIOUS
<1>1. IInv'
  BY StepIInv DEF FullInv
<1>2. ASSUME NEW h \in Handles,
             \/ AcquireWriter(h) \/ ReleaseWriter(h)
             \/ \E l \in Layouts : BeginPrepare(h, l)
             \/ Scan(h) \/ Rescue(h) \/ Publish(h) \/ CommitRows(h)
      PROVE  DamageInv' /\ FoundInv' /\ Descends'
  BY <1>2, AcquireFull, ReleaseFull, BeginFull, ScanFull, RescueFull, PublishFull,
     CommitRowsFull
<1>3. ASSUME NEW h \in Handles, Drop(h) \/ EndCommit(h) \/ CommitFails(h) \/ Crash(h)
      PROVE  DamageInv' /\ FoundInv' /\ Descends'
  <2>1. CASE Drop(h)
    BY <2>1, EndsFull DEF Drop
  <2>2. CASE EndCommit(h)
    BY <2>2, EndsFull DEF EndCommit
  <2>3. CASE CommitFails(h)
    BY <2>3, EndsFull DEF CommitFails
  <2>4. CASE Crash(h)
    BY <2>4, EndsFull DEF Crash
  <2> QED BY <1>3, <2>1, <2>2, <2>3, <2>4
<1>4. ASSUME NEW i \in Ids, NEW o \in Objects, Damage(i, o)
      PROVE  DamageInv' /\ FoundInv' /\ Descends'
  BY <1>4, DamageFull
<1>5. CASE UNCHANGED vars
  <2>1. DamageInv' /\ Descends'
    BY <1>5 DEF vars, FullInv, DamageInv, Descends, Surviving, InPacks, InQuarantine
  <2>2. Readable' = Readable
    <3>1. \A i \in packs : place'[i] = "packs" /\ record'[i] = record[i]
      BY <1>5 DEF vars, FullInv, IInv, IdInv
    <3> QED BY <1>5, <3>1, StepReadable DEF vars, FullInv
  <2>3. FoundInv'
    <3>1. ASSUME NEW h \in Handles, Found(snap[h])
          PROVE  Found(snap[h])'
      <4>1. snap' = snap /\ record' = record /\ row' = row /\ damaged' = damaged
        BY <1>5 DEF vars
      <4>2. Checked(snap[h])' = Checked(snap[h])
        BY <4>1 DEF Checked
      <4> QED BY <2>2, <3>1, <4>1, <4>2 DEF Found
    <3> QED BY <1>5, <3>1 DEF vars, FullInv, FoundInv
  <2> QED BY <1>1, <2>1, <2>3 DEF FullInv
<1>6. ASSUME Next PROVE DamageInv' /\ FoundInv' /\ Descends'
  <2>1. CASE Mend
    BY <2>1, MendFull
  <2>2. CASE \E i \in Ids, o \in Objects : Damage(i, o)
    BY <1>4, <2>2
  <2>3. ASSUME NEW h \in Handles,
               \/ AcquireWriter(h) \/ ReleaseWriter(h)
               \/ \E l \in Layouts : BeginPrepare(h, l)
               \/ Scan(h) \/ Rescue(h) \/ Drop(h)
               \/ Publish(h) \/ CommitRows(h) \/ EndCommit(h) \/ CommitFails(h)
               \/ Crash(h)
        PROVE  DamageInv' /\ FoundInv' /\ Descends'
    <3>1. CASE Drop(h) \/ EndCommit(h) \/ CommitFails(h) \/ Crash(h)
      BY <1>3, <3>1
    <3>2. CASE \/ AcquireWriter(h) \/ ReleaseWriter(h)
               \/ \E l \in Layouts : BeginPrepare(h, l)
               \/ Scan(h) \/ Rescue(h) \/ Publish(h) \/ CommitRows(h)
      BY <1>2, <3>2
    <3> QED BY <2>3, <3>1, <3>2
  <2> QED BY <1>6, <2>1, <2>2, <2>3 DEF Next
<1> QED BY <1>1, <1>5, <1>6 DEF FullInv

---------------------------------------------------------------------------
(* What a commit makes readable.                                           *)

\* The rows of a commit: those that could be read stay as they are, and the
\* others are as the snapshot has stored them.
LEMMA CommitReadable ==
  ASSUME FullInv, NEW h \in Handles, CommitRows(h)
  PROVE  Readable \subseteq Readable'
<1> DEFINE s == snap[h]
           Old == ReadsOf(record, row, InPacks, damaged)
<1>1. s.pc = "moved" /\ row' = Indexed(s) /\ UNCHANGED <<place, record, damaged>>
  BY DEF CommitRows
<1>2. /\ \A o \in DOMAIN row : row[o].depth \in 0..MaxDepth
      /\ \A o \in DOMAIN row' : row'[o].depth \in 0..MaxDepth
  <2>1. IsIndex(row', Row) /\ IsIndex(row, Row)
    BY <1>1, IndexedRows DEF FullInv, IInv, TypeOK
  <2> QED BY <2>1 DEF IsIndex, Row
<1>3. Old \subseteq DOMAIN row /\ \A o \in Old : Whole(record, row, InPacks, damaged, o)
  BY <1>2, ReadsWhat
<1>4. s.repair \cap Old = {}
  BY <1>1, ReadableOf DEF FullInv, FoundInv, Found
<1>5. InPacks' = InPacks
  BY <1>1 DEF InPacks
<1> HIDE DEF Old
<1>6. ASSUME NEW o \in Old
      PROVE  /\ o \in DOMAIN row'
             /\ Whole(record', row', InPacks', damaged', o)
             /\ row'[o].depth = row[o].depth /\ row'[o].base = row[o].base
  <2>1. o \in DOMAIN row' /\ row'[o] = row[o]
    BY <1>1, <1>3, <1>4 DEF Indexed
  <2> QED BY <1>1, <1>3, <1>5, <2>1 DEF Whole
<1>7. Old \subseteq ReadsOf(record', row', InPacks', damaged')
  BY <1>2, <1>6, StayReadable DEF Old
<1> QED BY <1>7, ReadableOf DEF Old

LEMMA StaysReadable ==
  ASSUME FullInv, [Next]_vars, damaged' \subseteq damaged
  PROVE  Readable \subseteq Readable'
<1>1. CASE \E h \in Handles : CommitRows(h)
  BY <1>1, CommitReadable
<1>2. ASSUME row' = row, \A i \in packs : place'[i] = "packs" /\ record'[i] = record[i]
      PROVE  Readable \subseteq Readable'
  BY <1>2, StepReadable DEF FullInv
<1>3. \A i \in packs : i \in Ids /\ place[i] = "packs"
  BY DEF FullInv, IInv, IdInv, TypeOK
<1>4. ASSUME NEW h \in Handles, snap[h].pc \in {"open", "ready"}
      PROVE  snap[h].id \notin packs /\ snap[h].id \in Ids
  BY <1>4, Held DEF FullInv, IInv, SnapshotProtected, Snapshot
<1>5. ASSUME NEW h \in Handles, AcquireWriter(h)
      PROVE  Readable \subseteq Readable'
  BY <1>2, <1>3, <1>5, CleanedKeeps DEF AcquireWriter, FullInv, IInv
<1>6. ASSUME NEW h \in Handles, NEW l \in Layouts, BeginPrepare(h, l)
      PROVE  Readable \subseteq Readable'
  <2>1. used + 1 \notin packs
    BY RepositoryAssumption
    DEF RepositoryAssumption, BeginPrepare, Ids, FullInv, IInv, TypeOK, IdInv
  <2>2. \A i \in packs : place'[i] = Cleaned[i] /\ Cleaned[i] = "packs"
    BY <1>3, <1>6, <2>1, CleanedKeeps DEF BeginPrepare, FullInv, IInv, Cleaned
  <2> QED BY <1>2, <1>6, <2>2 DEF BeginPrepare
<1>7. ASSUME NEW h \in Handles, Scan(h)
      PROVE  Readable \subseteq Readable'
  <2>1. \A i \in packs : record'[i] = record[i]
    BY <1>3, <1>4, <1>7 DEF Scan, FullInv, IInv, TypeOK
  <2> QED BY <1>2, <1>3, <1>7, <2>1 DEF Scan
<1>8. ASSUME NEW h \in Handles, Rescue(h)
      PROVE  Readable \subseteq Readable'
  <2>1. used + 1 \notin packs
    BY <1>8, RepositoryAssumption
    DEF RepositoryAssumption, Rescue, Ids, FullInv, IInv, TypeOK, IdInv
  <2>2. \A i \in packs : place'[i] = "packs"
    BY <1>3, <1>4, <1>8, <2>1 DEF Rescue, FullInv, IInv, TypeOK
  <2> QED BY <1>2, <1>8, <2>2 DEF Rescue
<1>9. ASSUME NEW h \in Handles, Drop(h) \/ Publish(h)
      PROVE  Readable \subseteq Readable'
  <2>1. \A i \in packs : place'[i] = "packs"
    BY <1>3, <1>4, <1>9 DEF Drop, Publish, FullInv, IInv, TypeOK
  <2> QED BY <1>2, <1>9, <2>1 DEF Drop, Publish
<1>10. ASSUME NEW h \in Handles,
              ReleaseWriter(h) \/ EndCommit(h) \/ CommitFails(h) \/ Crash(h)
       PROVE  Readable \subseteq Readable'
  BY <1>2, <1>3, <1>10 DEF ReleaseWriter, EndCommit, CommitFails, Crash
<1>11. ASSUME \/ \E i \in Ids, o \in Objects : Damage(i, o)
              \/ Mend \/ UNCHANGED vars
       PROVE  Readable \subseteq Readable'
  BY <1>2, <1>3, <1>11 DEF Damage, Mend, vars
<1> QED BY <1>1, <1>5, <1>6, <1>7, <1>8, <1>9, <1>10, <1>11 DEF Next

LEMMA PromiseKept ==
  ASSUME FullInv, [Next]_vars, NEW h \in Handles, Commits(h)
  PROVE  Promised(h) \subseteq Readable'
<1> DEFINE s == snap[h]
           new == record[s.id]
           Now == ReadsOf(record', row', InPacks', damaged')
<1>1. s.pc = "moved" /\ snap'[h].pc = "committed" /\ s.saw = damaged
  BY DEF Commits
<1>2. CommitRows(h)
  <2>1. s \in Snapshot /\ \A k \in Handles \ {h} : snap[k] = Closed
    BY <1>1, Held DEF FullInv
  <2>2. snap'[h] # s /\ snap'[h] # Closed
    BY <1>1 DEF Closed
  <2>3. PICK k \in Handles :
          \/ AcquireWriter(k) \/ ReleaseWriter(k)
          \/ \E l \in Layouts : BeginPrepare(k, l)
          \/ Scan(k) \/ Rescue(k) \/ Drop(k)
          \/ Publish(k) \/ CommitRows(k) \/ EndCommit(k) \/ CommitFails(k)
          \/ Crash(k)
    BY <2>2 DEF Next, vars, Damage, Mend
  <2>4. k = h
    <3>1. \A j \in Handles : j # k => snap'[j] = snap[j]
      BY <2>3
      DEF AcquireWriter, ReleaseWriter, BeginPrepare, Scan, Rescue, Drop, Publish,
          CommitRows, EndCommit, CommitFails, Crash, FullInv, IInv, TypeOK
    <3> QED BY <2>2, <3>1
  <2>5. ~AcquireWriter(h) /\ ~ReleaseWriter(h) /\ ~\E l \in Layouts : BeginPrepare(h, l)
    <3>1. ~AcquireWriter(h) /\ ~ReleaseWriter(h)
      BY <2>2 DEF AcquireWriter, ReleaseWriter
    <3>2. s # Closed
      BY <1>1 DEF Closed
    <3> QED BY <3>1, <3>2 DEF BeginPrepare
  <2>6. ~Scan(h) /\ ~Rescue(h) /\ ~Drop(h) /\ ~Publish(h) /\ ~EndCommit(h)
    BY <1>1 DEF Scan, Rescue, Drop, Publish, EndCommit
  <2>7. ~CommitFails(h) /\ ~Crash(h)
    BY <1>1 DEF CommitFails, Crash, FullInv, IInv, TypeOK, Closed
  <2> QED BY <2>3, <2>4, <2>5, <2>6, <2>7
<1>3. row' = Indexed(s) /\ UNCHANGED <<place, record, damaged>>
  BY <1>2 DEF CommitRows
<1>4. /\ \A o \in DOMAIN row : row[o].depth \in 0..MaxDepth
      /\ \A o \in DOMAIN row' : row'[o].depth \in 0..MaxDepth
  <2>1. IsIndex(row', Row) /\ IsIndex(row, Row)
    BY <1>1, <1>3, IndexedRows DEF FullInv, IInv, TypeOK
  <2> QED BY <2>1 DEF IsIndex, Row
<1>5. Readable \subseteq Now
  BY <1>2, CommitReadable, ReadableOf
<1>6. Found(s) /\ Complete(s)
  BY <1>1 DEF FullInv, IInv, RecordInv, FoundInv
<1>7. \A o \in DOMAIN row' :
        o \in Now <=> /\ Whole(record', row', InPacks', damaged', o)
                      /\ \/ row'[o].depth = 0 /\ row'[o].base = NoBase
                         \/ /\ row'[o].depth # 0
                            /\ row'[o].base \in Now
                            /\ row'[row'[o].base].depth < row'[o].depth
  BY <1>4, ReadsWhat
<1> HIDE DEF Now
<1>8. ASSUME NEW o \in DOMAIN new, o \in s.repair \/ o \notin DOMAIN row
      PROVE  o \in Now
  <2>1. s.id \in Ids /\ s.id \in InPacks'
    <3>1. s.id \in Ids /\ s # Closed
      BY <1>1, Held DEF FullInv, Snapshot
    <3>2. place[s.id] = "packs"
      BY <1>1, <1>8, <3>1 DEF FullInv, IInv, SnapshotProtected
    <3> QED BY <1>3, <3>1, <3>2 DEF InPacks
  <2>2. o \in DOMAIN row'
        /\ row'[o] = [pack |-> s.id, depth |-> new[o].depth, base |-> new[o].base]
    BY <1>3, <1>8 DEF Indexed
  <2>3. new[o] \in Record
    BY <2>1 DEF FullInv, IInv, TypeOK, IsIndex
  <2>4. new[o] = [depth |-> new[o].depth, base |-> new[o].base]
    BY <2>3 DEF Record
  <2>5. <<s.id, o>> \notin damaged
    BY <1>1, <1>6 DEF Found
  <2>6. Whole(record', row', InPacks', damaged', o)
    BY <1>3, <2>1, <2>2, <2>4, <2>5 DEF Whole
  <2>7. CASE new[o] = Full
    BY <1>7, <2>2, <2>6, <2>7 DEF Full
  <2>8. CASE new[o] # Full
    <3> DEFINE b == new[o].base
    <3>1. b \in Readable /\ b \in DOMAIN row /\ row[b].depth < new[o].depth
      BY <1>1, <1>6, <2>8 DEF Found, Complete
    <3>2. b \in DOMAIN row' /\ row'[b] = row[b]
      <4>1. b \notin s.repair
        BY <1>6, <3>1 DEF Found
      <4> QED BY <1>3, <3>1, <4>1 DEF Indexed
    <3>3. row[b].depth \in Nat /\ new[o].depth \in Nat
      BY <1>4, <2>3, <3>1 DEF Record
    <3>4. row'[o].depth # 0 /\ row'[b].depth < row'[o].depth /\ row'[o].base = b
      BY <2>2, <3>1, <3>2, <3>3
    <3>5. b \in Now
      BY <1>5, <3>1
    <3> QED BY <1>7, <2>2, <2>6, <3>4, <3>5
  <2> QED BY <2>7, <2>8
<1>9. ASSUME NEW o \in Promised(h)
      PROVE  o \in Now
  <2>1. o \in s.layout
    BY DEF Promised
  <2>2. CASE o \notin DOMAIN row
    <3>1. o \in DOMAIN new
      BY <1>6, <2>1, <2>2 DEF Complete
    <3> QED BY <1>8, <2>2, <3>1
  <2>3. CASE o \in DOMAIN row
    <3>1. o \in Objects
      BY <2>3 DEF FullInv, IInv, TypeOK, IsIndex
    <3>2. o \in Metadata \/ s.rescue
      BY <2>3, <3>1 DEF Promised, Objects
    <3>3. o \in Checked(s)
      BY <2>1, <2>3, <3>2 DEF Checked
    <3>4. o \in s.repair \/ o \in Readable
      BY <1>1, <1>6, <3>3 DEF Found
    <3>5. o \in s.repair => o \in DOMAIN new
      BY <1>6 DEF Found
    <3> QED BY <1>5, <1>8, <3>4, <3>5
  <2> QED BY <2>2, <2>3
<1> QED BY <1>9, ReadableOf DEF Now

\* No save, repair or clean-up makes an object unreadable that was readable,
\* and a committed version is as readable as the save has promised, whatever is
\* damaged and whatever fails (object_access.py, PreparedSnapshot.commit).
THEOREM ReadableKept == Spec => NeverMadeUnreadable
<1>1. FullInv /\ [Next]_vars =>
        [/\ damaged' \subseteq damaged => Readable \subseteq Readable'
         /\ \A h \in Handles : Commits(h) => Promised(h) \subseteq Readable']_vars
  BY StaysReadable, PromiseKept
<1> QED BY <1>1, InitFull, StepFull, PTL DEF Spec, NeverMadeUnreadable

---------------------------------------------------------------------------
(* Rebuilding the index.                                                   *)

\* Of the copies of an object there is a shallowest.
LEMMA ShallowestCopy ==
  ASSUME TypeOK, NEW o, Copies(o) # {}
  PROVE  /\ Shallowest(o) \in Copies(o)
         /\ \A j \in Copies(o) : record[Shallowest(o)][o].depth <= record[j][o].depth
<1> DEFINE Depths == {record[i][o].depth : i \in Copies(o)}
<1>1. Depths \in SUBSET Nat /\ Depths # {}
  <2>1. ASSUME NEW i \in Copies(o)
        PROVE  record[i][o].depth \in Nat
    <3>1. i \in Ids /\ o \in DOMAIN record[i]
      BY DEF Copies, Surviving, InPacks, InQuarantine
    <3>2. record[i][o] \in Record
      BY <3>1 DEF TypeOK, IsIndex
    <3> QED BY <3>2 DEF Record
  <2> QED BY <2>1
<1> HIDE DEF Depths
<1>2. PICK m \in Depths : \A n \in Depths : m <= n
  BY <1>1, LeastNumber
<1>3. \E i \in Copies(o) : \A j \in Copies(o) : record[i][o].depth <= record[j][o].depth
  BY <1>2 DEF Depths
<1> QED BY <1>3 DEF Shallowest

LEMMA RebuiltReads ==
  ASSUME IInv, Descends, damaged = {}
  PROVE  {o \in Objects : Copies(o) # {}} \subseteq Reads(Rebuilt(Empty), Surviving, {})
<1> DEFINE All == {o \in Objects : Copies(o) # {}}
           index == Rebuilt(Empty)
           Row1(o) == record[Shallowest(o)][o]
           R == ReadsOf(record, index, Surviving, {})
           Lost == {d \in 0..MaxDepth : \E o \in All : o \notin R /\ index[o].depth = d}
<1>1. index = [o \in All |-> [pack |-> Shallowest(o), depth |-> Row1(o).depth,
                              base |-> Row1(o).base]]
  BY DEF Rebuilt
<1>2. ASSUME NEW o \in All
      PROVE  /\ Shallowest(o) \in Surviving
             /\ o \in DOMAIN record[Shallowest(o)]
             /\ Row1(o) \in Record
             /\ \A j \in Copies(o) : Row1(o).depth <= record[j][o].depth
  <2>1. /\ Shallowest(o) \in Copies(o)
        /\ \A j \in Copies(o) : record[Shallowest(o)][o].depth <= record[j][o].depth
    BY ShallowestCopy DEF IInv
  <2>2. Shallowest(o) \in Surviving /\ o \in DOMAIN record[Shallowest(o)]
    BY <2>1 DEF Copies
  <2>3. Shallowest(o) \in Ids
    BY <2>2 DEF Surviving, InPacks, InQuarantine
  <2> QED BY <2>1, <2>2, <2>3 DEF IInv, TypeOK, IsIndex
<1> HIDE DEF index
<1>3. /\ DOMAIN index = All
      /\ \A o \in All : /\ index[o].pack = Shallowest(o)
                        /\ index[o].depth = Row1(o).depth
                        /\ index[o].base = Row1(o).base
  BY <1>1
<1>4. \A o \in DOMAIN index : index[o].depth \in 0..MaxDepth
  BY <1>2, <1>3 DEF Record
<1>5. \A o \in DOMAIN index :
        o \in R <=> /\ Whole(record, index, Surviving, {}, o)
                    /\ \/ index[o].depth = 0 /\ index[o].base = NoBase
                       \/ /\ index[o].depth # 0
                          /\ index[o].base \in R
                          /\ index[index[o].base].depth < index[o].depth
  BY <1>4, ReadsWhat
<1>6. ASSUME NEW o \in All
      PROVE  Whole(record, index, Surviving, {}, o)
  <2>1. Row1(o) = [depth |-> Row1(o).depth, base |-> Row1(o).base]
    BY <1>2 DEF Record
  <2> QED BY <1>2, <1>3, <2>1 DEF Whole
<1> HIDE DEF R, All
<1>7. Lost = {}
  <2> SUFFICES ASSUME Lost # {} PROVE FALSE
    OBVIOUS
  <2>1. PICK m \in Lost : \A n \in Lost : m <= n
    <3>1. Lost \in SUBSET Nat
      BY RepositoryAssumption DEF RepositoryAssumption
    <3> HIDE DEF Lost
    <3> QED BY <3>1, LeastNumber
  <2>2. PICK o \in All : o \notin R /\ index[o].depth = m
    BY <2>1
  <2>3. Row1(o) # Full
    BY <1>3, <1>5, <1>6, <2>2 DEF Full
  <2> DEFINE b == Row1(o).base
  <2>4. PICK j \in Surviving : b \in DOMAIN record[j] /\ record[j][b].depth < Row1(o).depth
    BY <1>2, <2>3 DEF Descends
  <2>5. b \in All /\ j \in Copies(b) /\ record[j][b] \in Record
    <3>1. j \in Ids
      BY DEF Surviving, InPacks, InQuarantine
    <3> QED BY <2>4, <3>1 DEF All, Copies, IInv, TypeOK, IsIndex
  <2>6. Row1(b).depth <= record[j][b].depth /\ Row1(b) \in Record /\ Row1(o) \in Record
    BY <1>2, <2>5
  <2>7. /\ Row1(b).depth \in Nat /\ Row1(o).depth \in Nat /\ record[j][b].depth \in Nat
    BY <2>5, <2>6 DEF Record
  <2> HIDE DEF b
  <2>8. index[b].depth < index[o].depth /\ index[o].depth # 0
    BY <1>3, <2>2, <2>4, <2>5, <2>6, <2>7
  <2>9. b \in R
    <3>1. b \notin R => index[b].depth \in Lost
      BY <1>3, <1>4, <2>5
    <3>2. ~(m <= index[b].depth)
      BY <1>3, <2>2, <2>5, <2>7, <2>8
    <3> QED BY <2>1, <3>1, <3>2
  <2> QED BY <1>3, <1>5, <1>6, <2>2, <2>8, <2>9 DEF b
<1>8. All \subseteq R
  BY <1>3, <1>4, <1>7
<1> QED BY <1>8, ReadsIsReadsOf DEF All, R, index

\* A lost index is rebuilt from the packs alone, failed saves and quarantined
\* packs among them: every committed version can be read again (recovery.py).
THEOREM RebuildingRestores == Spec => []RebuildRestores
<1>1. FullInv => RebuildRestores
  <2> SUFFICES ASSUME FullInv, damaged = {}, NEW v \in 1..Len(versions),
                      NEW o \in versions[v].layout
               PROVE  o \in Reads(Rebuilt(Empty), Surviving, {})
    BY DEF RebuildRestores
  <2>1. o \in DOMAIN row
    BY DEF FullInv, IInv, VersionsRestorable
  <2>2. o \in Objects /\ row[o].pack \in Copies(o)
    BY <2>1, RowSurvives DEF FullInv, IInv, TypeOK, IsIndex, Copies
  <2> QED BY <2>2, RebuiltReads DEF FullInv
<1> QED BY <1>1, InitFull, StepFull, PTL DEF Spec

---------------------------------------------------------------------------
(***************************************************************************)
(* HistoryOrder: the versions of one repository as the history shows them. *)
(***************************************************************************)

\* The list: without a timeline every position is 0, and with one each stored
\* version, and nothing else, has a position of its own.
PlaceInv ==
  /\ ~ordered => \A o \in Ordinals : position[o] = 0
  /\ ordered => /\ \A o \in Stored : position[o] \in 1..Len(rows)
                /\ \A o, p \in Stored : position[o] = position[p] => o = p
                /\ \A o \in Ordinals \ Stored : position[o] = 0

\* A version is hidden for the next one, which may itself be hidden for its next.
HiddenInv ==
  \A o \in Ordinals : hidden[o] # 0 =>
    /\ o \in Stored /\ o + 1 \in Stored
    /\ rows[o].kind = "baseline" /\ rows[o + 1].kind = "baseline"
    /\ rows[o].content = rows[o + 1].content
    /\ Place(o) < Place(o + 1)

ParentInv ==
  /\ \A o \in Stored : rows[o].parent # 0 => rows[o].parent \in Stored
  /\ ParentsPrecede

ListInv == PlaceInv /\ HiddenInv /\ ParentInv

\* A prepared save has room, and nothing is imported beside it.
WriterInv ==
  save # NoSave => /\ Len(rows) < MaxRows
                   /\ job # NoJob => job.pc = "ending"

\* What is imported, and the versions in front of which it is.
ItemInv ==
  /\ \A b \in Batches : anchor[b] # 0 => anchor[b] \in Stored
  /\ \A b \in Batches, i \in Items : imported[b][i] # 0 =>
       imported[b][i] \in Stored /\ anchor[b] # 0
  /\ ImportedOnce
  /\ PlanInOrder

Unconfirmed == {"none", "draft"}

\* What the file of a plan says of its items is so.
Truthful(b, f) ==
  /\ \A i \in 1..f.done : IsImported(b, i)
  /\ f.status = "completed" => f.done = BatchSize

PlanOk(b) ==
  /\ Truthful(b, plan[b].file)
  /\ plan[b].queued \subseteq 1..plan[b].asked
  /\ plan[b].asked # 0 => /\ anchor[b] # 0 /\ plan[b].file.named # 0
                          /\ Status(b) \notin Unconfirmed
  /\ Status(b) \notin Unconfirmed \cup {"removed"} => anchor[b] # 0
  /\ Status(b) = "running" => plan[b].asked # 0
  /\ Status(b) \in Unconfirmed => \A i \in Items : ~IsImported(b, i)

PlanInv == \A b \in Batches : PlanOk(b)

\* What an import writes back is as true as what it has read.
CopyOk(b, f) ==
  /\ f.status \notin Unconfirmed \cup {"removed"}
  /\ f.named # 0
  /\ Truthful(b, f)

\* The running import has imported the items before the one it is at, and is
\* the one that the plan names unless there is a later one.
JobOk(b) ==
  /\ job.id <= plan[b].asked
  /\ job.pc # "ending" => /\ job.next <= BatchSize
                          /\ \A i \in 1..job.next - 1 : IsImported(b, i)
                          /\ plan[b].file.named = job.id => Status(b) = "running"
  /\ job.pc = "prepared" => ordered /\ ~IsImported(b, job.next)
  /\ job.pc = "committed" => IsImported(b, job.next)
  /\ job.pc \in {"begun", "prepared", "committed"} =>
       /\ job.copy.named = job.id => job.copy.status = "running"
       /\ CopyOk(b, job.copy)
  /\ job.pc = "ending" /\ Status(b) # "removed" => CopyOk(b, job.copy)

JobInv == job # NoJob => JobOk(job.batch)

OrderInv ==
  StoreTypeOK /\ ListInv /\ WriterInv /\ ItemInv /\ PlanInv /\ JobInv

---------------------------------------------------------------------------
(* The places of the versions.                                             *)

LEMMA OrderConstants ==
  /\ BatchSize \in Nat /\ BatchSize # 0
  /\ MaxRows \in Nat /\ MaxAsked \in Nat /\ MaxTroubles \in Nat
  /\ "none" \notin Batches
BY OrderAssumption DEF OrderAssumption

LEMMA RowsStored ==
  ASSUME StoreTypeOK
  PROVE  /\ Len(rows) \in Nat /\ DOMAIN rows = Stored
         /\ Stored \subseteq Ordinals
         /\ \A o \in Stored : o \in Nat /\ o # 0 /\ o <= Len(rows)
         /\ \A o \in Stored : rows[o] \in Version
BY OrderConstants DEF StoreTypeOK, Stored, Ordinals

LEMMA PlacesDiffer ==
  ASSUME StoreTypeOK, PlaceInv
  PROVE  /\ \A o \in Stored : Place(o) \in 1..Len(rows) /\ Place(o) \in Nat /\ Place(o) # 0
         /\ \A o, p \in Stored : Place(o) = Place(p) => o = p
<1>1. ASSUME NEW o \in Stored PROVE Place(o) \in 1..Len(rows)
  BY RowsStored DEF Place, PlaceInv, Stored
<1>2. Len(rows) \in Nat
  BY RowsStored
<1>3. \A o, p \in Stored : Place(o) = Place(p) => o = p
  BY DEF Place, PlaceInv
<1> QED BY <1>1, <1>2, <1>3

\* A version is listed unless it is hidden.
LEMMA ListedIs ==
  ASSUME StoreTypeOK, PlaceInv
  PROVE  Listed = {o \in Stored : hidden[o] = 0}
BY PlacesDiffer DEF Listed

\* Of a set of stored versions that is not empty there is a newest.
LEMMA NewestIs ==
  ASSUME StoreTypeOK, PlaceInv, NEW S \in SUBSET Stored, S # {}
  PROVE  Newest(S) \in S /\ \A p \in S : Place(p) <= Place(Newest(S))
<1> DEFINE Under == {Len(rows) - Place(o) : o \in S}
<1>0. Len(rows) \in Nat
  BY RowsStored
<1>1. \A o \in S : Place(o) \in Nat /\ Len(rows) - Place(o) \in Nat
  BY <1>0, PlacesDiffer
<1>2. Under \in SUBSET Nat /\ Under # {}
  BY <1>1
<1> HIDE DEF Under
<1>3. PICK m \in Under : \A n \in Under : m <= n
  BY <1>2, LeastNumber
<1>4. PICK o \in S : m = Len(rows) - Place(o)
  BY <1>3 DEF Under
<1>5. ASSUME NEW p \in S PROVE Place(p) <= Place(o)
  <2>1. Len(rows) - Place(o) <= Len(rows) - Place(p)
    BY <1>3, <1>4 DEF Under
  <2> QED BY <1>0, <1>1, <2>1
<1> QED BY <1>5 DEF Newest

LEMMA HeadIs ==
  ASSUME StoreTypeOK, PlaceInv
  PROVE  /\ HeadVersion \in Listed \cup {0}
         /\ Listed # {} => HeadVersion \in Listed
         /\ \A p \in Listed : Place(p) <= Place(HeadVersion)
<1>1. Listed \in SUBSET Stored
  BY DEF Listed
<1>2. CASE Listed = {}
  BY <1>2 DEF HeadVersion, Newest
<1>3. CASE Listed # {}
  BY <1>1, <1>3, NewestIs DEF HeadVersion
<1> QED BY <1>2, <1>3

LEMMA PredecessorIs ==
  ASSUME StoreTypeOK, PlaceInv, NEW o
  PROVE  \/ Predecessor(o) = 0
         \/ Predecessor(o) \in Listed /\ Place(Predecessor(o)) < Place(o)
<1> DEFINE S == {p \in Listed : Place(p) < Place(o)}
<1>1. S \in SUBSET Stored
  BY DEF Listed
<1>2. CASE S = {}
  BY <1>2 DEF Predecessor, Newest
<1>3. CASE S # {}
  <2> HIDE DEF S
  <2>1. Newest(S) \in S
    BY <1>1, <1>3, NewestIs
  <2> QED BY <2>1 DEF S, Predecessor
<1> QED BY <1>2, <1>3

\* Behind a hidden version a visible one of the same content is shown.
LEMMA TwinShown ==
  ASSUME StoreTypeOK, ListInv
  PROVE  HiddenHasTwin
<1> DEFINE Twin(o) == /\ rows[o].kind = "baseline"
                      /\ \E p \in Listed : /\ rows[p].content = rows[o].content
                                           /\ rows[p].kind = "baseline"
                                           /\ Place(o) < Place(p)
           Bad == {o \in Stored : hidden[o] # 0 /\ ~Twin(o)}
           Under == {Len(rows) - o : o \in Bad}
<1>0. Len(rows) \in Nat /\ \A o \in Stored : o \in Nat /\ Len(rows) - o \in Nat
  BY RowsStored
<1>1. ASSUME Bad # {} PROVE FALSE
  <2>1. Under \in SUBSET Nat /\ Under # {}
    BY <1>0, <1>1
  <2>2. PICK m \in Under : \A n \in Under : m <= n
    <3> HIDE DEF Under
    <3> QED BY <2>1, LeastNumber
  <2>3. PICK o \in Bad : m = Len(rows) - o
    BY <2>2
  <2>4. /\ o \in Stored /\ o + 1 \in Stored
        /\ rows[o].kind = "baseline" /\ rows[o + 1].kind = "baseline"
        /\ rows[o].content = rows[o + 1].content
        /\ Place(o) < Place(o + 1)
    BY <2>3, RowsStored DEF ListInv, HiddenInv
  <2>5. o + 1 \notin Bad
    <3>1. ASSUME o + 1 \in Bad PROVE FALSE
      <4>1. Len(rows) - o <= Len(rows) - (o + 1)
        BY <2>2, <2>3, <3>1
      <4> QED BY <1>0, <2>4, <4>1
    <3> QED BY <3>1
  <2>6. Listed = {q \in Stored : hidden[q] = 0}
    BY ListedIs DEF ListInv
  <2>7. CASE hidden[o + 1] = 0
    <3>1. o + 1 \in Listed
      BY <2>4, <2>6, <2>7
    <3> QED BY <2>3, <2>4, <3>1
  <2>8. CASE hidden[o + 1] # 0
    <3>1. Twin(o + 1)
      BY <2>4, <2>5, <2>8
    <3>2. PICK p \in Listed : /\ rows[p].content = rows[o + 1].content
                              /\ rows[p].kind = "baseline"
                              /\ Place(o + 1) < Place(p)
      BY <3>1
    <3>3. Place(o) < Place(p)
      <4>1. Place(o) \in Nat /\ Place(o + 1) \in Nat /\ Place(p) \in Nat
        BY <2>4, <2>6, <3>2, PlacesDiffer DEF ListInv
      <4> QED BY <2>4, <3>2, <4>1
    <3>4. Twin(o)
      BY <2>4, <3>2, <3>3
    <3> QED BY <2>3, <3>4
  <2> QED BY <2>7, <2>8
<1> QED BY <1>1 DEF HiddenHasTwin

LEMMA PlacedIs ==
  ASSUME StoreTypeOK, ListInv
  PROVE  VersionsPlaced
<1>1. EveryVersionRead
  BY PlacesDiffer DEF ListInv, EveryVersionRead
<1>2. PlacesDistinct
  BY PlacesDiffer DEF ListInv, PlacesDistinct
<1> QED BY <1>1, <1>2, TwinShown DEF ListInv, ParentInv, VersionsPlaced

---------------------------------------------------------------------------
(* How the list changes.                                                   *)

\* The versions that were stored stay as they are, in the order they had.
Preserved ==
  /\ Stored \subseteq Stored'
  /\ \A o \in Stored : rows'[o] = rows[o]
  /\ \A o, p \in Stored : Place(o) < Place(p) <=> Place(o)' < Place(p)'

\* With a timeline ensure() has nothing to do, and without one it changes no place.
LEMMA EnsuredIs ==
  ASSUME StoreTypeOK, PlaceInv
  PROVE  /\ \A o \in Stored : Ensured[o] = Place(o)
         /\ \A o \in Ordinals \ Stored : Ensured[o] = 0
         /\ Ensured \in [Ordinals -> 0..MaxRows]
         /\ ordered => Ensured = position
<1>1. \A o \in Stored : Ensured[o] = Place(o)
  BY RowsStored DEF Ensured, Place, PlaceInv, StoreTypeOK
<1>2. \A o \in Ordinals \ Stored : Ensured[o] = 0
  BY DEF Ensured, PlaceInv
<1>3. Ensured \in [Ordinals -> 0..MaxRows]
  BY OrderConstants DEF Ensured, StoreTypeOK, Ordinals
<1>4. ordered => Ensured = position
  <2>1. ordered => \A o \in Ordinals : Ensured[o] = position[o]
    BY RowsStored DEF Ensured, PlaceInv
  <2>2. position = [o \in Ordinals |-> position[o]]
    BY DEF StoreTypeOK
  <2> QED BY <1>3, <2>1, <2>2 DEF Ensured
<1> QED BY <1>1, <1>2, <1>3, <1>4

\* Who is the newest of the list is its head.
LEMMA HeadAfter ==
  ASSUME PlaceInv', Len(rows') \in Nat, NEW h, h \in Listed',
         \A p \in Listed' : Place(p)' <= Place(h)'
  PROVE  HeadVersion' = h
<1>1. Listed' # {}
  OBVIOUS
<1>2. HeadVersion' = CHOOSE o \in Listed' : \A p \in Listed' : Place(p)' <= Place(o)'
  BY <1>1 DEF HeadVersion, Newest
<1>3. ASSUME NEW x \in Listed', \A p \in Listed' : Place(p)' <= Place(x)'
      PROVE  x = h
  <2>1. Place(x)' <= Place(h)' /\ Place(h)' <= Place(x)'
    BY <1>3
  <2>2. x \in Stored' /\ h \in Stored'
    BY DEF Listed
  <2>4. Place(x)' \in Nat /\ Place(h)' \in Nat
    BY <2>2 DEF Place, PlaceInv, Stored
  <2>5. Place(x)' = Place(h)'
    BY <2>1, <2>4
  <2> QED BY <2>2, <2>5 DEF Place, PlaceInv
<1> QED BY <1>2, <1>3

LEMMA HeadSame ==
  ASSUME StoreTypeOK, PlaceInv, PlaceInv', Len(rows') \in Nat, Listed' = Listed,
         \A o \in Listed : Place(o)' = Place(o)
  PROVE  HeadVersion' = HeadVersion
<1>1. CASE Listed = {}
  BY <1>1 DEF HeadVersion, Newest
<1>2. CASE Listed # {}
  <2>1. HeadVersion \in Listed /\ \A p \in Listed : Place(p) <= Place(HeadVersion)
    BY <1>2, HeadIs
  <2>2. PICK h \in Listed : h = HeadVersion
    BY <2>1
  <2>3. \A p \in Listed' : Place(p)' <= Place(h)'
    BY <2>1, <2>2
  <2> QED BY <2>2, <2>3, HeadAfter
<1> QED BY <1>1, <1>2

LEMMA ListUnchanged ==
  ASSUME StoreTypeOK, ListInv, UNCHANGED <<rows, ordered, position, hidden>>
  PROVE  /\ ListInv' /\ Preserved /\ HeadVersion' = HeadVersion
         /\ \A o : Place(o)' = Place(o)
<1>1. \A o : Place(o)' = Place(o)
  BY DEF Place
<1>2. Stored' = Stored
  BY DEF Stored
<1>3. PlaceInv' /\ HiddenInv' /\ ParentInv'
  BY <1>1, <1>2 DEF ListInv, PlaceInv, HiddenInv, ParentInv, ParentsPrecede
<1>4. Preserved
  BY <1>1, <1>2 DEF Preserved
<1>5. HeadVersion' = HeadVersion
  <2>1. Listed' = Listed
    BY <1>1, <1>2 DEF Listed
  <2>2. Len(rows') \in Nat
    BY RowsStored
  <2> QED BY <1>1, <1>3, <2>1, <2>2, HeadSame DEF ListInv
<1> QED BY <1>1, <1>3, <1>4, <1>5 DEF ListInv

\* ensure(): the timeline is there, and shows what the ordinals have shown.
LEMMA ListEnsured ==
  ASSUME StoreTypeOK, ListInv, EnsureTimeline, UNCHANGED <<rows, hidden>>
  PROVE  /\ ListInv' /\ Preserved /\ HeadVersion' = HeadVersion
         /\ position' \in [Ordinals -> 0..MaxRows] /\ ordered'
         /\ Listed' = Listed /\ \A o \in Stored : Place(o)' = Place(o)
<1>1. ordered' = TRUE /\ position' = Ensured /\ Stored' = Stored
  BY DEF EnsureTimeline, Stored
<1>2. /\ \A o \in Stored : position'[o] = Place(o)
      /\ \A o \in Ordinals \ Stored : position'[o] = 0
      /\ position' \in [Ordinals -> 0..MaxRows]
  BY <1>1, EnsuredIs DEF ListInv
<1>3. \A o \in Stored : Place(o)' = Place(o)
  BY <1>1, <1>2 DEF Place
<1>4. PlaceInv'
  BY <1>1, <1>2, PlacesDiffer DEF ListInv, PlaceInv
<1>5. HiddenInv'
  BY <1>1, <1>3 DEF ListInv, HiddenInv
<1>6. ParentInv'
  BY <1>1, <1>3 DEF ListInv, ParentInv, ParentsPrecede
<1>7. Preserved
  BY <1>1, <1>3 DEF Preserved
<1>8. Listed' = Listed
  <2>1. Listed = {o \in Stored : hidden[o] = 0}
    BY ListedIs DEF ListInv
  <2>2. Listed' = {o \in Stored : hidden[o] = 0}
    BY <1>1, <1>3, PlacesDiffer DEF ListInv, Listed
  <2> QED BY <2>1, <2>2
<1>9. HeadVersion' = HeadVersion
  <2>1. \A o \in Listed : Place(o)' = Place(o)
    BY <1>3 DEF Listed
  <2>2. Len(rows') \in Nat
    BY RowsStored
  <2> QED BY <1>4, <1>8, <2>1, <2>2, HeadSame DEF ListInv
<1> QED BY <1>1, <1>2, <1>3, <1>4, <1>5, <1>6, <1>7, <1>8, <1>9 DEF ListInv

\* A version behind all others.
LEMMA ListAppended ==
  ASSUME StoreTypeOK, ListInv, Len(rows) < MaxRows, NEW v \in Version,
         v.parent # 0 => v.parent \in Stored,
         rows' = Append(rows, v), position' = Appended, UNCHANGED <<ordered, hidden>>
  PROVE  /\ ListInv' /\ Preserved
         /\ position' \in [Ordinals -> 0..MaxRows]
         /\ rows' \in Seq(Version) /\ Len(rows') <= MaxRows
         /\ Len(rows') = Len(rows) + 1 /\ rows'[Len(rows) + 1] = v
         /\ Len(rows) + 1 \notin Stored
         /\ \A o \in Stored : Place(o)' = Place(o) /\ Place(o)' < Place(Len(rows))'
         /\ hidden'[Len(rows) + 1] = 0
         /\ Stored' = Stored \cup {Len(rows) + 1}
<1> DEFINE n == Len(rows) + 1
<1>1. /\ rows \in Seq(Version) /\ Len(rows) \in Nat /\ MaxRows \in Nat
      /\ n \in Nat /\ n <= MaxRows /\ n \in Ordinals /\ n \notin Stored
      /\ Stored \subseteq Ordinals
  BY OrderConstants, RowsStored DEF StoreTypeOK, Ordinals, Stored
<1>2. /\ rows' \in Seq(Version) /\ Len(rows') = n /\ rows'[n] = v
      /\ \A o \in Stored : rows'[o] = rows[o]
      /\ Stored' = Stored \cup {n}
  BY <1>1 DEF Stored
<1>3. ~ordered => \A o \in Ordinals : position'[o] = 0
  BY DEF Appended, ListInv, PlaceInv
<1>4. ordered => /\ \A o \in Stored : position'[o] = position[o] /\ position[o] \in 1..Len(rows)
                 /\ \A o \in Ordinals \ (Stored \cup {n}) : position'[o] = 0
                 /\ \A o \in Stored : position[o] < position'[n]
                 /\ position'[n] \in 1..n
  <2> SUFFICES ASSUME ordered
               PROVE  /\ \A o \in Stored : position'[o] = position[o] /\ position[o] \in 1..Len(rows)
                      /\ \A o \in Ordinals \ (Stored \cup {n}) : position'[o] = 0
                      /\ \A o \in Stored : position[o] < position'[n]
                      /\ position'[n] \in 1..n
    OBVIOUS
  <2>1. /\ \A o \in Stored : position[o] \in 1..Len(rows)
        /\ \A o \in Ordinals \ Stored : position[o] = 0
    BY DEF ListInv, PlaceInv
  <2>2. position' = [position EXCEPT ![n] = LastPlace + 1] /\ position \in [Ordinals -> 0..MaxRows]
    BY DEF Appended, StoreTypeOK
  <2>3. LastPlace \in 0..Len(rows) /\ \A o \in Stored : position[o] <= LastPlace
    <3>1. CASE Stored = {}
      BY <1>1, <3>1 DEF LastPlace
    <3>2. CASE Stored # {}
      <4> DEFINE N == Newest(Stored)
      <4>1. N \in Stored /\ \A o \in Stored : Place(o) <= Place(N)
        BY <3>2, NewestIs DEF ListInv
      <4>2. \A o \in Stored : position[o] <= position[N]
        BY <4>1 DEF Place
      <4>3. \E o \in Stored : position[o] > 0
        BY <1>1, <2>1, <4>1
      <4>4. LastPlace = CHOOSE k \in {position[o] : o \in Stored} :
                          \A o \in Stored : position[o] <= k
        BY <4>3 DEF LastPlace
      <4> HIDE DEF N
      <4>5. LastPlace \in {position[o] : o \in Stored} /\ \A o \in Stored : position[o] <= LastPlace
        BY <4>1, <4>2, <4>4
      <4> QED BY <1>1, <2>1, <4>5
    <3> QED BY <3>1, <3>2
  <2>4. position'[n] = LastPlace + 1
    BY <1>1, <2>2
  <2>5. \A o \in Ordinals : o # n => position'[o] = position[o]
    BY <2>2
  <2>6. \A o \in Stored : o # n /\ o \in Ordinals
    BY <1>1
  <2>7. \A o \in Stored : position[o] < LastPlace + 1
    BY <1>1, <2>1, <2>3
  <2>8. LastPlace + 1 \in 1..n
    BY <1>1, <2>3
  <2> HIDE DEF n
  <2> QED BY <2>1, <2>4, <2>5, <2>6, <2>7, <2>8
<1>5. position' \in [Ordinals -> 0..MaxRows]
  <2>1. CASE ordered
    <3>1. position' = [position EXCEPT ![n] = LastPlace + 1] /\ position \in [Ordinals -> 0..MaxRows]
      BY <2>1 DEF Appended, StoreTypeOK
    <3>2. position'[n] = LastPlace + 1
      BY <1>1, <3>1
    <3>3. position'[n] \in 0..MaxRows
      BY <1>1, <1>4, <2>1
    <3> QED BY <3>1, <3>2, <3>3
  <2>2. CASE ~ordered
    BY <2>2 DEF Appended, StoreTypeOK
  <2> QED BY <2>1, <2>2
<1>6. \A o \in Stored : Place(o)' = Place(o) /\ Place(o)' < Place(Len(rows))'
  <2>1. CASE ordered
    BY <1>2, <1>4, <2>1 DEF Place
  <2>2. CASE ~ordered
    BY <1>1, <1>2, <2>2, RowsStored DEF Place
  <2> QED BY <2>1, <2>2
<1>7. PlaceInv'
  <2>1. CASE ordered
    <3>1. \A o \in Stored \cup {n} : position'[o] \in 1..n
      BY <1>1, <1>4, <2>1
    <3>2. \A o, p \in Stored \cup {n} : position'[o] = position'[p] => o = p
      <4>1. \A o, p \in Stored : position[o] = position[p] => o = p
        BY <2>1 DEF ListInv, PlaceInv
      <4>2. \A o \in Stored : position'[o] # position'[n]
        BY <1>1, <1>4, <2>1
      <4> QED BY <1>4, <2>1, <4>1, <4>2
    <3>3. \A o \in Ordinals \ (Stored \cup {n}) : position'[o] = 0
      BY <1>4, <2>1
    <3> HIDE DEF n
    <3> QED BY <1>2, <2>1, <3>1, <3>2, <3>3 DEF PlaceInv
  <2>2. CASE ~ordered
    BY <1>3, <2>2 DEF PlaceInv
  <2> QED BY <2>1, <2>2
<1>8. HiddenInv'
  BY <1>2, <1>6 DEF ListInv, HiddenInv
<1>9. ParentInv'
  <2>1. \A o \in Stored : rows[o].parent # 0 => rows[o].parent \in Stored /\ Place(rows[o].parent) < Place(o)
    BY DEF ListInv, ParentInv, ParentsPrecede
  <2> HIDE DEF n
  <2>2. ASSUME NEW o \in Stored, rows[o].parent # 0
        PROVE  rows[o].parent \in Stored /\ rows'[o] = rows[o] /\ Place(rows[o].parent)' < Place(o)'
    <3>1. PICK p \in Stored : p = rows[o].parent
      BY <2>1, <2>2
    <3>2. Place(p)' < Place(o)'
      BY <1>6, <2>1, <2>2, <3>1
    <3>3. rows'[o] = rows[o]
      BY <1>2
    <3> QED BY <3>1, <3>2, <3>3
  <2>3. ASSUME NEW o, o = n, v.parent # 0
        PROVE  v.parent \in Stored /\ Place(v.parent)' < Place(o)'
    <3>1. Place(o)' = Place(Len(rows))'
      BY <1>2, <2>3 DEF Place
    <3>2. PICK p \in Stored : p = v.parent
      BY <2>3
    <3>3. Place(p)' < Place(o)'
      BY <1>6, <3>1
    <3> QED BY <3>2, <3>3
  <2>4. ASSUME NEW o \in Stored', rows'[o].parent # 0
        PROVE  rows'[o].parent \in Stored /\ Place(rows[o].parent)' < Place(o)'
    <3>1. CASE o \in Stored
      <4>1. rows'[o] = rows[o]
        BY <1>2, <3>1
      <4> QED BY <2>2, <2>4, <3>1, <4>1
    <3>2. CASE o = n
      <4>1. rows'[o] = v
        BY <1>2, <3>2
      <4> QED BY <2>3, <2>4, <3>2, <4>1
    <3> QED BY <1>2, <2>4, <3>1, <3>2
  <2> QED BY <1>2, <2>4 DEF ParentInv, ParentsPrecede
<1>10. Preserved
  BY <1>2, <1>6 DEF Preserved
<1>11. hidden'[n] = 0
  <2>1. \A o \in Ordinals : hidden[o] # 0 => o \in Stored
    BY DEF ListInv, HiddenInv
  <2> QED BY <1>1, <2>1
<1> QED BY <1>1, <1>2, <1>5, <1>6, <1>7, <1>8, <1>9, <1>10, <1>11 DEF ListInv

\* publish() with an anchor: the version stands between the anchor and what
\* was in front of it, and the head stays.
LEMMA ListInserted ==
  ASSUME StoreTypeOK, ListInv, ordered, Len(rows) < MaxRows, NEW a \in Stored,
         NEW v \in Version, v.parent = Predecessor(a),
         rows' = Append(rows, v), position' = InsertedBefore(a), UNCHANGED <<ordered, hidden>>
  PROVE  /\ ListInv' /\ Preserved /\ HeadVersion' = HeadVersion
         /\ position' \in [Ordinals -> 0..MaxRows]
         /\ rows' \in Seq(Version) /\ Len(rows') <= MaxRows
         /\ Len(rows') = Len(rows) + 1 /\ rows'[Len(rows) + 1] = v
         /\ Len(rows) + 1 \notin Stored
         /\ Stored' = Stored \cup {Len(rows) + 1}
         /\ Place(Len(rows))' < Place(a)'
         /\ \A p \in Stored : Place(p) < Place(a) => Place(p)' < Place(Len(rows))'
<1> DEFINE n == Len(rows) + 1
<1>1. /\ rows \in Seq(Version) /\ Len(rows) \in Nat /\ MaxRows \in Nat
      /\ n \in Nat /\ n <= MaxRows /\ n \in Ordinals /\ n \notin Stored
      /\ Stored \subseteq Ordinals
  BY OrderConstants, RowsStored DEF StoreTypeOK, Ordinals, Stored
<1>2. /\ rows' \in Seq(Version) /\ Len(rows') = n /\ rows'[n] = v
      /\ \A o \in Stored : rows'[o] = rows[o]
      /\ Stored' = Stored \cup {n}
  BY <1>1 DEF Stored
<1> HIDE DEF n
<1>3. /\ \A o \in Stored : position[o] \in 1..Len(rows)
      /\ \A o, p \in Stored : position[o] = position[p] => o = p
      /\ \A o \in Ordinals \ Stored : position[o] = 0
  BY DEF ListInv, PlaceInv
<1>4. /\ position'[n] = position[a]
      /\ \A o \in Stored : position[o] >= position[a] => position'[o] = position[o] + 1
      /\ \A o \in Stored : ~(position[o] >= position[a]) => position'[o] = position[o]
      /\ \A o \in Ordinals \ (Stored \cup {n}) : position'[o] = 0
  BY <1>1, <1>3 DEF InsertedBefore, n
<1>5. \A o \in Ordinals : position'[o] \in 0..n
  BY <1>1, <1>3, <1>4 DEF n
<1>6. position' \in [Ordinals -> 0..MaxRows]
  <2>1. position' = [o \in Ordinals |-> position'[o]]
    BY DEF InsertedBefore
  <2>2. 0..n \subseteq 0..MaxRows
    BY <1>1
  <2> QED BY <1>5, <2>1, <2>2
<1>7. \A o, p \in Stored : position[o] < position[p] <=> position'[o] < position'[p]
  BY <1>1, <1>3, <1>4
<1>8. position'[n] < position'[a]
  BY <1>1, <1>3, <1>4
<1>9. \A p \in Stored : position[p] < position[a] <=> position'[p] < position'[n]
  BY <1>1, <1>3, <1>4
<1>10. \A p \in Stored : position'[p] # position'[n] /\ position'[p] \in 1..n /\ position'[n] \in 1..n
  BY <1>1, <1>3, <1>4 DEF n
<1>11. /\ \A o \in Stored : Place(o) = position[o]
       /\ \A o : Place(o)' = position'[o]
       /\ Place(Len(rows))' = position'[n]
  BY <1>2 DEF Place
<1>12. PlaceInv'
  <2>1. ASSUME NEW o \in Stored, NEW p \in Stored, position'[o] = position'[p]
        PROVE  o = p
    <3>1. ~(position[o] < position[p]) /\ ~(position[p] < position[o])
      BY <1>7, <1>10, <2>1
    <3> QED BY <1>3, <3>1
  <2> QED BY <1>2, <1>4, <1>10, <2>1 DEF PlaceInv
<1>13. Preserved
  BY <1>2, <1>7, <1>11 DEF Preserved
<1>14. HiddenInv'
  BY <1>2, <1>7, <1>11 DEF ListInv, HiddenInv
<1>15. ParentInv'
  <2>1. \A o \in Stored : rows[o].parent # 0 => rows[o].parent \in Stored /\ Place(rows[o].parent) < Place(o)
    BY DEF ListInv, ParentInv, ParentsPrecede
  <2>2. v.parent # 0 => v.parent \in Stored /\ position'[v.parent] < position'[n]
    <3>1. v.parent # 0 => v.parent \in Stored /\ Place(v.parent) < Place(a)
      BY PredecessorIs DEF ListInv, Listed
    <3> QED BY <1>9, <1>11, <3>1
  <2>3. ASSUME NEW o \in Stored, rows[o].parent # 0
        PROVE  rows[o].parent \in Stored /\ position'[rows[o].parent] < position'[o]
    <3>1. rows[o].parent \in Stored /\ position[rows[o].parent] < position[o]
      BY <1>11, <2>1, <2>3
    <3> QED BY <1>7, <3>1
  <2>4. \A o \in Stored \cup {n} : rows'[o].parent # 0 =>
          /\ rows'[o].parent \in Stored
          /\ position'[rows'[o].parent] < position'[o]
    BY <1>2, <2>2, <2>3
  <2> QED BY <1>2, <1>11, <2>4 DEF ParentInv, ParentsPrecede
<1>16. HeadVersion' = HeadVersion
  <2>1. Listed = {o \in Stored : hidden[o] = 0}
    BY ListedIs DEF ListInv
  <2>2. \E q \in Listed : Place(a) <= Place(q)
    <3>1. CASE hidden[a] = 0
      BY <1>1, <1>3, <1>11, <2>1, <3>1
    <3>2. CASE hidden[a] # 0
      <4>1. PICK q \in Listed : Place(a) < Place(q)
        BY <3>2, TwinShown DEF HiddenHasTwin
      <4> QED BY <1>1, <1>3, <1>11, <2>1, <4>1
    <3> QED BY <3>1, <3>2
  <2>3. PICK h \in Listed : h = HeadVersion
    BY <2>2, HeadIs DEF ListInv
  <2>4. \A p \in Listed : Place(p) <= Place(h)
    BY <2>3, HeadIs DEF ListInv
  <2>5. position[a] <= position[h]
    BY <1>1, <1>3, <1>11, <2>1, <2>2, <2>4
  <2>6. Listed' = Listed \cup {n}
    <3>1. hidden[n] = 0
      BY <1>1 DEF ListInv, HiddenInv
    <3>2. n \notin Listed
      BY <1>1, <2>1
    <3>3. \A o \in Stored \cup {n} : Place(o)' > 0
      BY <1>1, <1>10, <1>11
    <3>4. Listed' = {o \in Stored \cup {n} : hidden[o] = 0}
      BY <1>2, <3>3 DEF Listed
    <3> QED BY <2>1, <3>1, <3>4
  <2>7. \A p \in Listed' : Place(p)' <= Place(h)'
    <3>1. \A p \in Listed : position'[p] <= position'[h]
      <4> SUFFICES ASSUME NEW p \in Listed PROVE position'[p] <= position'[h]
        OBVIOUS
      <4>1. p \in Stored /\ h \in Stored
        BY <2>1
      <4>2. position[p] <= position[h]
        BY <1>11, <2>4, <4>1
      <4>3. ~(position[h] < position[p])
        BY <1>3, <4>1, <4>2
      <4>4. ~(position'[h] < position'[p])
        BY <1>7, <4>1, <4>3
      <4>5. position'[p] \in 1..n /\ position'[h] \in 1..n
        BY <1>10, <4>1
      <4> QED BY <1>1, <4>4, <4>5
    <3>2. position'[n] <= position'[h]
      <4>1. ~(position'[h] < position'[a])
        BY <1>3, <1>7, <2>1, <2>5
      <4> QED BY <1>8, <1>10, <2>1, <4>1
    <3> QED BY <1>11, <2>6, <3>1, <3>2
  <2>8. Len(rows') \in Nat
    BY <1>1, <1>2
  <2> QED BY <1>12, <2>3, <2>6, <2>7, <2>8, HeadAfter
<1> QED BY <1>1, <1>2, <1>6, <1>8, <1>9, <1>11, <1>12, <1>13, <1>14, <1>15, <1>16 DEF ListInv, n

\* reconcile(): what is hidden has a visible twin behind it, and the head stays.
LEMMA ListReconciled ==
  ASSUME StoreTypeOK, ListInv, NEW last \in Ordinals, Reconcile(last)
  PROVE  /\ ListInv' /\ Preserved /\ HeadVersion' = HeadVersion
         /\ position' \in [Ordinals -> 0..MaxRows] /\ ordered'
         /\ hidden' \in [Ordinals -> 0..MaxRows]
         /\ revision' \in Nat /\ revision' > revision
         /\ \A o \in Stored : Place(o)' = Place(o)
<1> DEFINE found == {o \in 1..last : Redundant(o)}
<1>1. /\ ordered' = TRUE /\ position' = Ensured
      /\ hidden' = [o \in Ordinals |-> IF o \in found THEN o + 1 ELSE hidden[o]]
      /\ revision' = revision + Cardinality(found)
      /\ rows' = rows
  BY DEF Reconcile, EnsureTimeline
<1>2. \A o \in found : /\ o \in Stored /\ o + 1 \in Stored
                       /\ hidden[o] = 0
                       /\ rows[o].kind = "baseline" /\ rows[o + 1].kind = "baseline"
                       /\ rows[o].content = rows[o + 1].content
                       /\ Ensured[o] < Ensured[o + 1]
  <2>1. last \in Nat /\ Len(rows) \in Nat
    BY RowsStored, OrderConstants DEF Ordinals
  <2>2. \A o \in found : o + 1 \in Stored => o \in Stored
    BY <2>1 DEF Stored
  <2> QED BY <2>2 DEF Redundant
<1>3. revision' \in Nat /\ revision' > revision
  <2>1. last \in Nat
    BY OrderConstants DEF Ordinals
  <2>2. IsFiniteSet(1..last)
    BY <2>1, FS_Interval
  <2>3. IsFiniteSet(found)
    BY <2>2, FS_Subset
  <2>4. Cardinality(found) \in Nat /\ Cardinality(found) # 0
    BY <2>3, FS_CardinalityType, FS_EmptySet DEF Reconcile
  <2> HIDE DEF found
  <2> QED BY <1>1, <2>4 DEF StoreTypeOK
<1>4. hidden' \in [Ordinals -> 0..MaxRows]
  <2>1. \A o \in found : o + 1 \in 0..MaxRows
    BY <1>2, RowsStored, OrderConstants DEF Ordinals
  <2> HIDE DEF found
  <2> QED BY <1>1, <2>1 DEF StoreTypeOK
<1> HIDE DEF found
<1>5. Stored' = Stored
  BY <1>1 DEF Stored
<1>6. /\ \A o \in Stored : position'[o] = Place(o)
      /\ \A o \in Ordinals \ Stored : position'[o] = 0
      /\ position' \in [Ordinals -> 0..MaxRows]
  BY <1>1, EnsuredIs DEF ListInv
<1>7. \A o \in Stored : Place(o)' = Place(o)
  BY <1>1, <1>6 DEF Place
<1>8. PlaceInv'
  BY <1>1, <1>5, <1>6, PlacesDiffer DEF ListInv, PlaceInv
<1>9. HiddenInv'
  <2> SUFFICES ASSUME NEW o \in Ordinals, hidden'[o] # 0
               PROVE  /\ o \in Stored /\ o + 1 \in Stored
                      /\ rows[o].kind = "baseline" /\ rows[o + 1].kind = "baseline"
                      /\ rows[o].content = rows[o + 1].content
                      /\ Place(o) < Place(o + 1)
    BY <1>1, <1>5, <1>7 DEF HiddenInv
  <2>1. CASE o \in found
    BY <1>2, <2>1, EnsuredIs DEF ListInv
  <2>2. CASE o \notin found
    BY <1>1, <2>2 DEF ListInv, HiddenInv
  <2> QED BY <2>1, <2>2
<1>10. ParentInv'
  BY <1>1, <1>5, <1>7 DEF ListInv, ParentInv, ParentsPrecede
<1>11. Preserved
  BY <1>1, <1>5, <1>7 DEF Preserved
<1>12. HeadVersion' = HeadVersion
  <2>1. Listed = {o \in Stored : hidden[o] = 0}
    BY ListedIs DEF ListInv
  <2>2. Listed' = {o \in Stored : hidden'[o] = 0}
    BY <1>5, <1>7, PlacesDiffer DEF ListInv, Listed
  <2>3. \A o \in Stored : o \in Ordinals
    BY RowsStored
  <2>4. \A o \in Listed' : o \in Listed
    <3>1. \A o \in found : o + 1 # 0
      BY <1>2, RowsStored
    <3> QED BY <1>1, <2>1, <2>2, <2>3, <3>1
  <2>5. CASE Listed = {}
    BY <2>4, <2>5 DEF HeadVersion, Newest
  <2>6. CASE Listed # {}
    <3>1. PICK h \in Listed : h = HeadVersion
      BY <2>6, HeadIs DEF ListInv
    <3>2. \A p \in Listed : Place(p) <= Place(h)
      BY <3>1, HeadIs DEF ListInv
    <3>3. \A o \in Stored : Place(o) \in Nat
      BY PlacesDiffer DEF ListInv
    <3>4. h \notin found
      <4>1. ASSUME h \in found PROVE FALSE
        <5>1. h \in Stored /\ h + 1 \in Stored /\ Place(h) < Place(h + 1)
          BY <1>2, <4>1, EnsuredIs DEF ListInv
        <5>2. CASE hidden[h + 1] = 0
          BY <2>1, <3>2, <3>3, <5>1, <5>2
        <5>3. CASE hidden[h + 1] # 0
          <6>1. PICK q \in Listed : Place(h + 1) < Place(q)
            BY <5>1, <5>3, TwinShown DEF HiddenHasTwin
          <6> QED BY <2>1, <3>2, <3>3, <5>1, <6>1
        <5> QED BY <5>2, <5>3
      <4> QED BY <4>1
    <3>5. h \in Listed'
      BY <1>1, <2>1, <2>2, <2>3, <3>4
    <3>6. \A p \in Listed' : Place(p)' <= Place(h)'
      BY <1>7, <2>1, <2>4, <3>2
    <3>7. Len(rows') \in Nat
      BY <1>1, RowsStored
    <3> QED BY <1>8, <3>1, <3>5, <3>6, <3>7, HeadAfter
  <2> QED BY <2>5, <2>6
<1> QED BY <1>1, <1>3, <1>4, <1>6, <1>7, <1>8, <1>9, <1>10, <1>11, <1>12 DEF ListInv

---------------------------------------------------------------------------
(* What is imported.                                                       *)

\* A version that is not of a plan, and a timeline, change nothing of a plan.
LEMMA ItemsKept ==
  ASSUME StoreTypeOK, ItemInv, Preserved, UNCHANGED <<imported, anchor>>,
         \A o \in Stored' \ Stored : rows'[o].item = NoItem
  PROVE  ItemInv'
<1>1. \A b \in Batches : anchor'[b] # 0 => anchor'[b] \in Stored'
  BY DEF ItemInv, Preserved
<1>2. \A b \in Batches, i \in Items : imported'[b][i] # 0 =>
        imported'[b][i] \in Stored' /\ anchor'[b] # 0
  BY DEF ItemInv, Preserved
<1>3. ImportedOnce'
  <2> SUFFICES ASSUME NEW b \in Batches, NEW i \in Items
               PROVE  {o \in Stored' : rows'[o].item = [batch |-> b, item |-> i]}
                        = {imported'[b][i]} \ {0}
    BY DEF ImportedOnce
  <2>1. {o \in Stored : rows[o].item = [batch |-> b, item |-> i]} = {imported[b][i]} \ {0}
    BY DEF ItemInv, ImportedOnce
  <2>2. NoItem # [batch |-> b, item |-> i]
    <3>1. NoItem.batch = "none" /\ [batch |-> b, item |-> i].batch = b
      BY DEF NoItem
    <3> QED BY <3>1, OrderConstants
  <2>3. \A o \in Stored : o \in Stored' /\ rows'[o] = rows[o]
    BY DEF Preserved
  <2> HIDE DEF NoItem
  <2>4. \A o \in Stored' : rows'[o].item = [batch |-> b, item |-> i] => o \in Stored
    BY <2>2
  <2>5. {o \in Stored' : rows'[o].item = [batch |-> b, item |-> i]}
          = {o \in Stored : rows[o].item = [batch |-> b, item |-> i]}
    BY <2>3, <2>4
  <2> QED BY <2>1, <2>5
<1>4. PlanInOrder'
  <2> SUFFICES ASSUME NEW b \in Batches, NEW i \in Items, imported[b][i] # 0
               PROVE  /\ Place(imported[b][i])' < Place(anchor[b])'
                      /\ \A j \in 1..i - 1 : /\ imported[b][j] # 0
                                             /\ Place(imported[b][j])' < Place(imported[b][i])'
    BY DEF PlanInOrder
  <2>1. /\ Place(imported[b][i]) < Place(anchor[b])
        /\ \A j \in 1..i - 1 : /\ imported[b][j] # 0
                               /\ Place(imported[b][j]) < Place(imported[b][i])
    BY DEF ItemInv, PlanInOrder
  <2>2. imported[b][i] \in Stored /\ anchor[b] \in Stored
    BY DEF ItemInv
  <2>3. ASSUME NEW j \in 1..i - 1 PROVE j \in Items
    BY OrderConstants DEF Items
  <2>4. \A j \in 1..i - 1 : imported[b][j] \in Stored
    BY <2>1, <2>3 DEF ItemInv
  <2>5. PICK x, y \in Stored : x = imported[b][i] /\ y = anchor[b]
    BY <2>2
  <2>6. Place(x)' < Place(y)'
    BY <2>1, <2>5 DEF Preserved
  <2>7. ASSUME NEW j \in 1..i - 1
        PROVE  Place(imported[b][j])' < Place(imported[b][i])'
    <3>1. PICK z \in Stored : z = imported[b][j]
      BY <2>4
    <3>2. Place(z)' < Place(x)'
      BY <2>1, <2>5, <3>1 DEF Preserved
    <3> QED BY <2>5, <3>1, <3>2
  <2> QED BY <2>1, <2>5, <2>6, <2>7
<1> QED BY <1>1, <1>2, <1>3, <1>4 DEF ItemInv

\* Before a plan is confirmed nothing of it is imported.
LEMMA ItemsConfirmed ==
  ASSUME StoreTypeOK, ItemInv, NEW b \in Batches, NEW a \in Stored,
         \A i \in Items : ~IsImported(b, i), anchor' = [anchor EXCEPT ![b] = a],
         UNCHANGED <<rows, ordered, position, imported>>
  PROVE  ItemInv'
<1>1. /\ anchor'[b] = a /\ a # 0
      /\ \A c \in Batches : c # b => anchor'[c] = anchor[c]
  BY RowsStored DEF StoreTypeOK
<1>2. Stored' = Stored /\ \A o : Place(o)' = Place(o)
  BY DEF Stored, Place
<1>3. \A i \in Items : imported[b][i] = 0
  BY DEF IsImported
<1>4. \A c \in Batches : anchor'[c] # 0 => anchor'[c] \in Stored'
  BY <1>1, <1>2 DEF ItemInv
<1>5. \A c \in Batches, i \in Items : imported'[c][i] # 0 =>
        imported'[c][i] \in Stored' /\ anchor'[c] # 0
  BY <1>1, <1>2 DEF ItemInv
<1>6. ImportedOnce'
  BY <1>2 DEF ItemInv, ImportedOnce
<1>7. PlanInOrder'
  BY <1>1, <1>2, <1>3 DEF ItemInv, PlanInOrder
<1> QED BY <1>4, <1>5, <1>6, <1>7 DEF ItemInv

\* Item i of plan b becomes version n, in front of the anchor a of the plan and
\* behind whatever is in front of that.
ItemAdded(b, i, a, n) ==
  /\ anchor[b] = a /\ UNCHANGED anchor
  /\ ~IsImported(b, i) /\ \A j \in 1..i - 1 : IsImported(b, j)
  /\ n \notin Stored /\ n # 0 /\ Stored' = Stored \cup {n}
  /\ rows'[n].item = [batch |-> b, item |-> i]
  /\ imported' = [imported EXCEPT ![b][i] = n]
  /\ Place(n)' < Place(a)'
  /\ \A p \in Stored : Place(p) < Place(a) => Place(p)' < Place(n)'

\* A new item stands in front of the anchor, behind the items before it, and
\* nothing of the plan that comes after it is imported.
LEMMA ItemsImported ==
  ASSUME StoreTypeOK, ItemInv, Preserved, NEW b \in Batches, NEW i \in Items,
         NEW a \in Stored, NEW n, ItemAdded(b, i, a, n)
  PROVE  /\ ItemInv'
         /\ imported'[b][i] = n
         /\ \A c \in Batches, j \in Items :
              ~(c = b /\ j = i) => imported'[c][j] = imported[c][j]
<1>0. /\ anchor[b] = a /\ UNCHANGED anchor
      /\ ~IsImported(b, i) /\ \A j \in 1..i - 1 : IsImported(b, j)
      /\ n \notin Stored /\ n # 0 /\ Stored' = Stored \cup {n}
      /\ rows'[n].item = [batch |-> b, item |-> i]
      /\ imported' = [imported EXCEPT ![b][i] = n]
      /\ Place(n)' < Place(a)'
      /\ \A p \in Stored : Place(p) < Place(a) => Place(p)' < Place(n)'
  BY DEF ItemAdded
<1> USE <1>0
<1>1. /\ imported'[b][i] = n
      /\ \A c \in Batches, j \in Items : ~(c = b /\ j = i) => imported'[c][j] = imported[c][j]
  BY DEF StoreTypeOK
<1>2. \A o \in Stored : o # n /\ o \in Stored' /\ rows'[o] = rows[o]
  BY DEF Preserved
<1>3. imported[b][i] = 0 /\ \A j \in 1..i - 1 : imported[b][j] # 0
  BY DEF IsImported
<1>4. \A c \in Batches : anchor'[c] # 0 => anchor'[c] \in Stored'
  BY <1>2 DEF ItemInv
<1>5. \A c \in Batches, j \in Items : imported'[c][j] # 0 =>
        imported'[c][j] \in Stored' /\ anchor'[c] # 0
  <2>1. a # 0
    BY RowsStored
  <2>2. \A c \in Batches, j \in Items : imported[c][j] # 0 =>
          imported[c][j] \in Stored /\ anchor[c] # 0
    BY DEF ItemInv
  <2> QED BY <1>1, <1>2, <2>1, <2>2
<1>6. ImportedOnce'
  <2> SUFFICES ASSUME NEW c \in Batches, NEW j \in Items
               PROVE  {o \in Stored' : rows'[o].item = [batch |-> c, item |-> j]}
                        = {imported'[c][j]} \ {0}
    BY DEF ImportedOnce
  <2>1. {o \in Stored : rows[o].item = [batch |-> c, item |-> j]} = {imported[c][j]} \ {0}
    BY DEF ItemInv, ImportedOnce
  <2>2. {o \in Stored : rows'[o].item = [batch |-> c, item |-> j]} = {imported[c][j]} \ {0}
    BY <1>2, <2>1
  <2>3. CASE c = b /\ j = i
    <3>1. {o \in Stored : rows'[o].item = [batch |-> c, item |-> j]} = {}
      BY <1>3, <2>2, <2>3
    <3>2. {o \in Stored' : rows'[o].item = [batch |-> c, item |-> j]} = {n}
      BY <2>3, <3>1
    <3> QED BY <1>1, <2>3, <3>2
  <2>4. CASE ~(c = b /\ j = i)
    <3>1. [batch |-> b, item |-> i] # [batch |-> c, item |-> j]
      <4>1. /\ [batch |-> b, item |-> i].batch = b /\ [batch |-> c, item |-> j].batch = c
            /\ [batch |-> b, item |-> i].item = i /\ [batch |-> c, item |-> j].item = j
        OBVIOUS
      <4> QED BY <2>4, <4>1
    <3>2. {o \in Stored' : rows'[o].item = [batch |-> c, item |-> j]}
            = {o \in Stored : rows'[o].item = [batch |-> c, item |-> j]}
      BY <3>1
    <3> QED BY <1>1, <2>2, <2>4, <3>2
  <2> QED BY <2>3, <2>4
<1>7. PlanInOrder'
  <2> SUFFICES ASSUME NEW c \in Batches, NEW k \in Items, imported'[c][k] # 0
               PROVE  /\ Place(imported[c][k])' < Place(anchor[c])'
                      /\ \A j \in 1..k - 1 : /\ imported'[c][j] # 0
                                             /\ Place(imported[c][j])' < Place(imported[c][k])'
    BY DEF PlanInOrder
  <2>0. \A j \in 1..k - 1 : j \in Items
    BY OrderConstants DEF Items
  <2>1. CASE c = b /\ k = i
    <3>1. \A j \in 1..i - 1 : imported'[b][j] = imported[b][j] /\ j \in Items
      <4>1. \A j \in 1..i - 1 : j # i
        BY OrderConstants DEF Items
      <4> QED BY <1>1, <2>0, <2>1, <4>1
    <3>2. \A j \in 1..i - 1 : imported[b][j] \in Stored /\ Place(imported[b][j]) < Place(a)
      BY <1>3, <3>1 DEF ItemInv, PlanInOrder
    <3>3. ASSUME NEW j \in 1..i - 1
          PROVE  imported'[b][j] # 0 /\ Place(imported[b][j])' < Place(n)'
      <4>1. PICK z \in Stored : z = imported[b][j]
        BY <3>2
      <4>2. Place(z)' < Place(n)'
        BY <3>2, <4>1
      <4>3. z = imported'[b][j] /\ z # 0
        BY <1>3, <3>1, <4>1
      <4>4. Place(imported[b][j])' = Place(z)'
        BY <4>3
      <4> QED BY <4>2, <4>3, <4>4
    <3>4. imported'[c][k] = n /\ anchor[c] = a
      BY <1>1, <2>1
    <3> QED BY <2>1, <3>3, <3>4
  <2>2. CASE ~(c = b /\ k = i)
    <3>1. imported[c][k] # 0 /\ imported'[c][k] = imported[c][k]
      BY <1>1, <2>2
    <3>2. /\ Place(imported[c][k]) < Place(anchor[c])
          /\ \A j \in 1..k - 1 : /\ imported[c][j] # 0
                                 /\ Place(imported[c][j]) < Place(imported[c][k])
      BY <3>1 DEF ItemInv, PlanInOrder
    <3>3. \A j \in 1..k - 1 : imported'[c][j] = imported[c][j] /\ imported[c][j] \in Stored
      <4>1. \A j \in 1..k - 1 : ~(c = b /\ j = i)
        BY <1>3, <3>2
      <4> QED BY <1>1, <2>0, <3>2, <4>1 DEF ItemInv
    <3>4. PICK x, y \in Stored : x = imported[c][k] /\ y = anchor[c]
      BY <3>1 DEF ItemInv
    <3>5. Place(x)' < Place(y)'
      BY <3>2, <3>4 DEF Preserved
    <3>6. ASSUME NEW j \in 1..k - 1
          PROVE  imported'[c][j] # 0 /\ Place(imported[c][j])' < Place(x)'
      <4>1. PICK z \in Stored : z = imported[c][j]
        BY <3>3
      <4>2. Place(z)' < Place(x)'
        BY <3>2, <3>4, <4>1 DEF Preserved
      <4>3. z = imported'[c][j] /\ z # 0
        BY <3>2, <3>3, <4>1
      <4>4. Place(imported[c][j])' = Place(z)'
        BY <4>3
      <4> QED BY <4>2, <4>3, <4>4
    <3>7. x = imported'[c][k] /\ y = anchor[c]
      BY <3>1, <3>4
    <3> QED BY <3>5, <3>6, <3>7
  <2> QED BY <2>1, <2>2
<1> QED BY <1>1, <1>4, <1>5, <1>6, <1>7 DEF ItemInv

---------------------------------------------------------------------------
(* The plans and the running import.                                       *)

\* Who pages through the list under one revision finds what is listed listed,
\* at its place, and what is new behind everything.
ShownKept ==
  \/ revision' > revision
  \/ /\ revision' = revision
     /\ \A o \in Stored : Place(o)' = Place(o)
     /\ Listed \subseteq Listed'
     /\ \A o \in Listed' \ Listed : \A p \in Stored : Place(p) < Place(o)'

\* What was stored stays, in its order, and only a save makes a new head.
ListKept == Preserved /\ HeadMovesBySave /\ ShownKept

LEMMA ListSame ==
  ASSUME StoreTypeOK, ListInv, UNCHANGED <<rows, ordered, position, hidden, revision>>
  PROVE  ListInv' /\ ListKept
<1>1. /\ ListInv' /\ Preserved /\ HeadVersion' = HeadVersion
      /\ \A o : Place(o)' = Place(o)
  BY ListUnchanged
<1>2. Listed' = Listed
  BY <1>1 DEF Listed, Stored
<1> QED BY <1>1, <1>2 DEF ListKept, HeadMovesBySave, ShownKept

LEMMA ReadIs ==
  ASSUME StoreTypeOK, NEW b \in Batches
  PROVE  /\ plan[b] \in Plan /\ plan[b].file \in File
         /\ Read(b) \in File
         /\ Read(b).done = plan[b].file.done /\ Read(b).named = plan[b].file.named
         /\ Read(b).status # Status(b) =>
              /\ Read(b).status = "paused" /\ Status(b) \in {"running", "ready"}
              /\ plan[b].file.named # 0 /\ plan[b].file.named \notin Jobs(b)
<1>1. plan[b] \in Plan /\ plan[b].file \in File
  BY DEF StoreTypeOK, Plan
<1>2. CASE Read(b) = plan[b].file
  BY <1>1, <1>2 DEF Status
<1>3. CASE Read(b) # plan[b].file
  <2>1. /\ Read(b) = [plan[b].file EXCEPT !.status = "paused"]
        /\ Status(b) \in {"running", "ready"}
        /\ plan[b].file.named # 0 /\ plan[b].file.named \notin Jobs(b)
    BY <1>3 DEF Read
  <2> QED BY <1>1, <2>1 DEF File, Statuses
<1> QED BY <1>2, <1>3

LEMMA JobIs ==
  ASSUME StoreTypeOK
  PROVE  /\ job # NoJob => job \in Job /\ job.batch \in Batches
         /\ job.batch \in Batches => job # NoJob
BY OrderConstants DEF StoreTypeOK, Job, NoJob

\* The file of a plan stays as it is; queued jobs of it may be gone.
SameFile(b) ==
  /\ plan'[b].file = plan[b].file /\ plan'[b].asked = plan[b].asked
  /\ plan'[b].queued \subseteq plan[b].queued

LEMMA PlanReplaced ==
  ASSUME StoreTypeOK, NEW b \in Batches, NEW p \in Plan, plan' = [plan EXCEPT ![b] = p]
  PROVE  /\ plan' \in [Batches -> Plan]
         /\ plan'[b] = p
         /\ \A c \in Batches : c # b => plan'[c] = plan[c] /\ SameFile(c)
BY DEF StoreTypeOK, SameFile

\* What is true of a plan follows from its file, its anchor and its items.
LEMMA OtherPlans ==
  ASSUME PlanInv, NEW b \in Batches, UNCHANGED imported, PlanOk(b)',
         \A c \in Batches : c # b => SameFile(c) /\ anchor'[c] = anchor[c]
  PROVE  PlanInv'
<1> SUFFICES ASSUME NEW c \in Batches, c # b PROVE PlanOk(c)'
  BY DEF PlanInv
<1>1. PlanOk(c)
  BY DEF PlanInv
<1> QED BY <1>1 DEF PlanOk, SameFile, Truthful, Status, IsImported

\* An import of one plan does not depend on the others.
LEMMA OtherJob ==
  ASSUME StoreTypeOK, JobInv, NEW b \in Batches, UNCHANGED <<job, imported, ordered>>,
         job.batch # b, \A c \in Batches : c # b => SameFile(c)
  PROVE  JobInv'
<1> SUFFICES ASSUME job # NoJob PROVE JobOk(job.batch)'
  BY DEF JobInv
<1>1. PICK c \in Batches : c = job.batch
  BY JobIs
<1>2. JobOk(c) /\ SameFile(c) /\ job' = job
  BY <1>1 DEF JobInv
<1>3. JobOk(c)'
  BY <1>2 DEF JobOk, SameFile, CopyOk, Truthful, Status, IsImported
<1> QED BY <1>1, <1>2, <1>3

LEMMA NoJobLeft ==
  ASSUME WriterInv, job' = NoJob, UNCHANGED <<rows, save>>
  PROVE  WriterInv' /\ JobInv'
BY DEF WriterInv, JobInv

\* The requests about plans touch neither the list nor what is imported.
LEMMA PlansOnly ==
  ASSUME OrderInv, PlanOnly
  PROVE  /\ ListInv' /\ ListKept
         /\ UNCHANGED anchor => ItemInv'
<1>1. ListInv' /\ ListKept
  BY ListSame DEF OrderInv, PlanOnly
<1>2. ASSUME UNCHANGED anchor PROVE ItemInv'
  <2>1. Stored' = Stored
    BY DEF PlanOnly, Stored
  <2> QED BY <1>1, <1>2, <2>1, ItemsKept DEF OrderInv, PlanOnly, ListKept
<1> QED BY <1>1, <1>2

LEMMA StepPreparePlan ==
  ASSUME OrderInv, NEW b \in Batches, PreparePlan(b)
  PROVE  OrderInv' /\ ListKept
<1> DEFINE p == [plan[b] EXCEPT !.file.status = "draft"]
<1>1. plan[b] \in Plan /\ plan[b].file \in File /\ plan[b].file.status = "none"
  BY ReadIs DEF OrderInv, PreparePlan, Status
<1>2. /\ p \in Plan /\ p.asked = plan[b].asked /\ p.queued = plan[b].queued
      /\ p.file.status = "draft" /\ p.file.done = plan[b].file.done
      /\ p.file.named = plan[b].file.named
  BY <1>1 DEF Plan, File, Statuses
<1>3. plan' = [plan EXCEPT ![b] = p] /\ PlanOnly /\ UNCHANGED <<anchor, troubles, job>>
  BY DEF PreparePlan
<1> HIDE DEF p
<1>4. /\ plan' \in [Batches -> Plan] /\ plan'[b] = p
      /\ \A c \in Batches : c # b => SameFile(c)
  BY <1>2, <1>3, PlanReplaced DEF OrderInv
<1>5. StoreTypeOK'
  BY <1>3, <1>4 DEF OrderInv, StoreTypeOK, PlanOnly
<1>6. PlanOk(b) /\ plan[b].asked = 0
  BY <1>1 DEF OrderInv, PlanInv, PlanOk, Status, Unconfirmed
<1>7. PlanOk(b)'
  <2>1. imported' = imported /\ anchor' = anchor
    BY <1>3 DEF PlanOnly
  <2> QED BY <1>1, <1>2, <1>4, <1>6, <2>1 DEF PlanOk, Truthful, Status, IsImported, Unconfirmed
<1>8. PlanInv'
  BY <1>3, <1>4, <1>7, OtherPlans DEF OrderInv, PlanOnly
<1>9. job.batch # b
  <2>1. ASSUME job.batch = b PROVE FALSE
    <3>1. job \in Job /\ JobOk(b)
      BY <2>1, JobIs DEF OrderInv, JobInv
    <3>2. job.id \in Nat /\ job.id # 0 /\ job.id <= plan[b].asked
      BY <3>1, OrderConstants DEF Job, JobOk
    <3> QED BY <1>6, <3>2
  <2> QED BY <2>1
<1>10. JobInv'
  BY <1>3, <1>4, <1>9, OtherJob DEF OrderInv, PlanOnly
<1>11. WriterInv'
  BY <1>3 DEF OrderInv, WriterInv, PlanOnly
<1> QED BY <1>3, <1>5, <1>8, <1>10, <1>11, PlansOnly DEF OrderInv

LEMMA StepCancelPlan ==
  ASSUME OrderInv, NEW b \in Batches, CancelPlan(b)
  PROVE  OrderInv' /\ ListKept
<1> DEFINE p == [plan[b] EXCEPT !.cancel = TRUE, !.file = Read(b)]
<1>1. /\ plan[b] \in Plan /\ plan[b].file \in File /\ Read(b) \in File
      /\ plan[b].file.status = Status(b)
      /\ Read(b).done = plan[b].file.done /\ Read(b).named = plan[b].file.named
      /\ Read(b).status # Status(b) =>
           /\ Read(b).status = "paused" /\ Status(b) \in {"running", "ready"}
           /\ plan[b].file.named # 0 /\ plan[b].file.named \notin Jobs(b)
  BY ReadIs DEF OrderInv, Status
<1>2. /\ p \in Plan /\ p.asked = plan[b].asked /\ p.queued = plan[b].queued
      /\ p.file = Read(b)
  BY <1>1 DEF Plan
<1>3. /\ plan' = [plan EXCEPT ![b] = p] /\ PlanOnly /\ UNCHANGED <<anchor, job>>
      /\ troubles < MaxTroubles /\ troubles' = troubles + 1
  BY DEF CancelPlan, Trouble
<1> HIDE DEF p
<1>4. /\ plan' \in [Batches -> Plan] /\ plan'[b] = p
      /\ \A c \in Batches : c # b => SameFile(c)
  BY <1>2, <1>3, PlanReplaced DEF OrderInv
<1>5. StoreTypeOK'
  <2>1. troubles' \in 0..MaxTroubles
    BY <1>3, OrderConstants DEF OrderInv, StoreTypeOK
  <2> QED BY <1>3, <1>4, <2>1 DEF OrderInv, StoreTypeOK, PlanOnly
<1>6. PlanOk(b) /\ plan'[b].file = Read(b) /\ plan'[b].asked = plan[b].asked
  BY <1>2, <1>4 DEF OrderInv, PlanInv
<1>7. PlanOk(b)'
  <2>1. imported' = imported /\ anchor' = anchor
    BY <1>3 DEF PlanOnly
  <2> QED BY <1>1, <1>2, <1>4, <1>6, <2>1 DEF PlanOk, Truthful, Status, IsImported, Unconfirmed
<1>8. PlanInv'
  BY <1>3, <1>4, <1>7, OtherPlans DEF OrderInv, PlanOnly
<1>9. JobInv'
  <2>1. CASE job.batch # b
    BY <1>3, <1>4, <2>1, OtherJob DEF OrderInv, PlanOnly
  <2>2. CASE job.batch = b
    <3>1. job # NoJob /\ JobOk(b)
      BY <2>2, JobIs DEF OrderInv, JobInv
    <3>2. plan[b].file.named = job.id => Read(b).status = Status(b)
      BY <1>1, <2>2 DEF Jobs
    <3>3. Read(b).status # "removed" => Status(b) # "removed"
      BY <1>1
    <3>4. imported' = imported /\ job' = job /\ ordered' = ordered
      BY <1>3 DEF PlanOnly
    <3>5. JobOk(b)'
      BY <1>1, <1>6, <3>1, <3>2, <3>3, <3>4 DEF JobOk, CopyOk, Truthful, Status, IsImported
    <3> QED BY <2>2, <3>4, <3>5 DEF JobInv
  <2> QED BY <2>1, <2>2
<1>10. WriterInv'
  BY <1>3 DEF OrderInv, WriterInv, PlanOnly
<1> QED BY <1>3, <1>5, <1>8, <1>9, <1>10, PlansOnly DEF OrderInv

LEMMA StepRemovePlan ==
  ASSUME OrderInv, NEW b \in Batches, RemovePlan(b)
  PROVE  OrderInv' /\ ListKept
<1> DEFINE p == [plan[b] EXCEPT !.file.status = "removed"]
<1>1. /\ plan[b] \in Plan /\ plan[b].file \in File /\ Status(b) = plan[b].file.status
      /\ Read(b).status # Status(b) => /\ Status(b) \in {"running", "ready"}
                                       /\ plan[b].file.named \notin Jobs(b)
  BY ReadIs DEF OrderInv, Status
<1>2. /\ p \in Plan /\ p.asked = plan[b].asked /\ p.queued = plan[b].queued
      /\ p.file.status = "removed" /\ p.file.done = plan[b].file.done
      /\ p.file.named = plan[b].file.named
  BY <1>1 DEF Plan, File, Statuses
<1>3. /\ plan' = [plan EXCEPT ![b] = p] /\ PlanOnly /\ UNCHANGED <<anchor, troubles, job>>
      /\ Read(b).status \notin {"none", "removed", "running", "ready"}
  BY DEF RemovePlan
<1> HIDE DEF p
<1>4. /\ plan' \in [Batches -> Plan] /\ plan'[b] = p
      /\ \A c \in Batches : c # b => SameFile(c)
  BY <1>2, <1>3, PlanReplaced DEF OrderInv
<1>5. StoreTypeOK'
  BY <1>3, <1>4 DEF OrderInv, StoreTypeOK, PlanOnly
<1>6. PlanOk(b)
  BY DEF OrderInv, PlanInv
<1>7. PlanOk(b)'
  <2>1. imported' = imported /\ anchor' = anchor
    BY <1>3 DEF PlanOnly
  <2> QED BY <1>1, <1>2, <1>4, <1>6, <2>1 DEF PlanOk, Truthful, Status, IsImported, Unconfirmed
<1>8. PlanInv'
  BY <1>3, <1>4, <1>7, OtherPlans DEF OrderInv, PlanOnly
<1>9. JobInv'
  <2>1. CASE job.batch # b
    BY <1>3, <1>4, <2>1, OtherJob DEF OrderInv, PlanOnly
  <2>2. CASE job.batch = b
    <3>1. job # NoJob /\ JobOk(b)
      BY <2>2, JobIs DEF OrderInv, JobInv
    <3>2. job.pc # "ending" => plan[b].file.named # job.id
      BY <1>1, <1>3, <2>2, <3>1 DEF Jobs, JobOk
    <3>3. imported' = imported /\ job' = job /\ ordered' = ordered
      BY <1>3 DEF PlanOnly
    <3>4. JobOk(b)'
      BY <1>2, <1>4, <3>1, <3>2, <3>3 DEF JobOk, CopyOk, Truthful, Status, IsImported
    <3> QED BY <2>2, <3>3, <3>4 DEF JobInv
  <2> QED BY <2>1, <2>2
<1>10. WriterInv'
  BY <1>3 DEF OrderInv, WriterInv, PlanOnly
<1> QED BY <1>3, <1>5, <1>8, <1>9, <1>10, PlansOnly DEF OrderInv

\* A plan is handed to a new job, or is not, or the service dies.
LEMMA SubmitIs ==
  ASSUME StoreTypeOK, NEW b \in Batches, NEW status \in Statuses, Submit(b, status)
  PROVE  /\ plan' \in [Batches -> Plan] /\ troubles' \in 0..MaxTroubles
         /\ \A c \in Batches : c # b => SameFile(c)
         /\ plan'[b].file.done = plan[b].file.done
         /\ \/ /\ plan'[b].file.status = status
               /\ plan'[b].file.named = plan[b].asked + 1
               /\ plan'[b].asked = plan[b].asked + 1
               /\ plan'[b].queued = plan[b].queued \cup {plan[b].asked + 1}
               /\ UNCHANGED job
            \/ /\ plan'[b].file.status = "paused"
               /\ plan'[b].file.named = plan[b].file.named
               /\ plan'[b].asked = plan[b].asked
               /\ plan'[b].queued = plan[b].queued
               /\ UNCHANGED job
            \/ /\ plan'[b].file.status = status
               /\ plan'[b].file.named = plan[b].file.named
               /\ plan'[b].asked = plan[b].asked
               /\ plan'[b].queued = {}
               /\ job' = NoJob
<1> DEFINE id == plan[b].asked + 1
           Refused == [plan[b] EXCEPT !.file.status = "paused", !.cancel = FALSE]
           Written == [plan[b] EXCEPT !.file.status = status, !.cancel = FALSE]
           Taken == [Written EXCEPT !.file.named = id, !.asked = id, !.queued = @ \cup {id}]
<1>1. /\ plan[b] \in Plan /\ plan[b].file \in File
      /\ plan[b].asked \in Nat /\ plan[b].asked <= MaxAsked /\ MaxAsked \in Nat
      /\ \A c \in Batches : plan[c] \in Plan
      /\ troubles \in 0..MaxTroubles
  BY OrderConstants, ReadIs DEF StoreTypeOK, Plan
<1>2. CASE id <= MaxAsked /\ plan' = [plan EXCEPT ![b] = Taken] /\ UNCHANGED <<job, troubles>>
  <2>1. /\ Taken \in Plan /\ Taken.file.status = status /\ Taken.file.named = id
        /\ Taken.file.done = plan[b].file.done /\ Taken.asked = id
        /\ Taken.queued = plan[b].queued \cup {id}
    <3>1. id \in 1..MaxAsked
      BY <1>1, <1>2
    <3>2. id \in 0..MaxAsked /\ plan[b].queued \cup {id} \in SUBSET (1..MaxAsked)
      BY <1>1, <3>1 DEF Plan
    <3>3. Written \in Plan /\ Written.file \in File
      BY <1>1 DEF Plan, File
    <3>4. /\ Written.file.status = status /\ Written.file.done = plan[b].file.done
          /\ Written.queued = plan[b].queued
      BY <1>1 DEF Plan, File
    <3> HIDE DEF Written, id
    <3>5. [Written.file EXCEPT !.named = id] \in File
      BY <3>2, <3>3 DEF File
    <3>6. Taken.file = [Written.file EXCEPT !.named = id]
      BY <3>3 DEF Plan
    <3>7. Taken.asked = id /\ Taken.queued = Written.queued \cup {id}
      BY <3>3 DEF Plan
    <3>8. Taken \in Plan
      BY <3>2, <3>3, <3>4, <3>5, <3>6, <3>7 DEF Plan
    <3> QED BY <3>3, <3>4, <3>6, <3>7, <3>8 DEF File
  <2> HIDE DEF Taken
  <2>2. /\ plan' \in [Batches -> Plan] /\ plan'[b] = Taken
        /\ \A c \in Batches : c # b => SameFile(c)
    BY <1>2, <2>1, PlanReplaced
  <2> QED BY <1>1, <1>2, <2>1, <2>2
<1>3. CASE Trouble /\ plan' = [plan EXCEPT ![b] = Refused] /\ UNCHANGED job
  <2>1. /\ Refused \in Plan /\ Refused.file.status = "paused"
        /\ Refused.file.named = plan[b].file.named
        /\ Refused.file.done = plan[b].file.done /\ Refused.asked = plan[b].asked
        /\ Refused.queued = plan[b].queued
    BY <1>1 DEF Plan, File, Statuses
  <2> HIDE DEF Refused
  <2>2. /\ plan' \in [Batches -> Plan] /\ plan'[b] = Refused
        /\ \A c \in Batches : c # b => SameFile(c)
    BY <1>3, <2>1, PlanReplaced
  <2>3. troubles' \in 0..MaxTroubles
    BY <1>1, <1>3, OrderConstants DEF Trouble
  <2> QED BY <1>3, <2>1, <2>2, <2>3
<1>4. CASE Trouble /\ plan' = Died([plan EXCEPT ![b] = Written]) /\ job' = NoJob
  <2>1. /\ Written \in Plan /\ Written.file.status = status
        /\ Written.file.named = plan[b].file.named
        /\ Written.file.done = plan[b].file.done /\ Written.asked = plan[b].asked
    BY <1>1 DEF Plan, File
  <2> HIDE DEF Written
  <2>2. \A c \in Batches : plan'[c] = [(IF c = b THEN Written ELSE plan[c]) EXCEPT !.queued = {}]
    BY <1>4 DEF Died, StoreTypeOK
  <2>3. \A p \in Plan : /\ [p EXCEPT !.queued = {}] \in Plan
                        /\ [p EXCEPT !.queued = {}].queued = {}
                        /\ [p EXCEPT !.queued = {}].file = p.file
                        /\ [p EXCEPT !.queued = {}].asked = p.asked
    BY DEF Plan
  <2>4. \A c \in Batches : plan'[c] \in Plan
    BY <1>1, <2>1, <2>2, <2>3
  <2>5. plan' = [c \in Batches |-> plan'[c]]
    BY <1>4 DEF Died
  <2>6. plan' \in [Batches -> Plan]
    BY <2>4, <2>5
  <2>7. \A c \in Batches : c # b => SameFile(c)
    BY <1>1, <2>2, <2>3 DEF SameFile
  <2>8. plan'[b].file = Written.file /\ plan'[b].asked = Written.asked /\ plan'[b].queued = {}
    BY <2>1, <2>2, <2>3
  <2>9. troubles' \in 0..MaxTroubles
    BY <1>1, <1>4, OrderConstants DEF Trouble
  <2> QED BY <1>4, <2>1, <2>6, <2>7, <2>8, <2>9
<1>5. [plan EXCEPT ![b].file.status = status, ![b].cancel = FALSE] = [plan EXCEPT ![b] = Written]
  BY DEF StoreTypeOK
<1>6. [[plan EXCEPT ![b] = Written] EXCEPT ![b].file.named = id, ![b].asked = id,
                                           ![b].queued = @ \cup {id}]
        = [plan EXCEPT ![b] = Taken]
  <2> HIDE DEF Written, id
  <2> QED BY DEF StoreTypeOK
<1>7. [[plan EXCEPT ![b].file.status = status, ![b].cancel = FALSE] EXCEPT ![b].file.status = "paused"]
        = [plan EXCEPT ![b] = Refused]
  BY DEF StoreTypeOK
<1> HIDE DEF Taken, Refused, Written
<1> QED BY <1>2, <1>3, <1>4, <1>5, <1>6, <1>7 DEF Submit

LEMMA StepConfirm ==
  ASSUME OrderInv, NEW b \in Batches, NEW a \in Ordinals, Confirm(b, a)
  PROVE  OrderInv' /\ ListKept
<1>1. /\ Status(b) = "draft" /\ a \in Stored /\ Submit(b, "ready") /\ PlanOnly
      /\ anchor' = [anchor EXCEPT ![b] = a]
  BY DEF Confirm
<1>2. /\ plan' \in [Batches -> Plan] /\ troubles' \in 0..MaxTroubles
      /\ \A c \in Batches : c # b => SameFile(c)
      /\ plan'[b].file.done = plan[b].file.done
  BY <1>1, SubmitIs DEF OrderInv, Statuses
<1>3. PlanOk(b) /\ plan[b].asked = 0 /\ \A i \in Items : ~IsImported(b, i)
  BY <1>1 DEF OrderInv, PlanInv, PlanOk, Unconfirmed
<1>4. /\ plan[b].queued \subseteq 1..0
      /\ plan'[b].file.status \in {"ready", "paused"}
      /\ plan'[b].queued \subseteq 1..plan'[b].asked
      /\ plan'[b].asked # 0 => plan'[b].file.named # 0
      /\ job' = job \/ job' = NoJob
  <2>1. plan[b].queued \subseteq 1..0
    BY <1>3 DEF PlanOk
  <2>2. CASE /\ plan'[b].file.status = "ready"
             /\ plan'[b].file.named = plan[b].asked + 1
             /\ plan'[b].asked = plan[b].asked + 1
             /\ plan'[b].queued = plan[b].queued \cup {plan[b].asked + 1}
             /\ UNCHANGED job
    <3>1. plan'[b].asked = 1 /\ plan'[b].file.named = 1 /\ plan'[b].queued = plan[b].queued \cup {1}
      BY <1>3, <2>2
    <3> QED BY <2>1, <2>2, <3>1
  <2>3. CASE /\ plan'[b].file.status = "paused"
             /\ plan'[b].file.named = plan[b].file.named
             /\ plan'[b].asked = plan[b].asked
             /\ plan'[b].queued = plan[b].queued
             /\ UNCHANGED job
    BY <1>3, <2>1, <2>3
  <2>4. CASE /\ plan'[b].file.status = "ready"
             /\ plan'[b].file.named = plan[b].file.named
             /\ plan'[b].asked = plan[b].asked
             /\ plan'[b].queued = {}
             /\ job' = NoJob
    BY <1>3, <2>1, <2>4
  <2> QED BY <1>1, <2>1, <2>2, <2>3, <2>4, SubmitIs DEF OrderInv, Statuses
<1>5. anchor' \in [Batches -> 0..MaxRows] /\ anchor'[b] = a /\ a # 0
  BY <1>1, RowsStored, OrderConstants DEF OrderInv, StoreTypeOK, Ordinals
<1>6. StoreTypeOK'
  BY <1>1, <1>2, <1>4, <1>5 DEF OrderInv, StoreTypeOK, PlanOnly
<1>7. PlanOk(b)'
  <2>1. imported' = imported
    BY <1>1 DEF PlanOnly
  <2> QED BY <1>2, <1>3, <1>4, <1>5, <2>1 DEF PlanOk, Truthful, Status, IsImported, Unconfirmed
<1>8. PlanInv'
  <2>1. \A c \in Batches : c # b => anchor'[c] = anchor[c]
    BY <1>1 DEF OrderInv, StoreTypeOK
  <2> QED BY <1>1, <1>2, <1>7, <2>1, OtherPlans DEF OrderInv, PlanOnly
<1>9. job.batch # b
  <2>1. ASSUME job.batch = b PROVE FALSE
    <3>1. job \in Job /\ JobOk(b)
      BY <2>1, JobIs DEF OrderInv, JobInv
    <3>2. job.id \in Nat /\ job.id # 0 /\ job.id <= plan[b].asked
      BY <3>1, OrderConstants DEF Job, JobOk
    <3> QED BY <1>3, <3>2
  <2> QED BY <2>1
<1>10. JobInv' /\ WriterInv'
  <2>1. CASE job' = NoJob
    BY <1>1, <2>1, NoJobLeft DEF OrderInv, PlanOnly
  <2>2. CASE job' = job
    <3>1. JobInv'
      BY <1>1, <1>2, <1>9, <2>2, OtherJob DEF OrderInv, PlanOnly
    <3>2. WriterInv'
      BY <1>1, <2>2 DEF OrderInv, WriterInv, PlanOnly
    <3> QED BY <3>1, <3>2
  <2> QED BY <1>4, <2>1, <2>2
<1>11. ItemInv'
  BY <1>1, <1>3, ItemsConfirmed DEF OrderInv, PlanOnly
<1> QED BY <1>1, <1>6, <1>8, <1>10, <1>11, PlansOnly DEF OrderInv

LEMMA StepResume ==
  ASSUME OrderInv, NEW b \in Batches, Resume(b)
  PROVE  OrderInv' /\ ListKept
<1>1. CanResume(b) /\ Submit(b, Read(b).status) /\ PlanOnly /\ UNCHANGED anchor
  BY DEF Resume
<1>2. /\ plan[b] \in Plan /\ plan[b].file \in File /\ Read(b).status \in Statuses
      /\ plan[b].asked \in Nat
      /\ Read(b).named = plan[b].file.named
      /\ Read(b).status # Status(b) =>
           /\ Read(b).status = "paused" /\ Status(b) \in {"running", "ready"}
           /\ plan[b].file.named \notin Jobs(b)
  BY ReadIs, OrderConstants DEF OrderInv, Plan, File
<1>3. Read(b).status \in {"ready", "paused", "failed", "completed"}
  BY <1>1 DEF CanResume
<1>4. Status(b) \notin Unconfirmed \cup {"removed"}
  BY <1>2, <1>3 DEF Unconfirmed
<1>5. /\ plan' \in [Batches -> Plan] /\ troubles' \in 0..MaxTroubles
      /\ \A c \in Batches : c # b => SameFile(c)
      /\ plan'[b].file.done = plan[b].file.done
  BY <1>1, <1>2, SubmitIs DEF OrderInv
<1>6. PlanOk(b)
  BY DEF OrderInv, PlanInv
<1>7. /\ plan'[b].file.status \in {Read(b).status, "paused"}
      /\ plan'[b].queued \subseteq 1..plan'[b].asked
      /\ plan'[b].asked # 0 => plan'[b].file.named # 0
      /\ plan'[b].asked \in {plan[b].asked, plan[b].asked + 1}
      /\ plan'[b].file.named \in {plan[b].file.named, plan[b].asked + 1}
      /\ job' = job \/ job' = NoJob
  <2>1. plan[b].queued \subseteq 1..plan[b].asked /\ (plan[b].asked # 0 => plan[b].file.named # 0)
    BY <1>6 DEF PlanOk
  <2>2. CASE /\ plan'[b].file.status = Read(b).status
             /\ plan'[b].file.named = plan[b].asked + 1
             /\ plan'[b].asked = plan[b].asked + 1
             /\ plan'[b].queued = plan[b].queued \cup {plan[b].asked + 1}
             /\ UNCHANGED job
    <3>1. plan[b].queued \cup {plan[b].asked + 1} \subseteq 1..plan[b].asked + 1
      BY <1>2, <2>1
    <3>2. plan[b].asked + 1 # 0
      BY <1>2
    <3> QED BY <2>2, <3>1, <3>2
  <2>3. CASE /\ plan'[b].file.status = "paused"
             /\ plan'[b].file.named = plan[b].file.named
             /\ plan'[b].asked = plan[b].asked
             /\ plan'[b].queued = plan[b].queued
             /\ UNCHANGED job
    BY <2>1, <2>3
  <2>4. CASE /\ plan'[b].file.status = Read(b).status
             /\ plan'[b].file.named = plan[b].file.named
             /\ plan'[b].asked = plan[b].asked
             /\ plan'[b].queued = {}
             /\ job' = NoJob
    BY <2>1, <2>4
  <2> QED BY <1>1, <1>2, <2>2, <2>3, <2>4, SubmitIs DEF OrderInv
<1>8. StoreTypeOK'
  BY <1>1, <1>5, <1>7 DEF OrderInv, StoreTypeOK, PlanOnly
<1>9. imported' = imported /\ ordered' = ordered /\ rows' = rows /\ save' = save /\ anchor' = anchor
  BY <1>1 DEF PlanOnly
<1>10. PlanOk(b)'
  <2>1. plan'[b].file.status = "completed" => Status(b) = "completed"
    BY <1>2, <1>7
  <2>2. \A i \in 1..plan'[b].file.done : imported'[b][i] # 0
    BY <1>5, <1>6, <1>9 DEF PlanOk, Truthful, IsImported
  <2>3. plan'[b].file.status = "completed" => plan'[b].file.done = BatchSize
    BY <1>5, <1>6, <2>1 DEF PlanOk, Truthful, Status
  <2>4. Status(b)' \in {"ready", "paused", "failed", "completed"}
    BY <1>3, <1>7 DEF Status
  <2>5. anchor'[b] # 0
    BY <1>4, <1>6, <1>9 DEF PlanOk
  <2> QED BY <1>7, <1>9, <2>2, <2>3, <2>4, <2>5 DEF PlanOk, Truthful, IsImported, Unconfirmed
<1>11. PlanInv'
  BY <1>5, <1>9, <1>10, OtherPlans DEF OrderInv
<1>12. ASSUME job' = job PROVE JobInv' /\ WriterInv'
  <2>1. WriterInv'
    BY <1>9, <1>12 DEF OrderInv, WriterInv
  <2>2. CASE job.batch # b
    BY <1>5, <1>9, <1>12, <2>1, <2>2, OtherJob DEF OrderInv
  <2>3. CASE job.batch = b
    <3>1. job # NoJob /\ job \in Job /\ JobOk(b)
      BY <2>3, JobIs DEF OrderInv, JobInv
    <3>2. job.pc # "ending" => plan[b].file.named # job.id
      <4>1. ASSUME job.pc # "ending", plan[b].file.named = job.id PROVE FALSE
        <5>1. Status(b) = "running"
          BY <3>1, <4>1 DEF JobOk
        <5>2. Read(b).status = "running"
          BY <1>2, <2>3, <4>1, <5>1 DEF Jobs
        <5> QED BY <1>3, <5>2
      <4> QED BY <4>1
    <3>3. job.id \in Nat /\ job.id <= plan[b].asked /\ job.id <= plan'[b].asked
      BY <1>2, <1>7, <3>1, OrderConstants DEF Job, JobOk
    <3>4. job.pc # "ending" => plan'[b].file.named # job.id
      BY <1>2, <1>7, <3>2, <3>3
    <3>5. Status(b) # "removed"
      BY <1>4
    <3>6. JobOk(b)'
      BY <1>9, <1>12, <3>1, <3>3, <3>4, <3>5 DEF JobOk, CopyOk, Truthful, Status, IsImported
    <3> QED BY <1>12, <2>1, <2>3, <3>6 DEF JobInv
  <2> QED BY <2>2, <2>3
<1>13. JobInv' /\ WriterInv'
  BY <1>7, <1>9, <1>12, NoJobLeft DEF OrderInv
<1> QED BY <1>1, <1>8, <1>11, <1>13, PlansOnly DEF OrderInv

LEMMA StepServiceDies ==
  ASSUME OrderInv, ServiceDies
  PROVE  OrderInv' /\ ListKept
<1>1. /\ troubles < MaxTroubles /\ troubles' = troubles + 1
      /\ job' = NoJob /\ plan' = Died(plan) /\ PlanOnly /\ UNCHANGED anchor
  BY DEF ServiceDies, Trouble
<1>2. \A c \in Batches : /\ plan'[c] = [plan[c] EXCEPT !.queued = {}] /\ plan[c] \in Plan
                         /\ plan'[c] \in Plan /\ SameFile(c)
  <2>1. \A c \in Batches : plan'[c] = [plan[c] EXCEPT !.queued = {}] /\ plan[c] \in Plan
    BY <1>1 DEF Died, OrderInv, StoreTypeOK
  <2>2. \A p \in Plan : /\ [p EXCEPT !.queued = {}] \in Plan
                        /\ [p EXCEPT !.queued = {}].queued = {}
                        /\ [p EXCEPT !.queued = {}].file = p.file
                        /\ [p EXCEPT !.queued = {}].asked = p.asked
    BY DEF Plan
  <2> QED BY <2>1, <2>2 DEF SameFile
<1>3. StoreTypeOK'
  <2>1. troubles' \in 0..MaxTroubles
    BY <1>1, OrderConstants DEF OrderInv, StoreTypeOK
  <2>2. plan' = [c \in Batches |-> plan'[c]]
    BY <1>1 DEF Died
  <2>3. plan' \in [Batches -> Plan]
    BY <1>2, <2>2
  <2> QED BY <1>1, <2>1, <2>3 DEF OrderInv, StoreTypeOK, PlanOnly
<1>4. PlanInv'
  <2> SUFFICES ASSUME NEW c \in Batches PROVE PlanOk(c)'
    BY DEF PlanInv
  <2>1. PlanOk(c) /\ SameFile(c) /\ imported' = imported /\ anchor' = anchor
    BY <1>1, <1>2 DEF OrderInv, PlanInv, PlanOnly
  <2> QED BY <2>1 DEF PlanOk, SameFile, Truthful, Status, IsImported
<1>5. JobInv' /\ WriterInv'
  BY <1>1, NoJobLeft DEF OrderInv, PlanOnly
<1> QED BY <1>1, <1>3, <1>4, <1>5, PlansOnly DEF OrderInv

---------------------------------------------------------------------------
(* The steps of an import.                                                 *)

LEMMA ImportingIs ==
  ASSUME OrderInv, NEW b \in Batches, NEW pc, Importing(b, pc)
  PROVE  /\ job # NoJob /\ job \in Job /\ job.batch = b /\ job.pc = pc
         /\ JobOk(b) /\ PlanOk(b)
         /\ job.id \in Nat /\ job.id # 0 /\ job.id \in Jobs(b)
         /\ plan[b].asked # 0 /\ anchor[b] \in Stored /\ Status(b) \notin Unconfirmed
         /\ pc # "ending" => save = NoSave /\ job.next \in Items
<1>1. job # NoJob /\ job.batch = b /\ job.pc = pc
  BY DEF Importing
<1>2. job \in Job /\ JobOk(b) /\ PlanOk(b)
  BY <1>1, JobIs DEF OrderInv, JobInv, PlanInv
<1>3. job.id \in Nat /\ job.id # 0 /\ job.id \in Jobs(b)
  BY <1>1, <1>2, OrderConstants DEF Job, Jobs
<1>4. plan[b].asked # 0
  <2>1. job.id <= plan[b].asked /\ plan[b].asked \in Nat
    BY <1>2, OrderConstants DEF OrderInv, StoreTypeOK, Plan, JobOk
  <2> QED BY <1>3, <2>1
<1>5. anchor[b] # 0 /\ Status(b) \notin Unconfirmed
  BY <1>2, <1>4 DEF PlanOk
<1>6. anchor[b] \in Stored
  BY <1>5 DEF OrderInv, ItemInv
<1>7. ASSUME pc # "ending" PROVE save = NoSave /\ job.next \in Items
  <2>1. save = NoSave
    BY <1>1, <1>7 DEF OrderInv, WriterInv
  <2>2. job.next <= BatchSize /\ job.next \in 1..BatchSize + 1
    BY <1>1, <1>2, <1>7 DEF JobOk, Job
  <2> QED BY <2>1, <2>2, OrderConstants DEF Items
<1> QED BY <1>1, <1>2, <1>3, <1>4, <1>5, <1>6, <1>7

\* A true copy is written back to a plan that is still there.
LEMMA WrittenBack ==
  ASSUME StoreTypeOK, PlanInv, NEW b \in Batches, NEW f \in File, WriteBack(b, f),
         plan[b].asked # 0, Status(b) # "removed" => CopyOk(b, f),
         UNCHANGED <<imported, anchor>>
  PROVE  /\ plan' \in [Batches -> Plan] /\ PlanInv'
         /\ \A c \in Batches : c # b => SameFile(c)
         /\ plan'[b].asked = plan[b].asked
         /\ Status(b) = "removed" => plan' = plan
         /\ Status(b) # "removed" => plan'[b].file = f
<1>1. CASE Status(b) = "removed"
  <2>1. plan' = plan
    BY <1>1 DEF WriteBack
  <2>2. \A c \in Batches : plan[c] \in Plan
    BY DEF StoreTypeOK
  <2>3. PlanInv'
    BY <2>1 DEF PlanInv, PlanOk, Truthful, Status, IsImported
  <2> QED BY <1>1, <2>1, <2>2, <2>3 DEF SameFile, StoreTypeOK
<1>2. CASE Status(b) # "removed"
  <2> DEFINE p == [plan[b] EXCEPT !.file = f]
  <2>1. /\ p \in Plan /\ p.file = f /\ p.asked = plan[b].asked /\ p.queued = plan[b].queued
        /\ plan' = [plan EXCEPT ![b] = p]
    BY <1>2 DEF StoreTypeOK, Plan, WriteBack
  <2> HIDE DEF p
  <2>2. /\ plan' \in [Batches -> Plan] /\ plan'[b] = p
        /\ \A c \in Batches : c # b => SameFile(c)
    BY <2>1, PlanReplaced
  <2>3. PlanOk(b)
    BY DEF PlanInv
  <2>4. PlanOk(b)'
    BY <1>2, <2>1, <2>2, <2>3 DEF PlanOk, CopyOk, Truthful, Status, IsImported
  <2>5. PlanInv'
    BY <2>2, <2>4, OtherPlans
  <2> QED BY <1>2, <2>1, <2>2, <2>5
<1> QED BY <1>1, <1>2

\* The running import goes on, and stays what it was.
LEMMA JobMoved ==
  ASSUME StoreTypeOK, WriterInv, NEW b \in Batches, job' \in Job, job'.batch = b, JobOk(b)',
         save' = save, save # NoSave => UNCHANGED rows /\ job'.pc = "ending"
  PROVE  JobInv' /\ WriterInv'
<1>1. JobInv'
  BY DEF JobInv
<1>2. WriterInv'
  BY DEF WriterInv
<1> QED BY <1>1, <1>2

\* finally: the item is marked in the file, and the next one is begun.
LEMMA ItemIsDone ==
  ASSUME OrderInv, NEW b \in Batches, NEW pc \in {"begun", "committed"}, Importing(b, pc),
         IsImported(b, job.next), AfterItem(b), UNCHANGED <<imported, anchor, save>>
  PROVE  /\ plan' \in [Batches -> Plan] /\ job' \in Job
         /\ PlanInv' /\ JobInv' /\ WriterInv'
<1>1. /\ job # NoJob /\ job \in Job /\ job.batch = b /\ job.pc = pc
      /\ JobOk(b) /\ PlanOk(b) /\ save = NoSave /\ job.next \in Items
      /\ plan[b].asked # 0 /\ Status(b) \notin Unconfirmed
  BY ImportingIs
<1>2. /\ BatchSize \in Nat /\ job.next \in Nat /\ 1 <= job.next /\ job.next <= BatchSize
      /\ job.copy \in File /\ job.copy.done \in 0..BatchSize
      /\ job.id \in 1..MaxAsked /\ job.parent \in 0..MaxRows
  BY <1>1, OrderConstants DEF Job, File, Items
<1>3. /\ CopyOk(b, job.copy) /\ (job.copy.named = job.id => job.copy.status = "running")
      /\ \A i \in 1..job.next - 1 : IsImported(b, i)
      /\ job.id <= plan[b].asked
  BY <1>1 DEF JobOk
<1> DEFINE d == IF job.copy.done < job.next THEN job.next ELSE job.copy.done
<1>4. /\ d \in 0..BatchSize
      /\ (d = job.next \/ d = job.copy.done)
      /\ job.copy.done <= d /\ job.next <= d
  BY <1>2
<1>5. Marked = [job.copy EXCEPT !.done = d]
  BY DEF Marked
<1> HIDE DEF d
<1>6. PICK f \in File : f = Marked
  BY <1>2, <1>4, <1>5 DEF File
<1>7. f.status = job.copy.status /\ f.named = job.copy.named /\ f.done = d
  BY <1>2, <1>6, <1>5 DEF File
<1>8. CopyOk(b, f)
  <2>1. \A i \in 1..f.done : IsImported(b, i)
    <3>1. \A i \in 1..job.next : i \in 1..job.next - 1 \/ i = job.next
      BY <1>2
    <3>2. \A i \in 1..job.next : IsImported(b, i)
      BY <1>3, <3>1
    <3>3. \A i \in 1..job.copy.done : IsImported(b, i)
      BY <1>3 DEF CopyOk, Truthful
    <3> QED BY <1>7, <1>4, <3>2, <3>3
  <2>2. f.status = "completed" => f.done = BatchSize
    <3>1. f.status = "completed" => job.copy.done = BatchSize
      BY <1>3, <1>7 DEF CopyOk, Truthful
    <3> QED BY <1>2, <1>7, <1>4, <3>1
  <2> QED BY <1>3, <1>7, <2>1, <2>2 DEF CopyOk, Truthful
<1>9. /\ plan' \in [Batches -> Plan] /\ PlanInv'
      /\ plan'[b].asked = plan[b].asked
      /\ Status(b) = "removed" => plan' = plan
      /\ Status(b) # "removed" => plan'[b].file = f
  BY <1>1, <1>6, <1>8, WrittenBack DEF AfterItem, OrderInv
<1>10. CASE Status(b) = "removed"
  <2>1. job' = [job EXCEPT !.pc = "ending"] /\ plan' = plan
    BY <1>9, <1>10 DEF AfterItem
  <2>2. job' \in Job /\ job'.batch = b /\ job'.pc = "ending" /\ job'.id = job.id
    BY <1>1, <2>1 DEF Job
  <2>3. JobOk(b)'
    BY <1>3, <1>10, <2>1, <2>2 DEF JobOk, Status
  <2> QED BY <1>1, <1>9, <2>2, <2>3, JobMoved DEF OrderInv
<1>11. CASE Status(b) # "removed" /\ job.next = BatchSize
  <2>1. job' = [job EXCEPT !.next = @ + 1, !.pc = "ending", !.copy = [f EXCEPT !.status = "completed"]]
    BY <1>6, <1>11 DEF AfterItem, NextItem
  <2>2. /\ [f EXCEPT !.status = "completed"] \in File
        /\ [f EXCEPT !.status = "completed"].status = "completed"
        /\ [f EXCEPT !.status = "completed"].done = f.done
        /\ [f EXCEPT !.status = "completed"].named = f.named
    BY DEF File, Statuses
  <2>3. /\ job' \in Job /\ job'.batch = b /\ job'.pc = "ending" /\ job'.id = job.id
        /\ job'.copy = [f EXCEPT !.status = "completed"]
    <3>1. job.next + 1 \in 1..BatchSize + 1
      BY <1>2
    <3> QED BY <1>1, <1>2, <2>1, <2>2, <3>1 DEF Job
  <2>4. f.done = BatchSize
    BY <1>2, <1>7, <1>11, <1>4
  <2>5. CopyOk(b, job.copy)'
    BY <1>8, <2>2, <2>3, <2>4 DEF CopyOk, Truthful, Unconfirmed, IsImported
  <2>6. JobOk(b)'
    BY <1>3, <1>9, <2>3, <2>5 DEF JobOk
  <2> QED BY <1>1, <1>9, <2>3, <2>6, JobMoved DEF OrderInv
<1>12. CASE Status(b) # "removed" /\ job.next # BatchSize
  <2>1. job' = [job EXCEPT !.next = @ + 1, !.pc = "item", !.copy = NoFile]
    BY <1>6, <1>12 DEF AfterItem, NextItem
  <2>2. NoFile \in File
    BY OrderConstants DEF NoFile, File, Statuses
  <2>3. /\ job' \in Job /\ job'.batch = b /\ job'.pc = "item" /\ job'.id = job.id
        /\ job'.next = job.next + 1
    <3>1. job.next + 1 \in 1..BatchSize + 1
      BY <1>2
    <3> QED BY <1>1, <1>2, <2>1, <2>2, <3>1 DEF Job
  <2>4. job.next + 1 <= BatchSize
    BY <1>2, <1>12
  <2>5. \A i \in 1..(job.next + 1) - 1 : IsImported(b, i)
    <3>1. \A i \in 1..(job.next + 1) - 1 : i \in 1..job.next - 1 \/ i = job.next
      BY <1>2
    <3> QED BY <1>3, <3>1
  <2>6. plan'[b].file.named = job.id => plan'[b].file.status = "running"
    BY <1>3, <1>7, <1>9, <1>12
  <2>7. JobOk(b)'
    BY <1>3, <1>9, <2>3, <2>4, <2>5, <2>6 DEF JobOk, Status, IsImported
  <2> QED BY <1>1, <1>9, <2>3, <2>7, JobMoved DEF OrderInv
<1> QED BY <1>10, <1>11, <1>12

\* With a timeline a version has its place in it: what the import finds there
\* is what the list shows.
LEMMA TimelineEnsured ==
  ASSUME OrderInv, EnsureTimeline,
         UNCHANGED <<rows, hidden, revision, imported, anchor>>
  PROVE  ListInv' /\ ItemInv' /\ ListKept /\ ordered' = TRUE
         /\ position' \in [Ordinals -> 0..MaxRows]
<1>1. /\ ListInv' /\ Preserved /\ HeadVersion' = HeadVersion
      /\ position' \in [Ordinals -> 0..MaxRows]
      /\ Listed' = Listed /\ \A o \in Stored : Place(o)' = Place(o)
  BY ListEnsured DEF OrderInv
<1>2. Stored' = Stored
  BY DEF Stored
<1>3. ItemInv'
  BY <1>1, <1>2, ItemsKept DEF OrderInv
<1> QED BY <1>1, <1>3 DEF ListKept, HeadMovesBySave, ShownKept, EnsureTimeline

LEMMA StepStartImport ==
  ASSUME OrderInv, NEW b \in Batches, StartImport(b)
  PROVE  OrderInv' /\ ListKept
<1> DEFINE id == CHOOSE i \in plan[b].queued : \A k \in plan[b].queued : i <= k
           taken == [plan EXCEPT ![b].queued = @ \ {id}]
<1>1. /\ plan[b] \in Plan /\ plan[b].file \in File /\ Read(b) \in File
      /\ plan[b].queued \in SUBSET (1..MaxAsked) /\ plan[b].asked \in Nat
      /\ Read(b).done = plan[b].file.done /\ Read(b).named = plan[b].file.named
      /\ (Read(b).status = "completed" => Status(b) = "completed")
  BY ReadIs, OrderConstants DEF OrderInv, Plan
<1>2. job = NoJob /\ plan[b].queued # {} /\ PlanOnly /\ UNCHANGED <<anchor, troubles>>
  BY DEF StartImport
<1>3. id \in plan[b].queued /\ id \in 1..MaxAsked
  <2>1. plan[b].queued \in SUBSET Nat
    BY <1>1, OrderConstants
  <2>2. \E i \in plan[b].queued : \A k \in plan[b].queued : i <= k
    BY <1>2, <2>1, LeastNumber
  <2>3. id \in plan[b].queued
    BY <2>2
  <2> QED BY <1>1, <2>3
<1>4. PlanOk(b) /\ id <= plan[b].asked /\ plan[b].asked # 0
  <2>1. PlanOk(b) /\ id \in 1..plan[b].asked
    BY <1>3 DEF OrderInv, PlanInv, PlanOk
  <2> HIDE DEF id
  <2> QED BY <1>1, <2>1
<1> HIDE DEF id
<1>5. CASE Status(b) = "removed"
  <2> DEFINE p == [plan[b] EXCEPT !.queued = @ \ {id}]
  <2>1. plan' = [plan EXCEPT ![b] = p] /\ job' = job
    BY <1>5 DEF StartImport, id
  <2>2. p \in Plan /\ p.file = plan[b].file /\ p.asked = plan[b].asked
        /\ p.queued \subseteq plan[b].queued
    BY <1>1 DEF Plan
  <2> HIDE DEF p
  <2>3. plan' \in [Batches -> Plan] /\ \A c \in Batches : SameFile(c)
    BY <2>1, <2>2, PlanReplaced DEF OrderInv, SameFile
  <2>4. PlanOk(b)'
    <3>1. imported' = imported /\ anchor' = anchor
      BY <1>2 DEF PlanOnly
    <3> QED BY <1>4, <2>3, <3>1 DEF PlanOk, SameFile, Truthful, Status, IsImported
  <2>5. PlanInv'
    BY <1>2, <2>3, <2>4, OtherPlans DEF OrderInv, PlanOnly
  <2>6. StoreTypeOK'
    BY <1>2, <2>1, <2>3 DEF OrderInv, StoreTypeOK, PlanOnly
  <2>7. JobInv' /\ WriterInv'
    BY <1>2, <2>1, NoJobLeft DEF OrderInv, PlanOnly
  <2> QED BY <1>2, <2>5, <2>6, <2>7, PlansOnly DEF OrderInv
<1>6. CASE Status(b) # "removed"
  <2> DEFINE f == [Read(b) EXCEPT !.status = "running"]
             p == [plan[b] EXCEPT !.queued = @ \ {id}, !.file = f]
             g == IF save = NoSave THEN NoFile ELSE [Read(b) EXCEPT !.status = "failed"]
             pc == IF save = NoSave THEN "item" ELSE "ending"
  <2>1. plan' = [taken EXCEPT ![b].file = f]
        /\ job' = [batch |-> b, id |-> id, next |-> 1, parent |-> 0, pc |-> pc, copy |-> g]
    BY <1>6 DEF StartImport, id
  <2>2. f \in File /\ f.status = "running" /\ f.done = plan[b].file.done
        /\ f.named = plan[b].file.named
    BY <1>1 DEF File, Statuses
  <2>3. g \in File /\ (save # NoSave => /\ g.status = "failed" /\ g.done = plan[b].file.done
                                        /\ g.named = plan[b].file.named)
    BY <1>1, OrderConstants DEF File, Statuses, NoFile
  <2> HIDE DEF f, g
  <2>4. plan' = [plan EXCEPT ![b] = p]
    BY <2>1 DEF OrderInv, StoreTypeOK
  <2>5. p \in Plan /\ p.file = f /\ p.asked = plan[b].asked /\ p.queued \subseteq plan[b].queued
    BY <1>1, <2>2 DEF Plan
  <2> HIDE DEF p
  <2>6. /\ plan' \in [Batches -> Plan] /\ plan'[b] = p
        /\ \A c \in Batches : c # b => SameFile(c)
    BY <2>4, <2>5, PlanReplaced DEF OrderInv
  <2>7. pc \in {"item", "ending"} /\ (pc # "ending" => save = NoSave)
    OBVIOUS
  <2> HIDE DEF pc
  <2>8. /\ job' \in Job /\ job'.batch = b /\ job'.id = id /\ job'.next = 1 /\ job'.pc = pc
        /\ job'.copy = g
    <3>1. 1 \in 1..BatchSize + 1 /\ 0 \in 0..MaxRows
      BY OrderConstants
    <3> QED BY <1>3, <2>1, <2>3, <2>7, <3>1 DEF Job
  <2>9. imported' = imported /\ anchor' = anchor /\ save' = save /\ rows' = rows
    BY <1>2 DEF PlanOnly
  <2>10. PlanOk(b)'
    BY <1>4, <2>2, <2>5, <2>6, <2>9 DEF PlanOk, Truthful, Status, IsImported, Unconfirmed
  <2>11. PlanInv'
    BY <2>6, <2>9, <2>10, OtherPlans DEF OrderInv
  <2>12. StoreTypeOK'
    BY <1>2, <2>6, <2>8 DEF OrderInv, StoreTypeOK, PlanOnly
  <2>13. JobOk(b)'
    <3>1. Status(b)' = "running" /\ plan'[b].asked = plan[b].asked
      BY <2>2, <2>5, <2>6 DEF Status
    <3>2. 1 <= BatchSize /\ \A i \in 1..1 - 1 : FALSE
      BY OrderConstants
    <3>3. save # NoSave => CopyOk(b, job.copy)'
      <4>1. ASSUME save # NoSave PROVE CopyOk(b, job.copy)'
        <5>1. \A i \in 1..plan[b].file.done : imported[b][i] # 0
          BY <1>4 DEF PlanOk, Truthful, IsImported
        <5>2. plan[b].file.named # 0
          BY <1>4 DEF PlanOk
        <5> QED BY <2>3, <2>8, <2>9, <4>1, <5>1, <5>2 DEF CopyOk, Truthful, IsImported, Unconfirmed
      <4> QED BY <4>1
    <3>4. pc = "ending" => save # NoSave
      BY DEF pc
    <3> QED BY <1>4, <2>7, <2>8, <3>1, <3>2, <3>3, <3>4 DEF JobOk
  <2>14. JobInv' /\ WriterInv'
    BY <2>7, <2>8, <2>9, <2>13, JobMoved DEF OrderInv
  <2> QED BY <1>2, <2>11, <2>12, <2>14, PlansOnly DEF OrderInv
<1> QED BY <1>5, <1>6

LEMMA StepBeginItem ==
  ASSUME OrderInv, NEW b \in Batches, BeginItem(b)
  PROVE  OrderInv' /\ ListKept
<1>1. /\ Importing(b, "item") /\ PlanOnly /\ UNCHANGED <<anchor, plan, troubles>>
      /\ job' = IF Status(b) = "removed" THEN [job EXCEPT !.pc = "ending"]
                ELSE IF plan[b].cancel
                THEN [job EXCEPT !.pc = "ending", !.copy = [Read(b) EXCEPT !.status = "paused"]]
                ELSE [job EXCEPT !.pc = "begun", !.copy = Read(b)]
  BY DEF BeginItem
<1>2. /\ job # NoJob /\ job \in Job /\ job.batch = b /\ job.pc = "item"
      /\ JobOk(b) /\ PlanOk(b) /\ job.id \in Jobs(b)
      /\ plan[b].asked # 0 /\ Status(b) \notin Unconfirmed /\ save = NoSave
  BY <1>1, ImportingIs
<1>3. /\ imported' = imported /\ plan' = plan /\ save' = save /\ anchor' = anchor
      /\ ordered' = ordered
  BY <1>1 DEF PlanOnly
<1>4. /\ Read(b) \in File
      /\ Read(b).done = plan[b].file.done /\ Read(b).named = plan[b].file.named
      /\ Read(b).status # Status(b) =>
           /\ Read(b).status = "paused" /\ plan[b].file.named \notin Jobs(b)
  BY ReadIs DEF OrderInv
<1>5. Status(b) # "removed" => CopyOk(b, Read(b))
  <2>1. Status(b) # "removed" => Read(b).status \notin Unconfirmed \cup {"removed"}
    BY <1>2, <1>4 DEF Unconfirmed
  <2>2. Read(b).named # 0
    BY <1>2, <1>4 DEF PlanOk
  <2>3. \A i \in 1..Read(b).done : IsImported(b, i)
    BY <1>2, <1>4 DEF PlanOk, Truthful
  <2>4. Read(b).status = "completed" => Read(b).done = BatchSize
    BY <1>2, <1>4 DEF PlanOk, Truthful, Status
  <2> QED BY <2>1, <2>2, <2>3, <2>4 DEF CopyOk, Truthful
<1>6. PICK f \in File : f = Read(b)
  BY <1>4
<1>7. job' \in Job /\ job'.batch = b /\ JobOk(b)'
  <2>1. CASE Status(b) = "removed"
    <3>1. job' \in Job /\ job'.batch = b /\ job'.pc = "ending" /\ job'.id = job.id
      BY <1>1, <1>2, <2>1 DEF Job
    <3> QED BY <1>2, <1>3, <2>1, <3>1 DEF JobOk, Status
  <2>2. CASE Status(b) # "removed" /\ plan[b].cancel
    <3>1. job' = [job EXCEPT !.pc = "ending", !.copy = [f EXCEPT !.status = "paused"]]
      BY <1>1, <1>6, <2>2
    <3>2. /\ [f EXCEPT !.status = "paused"] \in File
          /\ [f EXCEPT !.status = "paused"].status = "paused"
          /\ [f EXCEPT !.status = "paused"].done = f.done
          /\ [f EXCEPT !.status = "paused"].named = f.named
      BY DEF File, Statuses
    <3>3. /\ job' \in Job /\ job'.batch = b /\ job'.pc = "ending" /\ job'.id = job.id
          /\ job'.copy = [f EXCEPT !.status = "paused"]
      BY <1>2, <3>1, <3>2 DEF Job
    <3>4. CopyOk(b, job.copy)'
      BY <1>3, <1>5, <1>6, <2>2, <3>2, <3>3 DEF CopyOk, Truthful, Unconfirmed, IsImported
    <3> QED BY <1>2, <1>3, <3>3, <3>4 DEF JobOk
  <2>3. CASE Status(b) # "removed" /\ ~plan[b].cancel
    <3>1. job' = [job EXCEPT !.pc = "begun", !.copy = f]
      BY <1>1, <1>6, <2>3
    <3>2. /\ job' \in Job /\ job'.batch = b /\ job'.pc = "begun" /\ job'.id = job.id
          /\ job'.copy = f /\ job'.next = job.next
      BY <1>2, <3>1 DEF Job
    <3>3. CopyOk(b, job.copy)'
      BY <1>3, <1>5, <1>6, <2>3, <3>2 DEF CopyOk, Truthful, IsImported
    <3>4. f.named = job.id => f.status = "running"
      BY <1>2, <1>4, <1>6 DEF JobOk
    <3> QED BY <1>2, <1>3, <3>2, <3>3, <3>4 DEF JobOk, Status, IsImported
  <2> QED BY <2>1, <2>2, <2>3
<1>8. StoreTypeOK'
  BY <1>1, <1>7 DEF OrderInv, StoreTypeOK, PlanOnly
<1>9. PlanInv'
  BY <1>3 DEF OrderInv, PlanInv, PlanOk, Truthful, Status, IsImported
<1>10. JobInv' /\ WriterInv'
  BY <1>2, <1>3, <1>7, JobMoved DEF OrderInv
<1> QED BY <1>1, <1>3, <1>8, <1>9, <1>10, PlansOnly DEF OrderInv

LEMMA StepSkipImported ==
  ASSUME OrderInv, NEW b \in Batches, SkipImported(b)
  PROVE  OrderInv' /\ ListKept
<1>1. /\ Importing(b, "begun") /\ IsImported(b, job.next) /\ EnsureTimeline /\ AfterItem(b)
      /\ UNCHANGED <<format, oldHandle, rows, hidden, revision, imported, anchor,
                     troubles, save, reader>>
  BY DEF SkipImported
<1>2. /\ plan' \in [Batches -> Plan] /\ job' \in Job
      /\ PlanInv' /\ JobInv' /\ WriterInv'
  BY <1>1, ItemIsDone
<1>3. /\ ListInv' /\ ItemInv' /\ ListKept /\ ordered' = TRUE
      /\ position' \in [Ordinals -> 0..MaxRows]
  BY <1>1, TimelineEnsured
<1>4. StoreTypeOK'
  BY <1>1, <1>2, <1>3 DEF OrderInv, StoreTypeOK
<1> QED BY <1>2, <1>3, <1>4 DEF OrderInv

LEMMA StepLookUpItem ==
  ASSUME OrderInv, NEW b \in Batches, LookUpItem(b)
  PROVE  OrderInv' /\ ListKept
<1>1. /\ Importing(b, "begun") /\ EnsureTimeline
      /\ UNCHANGED <<format, oldHandle, rows, hidden, revision, imported, anchor,
                     plan, troubles, save, job, reader>>
  BY DEF LookUpItem
<1>2. /\ ListInv' /\ ItemInv' /\ ListKept /\ ordered' = TRUE
      /\ position' \in [Ordinals -> 0..MaxRows]
  BY <1>1, TimelineEnsured
<1>3. StoreTypeOK'
  BY <1>1, <1>2 DEF OrderInv, StoreTypeOK
<1>4. PlanInv'
  BY <1>1 DEF OrderInv, PlanInv, PlanOk, Truthful, Status, IsImported
<1>5. WriterInv'
  BY <1>1 DEF OrderInv, WriterInv
<1>6. JobInv'
  <2>1. job # NoJob /\ job.batch = b /\ job.pc = "begun" /\ JobOk(b)
    BY <1>1, ImportingIs
  <2>2. JobOk(b)'
    BY <1>1, <2>1 DEF JobOk, CopyOk, Truthful, Status, IsImported
  <2> QED BY <1>1, <2>1, <2>2 DEF JobInv
<1> QED BY <1>2, <1>3, <1>4, <1>5, <1>6 DEF OrderInv

LEMMA StepPrepareImport ==
  ASSUME OrderInv, NEW b \in Batches, PrepareImport(b)
  PROVE  OrderInv' /\ ListKept
<1>1. /\ Importing(b, "begun") /\ ~IsImported(b, job.next) /\ ordered
      /\ job' = [job EXCEPT !.pc = "prepared", !.parent = Predecessor(anchor[b])]
      /\ PlanOnly /\ UNCHANGED <<anchor, plan, troubles>>
  BY DEF PrepareImport, PlanOnly
<1>2. /\ job # NoJob /\ job \in Job /\ job.batch = b /\ job.pc = "begun" /\ JobOk(b)
      /\ save = NoSave
  BY <1>1, ImportingIs
<1>3. /\ imported' = imported /\ plan' = plan /\ save' = save /\ anchor' = anchor
      /\ ordered' = ordered
  BY <1>1 DEF PlanOnly
<1>4. Predecessor(anchor[b]) \in 0..MaxRows
  <2>1. Predecessor(anchor[b]) = 0 \/ Predecessor(anchor[b]) \in Stored
    BY PredecessorIs DEF OrderInv, ListInv, Listed
  <2> QED BY <2>1, RowsStored, OrderConstants DEF OrderInv, Ordinals
<1>5. /\ job' \in Job /\ job'.batch = b /\ job'.pc = "prepared" /\ job'.id = job.id
      /\ job'.copy = job.copy /\ job'.next = job.next
  BY <1>1, <1>2, <1>4 DEF Job
<1>6. JobOk(b)'
  BY <1>1, <1>2, <1>3, <1>5 DEF JobOk, CopyOk, Truthful, Status, IsImported
<1>7. StoreTypeOK'
  BY <1>1, <1>5 DEF OrderInv, StoreTypeOK, PlanOnly
<1>8. PlanInv'
  BY <1>3 DEF OrderInv, PlanInv, PlanOk, Truthful, Status, IsImported
<1>9. JobInv' /\ WriterInv'
  BY <1>2, <1>3, <1>5, <1>6, JobMoved DEF OrderInv
<1> QED BY <1>1, <1>3, <1>7, <1>8, <1>9, PlansOnly DEF OrderInv

LEMMA StepMarkItem ==
  ASSUME OrderInv, NEW b \in Batches, MarkItem(b)
  PROVE  OrderInv' /\ ListKept
<1>1. Importing(b, "committed") /\ AfterItem(b) /\ PlanOnly /\ UNCHANGED <<anchor, troubles>>
  BY DEF MarkItem
<1>2. IsImported(b, job.next)
  BY <1>1, ImportingIs DEF JobOk
<1>3. /\ plan' \in [Batches -> Plan] /\ job' \in Job
      /\ PlanInv' /\ JobInv' /\ WriterInv'
  BY <1>1, <1>2, ItemIsDone DEF PlanOnly
<1>4. StoreTypeOK'
  BY <1>1, <1>3 DEF OrderInv, StoreTypeOK, PlanOnly
<1> QED BY <1>1, <1>3, <1>4, PlansOnly DEF OrderInv

LEMMA StepItemFails ==
  ASSUME OrderInv, NEW b \in Batches, ItemFails(b)
  PROVE  OrderInv' /\ ListKept
<1>1. PICK pc \in {"begun", "prepared"} : Importing(b, pc)
  BY DEF ItemFails
<1>2. /\ PlanOnly /\ UNCHANGED anchor
      /\ \E s \in {"paused", "failed"} :
           /\ WriteBack(b, [job.copy EXCEPT !.status = s])
           /\ job' = [job EXCEPT !.pc = "ending", !.copy.status = s, !.parent = 0]
  BY DEF ItemFails
<1>3. troubles' \in 0..MaxTroubles
  <2>1. troubles' = troubles \/ (troubles < MaxTroubles /\ troubles' = troubles + 1)
    BY DEF ItemFails, Trouble
  <2> QED BY <2>1, OrderConstants DEF OrderInv, StoreTypeOK
<1>4. PICK s \in {"paused", "failed"} :
        /\ WriteBack(b, [job.copy EXCEPT !.status = s])
        /\ job' = [job EXCEPT !.pc = "ending", !.copy.status = s, !.parent = 0]
  BY <1>2
<1>5. /\ job # NoJob /\ job \in Job /\ job.batch = b /\ JobOk(b) /\ CopyOk(b, job.copy)
      /\ plan[b].asked # 0 /\ save = NoSave
  BY <1>1, ImportingIs DEF JobOk
<1>6. /\ imported' = imported /\ save' = save /\ anchor' = anchor
  BY <1>2 DEF PlanOnly
<1>7. PICK f \in File : /\ f = [job.copy EXCEPT !.status = s]
                        /\ f.status = s /\ f.done = job.copy.done /\ f.named = job.copy.named
  <2>1. PICK c \in File : c = job.copy
    BY <1>5 DEF Job
  <2>2. PICK f : f = [c EXCEPT !.status = s]
    OBVIOUS
  <2>3. s \in Statuses
    BY DEF Statuses
  <2>4. f \in File /\ f.status = s /\ f.done = c.done /\ f.named = c.named
    BY <2>2, <2>3 DEF File
  <2>5. f = [job.copy EXCEPT !.status = s]
    BY <2>1, <2>2
  <2> QED BY <2>1, <2>4, <2>5
<1>8. CopyOk(b, f)
  BY <1>5, <1>7 DEF CopyOk, Truthful, Unconfirmed
<1>9. /\ plan' \in [Batches -> Plan] /\ PlanInv'
      /\ plan'[b].asked = plan[b].asked
  BY <1>4, <1>5, <1>6, <1>7, <1>8, WrittenBack DEF OrderInv
<1>10. /\ job' \in Job /\ job'.batch = b /\ job'.pc = "ending" /\ job'.id = job.id
       /\ job'.copy = f
  <2>1. job' = [job EXCEPT !.pc = "ending", !.copy = f, !.parent = 0]
    BY <1>4, <1>5, <1>7 DEF Job
  <2>2. 0 \in 0..MaxRows
    BY OrderConstants
  <2> QED BY <1>5, <2>1, <2>2 DEF Job
<1>11. CopyOk(b, job.copy)'
  BY <1>6, <1>8, <1>10 DEF CopyOk, Truthful, IsImported
<1>12. JobOk(b)'
  BY <1>5, <1>9, <1>10, <1>11 DEF JobOk
<1>13. JobInv' /\ WriterInv'
  BY <1>5, <1>6, <1>10, <1>12, JobMoved DEF OrderInv
<1>14. StoreTypeOK'
  BY <1>2, <1>3, <1>9, <1>10 DEF OrderInv, StoreTypeOK, PlanOnly
<1> QED BY <1>2, <1>9, <1>13, <1>14, PlansOnly DEF OrderInv

LEMMA StepEndImport ==
  ASSUME OrderInv, NEW b \in Batches, EndImport(b)
  PROVE  OrderInv' /\ ListKept
<1>1. /\ Importing(b, "ending") /\ WriteBack(b, job.copy) /\ job' = NoJob
      /\ PlanOnly /\ UNCHANGED <<anchor, troubles>>
  BY DEF EndImport
<1>2. /\ job \in Job /\ job.pc = "ending" /\ JobOk(b) /\ plan[b].asked # 0
  BY <1>1, ImportingIs
<1>3. job.copy \in File /\ (Status(b) # "removed" => CopyOk(b, job.copy))
  BY <1>2 DEF Job, JobOk
<1>4. plan' \in [Batches -> Plan] /\ PlanInv'
  BY <1>1, <1>2, <1>3, WrittenBack DEF OrderInv, PlanOnly
<1>5. StoreTypeOK'
  BY <1>1, <1>4 DEF OrderInv, StoreTypeOK, PlanOnly
<1>6. JobInv' /\ WriterInv'
  BY <1>1, NoJobLeft DEF OrderInv, PlanOnly
<1> QED BY <1>1, <1>4, <1>5, <1>6, PlansOnly DEF OrderInv

LEMMA StepCommitImport ==
  ASSUME OrderInv, NEW b \in Batches, CommitImport(b)
  PROVE  OrderInv' /\ ListKept
<1> DEFINE v == [kind |-> "import", content |-> NoContent, parent |-> job.parent,
                 item |-> [batch |-> b, item |-> job.next]]
<1>1. /\ Importing(b, "prepared") /\ Len(rows) < MaxRows
      /\ job.parent = Predecessor(anchor[b])
      /\ rows' = Append(rows, v) /\ position' = InsertedBefore(anchor[b])
      /\ revision' = revision + 1
      /\ imported' = [imported EXCEPT ![b][job.next] = Len(rows) + 1]
      /\ job' = [job EXCEPT !.pc = "committed", !.parent = 0]
      /\ UNCHANGED <<format, oldHandle, ordered, hidden, anchor, plan, troubles, save, reader>>
  BY DEF CommitImport, HasRoom
<1>2. /\ job # NoJob /\ job \in Job /\ job.batch = b /\ job.pc = "prepared" /\ JobOk(b)
      /\ save = NoSave /\ job.next \in Items /\ anchor[b] \in Stored
  BY <1>1, ImportingIs
<1>3. /\ ordered /\ ~IsImported(b, job.next) /\ \A i \in 1..job.next - 1 : IsImported(b, i)
      /\ job.id <= plan[b].asked /\ job.next <= BatchSize
  BY <1>2 DEF JobOk
<1>4. v \in Version /\ v.parent = Predecessor(anchor[b]) /\ v.kind = "import"
      /\ v.item = [batch |-> b, item |-> job.next]
  BY <1>1, <1>2 DEF Version, Kinds, Job, ImportItem
<1> HIDE DEF v
<1>5. PICK a \in Stored : a = anchor[b]
  BY <1>2
<1>6. PICK i \in Items : i = job.next
  BY <1>2
<1>7. PICK n \in Nat : n = Len(rows) + 1
  BY RowsStored DEF OrderInv
<1>8. /\ ListInv' /\ Preserved /\ HeadVersion' = HeadVersion
      /\ position' \in [Ordinals -> 0..MaxRows]
      /\ rows' \in Seq(Version) /\ Len(rows') <= MaxRows
      /\ Len(rows') = n /\ rows'[n] = v /\ n \notin Stored
      /\ Stored' = Stored \cup {n}
      /\ Place(Len(rows))' < Place(a)'
      /\ \A p \in Stored : Place(p) < Place(a) => Place(p)' < Place(Len(rows))'
  BY <1>1, <1>3, <1>4, <1>5, <1>7, ListInserted DEF OrderInv
<1>9. /\ Place(n)' < Place(a)'
      /\ \A p \in Stored : Place(p) < Place(a) => Place(p)' < Place(n)'
  <2>1. Place(n)' = Place(Len(rows))'
    BY <1>8 DEF Place
  <2> QED BY <1>8, <2>1
<1>10. n # 0 /\ n \in 0..MaxRows
  BY <1>1, <1>7, RowsStored, OrderConstants DEF OrderInv
<1>11. /\ ItemInv' /\ imported'[b][i] = n
       /\ \A c \in Batches, j \in Items :
            ~(c = b /\ j = i) => imported'[c][j] = imported[c][j]
  <2>1. StoreTypeOK /\ ItemInv /\ Preserved /\ UNCHANGED anchor /\ anchor[b] = a
    BY <1>1, <1>5, <1>8 DEF OrderInv
  <2>2. ~IsImported(b, i) /\ \A j \in 1..i - 1 : IsImported(b, j)
    BY <1>3, <1>6
  <2>3. n \notin Stored /\ n # 0 /\ Stored' = Stored \cup {n}
    BY <1>8, <1>10
  <2>4. rows'[n].item = [batch |-> b, item |-> i] /\ imported' = [imported EXCEPT ![b][i] = n]
    BY <1>1, <1>4, <1>6, <1>7, <1>8
  <2>5. Place(n)' < Place(a)'
    BY <1>9
  <2>6. \A p \in Stored : Place(p) < Place(a) => Place(p)' < Place(n)'
    BY <1>9
  <2>7. ItemAdded(b, i, a, n)
    BY <2>1, <2>2, <2>3, <2>4, <2>5, <2>6 DEF ItemAdded
  <2> QED BY <2>1, <2>7, ItemsImported
<1>12. /\ job' \in Job /\ job'.batch = b /\ job'.pc = "committed" /\ job'.id = job.id
       /\ job'.copy = job.copy /\ job'.next = i
  <2>1. 0 \in 0..MaxRows
    BY OrderConstants
  <2> QED BY <1>1, <1>2, <1>6, <2>1 DEF Job
<1>13. \A c \in Batches, j \in Items : imported[c][j] # 0 => imported'[c][j] # 0
  BY <1>10, <1>11
<1>14. StoreTypeOK'
  <2>1. imported' \in [Batches -> [Items -> 0..MaxRows]]
    BY <1>1, <1>2, <1>7, <1>10 DEF OrderInv, StoreTypeOK
  <2>2. revision' \in Nat
    BY <1>1 DEF OrderInv, StoreTypeOK
  <2> QED BY <1>1, <1>8, <1>12, <2>1, <2>2 DEF OrderInv, StoreTypeOK
<1>15. \A c \in Batches, k \in 0..BatchSize :
         (\A j \in 1..k : imported[c][j] # 0) => (\A j \in 1..k : imported'[c][j] # 0)
  <2>1. \A k \in 0..BatchSize, j \in Nat : 1 <= j /\ j <= k => j \in Items
    BY OrderConstants DEF Items
  <2> QED BY <1>13, <2>1, OrderConstants
<1>16. PlanInv'
  <2> SUFFICES ASSUME NEW c \in Batches PROVE PlanOk(c)'
    BY DEF PlanInv
  <2>1. PlanOk(c) /\ plan' = plan /\ anchor' = anchor
    BY <1>1 DEF OrderInv, PlanInv
  <2>2. plan[c].file.done \in 0..BatchSize
    BY DEF OrderInv, StoreTypeOK, Plan, File
  <2>3. Truthful(c, plan[c].file)'
    BY <1>15, <2>1, <2>2 DEF PlanOk, Truthful, IsImported
  <2>4. Status(c) \in Unconfirmed => c # b
    BY <1>1, ImportingIs
  <2>5. Status(c) \in Unconfirmed => \A j \in Items : ~(imported'[c][j] # 0)
    BY <1>11, <2>1, <2>4 DEF PlanOk, IsImported
  <2> QED BY <2>1, <2>3, <2>5 DEF PlanOk, Status, IsImported
<1>17. JobOk(b)'
  <2>1. CopyOk(b, job.copy) /\ (job.copy.named = job.id => job.copy.status = "running")
    BY <1>2 DEF JobOk
  <2>2. job.copy.done \in 0..BatchSize
    BY <1>2 DEF Job, File
  <2>3. CopyOk(b, job.copy)'
    BY <1>12, <1>15, <2>1, <2>2 DEF CopyOk, Truthful, IsImported
  <2>4. \A j \in 1..i - 1 : imported'[b][j] # 0
    <3>1. i - 1 \in 0..BatchSize
      BY OrderConstants DEF Items
    <3> QED BY <1>3, <1>6, <1>15, <3>1 DEF IsImported
  <2>5. plan[b].file.named = job.id => Status(b) = "running"
    BY <1>2 DEF JobOk
  <2>6. plan' = plan /\ ordered' = ordered
    BY <1>1
  <2> QED BY <1>3, <1>6, <1>10, <1>11, <1>12, <2>1, <2>3, <2>4, <2>5, <2>6 DEF JobOk, Status, IsImported
<1>18. JobInv' /\ WriterInv'
  BY <1>1, <1>2, <1>12, <1>17, JobMoved DEF OrderInv
<1>19. revision' > revision
  BY <1>1 DEF OrderInv, StoreTypeOK
<1> QED BY <1>8, <1>11, <1>14, <1>16, <1>18, <1>19 DEF OrderInv, ListKept, HeadMovesBySave, ShownKept

---------------------------------------------------------------------------
(* The saves and the collapse.                                             *)

LEMMA PlansStay ==
  ASSUME PlanInv, JobInv, UNCHANGED <<plan, job, imported, anchor>>, ordered => ordered'
  PROVE  PlanInv' /\ JobInv'
<1>1. PlanInv'
  BY DEF PlanInv, PlanOk, Truthful, Status, IsImported
<1>2. JobInv'
  <2> SUFFICES ASSUME job # NoJob PROVE JobOk(job.batch)'
    BY DEF JobInv
  <2>1. PICK b : b = job.batch
    OBVIOUS
  <2>2. JobOk(b)
    BY <2>1 DEF JobInv
  <2>3. JobOk(b)'
    BY <2>2 DEF JobOk, CopyOk, Truthful, Status, IsImported
  <2> QED BY <2>1, <2>3
<1> QED BY <1>1, <1>2

\* A version that is not of a plan is the new head.
LEMMA SaveAppended ==
  ASSUME OrderInv, Len(rows) < MaxRows, NEW v \in Version,
         v.kind # "import", v.item = NoItem, v.parent # 0 => v.parent \in Stored,
         rows' = Append(rows, v), position' = Appended,
         UNCHANGED <<ordered, hidden, revision, imported, anchor>>
  PROVE  /\ ListInv' /\ ItemInv' /\ ListKept
         /\ position' \in [Ordinals -> 0..MaxRows]
         /\ rows' \in Seq(Version) /\ Len(rows') <= MaxRows
<1>1. PICK n \in Nat : n = Len(rows) + 1
  BY RowsStored DEF OrderInv
<1>2. /\ ListInv' /\ Preserved
      /\ position' \in [Ordinals -> 0..MaxRows]
      /\ rows' \in Seq(Version) /\ Len(rows') <= MaxRows
      /\ Len(rows') = n /\ rows'[n] = v /\ n \notin Stored
      /\ \A o \in Stored : Place(o)' = Place(o) /\ Place(o)' < Place(Len(rows))'
      /\ hidden'[n] = 0 /\ Stored' = Stored \cup {n}
  BY <1>1, ListAppended DEF OrderInv
<1>3. ItemInv'
  <2>1. \A o \in Stored' \ Stored : rows'[o].item = NoItem
    BY <1>2
  <2> QED BY <1>2, <2>1, ItemsKept DEF OrderInv
<1>4. HeadVersion' = n
  <2>1. PlaceInv' /\ n \in Stored'
    BY <1>2 DEF ListInv
  <2>2. Place(n)' = Place(Len(rows))'
    BY <1>2 DEF Place
  <2>3. Place(n)' \in Nat /\ Place(n)' > 0
    <3>1. CASE ordered'
      <4>1. position'[n] \in 1..Len(rows')
        BY <2>1, <3>1 DEF PlaceInv
      <4> QED BY <1>2, <3>1, <4>1 DEF Place
    <3>2. CASE ~ordered'
      BY <1>1, <3>2, RowsStored DEF Place, OrderInv
    <3> QED BY <3>1, <3>2
  <2>4. n \in Listed'
    BY <1>2, <2>1, <2>3 DEF Listed
  <2>5. \A p \in Stored : Place(p) \in Nat
    BY PlacesDiffer DEF OrderInv, ListInv
  <2>6. \A p \in Listed' : Place(p)' <= Place(n)'
    <3>1. \A p \in Stored : Place(p)' <= Place(n)'
      BY <1>2, <2>2, <2>3, <2>5
    <3>2. Place(n)' <= Place(n)'
      BY <2>3
    <3> QED BY <1>2, <3>1, <3>2 DEF Listed
  <2>7. Len(rows') \in Nat
    BY <1>2
  <2> QED BY <2>1, <2>4, <2>6, <2>7, HeadAfter
<1>5. HeadMovesBySave
  BY <1>1, <1>2, <1>4 DEF HeadMovesBySave
<1>6. ShownKept
  <2>1. Listed \subseteq Listed'
    <3>1. \A o \in Stored : Place(o)' = Place(o) /\ o \in Stored'
      BY <1>2
    <3> QED BY <3>1 DEF Listed
  <2>2. \A o \in Listed' \ Listed : o = n
    <3>1. \A o \in Stored : Place(o)' = Place(o)
      BY <1>2
    <3> QED BY <1>2, <3>1 DEF Listed
  <2>3. Place(n)' = Place(Len(rows))'
    BY <1>2 DEF Place
  <2>4. \A p \in Stored : Place(p) < Place(n)'
    BY <1>2, <2>3
  <2> QED BY <1>2, <2>1, <2>2, <2>4 DEF ShownKept
<1> QED BY <1>2, <1>3, <1>5, <1>6 DEF ListKept

LEMMA SavesAre ==
  ASSUME NEW s \in Saves
  PROVE  s[1] \in {"baseline", "save"} /\ s[2] \in Contents \cup {NoContent}
BY DEF Saves

LEMMA StepPrepareSave ==
  ASSUME OrderInv, NEW s \in Saves, PrepareSave(s)
  PROVE  OrderInv' /\ ListKept
<1>1. /\ save = NoSave /\ job = NoJob /\ Len(rows) < MaxRows
      /\ save' = [kind |-> s[1], content |-> s[2], parent |-> HeadVersion, item |-> NoItem]
      /\ UNCHANGED <<format, oldHandle, rows, ordered, position, hidden, revision,
                     imported, anchor, plan, troubles, job, reader>>
  BY DEF PrepareSave, WriterFree, HasRoom
<1>2. HeadVersion \in 0..MaxRows
  <2>1. HeadVersion \in Stored \cup {0}
    BY HeadIs DEF OrderInv, ListInv, Listed
  <2> QED BY <2>1, RowsStored, OrderConstants DEF OrderInv, Ordinals
<1>3. save' \in Prepared
  BY <1>1, <1>2, SavesAre DEF Prepared
<1>4. StoreTypeOK'
  BY <1>1, <1>3 DEF OrderInv, StoreTypeOK
<1>5. ListInv' /\ Preserved /\ ListKept
  BY <1>1, ListSame DEF OrderInv, ListKept
<1>6. ItemInv'
  <2>1. Stored' = Stored
    BY <1>1 DEF Stored
  <2> QED BY <1>1, <1>5, <2>1, ItemsKept DEF OrderInv
<1>7. WriterInv'
  BY <1>1 DEF WriterInv
<1> QED BY <1>1, <1>4, <1>5, <1>6, <1>7, PlansStay DEF OrderInv

LEMMA StepAbandonSave ==
  ASSUME OrderInv, AbandonSave
  PROVE  OrderInv' /\ ListKept
<1>1. /\ save' = NoSave
      /\ UNCHANGED <<format, oldHandle, rows, ordered, position, hidden, revision,
                     imported, anchor, plan, troubles, job, reader>>
  BY DEF AbandonSave
<1>2. StoreTypeOK'
  BY <1>1 DEF OrderInv, StoreTypeOK
<1>3. ListInv' /\ Preserved /\ ListKept
  BY <1>1, ListSame DEF OrderInv, ListKept
<1>4. ItemInv'
  <2>1. Stored' = Stored
    BY <1>1 DEF Stored
  <2> QED BY <1>1, <1>3, <2>1, ItemsKept DEF OrderInv
<1>5. WriterInv'
  BY <1>1 DEF WriterInv
<1> QED BY <1>1, <1>2, <1>3, <1>4, <1>5, PlansStay DEF OrderInv

LEMMA StepUpgradeStorage ==
  ASSUME OrderInv, UpgradeStorage
  PROVE  OrderInv' /\ ListKept
<1>1. /\ format' = 2
      /\ UNCHANGED <<oldHandle, rows, ordered, position, hidden, revision,
                     imported, anchor, plan, troubles, save, job, reader>>
  BY DEF UpgradeStorage
<1>2. StoreTypeOK'
  BY <1>1 DEF OrderInv, StoreTypeOK
<1>3. ListInv' /\ Preserved /\ ListKept
  BY <1>1, ListSame DEF OrderInv, ListKept
<1>4. ItemInv'
  <2>1. Stored' = Stored
    BY <1>1 DEF Stored
  <2> QED BY <1>1, <1>3, <2>1, ItemsKept DEF OrderInv
<1>5. WriterInv'
  BY <1>1 DEF OrderInv, WriterInv
<1> QED BY <1>1, <1>2, <1>3, <1>4, <1>5, PlansStay DEF OrderInv

LEMMA StepCommitSave ==
  ASSUME OrderInv, CommitSave
  PROVE  OrderInv' /\ ListKept
<1>1. /\ save # NoSave /\ save.parent = HeadVersion /\ rows' = Append(rows, save)
      /\ position' = Appended /\ save' = NoSave
      /\ UNCHANGED <<format, oldHandle, ordered, hidden, revision, imported,
                     anchor, plan, troubles, job, reader>>
  BY DEF CommitSave
<1>2. PICK v \in Version : v = save /\ v.kind # "import" /\ v.item = NoItem
  <2>1. save \in Prepared
    BY <1>1 DEF OrderInv, StoreTypeOK
  <2>2. save \in Version /\ save.kind # "import" /\ save.item = NoItem
    BY <2>1 DEF Prepared, Version, Kinds
  <2> QED BY <2>2
<1>3. v.parent # 0 => v.parent \in Stored
  BY <1>1, <1>2, HeadIs DEF OrderInv, ListInv, Listed
<1>4. Len(rows) < MaxRows
  BY <1>1 DEF OrderInv, WriterInv
<1>5. /\ ListInv' /\ ItemInv' /\ ListKept
      /\ position' \in [Ordinals -> 0..MaxRows]
      /\ rows' \in Seq(Version) /\ Len(rows') <= MaxRows
  BY <1>1, <1>2, <1>3, <1>4, SaveAppended
<1>6. StoreTypeOK'
  BY <1>1, <1>5 DEF OrderInv, StoreTypeOK
<1>7. WriterInv'
  BY <1>1 DEF WriterInv
<1> QED BY <1>1, <1>5, <1>6, <1>7, PlansStay DEF OrderInv

LEMMA StepCheckpointFormat1 ==
  ASSUME OrderInv, ~StaleUnderOrder, NEW s \in Saves, CheckpointFormat1(s)
  PROVE  OrderInv' /\ ListKept
<1> DEFINE v == [kind |-> s[1], content |-> s[2], parent |-> Len(rows), item |-> NoItem]
<1>1. /\ save = NoSave /\ job = NoJob /\ Len(rows) < MaxRows /\ ~ordered
      /\ rows' = Append(rows, v)
      /\ UNCHANGED <<format, oldHandle, ordered, position, hidden, revision,
                     imported, anchor, plan, troubles, save, job, reader>>
  BY DEF CheckpointFormat1, WriterFree, HasRoom
<1>2. Len(rows) \in 0..MaxRows /\ (Len(rows) # 0 => Len(rows) \in Stored)
  BY <1>1, RowsStored, OrderConstants DEF OrderInv, Stored
<1>3. v \in Version /\ v.kind # "import" /\ v.item = NoItem /\ (v.parent # 0 => v.parent \in Stored)
  BY <1>2, SavesAre DEF Version, Kinds
<1> HIDE DEF v
<1>4. position' = Appended
  BY <1>1 DEF Appended
<1>5. /\ ListInv' /\ ItemInv' /\ ListKept
      /\ position' \in [Ordinals -> 0..MaxRows]
      /\ rows' \in Seq(Version) /\ Len(rows') <= MaxRows
  BY <1>1, <1>3, <1>4, SaveAppended
<1>6. StoreTypeOK'
  BY <1>1, <1>5 DEF OrderInv, StoreTypeOK
<1>7. WriterInv'
  BY <1>1 DEF WriterInv
<1> QED BY <1>1, <1>5, <1>6, <1>7, PlansStay DEF OrderInv

LEMMA StepReconcile ==
  ASSUME OrderInv, NEW last \in Ordinals, Reconcile(last)
  PROVE  OrderInv' /\ ListKept
<1>1. /\ UNCHANGED <<format, oldHandle, rows, imported, anchor, plan, troubles, save, job,
                     reader>>
      /\ save = NoSave /\ ordered' = TRUE
  BY DEF Reconcile, WriterFree, EnsureTimeline
<1>2. /\ ListInv' /\ Preserved /\ HeadVersion' = HeadVersion
      /\ position' \in [Ordinals -> 0..MaxRows]
      /\ hidden' \in [Ordinals -> 0..MaxRows]
      /\ revision' \in Nat /\ revision' > revision
  BY ListReconciled DEF OrderInv
<1>3. ItemInv'
  <2>1. Stored' = Stored
    BY <1>1 DEF Stored
  <2> QED BY <1>1, <1>2, <2>1, ItemsKept DEF OrderInv
<1>4. StoreTypeOK'
  BY <1>1, <1>2 DEF OrderInv, StoreTypeOK
<1>5. WriterInv'
  BY <1>1 DEF WriterInv
<1> QED BY <1>1, <1>2, <1>3, <1>4, <1>5, PlansStay DEF OrderInv, ListKept, HeadMovesBySave, ShownKept

LEMMA StoreUntouched ==
  ASSUME OrderInv, UNCHANGED <<format, oldHandle, rows, ordered, position, hidden, revision,
                               imported, anchor, plan, troubles, save, job>>
  PROVE  OrderInv' /\ ListKept
<1>1. StoreTypeOK'
  BY DEF OrderInv, StoreTypeOK
<1>2. ListInv' /\ Preserved /\ ListKept
  BY ListSame DEF OrderInv, ListKept
<1>3. ItemInv'
  <2>1. Stored' = Stored
    BY DEF Stored
  <2> QED BY <1>2, <2>1, ItemsKept DEF OrderInv
<1>4. WriterInv'
  BY DEF OrderInv, WriterInv
<1> QED BY <1>1, <1>2, <1>3, <1>4, PlansStay DEF OrderInv

LEMMA OrderInitInv == OrderInit => OrderInv
<1> SUFFICES ASSUME OrderInit PROVE OrderInv
  OBVIOUS
<1>1. /\ MaxRows \in Nat /\ MaxAsked \in Nat /\ MaxTroubles \in Nat /\ BatchSize \in Nat
  BY OrderConstants
<1>2. NoPlan \in Plan
  BY <1>1 DEF NoPlan, NoFile, Plan, File, Statuses
<1>3. Len(rows) = 0 /\ Stored = {} /\ rows \in Seq(Version)
  BY DEF OrderInit, Stored
<1>4. StoreTypeOK
  <2>1. /\ format \in {1, 2} /\ oldHandle \in BOOLEAN /\ ordered \in BOOLEAN
        /\ revision \in Nat /\ troubles \in 0..MaxTroubles
        /\ save \in Prepared \cup {NoSave} /\ job \in Job \cup {NoJob}
    <3>1. /\ format \in {1, 2} /\ oldHandle = (format = 1) /\ ordered = FALSE
          /\ revision = 0 /\ troubles = 0 /\ save = NoSave /\ job = NoJob
      BY DEF OrderInit
    <3>2. oldHandle \in BOOLEAN /\ ordered \in BOOLEAN
      BY <3>1, Zenon
    <3>3. revision \in Nat /\ troubles \in 0..MaxTroubles
      BY <1>1, <3>1
    <3> QED BY <3>1, <3>2, <3>3
  <2>2. Len(rows) <= MaxRows /\ 0 \in 0..MaxRows
    BY <1>1, <1>3
  <2>3. /\ position \in [Ordinals -> 0..MaxRows] /\ hidden \in [Ordinals -> 0..MaxRows]
        /\ imported \in [Batches -> [Items -> 0..MaxRows]]
        /\ anchor \in [Batches -> 0..MaxRows] /\ plan \in [Batches -> Plan]
    BY <1>2, <2>2 DEF OrderInit
  <2> QED BY <1>3, <2>1, <2>2, <2>3 DEF StoreTypeOK
<1>5. ListInv
  BY <1>3 DEF OrderInit, ListInv, PlaceInv, HiddenInv, ParentInv, ParentsPrecede
<1>6. ItemInv
  BY <1>3 DEF OrderInit, ItemInv, ImportedOnce, PlanInOrder
<1>7. WriterInv /\ JobInv
  BY DEF OrderInit, WriterInv, JobInv
<1>8. PlanInv
  BY DEF OrderInit, PlanInv, PlanOk, Truthful, Status, IsImported, NoPlan, NoFile, Unconfirmed
<1> QED BY <1>4, <1>5, <1>6, <1>7, <1>8 DEF OrderInv

LEMMA OrderStep ==
  ASSUME ~StaleUnderOrder, OrderInv, [OrderNext]_orderVars
  PROVE  OrderInv' /\ ListKept
<1>1. CASE UNCHANGED orderVars
  BY <1>1, StoreUntouched DEF orderVars
<1>2. CASE List
  BY <1>2, StoreUntouched DEF List, StartList, ContinueList, RevisionMoved, ReadPage
<1>3. CASE Write
  <2>1. ASSUME NEW s \in Saves, PrepareSave(s) \/ CheckpointFormat1(s)
        PROVE  OrderInv' /\ ListKept
    BY <2>1, StepPrepareSave, StepCheckpointFormat1
  <2>2. ASSUME NEW last \in Ordinals, Reconcile(last)
        PROVE  OrderInv' /\ ListKept
    BY <2>2, StepReconcile
  <2> QED BY <1>3, <2>1, <2>2, StepCommitSave, StepAbandonSave, StepUpgradeStorage DEF Write
<1>4. CASE Import
  <2>1. CASE ServiceDies
    BY <2>1, StepServiceDies
  <2>2. ASSUME NEW b \in Batches,
               \/ PreparePlan(b)
               \/ \E o \in Ordinals : Confirm(b, o)
               \/ Resume(b) \/ CancelPlan(b) \/ RemovePlan(b)
        PROVE  OrderInv' /\ ListKept
    BY <2>2, StepPreparePlan, StepConfirm, StepResume, StepCancelPlan, StepRemovePlan
  <2>3. ASSUME NEW b \in Batches,
               \/ StartImport(b) \/ BeginItem(b) \/ SkipImported(b) \/ LookUpItem(b)
               \/ PrepareImport(b) \/ CommitImport(b) \/ MarkItem(b) \/ ItemFails(b)
               \/ EndImport(b)
        PROVE  OrderInv' /\ ListKept
    BY <2>3, StepStartImport, StepBeginItem, StepSkipImported, StepLookUpItem,
       StepPrepareImport, StepCommitImport, StepMarkItem, StepItemFails, StepEndImport
  <2> QED BY <1>4, <2>1, <2>2, <2>3 DEF Import
<1> QED BY <1>1, <1>2, <1>3, <1>4 DEF OrderNext

\* What an invariant says of a plan is what its file says to those who read it.
LEMMA PlanIsTrue ==
  ASSUME OrderInv, NEW b \in Batches
  PROVE  PlanTrue(b)
<1>1. PlanOk(b)
  BY DEF OrderInv, PlanInv
<1>2. /\ Read(b).done = plan[b].file.done /\ Read(b).named = plan[b].file.named
      /\ Read(b).status # Status(b) =>
           /\ Read(b).status = "paused"
           /\ plan[b].file.named # 0 /\ plan[b].file.named \notin Jobs(b)
  BY ReadIs DEF OrderInv
<1>3. \A i \in 1..plan[b].file.done : IsImported(b, i)
  BY <1>1 DEF PlanOk, Truthful
<1>4. Read(b).status = "completed" => plan[b].file.done = BatchSize
  BY <1>1, <1>2 DEF PlanOk, Truthful, Status
<1>5. ASSUME job.batch = b, job.pc # "ending", plan[b].file.named = job.id
      PROVE  Read(b).status = "running"
  <2>1. JobOk(b)
    BY <1>5, JobIs DEF OrderInv, JobInv
  <2>2. Status(b) = "running" /\ plan[b].file.named \in Jobs(b)
    BY <1>5, <2>1 DEF JobOk, Jobs
  <2> QED BY <1>2, <2>2
<1>6. Read(b).status \in {"ready", "running"} => Jobs(b) # {} \/ CanResume(b)
  <2> SUFFICES ASSUME Read(b).status \in {"ready", "running"}, Jobs(b) = {}
               PROVE  CanResume(b)
    OBVIOUS
  <2>1. Read(b).status = Status(b)
    BY <1>2
  <2>2. plan[b].file.named = 0
    <3>1. ASSUME plan[b].file.named # 0 PROVE FALSE
      <4>1. Read(b) = [plan[b].file EXCEPT !.status = "paused"]
        BY <2>1, <3>1 DEF Read
      <4>2. Read(b).status = "paused"
        BY <4>1, ReadIs DEF OrderInv, File
      <4> QED BY <4>2
    <3> QED BY <3>1
  <2>3. Status(b) # "running"
    BY <1>1, <2>2 DEF PlanOk
  <2> QED BY <1>2, <2>1, <2>2, <2>3 DEF CanResume
<1> QED BY <1>3, <1>4, <1>5, <1>6 DEF PlanTrue

\* Only who runs a plan again takes a cancellation back.
LEMMA CancelStays ==
  ASSUME OrderInv, [OrderNext]_orderVars, NEW b \in Batches, plan[b].cancel,
         Read(b).status = "running"
  PROVE  plan'[b].cancel
<1> DEFINE Stays == plan'[b].cancel
<1>0. plan \in [Batches -> Plan]
  BY DEF OrderInv, StoreTypeOK
<1>1. ASSUME UNCHANGED plan PROVE Stays
  BY <1>1
<1>2. \A c, f : c \in Batches /\ WriteBack(c, f) => Stays
  BY <1>0 DEF WriteBack, Plan
<1>3. ASSUME NEW c \in Batches, PreparePlan(c) PROVE Stays
  BY <1>0, <1>3 DEF PreparePlan, Plan
<1>4. ASSUME NEW c \in Batches, NEW s, Submit(c, s), c # b PROVE Stays
  BY <1>0, <1>4 DEF Submit, Died, Plan
<1>5. ASSUME NEW c \in Batches, NEW o \in Ordinals, Confirm(c, o) PROVE Stays
  <2>1. Status(c) = "draft" /\ Submit(c, "ready")
    BY <1>5 DEF Confirm
  <2>2. c # b
    BY <2>1, ReadIs DEF OrderInv
  <2> QED BY <1>4, <2>1, <2>2
<1>6. ASSUME NEW c \in Batches, Resume(c) PROVE Stays
  <2>1. c # b
    BY <1>6 DEF Resume, CanResume
  <2> QED BY <1>4, <1>6, <2>1 DEF Resume
<1>7. ASSUME NEW c \in Batches, CancelPlan(c) \/ RemovePlan(c) PROVE Stays
  BY <1>0, <1>7 DEF CancelPlan, RemovePlan, Plan
<1>8. ASSUME NEW c \in Batches, StartImport(c) PROVE Stays
  BY <1>0, <1>8 DEF StartImport, Plan
<1>9. ASSUME ServiceDies PROVE Stays
  BY <1>0, <1>9 DEF ServiceDies, Died, Plan
<1>10. ASSUME NEW c \in Batches, SkipImported(c) \/ MarkItem(c) PROVE Stays
  BY <1>2, <1>10 DEF SkipImported, MarkItem, AfterItem
<1>11. ASSUME NEW c \in Batches, ItemFails(c) \/ EndImport(c) PROVE Stays
  BY <1>2, <1>11 DEF ItemFails, EndImport
<1>12. ASSUME NEW c \in Batches,
              BeginItem(c) \/ LookUpItem(c) \/ PrepareImport(c) \/ CommitImport(c)
       PROVE  Stays
  BY <1>1, <1>12 DEF BeginItem, LookUpItem, PrepareImport, CommitImport
<1>13. ASSUME Import PROVE Stays
  <2> HIDE DEF Stays
  <2>1. ASSUME NEW c \in Batches,
               \/ PreparePlan(c)
               \/ \E o \in Ordinals : Confirm(c, o)
               \/ Resume(c) \/ CancelPlan(c) \/ RemovePlan(c)
        PROVE  Stays
    BY <2>1, <1>3, <1>5, <1>6, <1>7
  <2>2. ASSUME NEW c \in Batches,
               \/ StartImport(c) \/ BeginItem(c) \/ SkipImported(c) \/ LookUpItem(c)
               \/ PrepareImport(c) \/ CommitImport(c) \/ MarkItem(c) \/ ItemFails(c)
               \/ EndImport(c)
        PROVE  Stays
    BY <2>2, <1>8, <1>10, <1>11, <1>12
  <2>3. CASE ServiceDies
    BY <1>9, <2>3
  <2>4. CASE ~ServiceDies
    <3>1. PICK c \in Batches :
            \/ PreparePlan(c)
            \/ \E o \in Ordinals : Confirm(c, o)
            \/ Resume(c) \/ CancelPlan(c) \/ RemovePlan(c)
            \/ StartImport(c) \/ BeginItem(c) \/ SkipImported(c) \/ LookUpItem(c)
            \/ PrepareImport(c) \/ CommitImport(c) \/ MarkItem(c) \/ ItemFails(c)
            \/ EndImport(c)
      BY <1>13, <2>4 DEF Import
    <3> QED BY <2>1, <2>2, <3>1
  <2> QED BY <2>3, <2>4
<1>14. CASE Write
  BY <1>1, <1>14 DEF Write, PrepareSave, CheckpointFormat1, CommitSave, AbandonSave,
                     UpgradeStorage, Reconcile
<1>15. CASE List
  BY <1>1, <1>15 DEF List, StartList, ContinueList, RevisionMoved, ReadPage
<1>16. CASE UNCHANGED orderVars
  BY <1>1, <1>16 DEF orderVars
<1> QED BY <1>13, <1>14, <1>15, <1>16 DEF OrderNext

\* As long as no handle writes format 1 beside a timeline, every version has a
\* place of its own behind its parent, and what is hidden is still shown.
THEOREM VersionsStayPlaced ==
  ASSUME ~StaleUnderOrder
  PROVE  OrderSpec => []VersionsPlaced
<1>1. OrderInit => OrderInv
  BY OrderInitInv
<1>2. OrderInv /\ [OrderNext]_orderVars => OrderInv'
  BY OrderStep
<1>3. OrderInv => VersionsPlaced
  BY PlacedIs DEF OrderInv
<1> QED BY <1>1, <1>2, <1>3, PTL DEF OrderSpec

\* The order of the versions never changes, and only a save makes a new head.
THEOREM OrderIsKept ==
  ASSUME ~StaleUnderOrder
  PROVE  OrderSpec => OrderKept
<1>1. OrderInit => OrderInv
  BY OrderInitInv
<1>2. OrderInv /\ [OrderNext]_orderVars => OrderInv'
  BY OrderStep
<1>3. OrderInv /\ [OrderNext]_orderVars =>
        [/\ HeadMovesBySave
         /\ \A o, p \in Stored : Place(o) < Place(p) => Place(o)' < Place(p)']_orderVars
  BY OrderStep DEF ListKept, Preserved
<1> QED BY <1>1, <1>2, <1>3, PTL DEF OrderSpec, OrderKept

\* However often it is interrupted, an import publishes each item once and in
\* order, its plan says what is so, and a cancellation is not lost.
THEOREM PlansAreKept ==
  ASSUME ~StaleUnderOrder
  PROVE  OrderSpec => PlansKept
<1>1. OrderInit => OrderInv
  BY OrderInitInv
<1>2. OrderInv /\ [OrderNext]_orderVars => OrderInv'
  BY OrderStep
<1>3. OrderInv => ImportedOnce /\ PlanInOrder /\ \A b \in Batches : PlanTrue(b)
  BY PlanIsTrue DEF OrderInv, ItemInv
<1>4. OrderInv /\ [OrderNext]_orderVars =>
        [\A b \in Batches :
           plan[b].cancel /\ job.batch = b /\ Read(b).status = "running" => plan'[b].cancel]_orderVars
  BY CancelStays
<1> QED BY <1>1, <1>2, <1>3, <1>4, PTL DEF OrderSpec, PlansKept

---------------------------------------------------------------------------
(* The pages of the list.                                                  *)

\* Each version of a set once, those with later places first.
LEMMA NewestFirstIs ==
  ASSUME StoreTypeOK, PlaceInv, NEW S \in SUBSET Stored
  PROVE  /\ Cardinality(S) \in Nat
         /\ NewestFirst(S) \in [1..Cardinality(S) -> S]
         /\ \A o \in S : \E n \in 1..Cardinality(S) : NewestFirst(S)[n] = o
         /\ \A m, n \in 1..Cardinality(S) :
              m < n => Place(NewestFirst(S)[n]) < Place(NewestFirst(S)[m])
<1> DEFINE K == Cardinality(S)
           Above(o) == {p \in S : Place(p) > Place(o)}
           rank == [o \in S |-> Cardinality(Above(o))]
           F == NewestFirst(S)
<1>1. IsFiniteSet(S) /\ K \in Nat
  <2>1. Len(rows) \in Nat /\ Stored = 1..Len(rows)
    BY RowsStored DEF Stored
  <2>2. IsFiniteSet(Stored)
    BY <2>1, FS_Interval
  <2> QED BY <2>2, FS_Subset, FS_CardinalityType
<1>2. /\ \A o \in S : Place(o) \in Nat
      /\ \A o, p \in S : Place(o) = Place(p) => o = p
  BY PlacesDiffer
<1>3. \A o \in S : /\ IsFiniteSet(Above(o)) /\ Cardinality(Above(o)) \in Nat
                   /\ Cardinality(Above(o)) < K
  <2> SUFFICES ASSUME NEW o \in S
               PROVE  /\ IsFiniteSet(Above(o)) /\ Cardinality(Above(o)) \in Nat
                      /\ Cardinality(Above(o)) < K
    OBVIOUS
  <2>1. Above(o) \in SUBSET S /\ Above(o) # S
    BY <1>2
  <2> HIDE DEF Above
  <2>2. /\ IsFiniteSet(Above(o)) /\ Cardinality(Above(o)) <= Cardinality(S)
        /\ Cardinality(S) # Cardinality(Above(o))
    BY <1>1, <2>1, FS_Subset
  <2>3. Cardinality(Above(o)) \in Nat
    BY <2>2, FS_CardinalityType
  <2> QED BY <1>1, <2>2, <2>3
<1>4. \A o, p \in S : Place(o) < Place(p) => Cardinality(Above(p)) < Cardinality(Above(o))
  <2> SUFFICES ASSUME NEW o \in S, NEW p \in S, Place(o) < Place(p)
               PROVE  Cardinality(Above(p)) < Cardinality(Above(o))
    OBVIOUS
  <2>1. Above(p) \in SUBSET Above(o) /\ Above(p) # Above(o)
    BY <1>2
  <2> HIDE DEF Above
  <2>2. /\ Cardinality(Above(p)) <= Cardinality(Above(o))
        /\ Cardinality(Above(o)) # Cardinality(Above(p))
    BY <1>3, <2>1, FS_Subset
  <2> QED BY <1>3, <2>2
<1> HIDE DEF Above
<1>5. rank \in [S -> 0..K - 1] /\ \A o \in S : rank[o] = Cardinality(Above(o))
  BY <1>1, <1>3
<1> HIDE DEF rank
<1>6. \A o, p \in S : /\ Place(o) < Place(p) => rank[p] < rank[o]
                      /\ rank[o] = rank[p] => o = p
  <2>1. \A o, p \in S : Place(o) < Place(p) => rank[p] < rank[o]
    BY <1>4, <1>5
  <2>2. \A o, p \in S : rank[o] = rank[p] => o = p
    BY <1>1, <1>2, <1>5, <2>1
  <2> QED BY <2>1, <2>2
<1>7. \A k \in 0..K - 1 : \E o \in S : rank[o] = k
  <2>1. rank \in Injection(S, 0..K - 1)
    BY <1>5, <1>6 DEF Injection, IsInjective
  <2>2. IsFiniteSet(0..K - 1) /\ Cardinality(0..K - 1) = K
    BY <1>1, FS_Interval
  <2>3. rank \in Surjection(S, 0..K - 1)
    BY <2>1, <2>2, FS_Injection
  <2> QED BY <2>3 DEF Surjection
<1>8. \A n \in 1..K : F[n] \in S /\ rank[F[n]] = n - 1
  <2> SUFFICES ASSUME NEW n \in 1..K PROVE F[n] \in S /\ rank[F[n]] = n - 1
    OBVIOUS
  <2>1. F[n] = CHOOSE o \in S : Cardinality(Above(o)) = n - 1
    BY DEF NewestFirst, Above
  <2>2. n - 1 \in 0..K - 1
    BY <1>1
  <2>3. \E o \in S : Cardinality(Above(o)) = n - 1
    BY <1>5, <1>7, <2>2
  <2> HIDE DEF F
  <2>4. F[n] \in S /\ Cardinality(Above(F[n])) = n - 1
    BY <2>1, <2>3
  <2> QED BY <1>5, <2>4
<1>9. F \in [1..K -> S]
  <2>1. F = [n \in 1..K |-> F[n]]
    BY DEF NewestFirst
  <2> HIDE DEF F
  <2> QED BY <1>8, <2>1
<1> HIDE DEF F
<1>10. \A o \in S : \E n \in 1..K : F[n] = o
  <2> SUFFICES ASSUME NEW o \in S PROVE \E n \in 1..K : F[n] = o
    OBVIOUS
  <2>1. PICK n \in 1..K : n = rank[o] + 1
    BY <1>1, <1>5
  <2>2. rank[F[n]] = rank[o] /\ F[n] \in S
    BY <1>1, <1>5, <1>8, <2>1
  <2> QED BY <1>6, <2>2
<1>11. \A m, n \in 1..K : m < n => Place(F[n]) < Place(F[m])
  <2> SUFFICES ASSUME NEW m \in 1..K, NEW n \in 1..K, m < n
               PROVE  Place(F[n]) < Place(F[m])
    OBVIOUS
  <2>1. PICK x, y \in S : x = F[m] /\ y = F[n]
    BY <1>8
  <2>2. rank[x] = m - 1 /\ rank[y] = n - 1
    BY <1>8, <2>1
  <2>3. x # y /\ ~(rank[y] < rank[x])
    BY <1>1, <2>2
  <2>4. ~(Place(x) < Place(y)) /\ Place(x) # Place(y)
    BY <1>2, <1>6, <2>3
  <2>5. Place(y) < Place(x)
    BY <1>2, <2>4
  <2> QED BY <2>1, <2>5
<1> QED BY <1>1, <1>9, <1>10, <1>11 DEF F

\* How far the list has come: what it has shown is as it was, if no import and
\* no collapse came in between, and all of it was stored when it began.
ReaderInv ==
  /\ reader \in ReaderState \cup {Idle}
  /\ reader.at \in {"revision", "page", "done"} => reader.revision <= revision
  /\ reader.at = "revision" /\ reader.upper = 0 => reader.before = 0 /\ reader.seen = <<>>
  /\ reader.at = "page" => reader.upper # 0
  /\ reader.at \in {"revision", "page"} /\ reader.upper # 0 /\ reader.revision = revision =>
       /\ reader.before # 0
       /\ \E o \in Stored : reader.upper <= Place(o)
       /\ SeenOnce(reader)

\* Behind all versions that a list began with nothing changes it.
LEMMA SeenStays ==
  ASSUME StoreTypeOK, ListInv, StoreTypeOK', ListInv', Preserved, ShownKept, revision' = revision,
         NEW r \in ReaderState, SeenOnce(r), \E o \in Stored : r.upper <= Place(o)
  PROVE  /\ SeenOnce(r)'
         /\ \E o \in Stored' : r.upper <= Place(o)'
<1>1. /\ \A o \in Stored : Place(o)' = Place(o) /\ Place(o) \in Nat /\ o \in Stored'
      /\ \A o \in Stored' : Place(o)' \in Nat
      /\ r.upper \in Nat
  <2>1. \A o \in Stored' : Place(o)' \in Nat
    <3>1. CASE ordered'
      BY <3>1 DEF ListInv, PlaceInv, Place, Stored
    <3>2. CASE ~ordered'
      BY <3>2 DEF Place, Stored
    <3> QED BY <3>1, <3>2
  <2>2. revision \in Nat
    BY DEF StoreTypeOK
  <2>3. \A o \in Stored : Place(o)' = Place(o)
    BY <2>2 DEF ShownKept
  <2> QED BY <2>1, <2>3, PlacesDiffer, OrderConstants DEF ListInv, Preserved, ReaderState
<1>2. /\ Listed \subseteq Listed'
      /\ \A o \in Listed' \ Listed : \A p \in Stored : Place(p) < Place(o)'
      /\ Listed \subseteq Stored /\ Listed' \subseteq Stored'
  <2>1. revision \in Nat
    BY DEF StoreTypeOK
  <2> QED BY <2>1 DEF ShownKept, Listed
<1>3. \A o \in Listed' \ Listed : ~(Place(o)' <= r.upper)
  BY <1>1, <1>2
<1>4. {o \in Listed' : Place(o)' <= r.upper /\ Place(o)' >= r.before}
        = {o \in Listed : Place(o) <= r.upper /\ Place(o) >= r.before}
  BY <1>1, <1>2, <1>3
<1>5. /\ {r.seen[n] : n \in DOMAIN r.seen} = {o \in Listed : Place(o) <= r.upper /\ Place(o) >= r.before}
      /\ \A n \in 2..Len(r.seen) : Place(r.seen[n]) < Place(r.seen[n - 1])
  BY DEF SeenOnce
<1>6. \A n \in 2..Len(r.seen) : Place(r.seen[n])' < Place(r.seen[n - 1])'
  <2> SUFFICES ASSUME NEW n \in 2..Len(r.seen)
               PROVE  Place(r.seen[n])' < Place(r.seen[n - 1])'
    OBVIOUS
  <2>1. n \in DOMAIN r.seen /\ n - 1 \in DOMAIN r.seen
    BY DEF ReaderState
  <2>2. PICK x, y \in Listed : x = r.seen[n] /\ y = r.seen[n - 1]
    BY <1>5, <2>1
  <2>3. Place(x)' < Place(y)'
    BY <1>1, <1>2, <1>5, <2>2
  <2> QED BY <2>2, <2>3
<1> QED BY <1>1, <1>4, <1>5, <1>6 DEF SeenOnce

\* The page r below w, of the versions U that are listed there, leads on to b.
PageFound(u, w, U, r, b) ==
  /\ U = {o \in Listed : Place(o) <= u /\ (w > 0 => Place(o) < w)}
  /\ r = Page(u, w)
  /\ b = IF r.more THEN Place(r.items[PageSize]) ELSE 0

\* page(): the newest of the versions below a place, down to the cursor.
LEMMA PageIs ==
  ASSUME StoreTypeOK, PlaceInv, NEW u, NEW w, NEW U, NEW r, NEW b,
         PageFound(u, w, U, r, b)
  PROVE  /\ r.more \in BOOLEAN
         /\ r.items \in Seq(U)
         /\ {r.items[n] : n \in DOMAIN r.items} = {o \in U : Place(o) >= b}
         /\ \A n \in 2..Len(r.items) : Place(r.items[n]) < Place(r.items[n - 1])
         /\ b \in 0..MaxRows
         /\ r.more => b # 0 /\ \E o \in U : b = Place(o)
<1>0. /\ U = {o \in Listed : Place(o) <= u /\ (w > 0 => Place(o) < w)}
      /\ r = Page(u, w)
      /\ b = IF r.more THEN Place(r.items[PageSize]) ELSE 0
  BY DEF PageFound
<1> USE <1>0
<1> DEFINE K == Cardinality(U)
           F == NewestFirst(U)
<1>1. /\ K \in Nat /\ F \in [1..K -> U]
      /\ \A o \in U : \E n \in 1..K : F[n] = o
      /\ \A m, n \in 1..K : m < n => Place(F[n]) < Place(F[m])
  <2>1. U \in SUBSET Stored
    BY DEF Listed
  <2> QED BY <2>1, NewestFirstIs
<1>2. /\ PageSize \in Nat /\ PageSize # 0 /\ MaxRows \in Nat
      /\ \A o \in U : Place(o) \in Nat /\ Place(o) # 0 /\ Place(o) \in 0..MaxRows
  <2>1. \A o \in U : o \in Stored
    BY DEF Listed
  <2>2. \A o \in Stored : Place(o) \in 1..Len(rows)
    BY PlacesDiffer
  <2>3. Len(rows) \in Nat /\ Len(rows) <= MaxRows
    BY RowsStored DEF StoreTypeOK
  <2>4. PageSize \in Nat /\ PageSize # 0 /\ MaxRows \in Nat
    BY OrderAssumption DEF OrderAssumption
  <2> QED BY <2>1, <2>2, <2>3, <2>4
<1>3. /\ r.items = IF K > PageSize THEN SubSeq(F, 1, PageSize) ELSE F
      /\ r.more = (K > PageSize)
  BY DEF Page
<1> HIDE DEF F, K
<1>4. CASE K > PageSize
  <2>1. r.more = TRUE /\ r.items = SubSeq(F, 1, PageSize)
    BY <1>3, <1>4
  <2>2. F \in Seq(U) /\ Len(F) = K
    BY <1>1
  <2>3. /\ r.items \in Seq(U) /\ Len(r.items) = PageSize
        /\ DOMAIN r.items = 1..PageSize
        /\ \A n \in 1..PageSize : r.items[n] = F[n] /\ n \in 1..K
    BY <1>1, <1>2, <1>4, <2>1, <2>2
  <2>4. PageSize \in 1..PageSize /\ PageSize \in 1..K
    BY <1>1, <1>2, <1>4
  <2>5. b = Place(F[PageSize]) /\ F[PageSize] \in U
    BY <1>1, <2>1, <2>3, <2>4
  <2>6. \A n \in 1..PageSize : F[n] \in U /\ Place(F[n]) >= b
    <3> SUFFICES ASSUME NEW n \in 1..PageSize PROVE F[n] \in U /\ Place(F[n]) >= b
      OBVIOUS
    <3>1. n \in 1..K /\ F[n] \in U
      BY <1>1, <2>3
    <3>2. n # PageSize => Place(F[PageSize]) < Place(F[n])
      BY <1>1, <1>2, <2>4, <3>1
    <3>3. Place(F[n]) \in Nat /\ Place(F[PageSize]) \in Nat
      BY <1>2, <2>5, <3>1
    <3> QED BY <2>5, <3>1, <3>2, <3>3
  <2>7. \A o \in U : Place(o) >= b => \E n \in 1..PageSize : F[n] = o
    <3> SUFFICES ASSUME NEW o \in U, Place(o) >= b PROVE \E n \in 1..PageSize : F[n] = o
      OBVIOUS
    <3>1. PICK n \in 1..K : F[n] = o
      BY <1>1
    <3>2. PageSize < n => Place(o) < b
      BY <1>1, <2>4, <2>5, <3>1
    <3>3. ~(PageSize < n)
      BY <1>2, <2>5, <3>2
    <3> QED BY <1>1, <1>2, <3>1, <3>3
  <2>8. {r.items[n] : n \in DOMAIN r.items} = {o \in U : Place(o) >= b}
    BY <2>3, <2>6, <2>7
  <2>9. \A n \in 2..Len(r.items) : Place(r.items[n]) < Place(r.items[n - 1])
    <3> SUFFICES ASSUME NEW n \in 2..PageSize PROVE Place(r.items[n]) < Place(r.items[n - 1])
      BY <2>3
    <3>1. n \in 1..PageSize /\ n - 1 \in 1..PageSize /\ n - 1 < n
      BY <1>2
    <3>2. n \in 1..K /\ n - 1 \in 1..K
      BY <2>3, <3>1
    <3>3. Place(F[n]) < Place(F[n - 1])
      BY <1>1, <3>1, <3>2
    <3> QED BY <2>3, <3>1, <3>3
  <2> QED BY <1>2, <2>1, <2>3, <2>5, <2>8, <2>9
<1>5. CASE ~(K > PageSize)
  <2>0. r.more = FALSE /\ r.items = F
    <3>1. r.items = F
      BY <1>3, <1>5
    <3>2. r.more = (K > PageSize)
      BY <1>3
    <3>3. (K > PageSize) = FALSE
      BY <1>5
    <3> QED BY <3>1, <3>2, <3>3, Zenon
  <2>1. r.more = FALSE /\ r.items = F /\ b = 0
    BY <2>0
  <2>2. F \in Seq(U) /\ Len(F) = K /\ DOMAIN F = 1..K
    BY <1>1
  <2>3. {F[n] : n \in 1..K} = U
    BY <1>1
  <2>4. \A n \in 2..K : Place(F[n]) < Place(F[n - 1])
    <3> SUFFICES ASSUME NEW n \in 2..K PROVE Place(F[n]) < Place(F[n - 1])
      OBVIOUS
    <3>1. n \in 1..K /\ n - 1 \in 1..K /\ n - 1 < n
      BY <1>1
    <3> QED BY <1>1, <3>1
  <2>5. {o \in U : Place(o) >= b} = U
    BY <1>2, <2>1
  <2>6. {r.items[n] : n \in DOMAIN r.items} = {o \in U : Place(o) >= b}
    BY <2>1, <2>2, <2>3, <2>5
  <2>7. \A n \in 2..Len(r.items) : Place(r.items[n]) < Place(r.items[n - 1])
    BY <2>1, <2>2, <2>4
  <2>8. b \in 0..MaxRows
    BY <1>2, <2>1
  <2> QED BY <2>1, <2>2, <2>6, <2>7, <2>8
<1> QED BY <1>4, <1>5

\* The list that a page is added to is still what is listed down to its cursor.
LEMMA PageRead ==
  ASSUME OrderInv, ReaderInv, ReadPage
  PROVE  /\ reader' \in ReaderState /\ reader'.revision = revision
         /\ reader'.at \in {"page", "done"}
         /\ reader'.at = "page" => /\ reader'.upper # 0 /\ reader'.before # 0
                                   /\ \E o \in Stored : reader'.upper <= Place(o)
         /\ SeenOnce(reader')
<1>1. /\ reader.at = "revision" /\ reader.revision = revision
      /\ reader \in ReaderState
  BY DEF ReadPage, SameRevision, ReaderInv, Idle
<1>2. /\ StoreTypeOK /\ PlaceInv
  BY DEF OrderInv, ListInv
<1>3. /\ MaxRows \in Nat /\ \A o \in Stored : Place(o) \in Nat /\ Place(o) # 0 /\ Place(o) <= MaxRows
  <2>1. Len(rows) \in Nat /\ Len(rows) <= MaxRows
    BY <1>2, RowsStored DEF StoreTypeOK
  <2> QED BY <1>2, <2>1, PlacesDiffer, OrderConstants
<1>4. PICK u : u = IF reader.upper = 0 THEN LastOf({Place(o) : o \in Stored}) ELSE reader.upper
  OBVIOUS
<1>5. /\ u \in 0..MaxRows
      /\ Stored # {} => u # 0 /\ \E o \in Stored : u <= Place(o)
      /\ reader.upper = 0 => \A o \in Stored : Place(o) <= u
  <2>1. CASE reader.upper # 0
    <3>1. u = reader.upper /\ \E o \in Stored : u <= Place(o)
      BY <1>1, <1>4, <2>1 DEF ReaderInv
    <3> QED BY <1>1, <2>1, <3>1 DEF ReaderState
  <2>2. CASE reader.upper = 0 /\ Stored = {}
    BY <1>3, <1>4, <2>2 DEF LastOf
  <2>3. CASE reader.upper = 0 /\ Stored # {}
    <3>1. PICK h \in Stored : \A o \in Stored : Place(o) <= Place(h)
      <4>1. Stored \in SUBSET Stored
        OBVIOUS
      <4> QED BY <1>2, <2>3, <4>1, NewestIs
    <3>2. u = CHOOSE n \in {Place(o) : o \in Stored} : \A m \in {Place(o) : o \in Stored} : m <= n
      BY <1>4, <2>3 DEF LastOf
    <3>3. u \in {Place(o) : o \in Stored} /\ \A m \in {Place(o) : o \in Stored} : m <= u
      BY <3>1, <3>2
    <3>4. PICK q \in Stored : u = Place(q)
      BY <3>3
    <3>5. \A o \in Stored : Place(o) <= u
      BY <3>3
    <3> QED BY <1>3, <3>4, <3>5
  <2> QED BY <2>1, <2>2, <2>3
<1>6. PICK w \in 0..MaxRows : w = reader.before
  BY <1>1 DEF ReaderState
<1>7. PICK page : page = Page(u, w)
  OBVIOUS
<1>8. PICK b : b = IF page.more THEN Place(page.items[PageSize]) ELSE 0
  OBVIOUS
<1>9. PICK U : U = {o \in Listed : Place(o) <= u /\ (w > 0 => Place(o) < w)}
  OBVIOUS
<1>10. /\ page.more \in BOOLEAN
       /\ page.items \in Seq(U)
       /\ {page.items[n] : n \in DOMAIN page.items} = {o \in U : Place(o) >= b}
       /\ \A n \in 2..Len(page.items) : Place(page.items[n]) < Place(page.items[n - 1])
       /\ b \in 0..MaxRows
       /\ page.more => b # 0 /\ \E o \in U : b = Place(o)
  <2>1. StoreTypeOK /\ PlaceInv
    BY <1>2
  <2>2. U = {o \in Listed : Place(o) <= u /\ (w > 0 => Place(o) < w)}
    BY <1>9
  <2>3. page = Page(u, w)
    BY <1>7
  <2>4. b = IF page.more THEN Place(page.items[PageSize]) ELSE 0
    BY <1>8
  <2>5. PageFound(u, w, U, page, b)
    BY <2>2, <2>3, <2>4 DEF PageFound
  <2> QED BY <2>1, <2>5, PageIs
<1>11. reader' = [reader EXCEPT !.at = IF page.more THEN "page" ELSE "done", !.upper = u,
                                !.before = b, !.seen = @ \o page.items]
  BY <1>4, <1>6, <1>7, <1>8 DEF ReadPage
<1>12. PICK s \in Seq(Ordinals) : s = reader.seen
  BY <1>1 DEF ReaderState
<1>13. U \subseteq Listed /\ Listed \subseteq Stored /\ Stored \subseteq Ordinals
  BY <1>2, <1>9, RowsStored DEF Listed
<1>14. PICK t \in Seq(Ordinals) : t = page.items
  BY <1>10, <1>13
<1>15. /\ reader'.at = (IF page.more THEN "page" ELSE "done") /\ reader'.upper = u
       /\ reader'.before = b /\ reader'.seen = s \o t /\ reader'.revision = revision
       /\ reader' \in ReaderState
  <2>1. s \o t \in Seq(Ordinals)
    OBVIOUS
  <2>2. (IF page.more THEN "page" ELSE "done") \in {"revision", "page", "done"}
    OBVIOUS
  <2> QED BY <1>1, <1>5, <1>10, <1>11, <1>12, <1>14, <2>1, <2>2 DEF ReaderState
<1>16. /\ {s[n] : n \in DOMAIN s} = {o \in Listed : Place(o) <= u /\ w > 0 /\ Place(o) >= w}
       /\ \A n \in 2..Len(s) : Place(s[n]) < Place(s[n - 1])
  <2>1. CASE reader.upper = 0
    BY <1>1, <1>6, <1>12, <2>1 DEF ReaderInv
  <2>2. CASE reader.upper # 0
    <3>1. w > 0 /\ u = reader.upper
      BY <1>1, <1>4, <1>6, <2>2, OrderConstants DEF ReaderInv
    <3>2. SeenOnce(reader)
      BY <1>1, <2>2 DEF ReaderInv
    <3>3. /\ {s[n] : n \in DOMAIN s} = {o \in Listed : Place(o) <= u /\ Place(o) >= w}
          /\ \A n \in 2..Len(s) : Place(s[n]) < Place(s[n - 1])
      BY <1>6, <1>12, <3>1, <3>2 DEF SeenOnce
    <3> QED BY <3>1, <3>3
  <2> QED BY <2>1, <2>2
<1>17. /\ \A o \in Listed : Place(o) \in Nat
       /\ u \in Nat /\ w \in Nat /\ b \in Nat
  BY <1>3, <1>5, <1>10, <1>13
<1>18. b < w \/ w = 0 \/ b = 0
  <2>1. CASE page.more
    <3>1. PICK o \in U : b = Place(o)
      BY <1>10, <2>1
    <3>2. w > 0 => b < w
      BY <1>9, <3>1
    <3> QED BY <1>17, <3>2
  <2>2. CASE ~page.more
    BY <1>8, <2>2
  <2> QED BY <2>1, <2>2
<1>19. DOMAIN (s \o t) = 1..Len(s) + Len(t) /\ Len(s \o t) = Len(s) + Len(t)
       /\ Len(s) \in Nat /\ Len(t) \in Nat /\ DOMAIN s = 1..Len(s) /\ DOMAIN t = 1..Len(t)
  OBVIOUS
<1>20. /\ \A n \in 1..Len(s) : (s \o t)[n] = s[n]
       /\ \A n \in 1..Len(t) : (s \o t)[Len(s) + n] = t[n]
  OBVIOUS
<1>21. PICK l : l = s \o t
  OBVIOUS
<1>22. {l[n] : n \in DOMAIN l} = {s[n] : n \in DOMAIN s} \cup {t[n] : n \in DOMAIN t}
  <2>1. \A n \in DOMAIN l : n \in 1..Len(s) \/ (n - Len(s) \in 1..Len(t) /\ n = Len(s) + (n - Len(s)))
    BY <1>19, <1>21
  <2>2. \A n \in DOMAIN l : l[n] \in {s[m] : m \in DOMAIN s} \cup {t[m] : m \in DOMAIN t}
    BY <1>19, <1>20, <1>21, <2>1
  <2>3. \A m \in DOMAIN s : m \in DOMAIN l /\ l[m] = s[m]
    BY <1>19, <1>20, <1>21
  <2>4. \A m \in DOMAIN t : Len(s) + m \in DOMAIN l /\ l[Len(s) + m] = t[m]
    BY <1>19, <1>20, <1>21
  <2> QED BY <2>2, <2>3, <2>4
<1>23. {l[n] : n \in DOMAIN l} = {o \in Listed : Place(o) <= u /\ Place(o) >= b}
  <2>1. {t[n] : n \in DOMAIN t} = {o \in U : Place(o) >= b}
    BY <1>10, <1>14
  <2>2. \A o \in Listed : (Place(o) <= u /\ Place(o) >= b) <=>
          \/ Place(o) <= u /\ w > 0 /\ Place(o) >= w
          \/ Place(o) <= u /\ (w > 0 => Place(o) < w) /\ Place(o) >= b
    BY <1>17, <1>18
  <2> QED BY <1>9, <1>16, <1>22, <2>1, <2>2
<1>24. \A n \in 2..Len(l) : Place(l[n]) < Place(l[n - 1])
  <2> SUFFICES ASSUME NEW n \in 2..Len(l) PROVE Place(l[n]) < Place(l[n - 1])
    OBVIOUS
  <2>1. CASE n <= Len(s)
    <3>1. n \in 2..Len(s) /\ l[n] = s[n] /\ l[n - 1] = s[n - 1]
      BY <1>19, <1>20, <1>21, <2>1
    <3> QED BY <1>16, <3>1
  <2>2. CASE n = Len(s) + 1
    <3>1. Len(s) \in DOMAIN s /\ 1 \in DOMAIN t /\ n - 1 = Len(s)
      BY <1>19, <1>21, <2>2
    <3>2. l[n] = t[1] /\ l[n - 1] = s[Len(s)]
      BY <1>19, <1>20, <1>21, <2>2, <3>1
    <3>3. t[1] \in U /\ s[Len(s)] \in Listed /\ w > 0 /\ Place(s[Len(s)]) >= w
      BY <1>10, <1>14, <1>16, <3>1
    <3>4. Place(t[1]) < w /\ t[1] \in Listed
      BY <1>9, <3>3
    <3>5. Place(t[1]) \in Nat /\ Place(s[Len(s)]) \in Nat
      BY <1>17, <3>3, <3>4
    <3>6. Place(t[1]) < Place(s[Len(s)])
      BY <1>17, <3>3, <3>4, <3>5
    <3> QED BY <3>2, <3>6
  <2>3. CASE n > Len(s) + 1
    <3>1. PICK m \in 2..Len(t) : n = Len(s) + m /\ n - 1 = Len(s) + (m - 1) /\ m - 1 \in 1..Len(t)
      <4>1. PICK i, j \in Nat : i = Len(s) /\ j = Len(t)
        BY <1>19
      <4>2. n \in 2..(i + j) /\ n > i + 1
        BY <1>19, <1>21, <2>3, <4>1
      <4>3. n - i \in 2..j /\ n = i + (n - i) /\ n - 1 = i + ((n - i) - 1) /\ (n - i) - 1 \in 1..j
        BY <4>2
      <4> QED BY <4>1, <4>3
    <3>2. l[n] = t[m] /\ l[n - 1] = t[m - 1]
      BY <1>19, <1>20, <1>21, <3>1
    <3> QED BY <1>10, <1>14, <3>1, <3>2
  <2> QED BY <1>19, <2>1, <2>2, <2>3
<1>25. SeenOnce(reader')
  <2>1. PICK r : r = reader'
    OBVIOUS
  <2>2. r.seen = l /\ r.upper = u /\ r.before = b
    BY <1>15, <1>21, <2>1
  <2>3. SeenOnce(r)
    BY <1>23, <1>24, <2>2 DEF SeenOnce
  <2> QED BY <2>1, <2>3
<1>26. page.more => u # 0 /\ \E o \in Stored : u <= Place(o)
  <2>1. page.more => Stored # {}
    BY <1>10, <1>13
  <2> QED BY <1>5, <2>1
<1> QED BY <1>10, <1>15, <1>25, <1>26

LEMMA WritersReadNothing ==
  ASSUME [OrderNext]_orderVars, ~List
  PROVE  reader' = reader
<1>1. Write => reader' = reader
  BY DEF Write, PrepareSave, CheckpointFormat1, CommitSave, AbandonSave, UpgradeStorage, Reconcile
<1>2. Import => reader' = reader
  BY DEF Import, PreparePlan, Confirm, Resume, CancelPlan, RemovePlan, StartImport, BeginItem,
         SkipImported, LookUpItem, PrepareImport, CommitImport, MarkItem, ItemFails, EndImport,
         ServiceDies, PlanOnly
<1> QED BY <1>1, <1>2 DEF OrderNext, orderVars

LEMMA ReaderStep ==
  ASSUME OrderInv, OrderInv', ListKept, ReaderInv, [OrderNext]_orderVars
  PROVE  /\ ReaderInv'
         /\ reader' # reader /\ reader'.at \in {"page", "done"} => SeenOnce(reader')
<1>0. revision \in Nat /\ revision' \in Nat /\ MaxRows \in Nat
  BY OrderConstants DEF OrderInv, StoreTypeOK
<1>1. ASSUME reader' = reader PROVE ReaderInv'
  <2>1. revision <= revision'
    BY <1>0 DEF ListKept, ShownKept
  <2>2. reader.at \in {"revision", "page", "done"} => reader \in ReaderState /\ reader.revision \in Nat
    BY DEF ReaderInv, ReaderState, Idle
  <2>3. reader'.at \in {"revision", "page", "done"} => reader'.revision <= revision'
    BY <1>0, <1>1, <2>1, <2>2 DEF ReaderInv
  <2>4. ASSUME reader.at \in {"revision", "page"}, reader.upper # 0, reader.revision = revision'
        PROVE  /\ reader.before # 0
               /\ \E o \in Stored' : reader.upper <= Place(o)'
               /\ SeenOnce(reader)'
    <3>1. reader.revision = revision /\ revision' = revision
      BY <1>0, <2>1, <2>2, <2>4 DEF ReaderInv
    <3>2. PICK r \in ReaderState : r = reader
      BY <2>2, <2>4
    <3>3. SeenOnce(r) /\ (\E o \in Stored : r.upper <= Place(o)) /\ r.before # 0
      BY <2>4, <3>1, <3>2 DEF ReaderInv
    <3>4. SeenOnce(r)' /\ \E o \in Stored' : r.upper <= Place(o)'
      BY <3>1, <3>2, <3>3, SeenStays DEF OrderInv, ListKept
    <3>5. SeenOnce(reader)'
      BY <1>1, <3>2, <3>4 DEF SeenOnce
    <3> QED BY <3>2, <3>3, <3>4, <3>5
  <2> QED BY <1>1, <2>3, <2>4 DEF ReaderInv
<1>2. CASE StartList
  <2>1. /\ reader' = [at |-> "revision", revision |-> revision, upper |-> 0, before |-> 0, seen |-> <<>>]
        /\ revision' = revision
    BY <1>2 DEF StartList
  <2>2. reader' \in ReaderState
    BY <1>0, <2>1 DEF ReaderState
  <2> QED BY <1>0, <2>1, <2>2 DEF ReaderInv
<1>3. CASE ContinueList
  <2>1. /\ reader.at = "page" /\ reader.revision = revision
        /\ reader' = [reader EXCEPT !.at = "revision"] /\ revision' = revision
        /\ UNCHANGED <<rows, ordered, position, hidden>>
    BY <1>3 DEF ContinueList
  <2>2. PICK r \in ReaderState : r = reader
    BY <2>1 DEF ReaderInv, Idle
  <2>3. PICK q \in ReaderState : q = [r EXCEPT !.at = "revision"]
    BY DEF ReaderState
  <2>4. /\ q.at = "revision" /\ q.revision = r.revision /\ q.upper = r.upper
        /\ q.before = r.before /\ q.seen = r.seen
    BY <2>2, <2>3 DEF ReaderState
  <2>5. /\ r.upper # 0 /\ r.before # 0 /\ SeenOnce(r) /\ \E o \in Stored : r.upper <= Place(o)
    BY <2>1, <2>2 DEF ReaderInv
  <2>6. SeenOnce(q)
    BY <2>4, <2>5 DEF SeenOnce
  <2>7. /\ SeenOnce(q)' /\ \E o \in Stored' : q.upper <= Place(o)'
    BY <2>1, <2>4, <2>5, <2>6 DEF SeenOnce, Listed, Stored, Place
  <2>8. reader' = q
    BY <2>1, <2>2, <2>3
  <2>9. SeenOnce(reader)'
    BY <2>7, <2>8 DEF SeenOnce
  <2> QED BY <1>0, <2>1, <2>2, <2>4, <2>5, <2>7, <2>8, <2>9 DEF ReaderInv
<1>4. CASE RevisionMoved
  BY <1>4 DEF RevisionMoved, ReaderInv, Idle
<1>5. CASE ReadPage
  <2>1. /\ reader' \in ReaderState /\ reader'.revision = revision
        /\ reader'.at \in {"page", "done"}
        /\ reader'.at = "page" => /\ reader'.upper # 0 /\ reader'.before # 0
                                  /\ \E o \in Stored : reader'.upper <= Place(o)
        /\ SeenOnce(reader')
    BY <1>5, PageRead
  <2>2. UNCHANGED <<rows, ordered, position, hidden, revision>>
    BY <1>5 DEF ReadPage
  <2>3. PICK r \in ReaderState : r = reader'
    BY <2>1
  <2>4. SeenOnce(r) /\ (r.at = "page" => \E o \in Stored : r.upper <= Place(o))
    BY <2>1, <2>3 DEF SeenOnce
  <2>5. SeenOnce(r)' /\ (r.at = "page" => \E o \in Stored' : r.upper <= Place(o)')
    BY <2>2, <2>4 DEF SeenOnce, Listed, Stored, Place
  <2>6. SeenOnce(reader)'
    BY <2>3, <2>5 DEF SeenOnce
  <2>7. ReaderInv'
    BY <1>0, <2>1, <2>2, <2>3, <2>5, <2>6 DEF ReaderInv
  <2> QED BY <2>1, <2>7
<1>6. CASE ~List
  BY <1>1, <1>6, WritersReadNothing
<1> QED BY <1>2, <1>3, <1>4, <1>5, <1>6 DEF List

\* Whenever a client gets a page, what it has loaded is the list as it is now.
THEOREM ListIsConsistent ==
  ASSUME ~StaleUnderOrder
  PROVE  OrderSpec => ListConsistent
<1>1. OrderInit => OrderInv /\ ReaderInv
  <2>1. OrderInit => ReaderInv
    BY DEF OrderInit, ReaderInv, Idle
  <2> QED BY <2>1, OrderInitInv
<1>2. OrderInv /\ ReaderInv /\ [OrderNext]_orderVars => OrderInv' /\ ReaderInv'
  BY OrderStep, ReaderStep
<1>3. OrderInv /\ ReaderInv /\ [OrderNext]_orderVars =>
        [reader' # reader /\ reader'.at \in {"page", "done"} => SeenOnce(reader')]_orderVars
  BY OrderStep, ReaderStep
<1> QED BY <1>1, <1>2, <1>3, PTL DEF OrderSpec, ListConsistent
===========================================================================
