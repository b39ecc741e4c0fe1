------------------------- MODULE EditorBackendProofs -------------------------
(***************************************************************************)
(* What TLAPS proves of EditorBackend for any drawings and any number of   *)
(* tabs, acts of the user, failures and connections: receipts are of what  *)
(* was asked for, and a restore keeps the old layout until the history has *)
(* the restored one; of Skills for any clients, pages, intervals and       *)
(* bounds: what is refined, revised, exported and listed; and of           *)
(* Compression for any saves, objects and budgets: what saves hold and     *)
(* what they write.                                                        *)
(*                                                                         *)
(* A reference names one identity and an identity names one reference, so  *)
(* the document that the first look finds at a reference is the one that   *)
(* the second look finds there.  In between, what the editor wrote differs *)
(* from the one only if the user acted before, from the other only if the  *)
(* user acted after.                                                       *)
(*                                                                         *)
(* As long as the revision of the history is the one that a client saw,    *)
(* versions are only appended: what it has read of the list is an interval *)
(* of places, listed by place, and what it chose of that is what is        *)
(* collected between the two.  The revisions of a skill only grow, so one  *)
(* that somebody has read stays what it was, and who checked that it is    *)
(* the last makes the next one of it.  A page of the pending requests ends *)
(* at its least number, and skills do not start to wait again.             *)
(*                                                                         *)
(* A save holds a share, of one worker or more, exactly from where it is   *)
(* reserved to where it is released, so the number of workers that are     *)
(* given out tells whether a save is alone; one that joins others begins   *)
(* an epoch, and a batch that learns in the last epoch is alone.  What is  *)
(* wanted of a stream is written, from the first on, then come the tasks   *)
(* of the pool, in their order, and then the rest of the batch.            *)
(***************************************************************************)
EXTENDS EditorBackend, Skills, Compression, FiniteSetTheorems, TLAPS

\* The operation reads a document; the others show one.
Reading == op.kind \in {"export", "screenshot"}

\* What is shown now.
Showing == <<Identity(current), tabs[current].cell>>

RefInv == \A r, s \in DOMAIN documents : documents[r] = documents[s] => r = s

OpInv ==
    /\ owner = "none" => op.pc = "done"
    /\ op.pc # "done" => ~op.left
    /\ Reading /\ op.pc \in {"ready", "sent", "served"} /\ op.ref \in DOMAIN documents
         => documents[op.ref] = op.identity
    /\ Reading /\ op.pc \in {"ready", "sent"} /\ ~op.before
         => current # 0 /\ Showing = <<op.identity, op.cell>>
    /\ Reading /\ op.pc = "served" /\ ~op.before => op.wrote = <<op.identity, op.cell>>
    /\ Reading /\ op.pc = "served" /\ ~op.after => current # 0 /\ op.wrote = Showing
    /\ AnswersTrue

FileInv ==
    /\ OldKept
    /\ job.pc \in {"none", "asked", "hold", "held", "copied", "open"} => disk.source = "old"
    /\ job.pc \in {"copied", "replaced"} => disk.backup = "old"
    /\ job.pc \in {"written", "shown"} => recorded \/ disk.source = "old"

IInv == TypeOK /\ RefInv /\ OpInv /\ FileInv

----------------------------------------------------------------------------
(* Sequences. *)

LEMMA JoinFacts ==
  ASSUME NEW T, NEW s \in Seq(T), NEW t \in Seq(T)
  PROVE  /\ s \o t \in Seq(T) /\ Len(s \o t) = Len(s) + Len(t)
         /\ Len(s) \in Nat /\ Len(t) \in Nat
         /\ \A k \in 1..(Len(s) + Len(t)) : (s \o t)[k] = IF k <= Len(s) THEN s[k] ELSE t[k - Len(s)]
<1>1. Len(s) \in Nat /\ Len(t) \in Nat
  OBVIOUS
<1>2. s \o t \in Seq(T)
  OBVIOUS
<1>3. Len(s \o t) = Len(s) + Len(t)
  OBVIOUS
<1>4. ASSUME NEW k \in 1..(Len(s) + Len(t))
      PROVE  (s \o t)[k] = IF k <= Len(s) THEN s[k] ELSE t[k - Len(s)]
  BY <1>1
<1>5. QED
  BY <1>1, <1>2, <1>3, <1>4

LEMMA ReplaceFacts ==
  ASSUME NEW T, NEW s \in Seq(T), NEW i \in 1..Len(s), NEW e \in T
  PROVE  [s EXCEPT ![i] = e] \in Seq(T) /\ Len([s EXCEPT ![i] = e]) = Len(s)
<1>1. PICK n \in Nat : n = Len(s)
  OBVIOUS
<1>2. s \in [1..n -> T]
  BY <1>1
<1>3. PICK u : u = [s EXCEPT ![i] = e]
  OBVIOUS
<1>4. u \in [1..n -> T]
  BY <1>2, <1>3
<1>5. u \in Seq(T) /\ Len(u) = n
  BY <1>1, <1>4
<1>6. QED
  BY <1>1, <1>3, <1>5

LEMMA SliceFacts ==
  ASSUME NEW s \in Seq(Nat), NEW a \in Nat, a >= 1, NEW b \in Nat, b <= Len(s), a <= b + 1
  PROVE  /\ SubSeq(s, a, b) \in Seq(Nat) /\ Len(SubSeq(s, a, b)) = b - a + 1
         /\ \A k \in 1..(b - a + 1) : SubSeq(s, a, b)[k] = s[a + k - 1]
<1>1. SubSeq(s, a, b) = [k \in 1..(b - a + 1) |-> s[a + k - 1]]
  OBVIOUS
<1>2. \A k \in 1..(b - a + 1) : s[a + k - 1] \in Nat
  <2>1. \A k \in 1..(b - a + 1) : a + k - 1 \in 1..Len(s)
    OBVIOUS
  <2>2. QED
    BY <2>1
<1>3. SubSeq(s, a, b) \in [1..(b - a + 1) -> Nat]
  BY <1>1, <1>2
<1>4. PICK n \in Nat : n = b - a + 1
  OBVIOUS
<1>5. SubSeq(s, a, b) \in Seq(Nat) /\ Len(SubSeq(s, a, b)) = n
  BY <1>3, <1>4
<1>6. QED
  BY <1>1, <1>4, <1>5

----------------------------------------------------------------------------
(* References: what a scan of the tabs gives out. *)

Rank(i) == Cardinality({j \in Unknown : j <= i})

LEMMA TabsTyped ==
  ASSUME TypeOK
  PROVE  /\ DOMAIN tabs = 1..Len(tabs) /\ Len(tabs) \in Nat
         /\ \A i \in DOMAIN tabs : /\ i \in Nat /\ tabs[i] \in Tab
                                   /\ tabs[i].drawing \in Drawings /\ tabs[i].cell \in {0, 1}
                                   /\ Identity(i) \in Identities
<1>1. tabs \in Seq(Tab)
  BY DEF TypeOK
<1>2. /\ DOMAIN tabs = 1..Len(tabs) /\ Len(tabs) \in Nat
      /\ \A i \in DOMAIN tabs : i \in Nat /\ tabs[i] \in Tab
  BY <1>1
<1>3. \A i \in DOMAIN tabs : tabs[i].drawing \in Drawings /\ tabs[i].cell \in {0, 1}
  BY <1>2 DEF Tab
<1>4. \A i \in DOMAIN tabs : FileOf(tabs[i].drawing) \in {NoFile} \cup Drawings
  BY <1>3 DEF FileOf
<1>5. \A i \in DOMAIN tabs : Identity(i) \in Identities
  BY <1>2, <1>4 DEF Identity, Identities
<1>6. QED
  BY <1>2, <1>3, <1>5

\* Two positions have different identities.
LEMMA IdentitiesDiffer ==
  ASSUME NEW i \in DOMAIN tabs, NEW k \in DOMAIN tabs, Identity(i) = Identity(k)
  PROVE  i = k
BY DEF Identity

LEMMA UnknownFinite ==
  ASSUME TypeOK
  PROVE  /\ IsFiniteSet(Unknown) /\ Cardinality(Unknown) \in Nat
         /\ \A i \in DOMAIN tabs : IsFiniteSet({j \in Unknown : j <= i}) /\ Rank(i) \in Nat
<1>1. IsFiniteSet(DOMAIN tabs)
  BY TabsTyped, FS_Interval
<1>2. IsFiniteSet(Unknown)
  BY <1>1, FS_Subset DEF Unknown
<1>3. \A i \in DOMAIN tabs : IsFiniteSet({j \in Unknown : j <= i})
  BY <1>2, FS_Subset
<1>4. QED
  BY <1>2, <1>3, FS_CardinalityType DEF Rank

\* Tabs without a reference get consecutive new ones.
LEMMA RankBounds ==
  ASSUME TypeOK, NEW i \in Unknown
  PROVE  Rank(i) \in 1..Cardinality(Unknown)
<1> DEFINE S == {j \in Unknown : j <= i}
<1>1. i \in DOMAIN tabs /\ i \in Nat
  BY TabsTyped DEF Unknown
<1>2. IsFiniteSet(S) /\ IsFiniteSet(Unknown) /\ Rank(i) \in Nat /\ Cardinality(Unknown) \in Nat
  BY <1>1, UnknownFinite
<1>3. Rank(i) # 0
  <2>1. i \in S
    BY <1>1
  <2>2. QED
    BY <1>2, <2>1, FS_EmptySet DEF Rank
<1>4. Cardinality(S) <= Cardinality(Unknown)
  BY <1>2, FS_Subset
<1>5. QED
  BY <1>2, <1>3, <1>4 DEF Rank

LEMMA RankGrows ==
  ASSUME TypeOK, NEW i \in Unknown, NEW k \in Unknown, i < k
  PROVE  Rank(i) < Rank(k)
<1> DEFINE S == {j \in Unknown : j <= i}
           T == {j \in Unknown : j <= k}
<1>1. /\ i \in DOMAIN tabs /\ k \in DOMAIN tabs
      /\ \A j \in Unknown : j \in Nat
  BY TabsTyped DEF Unknown
<1>2. IsFiniteSet(S) /\ IsFiniteSet(T) /\ Rank(i) \in Nat /\ Rank(k) \in Nat
  BY <1>1, UnknownFinite
<1>3. k \in T /\ S \subseteq T \ {k}
  BY <1>1
<1>4. IsFiniteSet(T \ {k}) /\ Cardinality(T \ {k}) = Cardinality(T) - 1
  BY <1>2, <1>3, FS_RemoveElement
<1>5. Cardinality(S) <= Cardinality(T \ {k})
  BY <1>3, <1>4, FS_Subset
<1> HIDE DEF S, T
<1>6. Rank(i) = Cardinality(S) /\ Rank(k) = Cardinality(T)
  BY DEF Rank, S, T
<1>7. QED
  BY <1>2, <1>4, <1>5, <1>6

\* A known identity has its reference, another a number above all given out.
LEMMA RefOfFacts ==
  ASSUME TypeOK, NEW i \in DOMAIN tabs
  PROVE  /\ Known(i) => RefOf(i) \in DOMAIN documents /\ documents[RefOf(i)] = Identity(i)
         /\ ~Known(i) => i \in Unknown /\ RefOf(i) = refs + Rank(i)
         /\ RefOf(i) \in 1..(refs + Cardinality(Unknown))
<1>1. /\ Known(i) => RefOf(i) \in DOMAIN documents /\ documents[RefOf(i)] = Identity(i)
      /\ ~Known(i) => i \in Unknown /\ RefOf(i) = refs + Rank(i)
  BY DEF RefOf, Known, Unknown, Rank
<1>2. refs \in Nat /\ DOMAIN documents \subseteq 1..refs /\ Cardinality(Unknown) \in Nat
  BY UnknownFinite DEF TypeOK
<1>3. ~Known(i) => Rank(i) \in 1..Cardinality(Unknown)
  BY <1>1, RankBounds
<1>4. QED
  BY <1>1, <1>2, <1>3

LEMMA RefsDiffer ==
  ASSUME TypeOK, NEW i \in DOMAIN tabs, NEW k \in DOMAIN tabs, RefOf(i) = RefOf(k)
  PROVE  i = k
<1>1. refs \in Nat /\ DOMAIN documents \subseteq 1..refs
  BY DEF TypeOK
<1>2. CASE Known(i) /\ Known(k)
  BY <1>2, RefOfFacts, IdentitiesDiffer
<1>3. CASE ~Known(i) /\ ~Known(k)
  <2>1. i \in Unknown /\ k \in Unknown /\ refs + Rank(i) = refs + Rank(k)
    BY <1>3, RefOfFacts
  <2>2. i \in Nat /\ k \in Nat /\ Rank(i) \in Nat /\ Rank(k) \in Nat
    BY TabsTyped, UnknownFinite
  <2>3. ~(i < k) /\ ~(k < i)
    BY <1>1, <2>1, <2>2, RankGrows
  <2>4. QED
    BY <2>2, <2>3
<1>4. ASSUME NEW a \in DOMAIN tabs, NEW b \in DOMAIN tabs, Known(a), ~Known(b)
      PROVE  RefOf(a) # RefOf(b)
  <2>1. RefOf(a) \in 1..refs
    BY <1>1, <1>4, RefOfFacts
  <2>2. RefOf(b) = refs + Rank(b) /\ Rank(b) \in 1..Cardinality(Unknown)
    BY <1>4, RefOfFacts, RankBounds
  <2>3. QED
    BY <1>1, <2>1, <2>2, UnknownFinite
<1>5. QED
  BY <1>2, <1>3, <1>4

\* What the scan notes of every tab.
LEMMA ScannedFacts ==
  ASSUME TypeOK
  PROVE  /\ DOMAIN Scanned = {RefOf(i) : i \in DOMAIN tabs}
         /\ \A i \in DOMAIN tabs : Scanned[RefOf(i)] = Identity(i)
         /\ DOMAIN Scanned \subseteq 1..(refs + Cardinality(Unknown))
         /\ Scanned \in [DOMAIN Scanned -> Identities]
         /\ \A r, s \in DOMAIN Scanned : Scanned[r] = Scanned[s] => r = s
<1> DEFINE at(r) == CHOOSE i \in DOMAIN tabs : RefOf(i) = r
<1>1. Scanned = [r \in {RefOf(i) : i \in DOMAIN tabs} |-> Identity(at(r))]
  BY DEF Scanned
<1>2. \A i \in DOMAIN tabs : at(RefOf(i)) = i
  BY RefsDiffer
<1> HIDE DEF at
<1>3. /\ DOMAIN Scanned = {RefOf(i) : i \in DOMAIN tabs}
      /\ \A i \in DOMAIN tabs : Scanned[RefOf(i)] = Identity(i)
  BY <1>1, <1>2
<1>4. DOMAIN Scanned \subseteq 1..(refs + Cardinality(Unknown))
  BY <1>3, RefOfFacts
<1>5. Scanned \in [DOMAIN Scanned -> Identities]
  BY <1>1, <1>3, TabsTyped
<1>6. \A r, s \in DOMAIN Scanned : Scanned[r] = Scanned[s] => r = s
  BY <1>3, IdentitiesDiffer
<1>7. QED
  BY <1>3, <1>4, <1>5, <1>6

\* A reference that a scan leaves in use keeps its document.
LEMMA ScanKeeps ==
  ASSUME TypeOK, RefInv, NEW r \in DOMAIN documents, r \in DOMAIN Scanned
  PROVE  Scanned[r] = documents[r]
<1>1. PICK i \in DOMAIN tabs : r = RefOf(i)
  BY ScannedFacts
<1>2. Known(i)
  <2>1. r \in 1..refs /\ refs \in Nat
    BY DEF TypeOK
  <2>2. ~Known(i) => RefOf(i) = refs + Rank(i) /\ Rank(i) \in 1..Cardinality(Unknown)
    BY RefOfFacts, RankBounds
  <2>3. QED
    BY <1>1, <2>1, <2>2, UnknownFinite
<1>3. QED
  BY <1>1, <1>2, RefOfFacts, ScannedFacts

LEMMA ScanFacts ==
  ASSUME TypeOK, RefInv, Scan
  PROVE  /\ refs' \in Nat /\ DOMAIN documents' \subseteq 1..refs'
         /\ documents' \in [DOMAIN documents' -> Identities]
         /\ RefInv'
         /\ \A r \in DOMAIN documents : r \in DOMAIN documents' => documents'[r] = documents[r]
<1>1. CASE Ambiguous
  <2>1. DOMAIN documents' = {} /\ refs' = refs
    BY <1>1 DEF Scan, Nothing
  <2>2. documents' \in [DOMAIN documents' -> Identities]
    BY <1>1, <2>1 DEF Scan, Nothing
  <2>3. QED
    BY <2>1, <2>2 DEF TypeOK, RefInv
<1>2. CASE ~Ambiguous
  <2>1. documents' = Scanned /\ refs' = refs + Cardinality(Unknown)
    BY <1>2 DEF Scan
  <2>2. refs' \in Nat
    BY <2>1, UnknownFinite DEF TypeOK
  <2>3. QED
    BY <2>1, <2>2, ScannedFacts, ScanKeeps DEF RefInv
<1>3. QED
  BY <1>1, <1>2

----------------------------------------------------------------------------
(* The initial states, and what a step leaves alone. *)

LEMMA Initial == Init => IInv
<1> SUFFICES ASSUME Init PROVE IInv
  OBVIOUS
<1> USE DEF Init
<1>1. TypeOK
  <2>1. [drawing |-> Source, cell |-> 0] \in Tab
    BY DEF Tab, Drawings
  <2>2. tabs \in Seq(Tab) /\ Len(tabs) = 1
    BY <2>1
  <2>3. NoOp \in Op
    BY DEF NoOp, Op, Kinds, Outcomes, Identities
  <2>4. NoJob \in Job
    BY DEF NoJob, Job
  <2>5. DOMAIN documents = {} /\ documents \in [DOMAIN documents -> Identities]
    BY DEF Nothing
  <2>6. disk \in [source: Contents, staging: BOOLEAN, backup: Contents]
    BY DEF Contents
  <2>7. acts \in 0..MaxActs /\ faults \in 0..MaxFaults /\ connects \in 0..MaxConnects
    BY EditorAssumption DEF EditorAssumption
  <2>8. current \in 0..Len(tabs) /\ refs \in Nat /\ DOMAIN documents \subseteq 1..refs
    BY <2>2, <2>5
  <2>9. /\ online \in BOOLEAN /\ behind \subseteq {"new", "replace"}
        /\ owner \in {"none", "recorder", "job"} /\ op \in Op /\ job \in Job
        /\ recorded \in BOOLEAN /\ stuck \in BOOLEAN
    BY <2>3, <2>4
  <2> HIDE DEF Init
  <2>10. QED
    BY <2>2, <2>5, <2>6, <2>7, <2>8, <2>9 DEF TypeOK
<1>2. RefInv
  BY DEF RefInv, Nothing
<1>3. OpInv
  BY DEF OpInv, NoOp, AnswersTrue, Reading
<1>4. FileInv
  BY DEF FileInv, OldKept, NoJob
<1>5. QED
  BY <1>1, <1>2, <1>3, <1>4 DEF IInv

LEMMA FilesKept == ASSUME FileInv, UNCHANGED jobVars PROVE FileInv'
BY DEF FileInv, OldKept, jobVars

LEMMA RefsKept == ASSUME RefInv, UNCHANGED documents PROVE RefInv'
BY DEF RefInv

LEMMA OpKept ==
  ASSUME OpInv, UNCHANGED <<tabs, current, documents, op>>, owner' = "none" => op.pc = "done"
  PROVE  OpInv'
BY DEF OpInv, AnswersTrue, Reading, Showing, Identity, FileOf

LEMMA OpDone == ASSUME op'.pc = "done", AnswersTrue' PROVE OpInv'
BY DEF OpInv

LEMMA FaultTyped == TypeOK /\ Fault => faults' \in 0..MaxFaults
BY EditorAssumption DEF EditorAssumption, TypeOK, Fault

\* The operation ends, with nothing changed but its outcome.
LEMMA Ended ==
  ASSUME TypeOK, NEW outcome \in Outcomes, Ends(outcome)
  PROVE  /\ op' \in Op /\ op'.pc = "done" /\ op'.outcome = outcome
         /\ op'.kind = op.kind /\ op'.identity = op.identity /\ op'.cell = op.cell
         /\ op'.wrote = op.wrote /\ op'.before = op.before /\ op'.after = op.after
         /\ op'.left = op.left
BY DEF TypeOK, Ends, Op

----------------------------------------------------------------------------
(* The user and the editor. *)

LEMMA TouchedFacts ==
  ASSUME TypeOK, Touched
  PROVE  /\ op' \in Op /\ op'.kind = op.kind /\ op'.pc = op.pc /\ op'.ref = op.ref
         /\ op'.outcome = op.outcome /\ op'.identity = op.identity /\ op'.cell = op.cell
         /\ op'.wrote = op.wrote /\ op'.left = op.left
         /\ op'.before = (op.before \/ op.pc \in {"ready", "sent"})
         /\ op'.after = (op.after \/ op.pc = "served")
<1>1. op \in Op /\ op.before \in BOOLEAN /\ op.after \in BOOLEAN
  BY DEF TypeOK, Op
<1>2. (op.before \/ op.pc \in {"ready", "sent"}) \in BOOLEAN
      /\ (op.after \/ op.pc = "served") \in BOOLEAN
  OBVIOUS
<1>3. op' = [op EXCEPT !.before = op.before \/ op.pc \in {"ready", "sent"},
                       !.after = op.after \/ op.pc = "served"]
  BY DEF Touched
<1>4. QED
  BY <1>1, <1>2, <1>3 DEF Op

\* Whatever the tabs become, what the user did to them is remembered.
LEMMA TabsChange ==
  ASSUME IInv, Act, tabs' \in Seq(Tab), current' \in 0..Len(tabs'),
         UNCHANGED <<online, owner, backendVars, jobVars, faults, connects>>,
         behind' \subseteq behind
  PROVE  IInv'
<1>1. Touched /\ acts' \in 0..MaxActs
  BY EditorAssumption DEF EditorAssumption, Act, IInv, TypeOK
<1>2. UNCHANGED <<online, owner, documents, refs, job, disk, recorded, stuck, faults, connects>>
  BY DEF backendVars, jobVars
<1>3. TypeOK'
  <2>1. op' \in Op
    BY <1>1, TouchedFacts DEF IInv
  <2>2. QED
    BY <1>1, <1>2, <2>1 DEF IInv, TypeOK
<1>4. OpInv'
  <2>1. /\ op'.kind = op.kind /\ op'.pc = op.pc /\ op'.ref = op.ref
        /\ op'.outcome = op.outcome /\ op'.identity = op.identity /\ op'.cell = op.cell
        /\ op'.wrote = op.wrote /\ op'.left = op.left
        /\ op'.before = (op.before \/ op.pc \in {"ready", "sent"})
        /\ op'.after = (op.after \/ op.pc = "served")
        /\ op.before \in BOOLEAN /\ op.after \in BOOLEAN
    BY <1>1, TouchedFacts DEF IInv, TypeOK, Op
  <2>2. op.pc = "done" => op'.before = op.before /\ op'.after = op.after
    BY <2>1
  <2>3. AnswersTrue'
    BY <2>1, <2>2 DEF IInv, OpInv, AnswersTrue
  <2>4. QED
    BY <1>2, <2>1, <2>3 DEF IInv, OpInv, Reading
<1>5. RefInv' /\ FileInv'
  BY <1>2, RefsKept, FilesKept DEF IInv, jobVars
<1>6. QED
  BY <1>3, <1>4, <1>5 DEF IInv

LEMMA ShowsTyped ==
  ASSUME TypeOK, NEW kind \in {"new", "replace"}, Shows(kind)
  PROVE  tabs' \in Seq(Tab) /\ current' \in 0..Len(tabs')
<1>1. tabs \in Seq(Tab) /\ current \in 0..Len(tabs) /\ Len(tabs) \in Nat
  BY DEF TypeOK
<1>2. \A d \in {Source, Copy} : [drawing |-> d, cell |-> 0] \in Tab
  BY DEF Tab, Drawings
<1>3. CASE kind = "replace" /\ current # 0
  <2>1. tabs' = [tabs EXCEPT ![current] = [drawing |-> Source, cell |-> 0]] /\ current' = current
    BY <1>3 DEF Shows
  <2>2. [drawing |-> Source, cell |-> 0] \in Tab /\ current \in 1..Len(tabs)
    BY <1>1, <1>2, <1>3
  <2>3. tabs' \in Seq(Tab) /\ Len(tabs') = Len(tabs)
    BY <1>1, <2>1, <2>2, ReplaceFacts
  <2>4. QED
    BY <1>1, <2>1, <2>3
<1>4. CASE ~(kind = "replace" /\ current # 0)
  <2>1. PICK d \in {Source, Copy} :
          tabs' = Append(tabs, [drawing |-> d, cell |-> 0]) /\ current' = Len(tabs) + 1
    BY <1>4 DEF Shows
  <2>2. [drawing |-> d, cell |-> 0] \in Tab
    BY <1>2
  <2>3. QED
    BY <1>1, <2>1, <2>2
<1>5. QED
  BY <1>3, <1>4

LEMMA EditorStepKeeps == ASSUME IInv, EditorStep PROVE IInv'
<1> USE DEF IInv
<1>1. tabs \in Seq(Tab) /\ current \in 0..Len(tabs) /\ Len(tabs) \in Nat
      /\ DOMAIN tabs = 1..Len(tabs)
  BY DEF TypeOK
<1>2. CASE RegistryChanges
  <2>1. /\ UNCHANGED <<tabs, current, behind, owner, documents, refs, op, job, disk,
                       recorded, stuck, faults, connects>>
        /\ online' = ~online /\ acts' \in 0..MaxActs
    BY <1>2, EditorAssumption
       DEF EditorAssumption, RegistryChanges, backendVars, jobVars, TypeOK
  <2>2. TypeOK'
    BY <2>1 DEF TypeOK
  <2>3. RefInv' /\ OpInv' /\ FileInv'
    BY <2>1, RefsKept, OpKept, FilesKept DEF jobVars, OpInv
  <2>4. QED
    BY <2>2, <2>3
<1>3. ASSUME NEW i \in DOMAIN tabs, Switch(i) PROVE IInv'
  BY <1>1, <1>3, TabsChange DEF Switch, UserActs
<1>4. ASSUME NEW i \in DOMAIN tabs, Close(i) PROVE IInv'
  <2>1. /\ tabs' = SubSeq(tabs, 1, i - 1) \o SubSeq(tabs, i + 1, Len(tabs))
        /\ current' \in (IF Len(tabs) = 1 THEN {0} ELSE 1..(Len(tabs) - 1))
    BY <1>4 DEF Close
  <2>2. PICK s, t : s = SubSeq(tabs, 1, i - 1) /\ t = SubSeq(tabs, i + 1, Len(tabs))
    OBVIOUS
  <2>a. s \in Seq(Tab) /\ Len(s) = i - 1
    BY <1>1, <2>2
  <2>b. t \in Seq(Tab) /\ Len(t) = Len(tabs) - i
    BY <1>1, <2>2
  <2>c. tabs' = s \o t
    BY <2>1, <2>2
  <2>3. tabs' \in Seq(Tab) /\ Len(tabs') = Len(tabs) - 1
    <3>1. s \o t \in Seq(Tab) /\ Len(s \o t) = Len(s) + Len(t)
      BY <2>a, <2>b, JoinFacts
    <3>2. i \in Nat
      BY <1>1
    <3>3. QED
      BY <1>1, <2>a, <2>b, <2>c, <3>1, <3>2
  <2>4. current' \in 0..Len(tabs')
    BY <1>1, <2>1, <2>3
  <2>5. QED
    BY <1>4, <2>3, <2>4, TabsChange DEF Close, UserActs
<1>5. CASE Turn
  <2>1. /\ current # 0 /\ current' = current
        /\ tabs' = [tabs EXCEPT ![current] = [tabs[current] EXCEPT !.cell = 1 - tabs[current].cell]]
    BY <1>5 DEF Turn
  <2>a. tabs[current] \in Tab /\ tabs[current].cell \in {0, 1}
    BY <1>1, <2>1, TabsTyped
  <2>b. 1 - tabs[current].cell \in {0, 1}
    BY <2>a
  <2>2. [tabs[current] EXCEPT !.cell = 1 - tabs[current].cell] \in Tab
    BY <2>a, <2>b DEF Tab
  <2>3. tabs' \in Seq(Tab) /\ current' \in 0..Len(tabs')
    BY <1>1, <2>1, <2>2
  <2>4. QED
    BY <1>5, <2>3, TabsChange DEF Turn, UserActs
<1>6. ASSUME NEW d \in {Source} \cup Untitled, Open(d) PROVE IInv'
  <2>1. [drawing |-> d, cell |-> 0] \in Tab
    BY DEF Tab, Drawings
  <2>2. tabs' = Append(tabs, [drawing |-> d, cell |-> 0]) /\ current' = Len(tabs) + 1
    BY <1>6 DEF Open
  <2>3. tabs' \in Seq(Tab) /\ current' \in 0..Len(tabs')
    BY <1>1, <2>1, <2>2
  <2>4. QED
    BY <1>6, <2>3, TabsChange DEF Open, UserActs
<1>7. ASSUME NEW kind \in behind, ShowsLate(kind) PROVE IInv'
  <2>1. kind \in {"new", "replace"} /\ Shows(kind) /\ Act /\ behind' \subseteq behind
        /\ UNCHANGED <<online, owner, backendVars, jobVars, faults, connects>>
    BY <1>7 DEF ShowsLate, TypeOK
  <2>2. tabs' \in Seq(Tab) /\ current' \in 0..Len(tabs')
    BY <2>1, ShowsTyped
  <2>3. QED
    BY <2>1, <2>2, TabsChange
<1>8. QED
  BY <1>2, <1>3, <1>4, <1>5, <1>6, <1>7 DEF EditorStep

----------------------------------------------------------------------------
(* One operation of the backend. *)

\* What is left to show of a step that leaves the references alone.
LEMMA StepWithoutScan ==
  ASSUME IInv, OpOnly, UNCHANGED backendVars, behind' \subseteq {"new", "replace"},
         faults' \in 0..MaxFaults, op' \in Op, OpInv'
  PROVE  IInv'
<1>1. UNCHANGED <<tabs, current, online, owner, documents, refs, job, disk, recorded, stuck,
                  acts, connects>>
  BY DEF OpOnly, backendVars, jobVars
<1>2. TypeOK'
  BY <1>1 DEF IInv, TypeOK
<1>3. QED
  BY <1>1, <1>2, RefsKept, FilesKept DEF IInv, jobVars

\* The same of one that looks at the tabs again.
LEMMA StepWithScan ==
  ASSUME IInv, OpOnly, Scan, behind' = behind, faults' \in 0..MaxFaults, op' \in Op, OpInv'
  PROVE  IInv'
<1>1. UNCHANGED <<tabs, current, online, owner, job, disk, recorded, stuck, acts, connects>>
  BY DEF OpOnly, jobVars
<1>2. /\ refs' \in Nat /\ DOMAIN documents' \subseteq 1..refs'
      /\ documents' \in [DOMAIN documents' -> Identities] /\ RefInv'
  BY ScanFacts DEF IInv
<1>3. TypeOK'
  BY <1>1, <1>2 DEF IInv, TypeOK
<1>4. QED
  BY <1>1, <1>2, <1>3, FilesKept DEF IInv, jobVars

\* An operation that ends without a receipt has left nothing in the editor.
LEMMA EndsBadly ==
  ASSUME IInv, op.pc # "done", NEW outcome \in Outcomes \ {"receipt"}, Ends(outcome)
  PROVE  op' \in Op /\ OpInv'
<1>1. /\ op' \in Op /\ op'.pc = "done" /\ op'.outcome = outcome /\ op'.left = op.left
  BY Ended DEF IInv
<1>2. AnswersTrue'
  BY <1>1 DEF IInv, OpInv, AnswersTrue
<1>3. QED
  BY <1>1, <1>2, OpDone

LEMMA NoOpFacts == NoOp \in Op /\ (op' = NoOp => OpInv')
<1>1. NoOp \in Op
  BY DEF NoOp, Op, Kinds, Outcomes, Identities
<1>2. op' = NoOp => AnswersTrue' /\ op'.pc = "done"
  BY DEF NoOp, AnswersTrue
<1>3. QED
  BY <1>1, <1>2, OpDone

LEMMA MismatchTyped == \A r : Mismatch(r) \in Outcomes \ {"receipt"}
BY DEF Mismatch, Outcomes

\* A connection that is made or given up knows no document.
LEMMA ForgetsDocuments ==
  ASSUME documents' = Nothing
  PROVE  RefInv' /\ DOMAIN documents' = {} /\ documents' \in [DOMAIN documents' -> Identities]
BY DEF Nothing, RefInv

LEMMA BindsAtFirstLook ==
  ASSUME IInv, FirstLook, Shown(op.ref)
  PROVE  op' \in Op /\ OpInv'
<1> USE DEF IInv
<1>1. /\ op' = [op EXCEPT !.pc = "ready", !.identity = documents[op.ref],
                          !.cell = tabs[current].cell]
      /\ op.pc = "inspect" /\ Scan
      /\ UNCHANGED <<tabs, current, online, owner>>
  BY DEF FirstLook, OpOnly
<1>2. current \in DOMAIN tabs /\ op.ref \in DOMAIN documents
      /\ Identity(current) = documents[op.ref] /\ current # 0
  <2>1. current \in 0..Len(tabs) /\ Len(tabs) \in Nat /\ DOMAIN tabs = 1..Len(tabs)
    BY TabsTyped DEF TypeOK
  <2>2. QED
    BY <2>1 DEF Shown, Unclear
<1>3. documents[op.ref] \in Identities /\ tabs[current].cell \in {0, 1} /\ op \in Op
  BY <1>2, TabsTyped DEF TypeOK
<1>4. /\ op' \in Op /\ op'.pc = "ready" /\ op'.identity = documents[op.ref]
      /\ op'.cell = tabs[current].cell /\ op'.ref = op.ref /\ op'.left = op.left
      /\ op'.kind = op.kind
  BY <1>1, <1>3 DEF Op
<1>5. op.ref \in DOMAIN documents' => documents'[op.ref] = documents[op.ref]
  BY <1>1, <1>2, ScanFacts
<1>6. Showing' = <<Identity(current), tabs[current].cell>>
  BY <1>1 DEF Showing, Identity, FileOf
<1>7. AnswersTrue'
  BY <1>4 DEF AnswersTrue
<1>8. ~op.left /\ (owner' = "none" => op'.pc = "done")
  BY <1>1, <1>4 DEF OpInv
<1> HIDE DEF IInv
<1>9. QED
  BY <1>1, <1>2, <1>4, <1>5, <1>6, <1>7, <1>8 DEF OpInv, Reading

\* The second look at the same reference finds the same identity.
LEMMA SecondLookTells ==
  ASSUME IInv, SecondLook
  PROVE  op' \in Op /\ OpInv'
<1> USE DEF IInv
<1>1. op.pc = "served" /\ Reading /\ op.pc # "done"
  BY DEF SecondLook, Reading
<1>2. CASE ~Shown(op.ref)
  <2>1. Ends(Mismatch(op.ref))
    BY <1>2 DEF SecondLook
  <2>2. QED
    BY <1>1, <2>1, MismatchTyped, EndsBadly
<1>3. CASE Shown(op.ref) /\ tabs[current].cell # op.cell
  <2>1. Ends("failed") /\ "failed" \in Outcomes \ {"receipt"}
    BY <1>3 DEF SecondLook, Outcomes
  <2>2. QED
    BY <1>1, <2>1, EndsBadly
<1>4. CASE Shown(op.ref) /\ tabs[current].cell = op.cell
  <2>1. Ends("receipt") /\ "receipt" \in Outcomes
    BY <1>4 DEF SecondLook, Outcomes
  <2>2. /\ op' \in Op /\ op'.pc = "done" /\ op'.outcome = "receipt"
        /\ op'.identity = op.identity /\ op'.cell = op.cell /\ op'.wrote = op.wrote
        /\ op'.before = op.before /\ op'.after = op.after /\ op'.left = op.left
    BY <2>1, Ended
  <2>3. op.ref \in DOMAIN documents /\ Identity(current) = documents[op.ref]
    BY <1>4 DEF Shown
  <2>4. documents[op.ref] = op.identity
    BY <1>1, <2>3 DEF OpInv
  <2>5. Showing = <<op.identity, op.cell>>
    BY <1>4, <2>3, <2>4 DEF Showing
  <2>6. op.before \in BOOLEAN /\ op.after \in BOOLEAN
    BY DEF TypeOK, Op
  <2>7. op.wrote = <<op.identity, op.cell>> \/ (op.before /\ op.after)
    BY <1>1, <2>5, <2>6 DEF OpInv
  <2>8. AnswersTrue'
    BY <2>2, <2>7 DEF AnswersTrue
  <2>9. QED
    BY <2>2, <2>8, OpDone
<1>5. QED
  BY <1>2, <1>3, <1>4

\* What the editor did, as long as nobody knows whether it succeeded.
LEMMA ServedTells ==
  ASSUME IInv, Serve, current # 0
  PROVE  op' \in Op /\ OpInv'
<1> USE DEF IInv
<1>1. /\ op' = [op EXCEPT !.pc = "served", !.wrote = <<Identity(current), tabs[current].cell>>]
      /\ op.pc = "sent" /\ Reading /\ UNCHANGED <<tabs, current, online, owner, documents>>
  BY DEF Serve, OpOnly, backendVars, Reading
<1>2. current \in DOMAIN tabs
  BY TabsTyped DEF TypeOK
<1>3. <<Identity(current), tabs[current].cell>> \in Identities \X {0, 1} /\ op \in Op
  BY <1>2, TabsTyped DEF TypeOK
<1>4. /\ op' \in Op /\ op'.pc = "served" /\ op'.wrote = Showing
      /\ op'.identity = op.identity /\ op'.cell = op.cell /\ op'.ref = op.ref
      /\ op'.left = op.left /\ op'.before = op.before /\ op'.kind = op.kind
  BY <1>1, <1>3 DEF Op, Showing
<1>5. Showing' = Showing
  BY <1>1 DEF Showing, Identity, FileOf
<1>6. AnswersTrue' /\ ~op.left /\ (owner' = "none" => op'.pc = "done")
  BY <1>1, <1>4 DEF AnswersTrue, OpInv
<1> HIDE DEF IInv
<1>7. QED
  BY <1>1, <1>2, <1>4, <1>5, <1>6, TabsTyped DEF IInv, OpInv, Reading

\* The request leaves, or there is no time for it.
LEMMA DispatchTells ==
  ASSUME IInv, Dispatch
  PROVE  op' \in Op /\ OpInv'
<1>1. op.pc = "ready" /\ op \in Op
  BY DEF Dispatch, IInv, TypeOK
<1>2. CASE Ends("not_started")
  BY <1>1, <1>2, EndsBadly DEF Outcomes
<1>3. CASE op' = [op EXCEPT !.pc = "sent"]
  <2>1. /\ op' \in Op /\ op'.pc = "sent" /\ op'.kind = op.kind /\ op'.ref = op.ref
        /\ op'.identity = op.identity /\ op'.cell = op.cell /\ op'.left = op.left
        /\ op'.before = op.before
    BY <1>1, <1>3 DEF Op
  <2>2. UNCHANGED <<tabs, current, owner, documents>>
    BY DEF Dispatch, OpOnly, backendVars
  <2>3. Showing' = Showing
    BY <2>2 DEF Showing, Identity, FileOf
  <2>4. AnswersTrue'
    BY <2>1 DEF AnswersTrue
  <2>5. QED
    BY <1>1, <2>1, <2>2, <2>3, <2>4 DEF IInv, OpInv, Reading
<1>4. QED
  BY <1>2, <1>3 DEF Dispatch

LEMMA GiveUpTells ==
  ASSUME IInv, GiveUp
  PROVE  op' \in Op /\ OpInv'
<1>1. op \in Op /\ op.pc \in {"sent", "served"}
  BY DEF GiveUp, IInv, TypeOK
<1>2. Unanswered \in Outcomes /\ (op.kind # "screenshot" => Unanswered = "unknown")
      /\ Unanswered # "receipt"
  BY DEF Unanswered, Outcomes
<1>3. (op.pc = "sent") \in BOOLEAN
  OBVIOUS
<1>4. op' \in Op /\ op'.pc = "done" /\ op'.outcome = Unanswered /\ op'.kind = op.kind
  BY <1>1, <1>2, <1>3 DEF GiveUp, Op
<1>5. AnswersTrue'
  BY <1>2, <1>4 DEF AnswersTrue
<1>6. QED
  BY <1>4, <1>5, OpDone

LEMMA ConfirmTells ==
  ASSUME IInv, Confirm
  PROVE  op' \in Op /\ OpInv'
<1>1. op \in Op /\ op.pc = "served" /\ op.kind \in {"new", "replace"} /\ ~op.left
  BY DEF Confirm, IInv, TypeOK, OpInv
<1>2. PICK outcome \in Outcomes : Ends(outcome)
  BY DEF Confirm, Outcomes
<1>3. /\ op' \in Op /\ op'.pc = "done" /\ op'.kind = op.kind /\ op'.left = op.left
  BY <1>2, Ended DEF IInv
<1>4. AnswersTrue'
  BY <1>1, <1>3 DEF AnswersTrue
<1>5. QED
  BY <1>3, <1>4, OpDone

LEMMA BackendStepKeeps == ASSUME IInv, BackendStep PROVE IInv'
<1> USE DEF IInv
<1>1. /\ behind \subseteq {"new", "replace"} /\ faults \in 0..MaxFaults /\ op \in Op
      /\ refs \in Nat
  BY DEF TypeOK
<1>2. CASE RecorderConnects
  <2>1. /\ owner = "none" /\ owner' = "recorder" /\ connects' \in 0..MaxConnects
        /\ documents' = Nothing
        /\ UNCHANGED <<tabs, current, online, behind, refs, op, job, disk, recorded, stuck,
                       acts, faults>>
    BY <1>2, EditorAssumption
       DEF EditorAssumption, RecorderConnects, Connects, editorVars, jobVars, TypeOK
  <2>2. op.pc = "done"
    BY <2>1 DEF OpInv
  <2>3. TypeOK'
    BY <2>1, ForgetsDocuments DEF TypeOK
  <2>4. AnswersTrue'
    BY <2>1 DEF AnswersTrue, OpInv
  <2>5. OpInv'
    BY <2>1, <2>2, <2>4, OpDone
  <2>6. QED
    BY <2>1, <2>3, <2>5, ForgetsDocuments, FilesKept DEF jobVars
<1>3. CASE RecorderCloses
  <2>1. /\ owner' = "none" /\ documents' = Nothing /\ op' = NoOp
        /\ UNCHANGED <<tabs, current, online, behind, refs, job, disk, recorded, stuck,
                       acts, faults, connects>>
    BY <1>3 DEF RecorderCloses, editorVars, jobVars, budgets
  <2>2. TypeOK'
    BY <2>1, ForgetsDocuments, NoOpFacts DEF TypeOK
  <2>3. QED
    BY <2>1, <2>2, ForgetsDocuments, NoOpFacts, FilesKept DEF jobVars
<1>4. CASE ListDocuments
  <2>1. PICK outcome \in Outcomes : op' = [NoOp EXCEPT !.kind = "list", !.outcome = outcome]
    BY <1>4 DEF ListDocuments, Outcomes
  <2>2. op' \in Op /\ op'.pc = "done" /\ op'.left = FALSE /\ op'.kind = "list"
    BY <2>1 DEF Op, NoOp, Kinds, Outcomes, Identities
  <2>3. OpInv'
    BY <2>2, OpDone DEF AnswersTrue
  <2>4. QED
    BY <1>1, <1>4, <2>2, <2>3, StepWithScan DEF ListDocuments
<1>5. ASSUME NEW kind \in {"export", "screenshot"}, NEW r \in 1..refs, Begin(kind, r)
      PROVE  IInv'
  <2>1. PICK pc \in {"done", "inspect"} :
           op' = [NoOp EXCEPT !.kind = kind, !.ref = r, !.pc = pc, !.outcome = "not_started"]
    BY <1>5 DEF Begin
  <2>2. /\ op' \in Op /\ op'.pc \in {"done", "inspect"} /\ op'.left = FALSE
        /\ op'.outcome = "not_started"
    <3>1. r \in Nat /\ kind \in Kinds /\ "not_started" \in Outcomes /\ NoOp \in Op
      BY <1>1, NoOpFacts DEF Kinds, Outcomes
    <3>2. NoOp.left = FALSE
      BY DEF NoOp
    <3>3. QED
      BY <2>1, <3>1, <3>2 DEF Op
  <2>3. AnswersTrue' /\ owner' = "recorder"
    BY <1>5, <2>2 DEF AnswersTrue, Begin, OpOnly
  <2>4. OpInv'
    BY <2>2, <2>3 DEF OpInv
  <2>5. QED
    BY <1>1, <1>5, <2>2, <2>4, StepWithoutScan DEF Begin
<1>6. CASE FirstLook
  <2>1. op' \in Op /\ OpInv'
    <3>1. CASE Shown(op.ref)
      BY <1>6, <3>1, BindsAtFirstLook
    <3>2. CASE ~Shown(op.ref)
      BY <1>6, <3>2, MismatchTyped, EndsBadly DEF FirstLook
    <3>3. QED
      BY <3>1, <3>2
  <2>2. QED
    BY <1>1, <1>6, <2>1, StepWithScan DEF FirstLook
<1>7. CASE LookFails
  <2>1. op' \in Op /\ OpInv'
    BY <1>7, EndsBadly DEF LookFails, Outcomes
  <2>2. QED
    BY <1>1, <1>7, <2>1, FaultTyped, StepWithoutScan DEF LookFails
<1>8. CASE Dispatch
  BY <1>1, <1>8, DispatchTells, StepWithoutScan DEF Dispatch
<1>9. CASE Serve
  <2>1. op' \in Op /\ OpInv'
    <3>1. CASE current = 0
      BY <1>9, <3>1, EndsBadly DEF Serve, Outcomes
    <3>2. QED
      BY <1>9, <3>1, ServedTells
  <2>2. QED
    BY <1>1, <1>9, <2>1, StepWithoutScan DEF Serve
<1>10. CASE ServeShow
  <2>1. /\ op' = [op EXCEPT !.pc = "served"] /\ op.pc = "sent" /\ op.kind \in {"new", "replace"}
        /\ Shows(op.kind)
        /\ UNCHANGED <<online, behind, owner, documents, refs, job, disk, recorded, stuck,
                       acts, faults, connects>>
    BY <1>10 DEF ServeShow, backendVars, jobVars, budgets
  <2>2. tabs' \in Seq(Tab) /\ current' \in 0..Len(tabs')
    BY <2>1, ShowsTyped
  <2>3. op' \in Op /\ op'.pc = "served" /\ op'.kind = op.kind /\ op'.left = op.left
    BY <1>1, <2>1 DEF Op
  <2>4. TypeOK'
    BY <2>1, <2>2, <2>3 DEF TypeOK
  <2>5. AnswersTrue'
    BY <2>3 DEF AnswersTrue
  <2>6. OpInv'
    BY <2>1, <2>3, <2>5 DEF OpInv, Reading
  <2>7. QED
    BY <2>1, <2>4, <2>6, RefsKept, FilesKept DEF jobVars
<1>11. CASE EditorRefuses
  <2>1. op' \in Op /\ OpInv'
    BY <1>11, EndsBadly DEF EditorRefuses, Outcomes
  <2>2. QED
    BY <1>1, <1>11, <2>1, FaultTyped, StepWithoutScan DEF EditorRefuses
<1>12. CASE GiveUp
  <2>1. behind' \subseteq {"new", "replace"}
    BY <1>1, <1>12 DEF GiveUp
  <2>2. QED
    BY <1>12, <2>1, GiveUpTells, FaultTyped, StepWithoutScan DEF GiveUp
<1>13. CASE SecondLook
  BY <1>1, <1>13, SecondLookTells, StepWithScan DEF SecondLook
<1>14. CASE Confirm
  <2>1. behind' = behind /\ OpOnly /\ faults' \in 0..MaxFaults
    BY <1>1, <1>14, FaultTyped DEF Confirm
  <2>2. Scan \/ UNCHANGED backendVars
    BY <1>14 DEF Confirm
  <2>3. QED
    BY <1>1, <1>14, <2>1, <2>2, ConfirmTells, StepWithScan, StepWithoutScan
<1>15. QED
  BY <1>2, <1>3, <1>4, <1>5, <1>6, <1>7, <1>8, <1>9, <1>10, <1>11, <1>12, <1>13, <1>14
     DEF BackendStep

----------------------------------------------------------------------------
(* The jobs, and a crash. *)

\* Steps of a job that leave the backend and the editor to others.
LEMMA JobStepAlone ==
  ASSUME IInv, JobOnly, NoOpStep, job' \in Job, faults' \in 0..MaxFaults,
         disk' \in [source: Contents, staging: BOOLEAN, backup: Contents],
         recorded' \in BOOLEAN, stuck' \in BOOLEAN, FileInv'
  PROVE  IInv'
<1>1. UNCHANGED <<tabs, current, online, behind, owner, documents, refs, op, acts, connects>>
  BY DEF JobOnly, NoOpStep, editorVars, backendVars
<1>2. TypeOK'
  BY <1>1 DEF IInv, TypeOK
<1>3. RefInv' /\ OpInv'
  BY <1>1, RefsKept, OpKept DEF IInv, OpInv
<1>4. QED
  BY <1>2, <1>3 DEF IInv

LEMMA JobGoes ==
  ASSUME TypeOK, NEW pc \in {"hold", "held", "copied", "replaced", "written", "open",
                             "shown", "done"}, Goes(pc)
  PROVE  job' \in Job /\ job'.pc = pc
BY DEF TypeOK, Goes, Job

LEMMA FinallyFacts ==
  ASSUME TypeOK, NEW source \in Contents, Finally(source)
  PROVE  /\ job' \in Job /\ job'.pc = "done" /\ disk'.source = source
         /\ disk' \in [source: Contents, staging: BOOLEAN, backup: Contents]
<1>1. Goes("done") /\ disk' = [source |-> source, staging |-> FALSE, backup |-> "none"]
  BY DEF Finally
<1>2. QED
  BY <1>1, JobGoes DEF Contents

LEMMA JobStepKeeps == ASSUME IInv, JobStep PROVE IInv'
<1> USE DEF IInv
<1>1. /\ job \in Job /\ faults \in 0..MaxFaults /\ behind \subseteq {"new", "replace"}
      /\ disk \in [source: Contents, staging: BOOLEAN, backup: Contents]
      /\ disk.source \in Contents /\ disk.backup \in Contents
      /\ recorded \in BOOLEAN /\ stuck \in BOOLEAN
  BY DEF TypeOK
<1>2. CASE RequestOpen \/ RequestRestore
  <2>1. PICK kind \in {"new", "replace"} : job' = [kind |-> kind, pc |-> "asked"]
    BY <1>2 DEF RequestOpen, RequestRestore
  <2>2. /\ job.pc = "none" /\ JobOnly /\ NoOpStep
        /\ UNCHANGED <<disk, recorded, stuck, faults>>
    BY <1>2 DEF RequestOpen, RequestRestore, Files, NoJob
  <2>3. job' \in Job /\ job'.pc = "asked"
    BY <2>1 DEF Job
  <2>4. FileInv'
    BY <2>2, <2>3 DEF FileInv, OldKept
  <2>5. QED
    BY <1>1, <2>2, <2>3, <2>4, JobStepAlone
<1>3. CASE JobStarts
  <2>1. PICK pc \in {"hold", "done"} : Goes(pc)
    BY <1>3 DEF JobStarts
  <2>2. /\ job.pc = "asked" /\ JobOnly /\ NoOpStep /\ faults' \in 0..MaxFaults
        /\ UNCHANGED <<disk, recorded, stuck>>
    BY <1>1, <1>3, FaultTyped DEF JobStarts, Files
  <2>3. job' \in Job /\ job'.pc = pc
    BY <2>1, JobGoes
  <2>4. FileInv'
    BY <2>2, <2>3 DEF FileInv, OldKept
  <2>5. QED
    BY <1>1, <2>2, <2>3, <2>4, JobStepAlone
<1>4. CASE JobHolds
  <2>1. PICK pc \in {"open", "held"} : Goes(pc)
    BY <1>4 DEF JobHolds
  <2>2. /\ job.pc = "hold" /\ JobOnly /\ NoOpStep
        /\ UNCHANGED <<disk, recorded, stuck, faults>>
    BY <1>4 DEF JobHolds, Files
  <2>3. job' \in Job /\ job'.pc = pc
    BY <2>1, JobGoes
  <2>4. FileInv'
    BY <2>2, <2>3 DEF FileInv, OldKept
  <2>5. QED
    BY <1>1, <2>2, <2>3, <2>4, JobStepAlone
<1>5. CASE Stage
  <2>1. /\ job.pc = "held" /\ disk.source = "old" /\ JobOnly /\ NoOpStep
        /\ UNCHANGED <<recorded, stuck>> /\ faults' \in 0..MaxFaults
    BY <1>1, <1>5, FaultTyped DEF Stage, FileInv
  <2>2. CASE disk' = [disk EXCEPT !.staging = TRUE] /\ job' = job
    <3>1. disk' \in [source: Contents, staging: BOOLEAN, backup: Contents]
          /\ disk'.source = disk.source /\ disk'.backup = disk.backup
      BY <1>1, <2>2
    <3>2. FileInv'
      BY <2>1, <2>2, <3>1 DEF FileInv, OldKept
    <3>3. QED
      BY <1>1, <2>1, <2>2, <3>1, <3>2, JobStepAlone
  <2>3. CASE disk' = [disk EXCEPT !.backup = disk.source] /\ Goes("copied")
    <3>1. disk' \in [source: Contents, staging: BOOLEAN, backup: Contents]
          /\ disk'.source = "old" /\ disk'.backup = "old"
      BY <1>1, <2>1, <2>3
    <3>2. job' \in Job /\ job'.pc = "copied"
      BY <2>3, JobGoes
    <3>3. FileInv'
      BY <2>1, <3>1, <3>2 DEF FileInv, OldKept
    <3>4. QED
      BY <1>1, <2>1, <3>1, <3>2, <3>3, JobStepAlone
  <2>4. CASE Finally(disk.source)
    <3>1. /\ job' \in Job /\ job'.pc = "done" /\ disk'.source = "old"
          /\ disk' \in [source: Contents, staging: BOOLEAN, backup: Contents]
      BY <1>1, <2>1, <2>4, FinallyFacts
    <3>2. FileInv'
      BY <3>1 DEF FileInv, OldKept
    <3>3. QED
      BY <1>1, <2>1, <3>1, <3>2, JobStepAlone
  <2>5. QED
    BY <1>5, <2>2, <2>3, <2>4 DEF Stage
<1>6. CASE Replace
  <2>1. /\ job.pc = "copied" /\ disk.source = "old" /\ disk.backup = "old"
        /\ JobOnly /\ NoOpStep /\ UNCHANGED <<recorded, stuck>> /\ faults' \in 0..MaxFaults
    BY <1>1, <1>6, FaultTyped DEF Replace, FileInv
  <2>2. CASE disk' = [disk EXCEPT !.source = "version", !.staging = FALSE] /\ Goes("replaced")
    <3>1. disk' \in [source: Contents, staging: BOOLEAN, backup: Contents]
          /\ disk'.backup = "old"
      BY <1>1, <2>1, <2>2 DEF Contents
    <3>2. job' \in Job /\ job'.pc = "replaced"
      BY <2>2, JobGoes
    <3>3. FileInv'
      BY <3>1, <3>2 DEF FileInv, OldKept
    <3>4. QED
      BY <1>1, <2>1, <3>1, <3>2, <3>3, JobStepAlone
  <2>3. CASE Finally(disk.source)
    <3>1. /\ job' \in Job /\ job'.pc = "done" /\ disk'.source = "old"
          /\ disk' \in [source: Contents, staging: BOOLEAN, backup: Contents]
      BY <1>1, <2>1, <2>3, FinallyFacts
    <3>2. FileInv'
      BY <3>1 DEF FileInv, OldKept
    <3>3. QED
      BY <1>1, <2>1, <3>1, <3>2, JobStepAlone
  <2>4. QED
    BY <1>6, <2>2, <2>3 DEF Replace
<1>7. CASE Record
  <2>1. /\ recorded' = TRUE /\ Goes("written") /\ JobOnly /\ NoOpStep
        /\ UNCHANGED <<disk, stuck, faults>>
    BY <1>7 DEF Record
  <2>2. job' \in Job /\ job'.pc = "written"
    BY <2>1, JobGoes
  <2>3. FileInv'
    BY <2>1, <2>2 DEF FileInv, OldKept
  <2>4. QED
    BY <1>1, <2>1, <2>2, <2>3, JobStepAlone
<1>8. CASE RecordFails
  <2>1. /\ job.pc = "replaced" /\ disk.backup = "old" /\ recorded' \in BOOLEAN
        /\ JobOnly /\ NoOpStep
    BY <1>8 DEF RecordFails, FileInv
  <2>2. CASE Fault /\ Finally(disk.backup) /\ stuck' = stuck
    <3>1. /\ job' \in Job /\ job'.pc = "done" /\ disk'.source = "old"
          /\ disk' \in [source: Contents, staging: BOOLEAN, backup: Contents]
      BY <1>1, <2>1, <2>2, FinallyFacts
    <3>2. FileInv'
      BY <3>1 DEF FileInv, OldKept
    <3>3. QED
      BY <1>1, <2>1, <2>2, <3>1, <3>2, FaultTyped, JobStepAlone
  <2>3. CASE faults + 2 <= MaxFaults /\ faults' = faults + 2 /\ Finally(disk.source)
             /\ stuck' = TRUE
    <3>1. faults' \in 0..MaxFaults
      BY <1>1, <2>3, EditorAssumption DEF EditorAssumption
    <3>2. /\ job' \in Job /\ job'.pc = "done"
          /\ disk' \in [source: Contents, staging: BOOLEAN, backup: Contents]
      BY <1>1, <2>3, FinallyFacts
    <3>3. FileInv'
      BY <2>3, <3>2 DEF FileInv, OldKept
    <3>4. QED
      BY <2>1, <2>3, <3>1, <3>2, <3>3, JobStepAlone
  <2>4. QED
    BY <1>8, <2>2, <2>3 DEF RecordFails
<1>9. CASE JobConnects
  <2>1. /\ job.pc \in {"written", "open"} /\ (recorded \/ disk.source = "old")
        /\ UNCHANGED <<tabs, current, online, behind, refs, recorded, stuck, acts>>
    BY <1>9 DEF JobConnects, editorVars, FileInv
  <2>2. CASE /\ Connects("job") /\ op' = [NoOp EXCEPT !.kind = job.kind, !.pc = "ready"]
             /\ disk' = [disk EXCEPT !.backup = "none"] /\ Goes("shown") /\ faults' = faults
    <3>1. job' \in Job /\ job'.pc = "shown"
      BY <2>2, JobGoes
    <3>2. disk' \in [source: Contents, staging: BOOLEAN, backup: Contents]
          /\ disk'.source = disk.source
      BY <1>1, <2>2 DEF Contents
    <3>3. job.kind \in {"none", "new", "replace"} /\ job.kind \in Kinds
      BY <1>1 DEF Job, Kinds
    <3>4. op' \in Op /\ op'.pc = "ready" /\ op'.kind = job.kind /\ op'.left = FALSE
      <4>1. NoOp.left = FALSE
        BY DEF NoOp
      <4>2. QED
        BY <2>2, <3>3, <4>1, NoOpFacts DEF Op
    <3>5. owner' = "job" /\ documents' = Nothing /\ connects' \in 0..MaxConnects
      BY <1>1, <2>2, EditorAssumption DEF EditorAssumption, Connects, TypeOK
    <3>6. TypeOK'
      BY <2>1, <2>2, <3>1, <3>2, <3>4, <3>5, ForgetsDocuments DEF TypeOK
    <3>7. AnswersTrue'
      BY <3>4 DEF AnswersTrue
    <3>8. OpInv'
      BY <3>3, <3>4, <3>5, <3>7 DEF OpInv, Reading
    <3>9. FileInv'
      BY <2>1, <3>1, <3>2 DEF FileInv, OldKept
    <3>10. QED
      BY <3>5, <3>6, <3>8, <3>9, ForgetsDocuments
  <2>3. CASE Fault /\ Finally(disk.source) /\ UNCHANGED <<owner, documents, op, connects>>
    <3>1. /\ job' \in Job /\ job'.pc = "done" /\ disk'.source = disk.source
          /\ disk' \in [source: Contents, staging: BOOLEAN, backup: Contents]
      BY <1>1, <2>3, FinallyFacts
    <3>2. FileInv'
      BY <2>1, <3>1 DEF FileInv, OldKept
    <3>3. QED
      BY <1>1, <2>1, <2>3, <3>1, <3>2, FaultTyped, JobStepAlone
         DEF JobOnly, NoOpStep, editorVars, backendVars
  <2>4. QED
    BY <1>9, <2>2, <2>3 DEF JobConnects
<1>10. CASE JobEnds
  <2>1. /\ job.pc = "shown" /\ Finally(disk.source) /\ (recorded \/ disk.source = "old")
        /\ owner' = "none" /\ documents' = Nothing /\ op' = NoOp
        /\ UNCHANGED <<tabs, current, online, behind, refs, recorded, stuck, acts, faults,
                       connects>>
    BY <1>10 DEF JobEnds, editorVars, budgets, FileInv
  <2>2. /\ job' \in Job /\ job'.pc = "done" /\ disk'.source = disk.source
        /\ disk' \in [source: Contents, staging: BOOLEAN, backup: Contents]
    BY <1>1, <2>1, FinallyFacts
  <2>3. TypeOK'
    BY <2>1, <2>2, ForgetsDocuments, NoOpFacts DEF TypeOK
  <2>4. FileInv'
    BY <2>1, <2>2 DEF FileInv, OldKept
  <2>5. QED
    BY <2>1, <2>3, <2>4, ForgetsDocuments, NoOpFacts
<1>11. CASE Crash
  <2>1. /\ faults' \in 0..MaxFaults /\ owner' = "none" /\ documents' = Nothing /\ op' = NoOp
        /\ behind' \subseteq {"new", "replace"}
        /\ UNCHANGED <<tabs, current, online, refs, disk, recorded, stuck, acts, connects>>
    BY <1>1, <1>11, FaultTyped DEF Crash
  <2>2. job' \in Job /\ (job' = job \/ job'.pc = "done")
    BY <1>1, <1>11 DEF Crash, Job
  <2>3. TypeOK'
    BY <2>1, <2>2, ForgetsDocuments, NoOpFacts DEF TypeOK
  <2>4. FileInv'
    BY <2>1, <2>2 DEF FileInv, OldKept
  <2>5. QED
    BY <2>1, <2>3, <2>4, ForgetsDocuments, NoOpFacts
<1>12. QED
  BY <1>2, <1>3, <1>4, <1>5, <1>6, <1>7, <1>8, <1>9, <1>10, <1>11 DEF JobStep

----------------------------------------------------------------------------
(* Theorems. *)

LEMMA Step == IInv /\ [Next]_vars => IInv'
<1> SUFFICES ASSUME IInv, [Next]_vars PROVE IInv'
  OBVIOUS
<1>1. CASE UNCHANGED vars
  <2>1. UNCHANGED <<tabs, current, online, behind, owner, documents, refs, op, job, disk,
                    recorded, stuck, acts, faults, connects>>
    BY <1>1 DEF vars, editorVars, backendVars, jobVars, budgets
  <2>2. TypeOK'
    BY <2>1 DEF IInv, TypeOK
  <2>3. QED
    BY <2>1, <2>2, RefsKept, OpKept, FilesKept DEF IInv, OpInv, jobVars
<1>2. QED
  BY <1>1, EditorStepKeeps, BackendStepKeeps, JobStepKeeps DEF Next

\* The invariant that the others follow from.
THEOREM Inductive == Spec => []IInv
BY Initial, Step, PTL DEF Spec

\* Every variable keeps its type: tabs, references, operation, job and files.
THEOREM TypeCorrect == Spec => []TypeOK
<1>1. IInv => TypeOK
  BY DEF IInv
<1>2. QED
  BY <1>1, Inductive, PTL

\* A receipt of export_snapshot or screenshot is of the document and the cell
\* asked for, unless the user went and came back, and a call that is told not
\* to have started or to have failed has left nothing behind in the editor.
THEOREM ReceiptsAreTrue == Spec => []AnswersTrue
<1>1. IInv => AnswersTrue
  BY DEF IInv, OpInv
<1>2. QED
  BY <1>1, Inductive, PTL

\* A restore leaves the old layout in the working file or beside it until the
\* history has the restored version.
THEOREM OldLayoutIsKept == Spec => []OldKept
<1>1. IInv => OldKept
  BY DEF IInv, FileInv
<1>2. QED
  BY <1>1, Inductive, PTL

----------------------------------------------------------------------------
\* The revisions of one skill, each with what the next ones build on.
RevisionsGood(revs) ==
  \A k \in DOMAIN revs :
    /\ revs[k].basis = k - 1
    /\ revs[k].state = "published" => revs[k].kind = "instructions"
    /\ \A report \in revs[k].reports :
         /\ report.body = revs[k].body /\ report.revision <= k
         /\ report.revision # 0 => revs[report.revision].body = report.body

\* The part of the list that a client has seen, while the list is what it was.
Seen(mind) ==
  /\ mind.revision <= order
  /\ mind.revision = order =>
       \E upto \in 0..Len(timeline) :
         /\ mind.before \in 1..(upto + 1)
         /\ mind.view = Versions(Visible(mind.before, upto))

\* What a client saw between the two that it has chosen.
Chosen(mind) ==
  /\ mind.call.revision <= order
  /\ mind.call.revision = order =>
       /\ mind.call.from \in ToSet(timeline) /\ mind.call.to \in ToSet(timeline)
       /\ mind.wanted = Versions(Visible(PlaceOf(mind.call.from), PlaceOf(mind.call.to)))

\* A walk through the pending requests.
Walked(mind) ==
  /\ mind.since \subseteq DOMAIN skills
  /\ IsInjective(mind.known)
  /\ \A k \in DOMAIN mind.known : mind.known[k] >= mind.before
  /\ \A n \in mind.since \cap Waiting :
       n \in ToSet(mind.known) \/ (mind.pc = "pending" /\ n < mind.before)

MindInv(mind) ==
  /\ mind.pc \in DOMAIN Minds /\ mind \in Minds[mind.pc]
  /\ mind.pc = "history" => Seen(mind)
  /\ mind.pc \in {"refine", "create"} => Chosen(mind)
  /\ mind.pc = "create" => mind.items = mind.wanted
  /\ mind.pc \in {"skill", "export", "exported"} => IsRevision(mind.skill, mind.revision)
  /\ mind.pc = "skill" /\ mind.wanted # <<>> =>
       skills[mind.skill].evidence.items = mind.wanted
  /\ mind.pc = "exported" => mind.holds = skills[mind.skill].revs[mind.revision]
  /\ mind.pc \in {"pending", "listed"} => Walked(mind)

TimelineInv ==
  /\ timeline \in Seq(Nat) /\ Len(timeline) >= 2 /\ IsInjective(timeline)
  /\ \A i \in DOMAIN timeline : timeline[i] <= Len(timeline)
  /\ hidden \subseteq Nat /\ order \in Nat /\ notes \subseteq Nat /\ lost \in Nat

SkillsInv ==
  /\ skills \in Seq(Skill) /\ MadeOnce
  /\ \A n \in DOMAIN skills : RevisionsGood(skills[n].revs)

TasksInv ==
  \A task \in tasks : task.kind \in {"generate", "validate"} /\ IsRevision(task.skill, task.revision)

ClientsInv == DOMAIN client = Clients /\ \A c \in Clients : MindInv(client[c])

LibraryInv == TimelineInv /\ SkillsInv /\ TasksInv /\ ClientsInv

----------------------------------------------------------------------------
(* Sets of numbers in order. *)

LEMMA UpToBounds ==
  ASSUME NEW S \in SUBSET Nat, IsFiniteSet(S), NEW x \in S
  PROVE  /\ UpTo(S, x) \in 1..Cardinality(S) /\ IsFiniteSet({y \in S : y <= x})
         /\ Cardinality(S) \in Nat
<1>1. {y \in S : y <= x} \in SUBSET S /\ x \in {y \in S : y <= x}
  OBVIOUS
<1>2. /\ IsFiniteSet({y \in S : y <= x}) /\ Cardinality({y \in S : y <= x}) <= Cardinality(S)
  BY <1>1, FS_Subset
<1>3. Cardinality(S) \in Nat /\ Cardinality({y \in S : y <= x}) \in Nat
  BY <1>2, FS_CardinalityType
<1>4. Cardinality({y \in S : y <= x}) # 0
  BY <1>1, <1>2, FS_EmptySet
<1>5. QED
  BY <1>2, <1>3, <1>4 DEF UpTo

LEMMA UpToGrows ==
  ASSUME NEW S \in SUBSET Nat, IsFiniteSet(S), NEW x \in S, NEW y \in S, x < y
  PROVE  UpTo(S, x) < UpTo(S, y)
<1> DEFINE X == {z \in S : z <= x}
           Y == {z \in S : z <= y}
<1>1. X \in SUBSET Y /\ y \in Y /\ y \notin X
  <2>1. \A z \in S : z \in Nat
    OBVIOUS
  <2>2. \A z \in S : z <= x => z <= y
    BY <2>1
  <2>3. y <= y /\ ~(y <= x)
    BY <2>1
  <2>4. QED
    BY <2>2, <2>3
<1>2. IsFiniteSet(X) /\ IsFiniteSet(Y) /\ Cardinality(X) \in Nat /\ Cardinality(Y) \in Nat
  BY UpToBounds, FS_CardinalityType
<1>3. Cardinality(X) <= Cardinality(Y) /\ Cardinality(X) # Cardinality(Y)
  BY <1>1, <1>2, FS_Subset
<1>4. QED
  BY <1>2, <1>3 DEF UpTo

LEMMA NthFacts ==
  ASSUME NEW S \in SUBSET Nat, IsFiniteSet(S), NEW k \in 1..Cardinality(S)
  PROVE  Nth(S, k) \in S /\ UpTo(S, Nth(S, k)) = k
<1> DEFINE T == 1..Cardinality(S)
           f == [x \in S |-> UpTo(S, x)]
<1>1. Cardinality(S) \in Nat
  BY FS_CardinalityType
<1>2. IsFiniteSet(T) /\ Cardinality(T) = Cardinality(S)
  BY <1>1, FS_Interval
<1>3. f \in [S -> T]
  BY UpToBounds
<1>4. ASSUME NEW a \in S, NEW b \in S, f[a] = f[b] PROVE a = b
  <2>0. UpTo(S, a) = UpTo(S, b) /\ a \in Nat /\ b \in Nat
    BY <1>4
  <2>1. UpTo(S, a) = UpTo(S, b) /\ UpTo(S, a) \in Nat
    <3>1. UpTo(S, a) \in 1..Cardinality(S)
      BY UpToBounds
    <3>2. QED
      BY <1>1, <2>0, <3>1
  <2>2. ~(a < b) /\ ~(b < a)
    BY <2>1, UpToGrows
  <2>3. QED
    BY <2>0, <2>2
<1>5. f \in Injection(S, T)
  <2>1. DOMAIN f = S
    OBVIOUS
  <2>2. IsInjective(f)
    BY <2>1, <1>4 DEF IsInjective
  <2>3. QED
    BY <1>3, <2>2 DEF Injection
<1>6. f \in Surjection(S, T)
  <2> HIDE DEF f, T
  <2>1. QED
    BY <1>2, <1>5, FS_Injection
<1>7. PICK x \in S : f[x] = k
  <2> HIDE DEF f
  <2>1. QED
    BY <1>6 DEF Surjection
<1>8. UpTo(S, x) = k
  BY <1>7
<1>9. QED
  BY <1>8 DEF Nth

LEMMA NthUnique ==
  ASSUME NEW S \in SUBSET Nat, IsFiniteSet(S), NEW x \in S, NEW k, UpTo(S, x) = k
  PROVE  Nth(S, k) = x
<1>0. UpTo(S, x) \in 1..Cardinality(S) /\ Cardinality(S) \in Nat
  BY UpToBounds
<1>1. k \in 1..Cardinality(S) /\ k \in Nat
  BY <1>0
<1>2. PICK y : y = Nth(S, k)
  OBVIOUS
<1>3. y \in S /\ UpTo(S, y) = k
  BY <1>1, <1>2, NthFacts
<1>4. ~(x < y) /\ ~(y < x)
  BY <1>1, <1>3, UpToGrows
<1>5. QED
  BY <1>2, <1>3, <1>4

LEMMA NthGrows ==
  ASSUME NEW S \in SUBSET Nat, IsFiniteSet(S),
         NEW i \in 1..Cardinality(S), NEW j \in 1..Cardinality(S), i < j
  PROVE  Nth(S, i) < Nth(S, j)
<1>1. PICK x, y : x = Nth(S, i) /\ y = Nth(S, j)
  OBVIOUS
<1>2. x \in S /\ y \in S /\ UpTo(S, x) = i /\ UpTo(S, y) = j
  BY <1>1, NthFacts
<1>3. ~(y < x) /\ x # y
  BY <1>2, UpToGrows, FS_CardinalityType
<1>4. QED
  BY <1>1, <1>2, <1>3

\* All of one set before all of the other.
LEMMA NthJoin ==
  ASSUME NEW A \in SUBSET Nat, IsFiniteSet(A), NEW B \in SUBSET Nat, IsFiniteSet(B),
         \A a \in A : \A b \in B : a < b
  PROVE  /\ IsFiniteSet(A \cup B) /\ Cardinality(A \cup B) = Cardinality(A) + Cardinality(B)
         /\ \A k \in 1..Cardinality(A) : Nth(A \cup B, k) = Nth(A, k)
         /\ \A k \in 1..Cardinality(B) : Nth(A \cup B, Cardinality(A) + k) = Nth(B, k)
<1>1. /\ IsFiniteSet(A \cup B) /\ Cardinality(A \cup B) = Cardinality(A) + Cardinality(B)
      /\ Cardinality(A) \in Nat /\ Cardinality(B) \in Nat
  <2>1. A \cap B = {}
    OBVIOUS
  <2>2. Cardinality(A) \in Nat /\ Cardinality(B) \in Nat /\ Cardinality(A \cap B) = 0
    BY <2>1, FS_CardinalityType, FS_EmptySet
  <2>3. IsFiniteSet(A \cup B)
        /\ Cardinality(A \cup B) = Cardinality(A) + Cardinality(B) - Cardinality(A \cap B)
    BY FS_Union
  <2>4. QED
    BY <2>2, <2>3
<1>2. ASSUME NEW k \in 1..Cardinality(A) PROVE Nth(A \cup B, k) = Nth(A, k)
  <2>1. PICK x : x = Nth(A, k)
    OBVIOUS
  <2>2. x \in A /\ UpTo(A, x) = k
    BY <2>1, NthFacts
  <2>3. {y \in A \cup B : y <= x} = {y \in A : y <= x}
    <3>1. \A y \in B : ~(y <= x)
      BY <2>2
    <3>2. QED
      BY <3>1
  <2>4. UpTo(A \cup B, x) = k
    BY <2>2, <2>3 DEF UpTo
  <2>5. QED
    BY <1>1, <2>1, <2>2, <2>4, NthUnique
<1>3. ASSUME NEW k \in 1..Cardinality(B) PROVE Nth(A \cup B, Cardinality(A) + k) = Nth(B, k)
  <2>1. PICK x : x = Nth(B, k)
    OBVIOUS
  <2>2. x \in B /\ UpTo(B, x) = k
    BY <2>1, NthFacts
  <2>3. PICK U : U = {y \in B : y <= x}
    OBVIOUS
  <2>4. {y \in A \cup B : y <= x} = A \cup U /\ A \cap U = {}
    <3>1. \A y \in A : y <= x
      BY <2>2
    <3>2. \A y \in A : y \notin B
      OBVIOUS
    <3>3. QED
      BY <2>3, <3>1, <3>2
  <2>5. IsFiniteSet(U) /\ Cardinality(U) = k
    BY <2>2, <2>3, UpToBounds DEF UpTo
  <2>6. Cardinality(A \cup U) = Cardinality(A) + Cardinality(U) - Cardinality(A \cap U)
    BY <2>5, FS_Union
  <2>7. Cardinality(A \cap U) = 0
    BY <2>4, FS_EmptySet
  <2>8. UpTo(A \cup B, x) = Cardinality(A) + k
    BY <1>1, <2>4, <2>5, <2>6, <2>7 DEF UpTo
  <2>9. QED
    BY <1>1, <2>1, <2>2, <2>8, NthUnique
<1>4. QED
  BY <1>1, <1>2, <1>3

\* What lies between two of a set.
LEMMA NthBetween ==
  ASSUME NEW S \in SUBSET Nat, IsFiniteSet(S),
         NEW i \in 1..Cardinality(S), NEW j \in 1..Cardinality(S), i <= j,
         NEW M, M = {x \in S : Nth(S, i) <= x /\ x <= Nth(S, j)}
  PROVE  /\ IsFiniteSet(M) /\ Cardinality(M) = j - i + 1
         /\ \A k \in 1..(j - i + 1) : Nth(M, k) = Nth(S, i + k - 1)
<1>1. PICK first, last : first = Nth(S, i) /\ last = Nth(S, j)
  OBVIOUS
<1>2. /\ first \in S /\ last \in S /\ first \in Nat /\ last \in Nat
      /\ UpTo(S, first) = i /\ UpTo(S, last) = j /\ first <= last
  <2>1. /\ first \in S /\ last \in S /\ UpTo(S, first) = i /\ UpTo(S, last) = j
    BY <1>1, NthFacts
  <2>2. first <= last
    BY <2>1, UpToGrows, FS_CardinalityType
  <2>3. QED
    BY <2>1, <2>2
<1>3. M = {x \in S : first <= x /\ x <= last} /\ M \in SUBSET S /\ M \in SUBSET Nat
  BY <1>1
<1>4. IsFiniteSet(M)
  BY <1>3, FS_Subset
<1>5. PICK L : L = {y \in S : y < first}
  OBVIOUS
<1>6. IsFiniteSet(L) /\ Cardinality(L) = i - 1
  <2>1. PICK U : U = {y \in S : y <= first}
    OBVIOUS
  <2>2. L = U \ {first} /\ first \in U
    <3>1. \A y \in S : y < first <=> (y <= first /\ y # first)
      BY <1>2
    <3>2. first <= first
      BY <1>2
    <3>3. QED
      BY <1>2, <1>5, <2>1, <3>1, <3>2
  <2>3. IsFiniteSet(U) /\ Cardinality(U) = i
    BY <1>2, <2>1, UpToBounds DEF UpTo
  <2>4. QED
    BY <2>2, <2>3, FS_RemoveElement
<1>7. ASSUME NEW x \in M PROVE UpTo(M, x) = UpTo(S, x) - (i - 1)
  <2>1. PICK V : V = {y \in M : y <= x}
    OBVIOUS
  <2>0. x \in S /\ x \in Nat /\ first <= x /\ x <= last
    BY <1>3
  <2>2. {y \in S : y <= x} = L \cup V /\ L \cap V = {}
    <3>1. \A y \in S : (y <= x) <=> (y < first \/ (first <= y /\ y <= last /\ y <= x))
      BY <1>2, <2>0
    <3>2. V = {y \in S : (first <= y /\ y <= last) /\ y <= x}
      BY <1>3, <2>1
    <3>3. \A y \in S : ~(y < first /\ first <= y)
      BY <1>2
    <3>4. QED
      BY <1>5, <3>1, <3>2, <3>3
  <2>3. IsFiniteSet(V) /\ Cardinality(V) \in Nat
    BY <1>3, <1>4, <2>1, UpToBounds, FS_CardinalityType
  <2>4. Cardinality(L \cup V) = Cardinality(L) + Cardinality(V) - Cardinality(L \cap V)
    BY <1>6, <2>3, FS_Union
  <2>5. Cardinality(L \cap V) = 0
    BY <2>2, FS_EmptySet
  <2>6. UpTo(S, x) = Cardinality(L \cup V) /\ UpTo(M, x) = Cardinality(V)
    BY <2>1, <2>2 DEF UpTo
  <2>7. QED
    BY <1>6, <2>3, <2>4, <2>5, <2>6
<1>8. Cardinality(M) = j - i + 1
  <2>1. last \in M /\ {y \in M : y <= last} = M
    BY <1>2, <1>3
  <2>2. UpTo(M, last) = Cardinality(M)
    BY <2>1 DEF UpTo
  <2>3. QED
    BY <1>2, <1>7, <2>1, <2>2, FS_CardinalityType
<1>9. ASSUME NEW k \in 1..(j - i + 1) PROVE Nth(M, k) = Nth(S, i + k - 1)
  <2>0. Cardinality(S) \in Nat /\ i \in Nat /\ j \in Nat /\ k \in Nat
    BY FS_CardinalityType
  <2>1. PICK n : n = i + k - 1
    OBVIOUS
  <2>2. n \in 1..Cardinality(S) /\ i <= n /\ n <= j
    BY <2>0, <2>1
  <2>3. PICK x : x = Nth(S, n)
    OBVIOUS
  <2>4. x \in S /\ UpTo(S, x) = n /\ x \in Nat
    BY <2>2, <2>3, NthFacts
  <2>5. first <= x /\ x <= last
    BY <1>2, <2>0, <2>2, <2>4, UpToGrows
  <2>6. x \in M /\ UpTo(M, x) = k
    BY <1>3, <1>7, <2>0, <2>1, <2>4, <2>5
  <2>7. QED
    BY <1>3, <1>4, <2>1, <2>3, <2>6, NthUnique
<1>10. QED
  BY <1>4, <1>8, <1>9

\* The first and the last of a set.
LEMMA FirstAndLast ==
  ASSUME NEW S \in SUBSET Nat, IsFiniteSet(S), S # {}
  PROVE  /\ Min(S) \in S /\ \A x \in S : Min(S) <= x
         /\ \E x \in S : \A y \in S : y <= x
<1>1. Cardinality(S) \in Nat /\ Cardinality(S) # 0
  BY FS_CardinalityType, FS_EmptySet
<1>2. PICK a, b : a = Nth(S, 1) /\ b = Nth(S, Cardinality(S))
  OBVIOUS
<1>3. 1 \in 1..Cardinality(S) /\ Cardinality(S) \in 1..Cardinality(S)
  BY <1>1
<1>4. a \in S /\ UpTo(S, a) = 1 /\ b \in S /\ UpTo(S, b) = Cardinality(S)
  BY <1>2, <1>3, NthFacts
<1>5. ASSUME NEW x \in S PROVE a <= x /\ x <= b
  <2>1. UpTo(S, x) \in 1..Cardinality(S)
    BY UpToBounds
  <2>2. ~(x < a) /\ ~(b < x)
    BY <1>1, <1>4, <2>1, UpToGrows
  <2>3. QED
    BY <1>4, <2>2
<1>6. Min(S) \in S /\ \A x \in S : Min(S) <= x
  BY <1>4, <1>5 DEF Min
<1>7. QED
  BY <1>4, <1>5, <1>6

(* What is at some places of a sequence, and what numbers sum up to. *)

LEMMA AtPlacesTyped ==
  ASSUME NEW T, NEW s \in Seq(T), NEW places \in SUBSET DOMAIN s
  PROVE  /\ places \in SUBSET Nat /\ IsFiniteSet(places) /\ Cardinality(places) \in Nat
         /\ AtPlaces(s, places) \in Seq(T) /\ Len(AtPlaces(s, places)) = Cardinality(places)
         /\ DOMAIN AtPlaces(s, places) = 1..Cardinality(places)
         /\ \A k \in 1..Cardinality(places) :
              Nth(places, k) \in places /\ AtPlaces(s, places)[k] = s[Nth(places, k)]
<1>0. DOMAIN s = 1..Len(s) /\ Len(s) \in Nat /\ \A i \in DOMAIN s : s[i] \in T
  OBVIOUS
<1>1. places \in SUBSET Nat /\ IsFiniteSet(places) /\ Cardinality(places) \in Nat
  <2>1. IsFiniteSet(DOMAIN s)
    BY <1>0, FS_Interval
  <2>2. places \in SUBSET Nat
    BY <1>0
  <2>3. QED
    BY <2>1, <2>2, FS_Subset, FS_CardinalityType
<1>2. ASSUME NEW k \in 1..Cardinality(places) PROVE Nth(places, k) \in places
  BY <1>1, NthFacts
<1>3. \A k \in 1..Cardinality(places) : s[Nth(places, k)] \in T
  BY <1>0, <1>2
<1>4. AtPlaces(s, places) = [k \in 1..Cardinality(places) |-> s[Nth(places, k)]]
  BY DEF AtPlaces
<1>5. PICK n \in Nat : n = Cardinality(places)
  BY <1>1
<1>6. AtPlaces(s, places) \in [1..n -> T]
  BY <1>3, <1>4, <1>5
<1>7. AtPlaces(s, places) \in Seq(T) /\ Len(AtPlaces(s, places)) = n /\ DOMAIN AtPlaces(s, places) = 1..n
  BY <1>6
<1>8. QED
  BY <1>1, <1>2, <1>4, <1>5, <1>7

\* Places that come one after the other.
LEMMA AtPlacesJoin ==
  ASSUME NEW T, NEW s \in Seq(T), NEW A \in SUBSET DOMAIN s, NEW B \in SUBSET DOMAIN s,
         \A a \in A : \A b \in B : a < b
  PROVE  AtPlaces(s, A) \o AtPlaces(s, B) = AtPlaces(s, A \cup B)
<1>1. /\ AtPlaces(s, A) \in Seq(T) /\ Len(AtPlaces(s, A)) = Cardinality(A) /\ Cardinality(A) \in Nat
      /\ AtPlaces(s, B) \in Seq(T) /\ Len(AtPlaces(s, B)) = Cardinality(B) /\ Cardinality(B) \in Nat
      /\ A \in SUBSET Nat /\ IsFiniteSet(A) /\ B \in SUBSET Nat /\ IsFiniteSet(B)
  BY AtPlacesTyped
<1>2. A \cup B \in SUBSET DOMAIN s
  OBVIOUS
<1>3. PICK t, u, v : t = AtPlaces(s, A) /\ u = AtPlaces(s, B) /\ v = AtPlaces(s, A \cup B)
  OBVIOUS
<1>4. /\ Cardinality(A \cup B) = Cardinality(A) + Cardinality(B)
      /\ \A k \in 1..Cardinality(A) : Nth(A \cup B, k) = Nth(A, k)
      /\ \A k \in 1..Cardinality(B) : Nth(A \cup B, Cardinality(A) + k) = Nth(B, k)
  BY <1>1, NthJoin
<1>5. v \in Seq(T) /\ Len(v) = Cardinality(A) + Cardinality(B)
  BY <1>2, <1>3, <1>4, AtPlacesTyped
<1>6. PICK m, n \in Nat : m = Cardinality(A) /\ n = Cardinality(B)
  BY <1>1
<1>7. t \in Seq(T) /\ u \in Seq(T) /\ v \in Seq(T) /\ Len(t) = m /\ Len(u) = n /\ Len(v) = m + n
  BY <1>1, <1>3, <1>5, <1>6
<1>8. ASSUME NEW k \in 1..m PROVE v[k] = t[k]
  <2>1. v[k] = s[Nth(A \cup B, k)]
    <3>1. k \in 1..Cardinality(A \cup B)
      BY <1>4, <1>6
    <3>2. QED
      BY <1>2, <1>3, <3>1, AtPlacesTyped
  <2>2. t[k] = s[Nth(A, k)]
    BY <1>3, <1>6, AtPlacesTyped
  <2>3. QED
    BY <1>4, <1>6, <2>1, <2>2
<1>9. ASSUME NEW k \in 1..n PROVE v[m + k] = u[k]
  <2>1. v[m + k] = s[Nth(A \cup B, m + k)]
    <3>1. m + k \in 1..Cardinality(A \cup B)
      BY <1>4, <1>6
    <3>2. QED
      BY <1>2, <1>3, <3>1, AtPlacesTyped
  <2>2. u[k] = s[Nth(B, k)]
    BY <1>3, <1>6, AtPlacesTyped
  <2>3. QED
    BY <1>4, <1>6, <2>1, <2>2
<1>10. t \o u = v
  <2>1. PICK w : w = t \o u
    OBVIOUS
  <2>2. w \in Seq(T) /\ Len(w) = m + n /\ \A k \in 1..(m + n) :
          w[k] = IF k <= m THEN t[k] ELSE u[k - m]
    BY <1>7, <2>1, JoinFacts
  <2>3. ASSUME NEW k \in 1..(m + n) PROVE w[k] = v[k]
    <3>1. CASE k <= m
      BY <1>8, <2>2, <3>1
    <3>2. CASE ~(k <= m)
      <4>1. k - m \in 1..n /\ m + (k - m) = k
        BY <3>2
      <4>2. w[k] = u[k - m]
        BY <2>2, <3>2
      <4>3. QED
        BY <1>9, <4>1, <4>2
    <3>3. QED
      BY <3>1, <3>2
  <2>4. w = v
    BY <1>7, <2>2, <2>3
  <2>5. QED
    BY <2>1, <2>4
<1>11. QED
  BY <1>3, <1>10

----------------------------------------------------------------------------
(* Sums. *)

LEMMA UnitsAre ==
  ASSUME NEW f
  PROVE  \A u : u \in Units(f) <=> \E x \in DOMAIN f : \E k \in 1..f[x] : u = <<x, k>>
BY DEF Units

LEMMA TotalTyped ==
  ASSUME NEW S, IsFiniteSet(S), NEW f \in [S -> Nat]
  PROVE  IsFiniteSet(Units(f)) /\ Total(f) \in Nat
<1> DEFINE g == [x \in S |-> {x} \X (1..f[x])]
           G == {g[x] : x \in S}
<1>1. \A x \in S : IsFiniteSet(g[x])
  <2>1. TAKE x \in S
  <2>2. f[x] \in Nat
    OBVIOUS
  <2>a. IsFiniteSet({x})
    BY FS_Singleton
  <2>b. 1 \in Int /\ f[x] \in Int
    BY <2>2
  <2>3. IsFiniteSet(1..f[x])
    BY <2>b, FS_Interval
  <2>4. IsFiniteSet({x} \X (1..f[x]))
    BY <2>a, <2>3, FS_Product
  <2>5. QED
    BY <2>4
<1>2. g \in Surjection(S, G)
  BY DEF Surjection
<1>3. IsFiniteSet(G)
  BY <1>2, FS_Surjection
<1>4. \A T \in G : IsFiniteSet(T)
  BY <1>1
<1>5. IsFiniteSet(UNION G)
  BY <1>3, <1>4, FS_UNION
<1>6. UNION G = Units(f)
  BY DEF Units
<1>7. QED
  BY <1>5, <1>6, FS_CardinalityType DEF Total

\* One amount changes.
LEMMA TotalChanges ==
  ASSUME NEW S, IsFiniteSet(S), NEW f \in [S -> Nat], NEW g \in [S -> Nat], NEW x \in S,
         \A y \in S : y # x => g[y] = f[y]
  PROVE  Total(g) + f[x] = Total(f) + g[x]
<1>1. PICK R : R = {u \in Units(f) : u[1] # x}
  OBVIOUS
<1>2. PICK A, B : A = {x} \X (1..f[x]) /\ B = {x} \X (1..g[x])
  OBVIOUS
<1>3. IsFiniteSet(Units(f)) /\ IsFiniteSet(R)
  BY <1>1, TotalTyped, FS_Subset
<1>4. /\ IsFiniteSet(A) /\ Cardinality(A) = f[x] /\ f[x] \in Nat
      /\ IsFiniteSet(B) /\ Cardinality(B) = g[x] /\ g[x] \in Nat
  <2>1. f[x] \in Nat /\ g[x] \in Nat
    OBVIOUS
  <2>2. IsFiniteSet({x}) /\ Cardinality({x}) = 1
    BY FS_Singleton
  <2>3. IsFiniteSet(1..f[x]) /\ Cardinality(1..f[x]) = f[x]
    BY <2>1, FS_Interval
  <2>4. IsFiniteSet(1..g[x]) /\ Cardinality(1..g[x]) = g[x]
    BY <2>1, FS_Interval
  <2>5. IsFiniteSet(A) /\ Cardinality(A) = 1 * f[x]
    <3>1. IsFiniteSet({x} \X (1..f[x])) /\ Cardinality({x} \X (1..f[x])) = Cardinality({x}) * Cardinality(1..f[x])
      BY <2>2, <2>3, FS_Product
    <3>2. QED
      BY <1>2, <2>2, <2>3, <3>1
  <2>6. IsFiniteSet(B) /\ Cardinality(B) = 1 * g[x]
    <3>1. IsFiniteSet({x} \X (1..g[x])) /\ Cardinality({x} \X (1..g[x])) = Cardinality({x}) * Cardinality(1..g[x])
      BY <2>2, <2>4, FS_Product
    <3>2. QED
      BY <1>2, <2>2, <2>4, <3>1
  <2>7. QED
    BY <2>1, <2>5, <2>6
<1>5. Units(f) = R \cup A /\ R \cap A = {}
  <2>1. DOMAIN f = S
    OBVIOUS
  <2>2. \A u \in Units(f) : u \in R \/ u \in A
    BY <1>1, <1>2, <2>1, UnitsAre
  <2>3. \A u \in A : u \in Units(f) /\ u \notin R
    BY <1>1, <1>2, <2>1, UnitsAre
  <2>4. QED
    BY <1>1, <2>2, <2>3
<1>6. Units(g) = R \cup B /\ R \cap B = {}
  <2>1. DOMAIN g = S /\ DOMAIN f = S
    OBVIOUS
  <2>2. \A u \in Units(g) : u \in R \/ u \in B
    BY <1>1, <1>2, <2>1, UnitsAre
  <2>3. \A u \in B : u \in Units(g) /\ u \notin R
    BY <1>1, <1>2, <2>1, UnitsAre
  <2>4. \A u \in R : u \in Units(g)
    BY <1>1, <2>1, UnitsAre
  <2>5. QED
    BY <2>2, <2>3, <2>4
<1>7. Cardinality(R \cap A) = 0 /\ Cardinality(R \cap B) = 0 /\ Cardinality(R) \in Nat
  BY <1>3, <1>5, <1>6, FS_EmptySet, FS_CardinalityType
<1>8. Total(f) = Cardinality(R) + f[x] - Cardinality(R \cap A)
  BY <1>3, <1>4, <1>5, FS_Union DEF Total
<1>9. Total(g) = Cardinality(R) + g[x] - Cardinality(R \cap B)
  BY <1>3, <1>4, <1>6, FS_Union DEF Total
<1>10. QED
  BY <1>4, <1>7, <1>8, <1>9

\* Each amount has one of its own that is as large.
LEMMA TotalInjects ==
  ASSUME NEW S, NEW T, IsFiniteSet(T), NEW f \in [S -> Nat], NEW g \in [T -> Nat],
         NEW h \in [S -> T], IsInjective(h), \A x \in S : f[x] <= g[h[x]]
  PROVE  Total(f) <= Total(g)
<1>1. IsFiniteSet(Units(g)) /\ DOMAIN f = S /\ DOMAIN g = T
  BY TotalTyped
<1>2. PICK m : m = [u \in Units(f) |-> <<h[u[1]], u[2]>>]
  OBVIOUS
<1>3. \A u \in Units(f) : \E x \in S : \E k \in 1..f[x] : u = <<x, k>> /\ m[u] = <<h[x], k>>
  BY <1>1, <1>2, UnitsAre
<1>4. \A u \in Units(f) : m[u] \in Units(g)
  <2>1. TAKE u \in Units(f)
  <2>a. PICK x \in S : \E k \in 1..f[x] : m[u] = <<h[x], k>>
    BY <1>3
  <2>2. PICK k \in 1..f[x] : m[u] = <<h[x], k>>
    BY <2>a
  <2>3. h[x] \in T /\ k \in 1..g[h[x]]
    BY <2>2
  <2>4. QED
    BY <1>1, <2>2, <2>3, UnitsAre
<1>5. ASSUME NEW u \in Units(f), NEW v \in Units(f), m[u] = m[v] PROVE u = v
  <2>a. PICK x \in S : \E k \in 1..f[x] : u = <<x, k>> /\ m[u] = <<h[x], k>>
    BY <1>3
  <2>1. PICK k \in 1..f[x] : u = <<x, k>> /\ m[u] = <<h[x], k>>
    BY <2>a
  <2>b. PICK y \in S : \E l \in 1..f[y] : v = <<y, l>> /\ m[v] = <<h[y], l>>
    BY <1>3
  <2>2. PICK l \in 1..f[y] : v = <<y, l>> /\ m[v] = <<h[y], l>>
    BY <2>b
  <2>3. h[x] = h[y] /\ k = l
    BY <1>5, <2>1, <2>2
  <2>4. x = y
    BY <2>3 DEF IsInjective
  <2>5. QED
    BY <2>1, <2>2, <2>3, <2>4
<1>6. m \in Injection(Units(f), Units(g))
  <2>1. DOMAIN m = Units(f)
    BY <1>2
  <2>2. m \in [Units(f) -> Units(g)]
    BY <1>2, <1>4
  <2>3. QED
    BY <1>5, <2>1, <2>2 DEF Injection, IsInjective
<1>7. QED
  BY <1>1, <1>6, FS_Injection DEF Total

LEMMA TotalZero ==
  ASSUME NEW S, NEW f \in [S -> Nat], \A x \in S : f[x] = 0
  PROVE  Total(f) = 0
<1>1. Units(f) = {}
  <2>1. \A u : u \notin Units(f)
    <3>1. \A x \in S : 1..f[x] = {}
      OBVIOUS
    <3>2. QED
      BY <3>1, UnitsAre
  <2>2. QED
    BY <2>1
<1>2. QED
  BY <1>1, FS_EmptySet DEF Total

LEMMA NewestFacts ==
  ASSUME NEW S \in SUBSET Nat, IsFiniteSet(S)
  PROVE  /\ Newest(S) \in SUBSET S /\ IsFiniteSet(Newest(S))
         /\ S # {} => Newest(S) # {}
         /\ \A x \in Newest(S) : \A y \in S : x <= y => y \in Newest(S)
<1>1. Newest(S) \in SUBSET S
  BY DEF Newest
<1>2. IsFiniteSet(Newest(S))
  BY <1>1, FS_Subset
<1>3. ASSUME S # {} PROVE Newest(S) # {}
  <2>1. PICK x \in S : \A y \in S : y <= x
    BY <1>3, FirstAndLast
  <2>2. {j \in S : j > x} = {}
    <3>1. \A j \in S : ~(j > x)
      BY <2>1
    <3>2. QED
      BY <3>1
  <2>3. Cardinality({j \in S : j > x}) < PageSize
    BY <2>2, FS_EmptySet, SkillsAssumption
  <2>4. QED
    BY <2>3 DEF Newest
<1>4. ASSUME NEW x \in Newest(S), NEW y \in S, x <= y PROVE y \in Newest(S)
  <2>1. x \in S /\ Cardinality({j \in S : j > x}) < PageSize
    BY DEF Newest
  <2>2. {j \in S : j > y} \in SUBSET {j \in S : j > x}
    <3>1. \A j \in S : j > y => j > x
      BY <1>4, <2>1
    <3>2. QED
      BY <3>1
  <2>3. /\ IsFiniteSet({j \in S : j > x}) /\ IsFiniteSet({j \in S : j > y})
    BY FS_Subset
  <2>4. /\ Cardinality({j \in S : j > y}) <= Cardinality({j \in S : j > x})
        /\ Cardinality({j \in S : j > y}) \in Nat /\ Cardinality({j \in S : j > x}) \in Nat
    BY <2>2, <2>3, FS_Subset, FS_CardinalityType
  <2>5. Cardinality({j \in S : j > y}) < PageSize
    BY <2>1, <2>4, SkillsAssumption
  <2>6. QED
    BY <2>5 DEF Newest
<1>5. QED
  BY <1>1, <1>2, <1>3, <1>4

----------------------------------------------------------------------------
(* The list of versions. *)

LEMMA TimelineTyped ==
  ASSUME TimelineInv
  PROVE  /\ DOMAIN timeline = 1..Len(timeline) /\ Len(timeline) \in Nat
         /\ \A i \in DOMAIN timeline : i \in Nat /\ timeline[i] \in Nat
         /\ IsFiniteSet(DOMAIN timeline)
<1>1. timeline \in Seq(Nat)
  BY DEF TimelineInv
<1>2. DOMAIN timeline = 1..Len(timeline) /\ Len(timeline) \in Nat
  BY <1>1
<1>3. \A i \in DOMAIN timeline : i \in Nat /\ timeline[i] \in Nat
  BY <1>1
<1>4. IsFiniteSet(1..Len(timeline))
  BY <1>2, FS_Interval
<1>5. QED
  BY <1>2, <1>3, <1>4

\* Versions at some places of the list, in order.
LEMMA VersionsTyped ==
  ASSUME TimelineInv, NEW places \in SUBSET DOMAIN timeline
  PROVE  /\ places \in SUBSET Nat /\ IsFiniteSet(places) /\ Cardinality(places) \in Nat
         /\ Versions(places) \in Seq(Nat) /\ Len(Versions(places)) = Cardinality(places)
         /\ DOMAIN Versions(places) = 1..Cardinality(places)
         /\ \A k \in 1..Cardinality(places) :
              Nth(places, k) \in places /\ Versions(places)[k] = timeline[Nth(places, k)]
<1>1. timeline \in Seq(Nat)
  BY DEF TimelineInv
<1>2. QED
  BY <1>1, AtPlacesTyped DEF Versions

\* Versions at some places, and then at later ones.
LEMMA VersionsJoin ==
  ASSUME TimelineInv, NEW A \in SUBSET DOMAIN timeline, NEW B \in SUBSET DOMAIN timeline,
         \A a \in A : \A b \in B : a < b
  PROVE  Versions(A) \o Versions(B) = Versions(A \cup B)
<1>1. timeline \in Seq(Nat)
  BY DEF TimelineInv
<1>2. QED
  BY <1>1, AtPlacesJoin DEF Versions

LEMMA VersionsBetween ==
  ASSUME TimelineInv, NEW places \in SUBSET DOMAIN timeline,
         NEW i \in 1..Cardinality(places), NEW j \in 1..Cardinality(places), i <= j,
         NEW M, M = {x \in places : Nth(places, i) <= x /\ x <= Nth(places, j)}
  PROVE  SubSeq(Versions(places), i, j) = Versions(M)
<1>1. /\ places \in SUBSET Nat /\ IsFiniteSet(places) /\ Cardinality(places) \in Nat
      /\ M \in SUBSET DOMAIN timeline /\ i \in Nat /\ j \in Nat
  BY VersionsTyped
<1>2. PICK s, u : s = Versions(places) /\ u = Versions(M)
  OBVIOUS
<1>3. /\ Cardinality(M) = j - i + 1
      /\ \A k \in 1..(j - i + 1) : Nth(M, k) = Nth(places, i + k - 1)
  <2>1. places \in SUBSET Nat /\ IsFiniteSet(places)
    BY <1>1
  <2>2. QED
    BY <2>1, NthBetween
<1>4. s \in Seq(Nat) /\ Len(s) = Cardinality(places) /\ u \in Seq(Nat) /\ Len(u) = j - i + 1
  BY <1>1, <1>2, <1>3, VersionsTyped
<1>5. ASSUME NEW k \in 1..(j - i + 1) PROVE u[k] = s[i + k - 1]
  <2>1. i + k - 1 \in 1..Cardinality(places)
    BY <1>1
  <2>2. s[i + k - 1] = timeline[Nth(places, i + k - 1)]
    BY <1>2, <2>1, VersionsTyped
  <2>3. u[k] = timeline[Nth(M, k)]
    BY <1>1, <1>2, <1>3, VersionsTyped
  <2>4. QED
    BY <1>3, <2>2, <2>3
<1>6. SubSeq(s, i, j) = u
  <2>1. i >= 1 /\ j <= Len(s) /\ i <= j + 1
    BY <1>1, <1>4
  <2>2. PICK v : v = SubSeq(s, i, j)
    OBVIOUS
  <2>3. v \in Seq(Nat) /\ Len(v) = j - i + 1 /\ \A k \in 1..(j - i + 1) : v[k] = s[i + k - 1]
    BY <1>1, <1>4, <2>1, <2>2, SliceFacts
  <2>4. Len(v) = Len(u) /\ \A k \in 1..Len(v) : v[k] = u[k]
    BY <1>4, <1>5, <2>3
  <2>5. v = u
    BY <1>4, <2>3, <2>4
  <2>6. QED
    BY <2>2, <2>5
<1>7. QED
  BY <1>2, <1>6

LEMMA PlaceOfIt ==
  ASSUME TimelineInv, NEW p \in DOMAIN timeline
  PROVE  PlaceOf(timeline[p]) = p
<1>1. IsInjective(timeline)
  BY DEF TimelineInv
<1>2. QED
  BY <1>1 DEF IsInjective, PlaceOf

----------------------------------------------------------------------------
(* What clients have in mind. *)

LEMMA MindFields ==
  ASSUME NEW m, m.pc \in DOMAIN Minds, m \in Minds[m.pc]
  PROVE  /\ m.pc = "idle" => m = Nobody
         /\ m.pc = "history" => m.revision \in Nat /\ m.before \in Nat /\ m.view \in Seq(Nat)
         /\ m.pc \in {"refine", "create"} => m.wanted \in Seq(Nat) /\ m.call \in Call
         /\ m.pc = "create" => m.items \in Seq(Nat)
         /\ m.pc \in {"skill", "export"} =>
              m = [pc |-> m.pc, skill |-> m.skill, revision |-> m.revision, wanted |-> m.wanted]
         /\ m.pc \in {"skill", "export", "exported"} => m.skill \in Nat /\ m.revision \in Nat
         /\ m.pc \in {"skill", "export"} => m.wanted \in Seq(Nat)
         /\ m.pc \in {"pending", "listed"} =>
              m.before \in Nat /\ m.since \in SUBSET Nat /\ m.known \in Seq(Nat)
<1>1. m.pc \in {"idle", "history", "refine", "create", "skill", "export", "exported",
                "pending", "listed"}
  BY DEF Minds
<1>2. CASE m.pc = "idle"
  BY <1>2 DEF Minds
<1>3. CASE m.pc = "history"
  BY <1>3 DEF Minds
<1>4. CASE m.pc = "refine"
  BY <1>4 DEF Minds
<1>5. CASE m.pc = "create"
  BY <1>5 DEF Minds
<1>6. CASE m.pc = "skill"
  BY <1>6 DEF Minds
<1>7. CASE m.pc = "export"
  BY <1>7 DEF Minds
<1>8. CASE m.pc = "exported"
  BY <1>8 DEF Minds
<1>9. CASE m.pc = "pending"
  BY <1>9 DEF Minds
<1>10. CASE m.pc = "listed"
  BY <1>10 DEF Minds
<1>11. QED
  BY <1>1, <1>2, <1>3, <1>4, <1>5, <1>6, <1>7, <1>8, <1>9, <1>10

LEMMA NobodyInv ==
  MindInv(Nobody)
BY DEF MindInv, Nobody, Minds

LEMMA HistoryMind ==
  ASSUME NEW revision \in Nat, NEW before \in Nat, NEW view \in Seq(Nat),
         NEW m, m = [pc |-> "history", revision |-> revision, before |-> before, view |-> view],
         Seen(m)
  PROVE  MindInv(m)
<1>1. m.pc = "history" /\ m \in [pc : {"history"}, revision : Nat, before : Nat, view : Seq(Nat)]
  OBVIOUS
<1>2. m.pc \in DOMAIN Minds /\ m \in Minds[m.pc]
  BY <1>1 DEF Minds
<1>3. QED
  BY <1>1, <1>2 DEF MindInv

LEMMA RefineMind ==
  ASSUME NEW wanted \in Seq(Nat), NEW call \in Call,
         NEW m, m = [pc |-> "refine", wanted |-> wanted, call |-> call],
         Chosen(m)
  PROVE  MindInv(m)
<1>1. m.pc = "refine" /\ m \in [pc : {"refine"}, wanted : Seq(Nat), call : Call]
  OBVIOUS
<1>2. m.pc \in DOMAIN Minds /\ m \in Minds[m.pc]
  BY <1>1 DEF Minds
<1>3. QED
  BY <1>1, <1>2 DEF MindInv

LEMMA CreateMind ==
  ASSUME NEW wanted \in Seq(Nat), NEW call \in Call,
         NEW m, m = [pc |-> "create", wanted |-> wanted, call |-> call, items |-> wanted],
         Chosen(m)
  PROVE  MindInv(m)
<1>1. /\ m.pc = "create" /\ m.items = m.wanted
      /\ m \in [pc : {"create"}, wanted : Seq(Nat), call : Call, items : Seq(Nat)]
  OBVIOUS
<1>2. m.pc \in DOMAIN Minds /\ m \in Minds[m.pc]
  BY <1>1 DEF Minds
<1>3. QED
  BY <1>1, <1>2 DEF MindInv

LEMMA SkillMind ==
  ASSUME NEW n \in Nat, NEW revision \in Nat, NEW wanted \in Seq(Nat), IsRevision(n, revision),
         NEW m, m = AtRevision(n, revision, wanted) \/
                m = [AtRevision(n, revision, wanted) EXCEPT !.pc = "export"],
         wanted # <<>> => skills[n].evidence.items = wanted
  PROVE  MindInv(m)
<1>1. /\ m.pc \in {"skill", "export"} /\ m.skill = n /\ m.revision = revision /\ m.wanted = wanted
      /\ m \in [pc : {m.pc}, skill : Nat, revision : Nat, wanted : Seq(Nat)]
  BY DEF AtRevision
<1>2. m.pc \in DOMAIN Minds /\ m \in Minds[m.pc]
  <2>1. CASE m.pc = "skill"
    <3>1. m \in [pc : {"skill"}, skill : Nat, revision : Nat, wanted : Seq(Nat)]
      BY <1>1, <2>1
    <3>2. QED
      BY <2>1, <3>1 DEF Minds
  <2>2. CASE m.pc = "export"
    <3>1. m \in [pc : {"export"}, skill : Nat, revision : Nat, wanted : Seq(Nat)]
      BY <1>1, <2>2
    <3>2. QED
      BY <2>2, <3>1 DEF Minds
  <2>3. QED
    BY <1>1, <2>1, <2>2
<1>3. QED
  BY <1>1, <1>2 DEF MindInv

LEMMA ListMind ==
  ASSUME NEW pc \in {"pending", "listed"}, NEW before \in Nat, NEW since \in SUBSET Nat,
         NEW known \in Seq(Nat),
         NEW m, m = [pc |-> pc, before |-> before, since |-> since, known |-> known],
         Walked(m)
  PROVE  MindInv(m)
<1>1. m.pc = pc /\ m \in [pc : {pc}, before : Nat, since : SUBSET Nat, known : Seq(Nat)]
  OBVIOUS
<1>2. m.pc \in DOMAIN Minds /\ m \in Minds[m.pc]
  <2>1. CASE pc = "pending"
    BY <1>1, <2>1 DEF Minds
  <2>2. CASE pc = "listed"
    BY <1>1, <2>2 DEF Minds
  <2>3. QED
    BY <2>1, <2>2
<1>3. QED
  BY <1>1, <1>2 DEF MindInv

----------------------------------------------------------------------------
(* The list, page by page, and the choice. *)

LEMMA VisibleIn ==
  ASSUME TimelineInv, NEW a \in Nat, a >= 1, NEW b \in Nat, b <= Len(timeline)
  PROVE  Visible(a, b) \in SUBSET DOMAIN timeline
BY TimelineTyped DEF Visible

LEMMA PageSeen ==
  ASSUME TimelineInv, NEW upto \in 0..Len(timeline), NEW before \in 1..(upto + 1),
         NEW view, view = Versions(Visible(before, upto))
  PROVE  MindInv(Listed(view, order, before))
<1>0. upto \in Nat /\ before \in Nat /\ before >= 1 /\ upto <= Len(timeline) /\ Len(timeline) \in Nat
      /\ order \in Nat
  BY TimelineTyped DEF TimelineInv
<1>1. PICK older, places : older = Visible(1, before - 1) /\ places = Newest(older)
  OBVIOUS
<1>2. older \in SUBSET DOMAIN timeline
  <2>1. before - 1 \in Nat /\ before - 1 <= Len(timeline)
    BY <1>0
  <2>2. QED
    BY <1>1, <2>1, VisibleIn
<1>3. older \in SUBSET Nat /\ IsFiniteSet(older)
  BY <1>2, VersionsTyped
<1>4. /\ places \in SUBSET older /\ IsFiniteSet(places)
      /\ \A x \in places : \A y \in older : x <= y => y \in places
  BY <1>1, <1>3, NewestFacts
<1>5. PICK first : first = Min(places \cup {before})
  OBVIOUS
<1>6. /\ first \in places \cup {before} /\ first <= before /\ \A x \in places : first <= x
  <2>1. places \cup {before} \in SUBSET Nat /\ places \cup {before} # {}
    BY <1>0, <1>3, <1>4
  <2>2. IsFiniteSet(places \cup {before})
    BY <1>4, FS_AddElement
  <2>3. QED
    BY <1>5, <2>1, <2>2, FirstAndLast
<1>7. PICK seen : seen = Visible(before, upto)
  OBVIOUS
<1>8. seen \in SUBSET DOMAIN timeline /\ \A a \in places : \A b \in seen : a < b
  <2>1. seen \in SUBSET DOMAIN timeline
    BY <1>0, <1>7, VisibleIn
  <2>2. \A a \in older : a \in Nat /\ a < before
    BY <1>0, <1>1 DEF Visible
  <2>3. \A b \in seen : b \in Nat /\ before <= b
    BY <1>0, <1>7 DEF Visible
  <2>4. QED
    BY <1>0, <1>4, <2>1, <2>2, <2>3
<1>9. first \in 1..(upto + 1) /\ first \in Nat
  <2>1. \A a \in older : a \in 1..(before - 1)
    BY <1>1 DEF Visible
  <2>2. QED
    BY <1>0, <1>4, <1>6, <2>1
<1>10. Visible(first, upto) = places \cup seen
  <2>1. ASSUME NEW p \in Visible(first, upto) PROVE p \in places \cup seen
    <3>1. p \in Nat /\ first <= p /\ p <= upto /\ timeline[p] \notin hidden
      BY <1>0, <1>9, <2>1 DEF Visible
    <3>2. CASE before <= p
      BY <1>0, <1>7, <3>1, <3>2 DEF Visible
    <3>3. CASE p < before
      <4>1. p \in older
        BY <1>0, <1>1, <1>9, <3>1, <3>3 DEF Visible
      <4>2. first \in places
        BY <1>0, <1>6, <1>9, <3>1, <3>3
      <4>3. QED
        BY <1>4, <3>1, <4>1, <4>2
    <3>4. QED
      BY <1>0, <3>1, <3>2, <3>3
  <2>2. ASSUME NEW p \in places PROVE p \in Visible(first, upto)
    <3>1. p \in older /\ first <= p
      BY <1>4, <1>6
    <3>2. p \in Nat /\ p < before /\ timeline[p] \notin hidden
      BY <1>0, <1>1, <3>1 DEF Visible
    <3>3. p <= upto
      BY <1>0, <3>2
    <3>4. QED
      BY <1>0, <1>9, <3>1, <3>2, <3>3 DEF Visible
  <2>3. ASSUME NEW p \in seen PROVE p \in Visible(first, upto)
    <3>1. p \in Nat /\ before <= p /\ p <= upto /\ timeline[p] \notin hidden
      BY <1>0, <1>7 DEF Visible
    <3>2. QED
      BY <1>0, <1>6, <1>9, <3>1 DEF Visible
  <2>4. QED
    BY <2>1, <2>2, <2>3
<1>11. PICK m : m = [pc |-> "history", revision |-> order, before |-> first,
                     view |-> Versions(places) \o view]
  OBVIOUS
<1>12. m.view = Versions(Visible(first, upto))
  <2>1. places \in SUBSET DOMAIN timeline
    BY <1>2, <1>4
  <2>2. QED
    BY <1>7, <1>8, <1>10, <1>11, <2>1, VersionsJoin
<1>13. m.view \in Seq(Nat)
  <2>1. Visible(first, upto) \in SUBSET DOMAIN timeline
    BY <1>0, <1>9, VisibleIn
  <2>2. QED
    BY <1>12, <2>1, VersionsTyped
<1>14. Seen(m)
  <2>1. m.revision = order /\ m.before = first
    BY <1>11
  <2>2. m.before \in 1..(upto + 1) /\ m.view = Versions(Visible(m.before, upto))
    BY <1>9, <1>12, <2>1
  <2>3. m.revision <= order
    BY <1>0, <2>1
  <2>4. QED
    BY <2>2, <2>3 DEF Seen
<1>15. m = Listed(view, order, before)
  BY <1>1, <1>5, <1>11 DEF Listed
<1>16. QED
  <2>1. PICK v : v = Versions(places) \o view
    OBVIOUS
  <2>2. v \in Seq(Nat) /\ m = [pc |-> "history", revision |-> order, before |-> first, view |-> v]
    BY <1>11, <1>13, <2>1
  <2>3. QED
    BY <1>0, <1>9, <1>14, <1>15, <2>2, HistoryMind

LEMMA ChoiceSeen ==
  ASSUME TimelineInv, NEW mind, MindInv(mind), mind.pc = "history",
         NEW i \in DOMAIN mind.view, NEW j \in DOMAIN mind.view, i < j,
         NEW m, m = [pc |-> "refine", wanted |-> SubSeq(mind.view, i, j),
                     call |-> [from |-> mind.view[i], to |-> mind.view[j],
                               revision |-> mind.revision]]
  PROVE  MindInv(m)
<1>1. PICK view, revision : view = mind.view /\ revision = mind.revision
  OBVIOUS
<1>2. view \in Seq(Nat) /\ revision \in Nat
  BY <1>1, MindFields DEF MindInv
<1>3. i \in Nat /\ j \in Nat /\ i \in 1..Len(view) /\ j \in 1..Len(view) /\ Len(view) \in Nat
  BY <1>1, <1>2
<1>4. SubSeq(view, i, j) \in Seq(Nat) /\ view[i] \in Nat /\ view[j] \in Nat
  <2>1. i >= 1 /\ j <= Len(view) /\ i <= j + 1
    BY <1>3
  <2>2. SubSeq(view, i, j) \in Seq(Nat)
    <3>1. view \in Seq(Nat) /\ i \in Nat /\ j \in Nat
      BY <1>2, <1>3
    <3>2. QED
      BY <2>1, <3>1, SliceFacts, Zenon
  <2>3. view[i] \in Nat
    BY <1>2, <1>3
  <2>4. view[j] \in Nat
    BY <1>2, <1>3
  <2>5. QED
    BY <2>2, <2>3, <2>4
<1>5. PICK wanted, call : /\ wanted = SubSeq(view, i, j)
                          /\ call = [from |-> view[i], to |-> view[j], revision |-> revision]
  OBVIOUS
<1>6. wanted \in Seq(Nat) /\ call \in Call
  BY <1>2, <1>4, <1>5 DEF Call
<1>7. m = [pc |-> "refine", wanted |-> wanted, call |-> call]
  BY <1>1, <1>5
<1>8. Seen(mind)
  BY DEF MindInv
<1>9. Chosen(m)
  <2>1. revision <= order
    BY <1>1, <1>8 DEF Seen
  <2>2. ASSUME revision = order
        PROVE  /\ view[i] \in ToSet(timeline) /\ view[j] \in ToSet(timeline)
               /\ wanted = Versions(Visible(PlaceOf(view[i]), PlaceOf(view[j])))
    <3>1. PICK upto \in 0..Len(timeline) :
            mind.before \in 1..(upto + 1) /\ view = Versions(Visible(mind.before, upto))
      BY <1>1, <1>8, <2>2 DEF Seen
    <3>a. PICK before \in Nat : before = mind.before /\ before >= 1
      BY <3>1
    <3>b. PICK places : places = Visible(before, upto)
      OBVIOUS
    <3>2. before = mind.before /\ before >= 1 /\ places = Visible(before, upto)
      BY <3>a, <3>b
    <3>3. places \in SUBSET DOMAIN timeline /\ Len(timeline) \in Nat /\ upto \in Nat /\ upto <= Len(timeline)
      BY <3>2, VisibleIn, TimelineTyped
    <3>4. view = Versions(places)
      BY <3>1, <3>2
    <3>5. /\ DOMAIN view = 1..Cardinality(places) /\ places \in SUBSET Nat /\ IsFiniteSet(places)
      BY <3>3, <3>4, VersionsTyped
    <3>6. i \in 1..Cardinality(places) /\ j \in 1..Cardinality(places)
      BY <1>1, <3>5
    <3>7. PICK p, q : p = Nth(places, i) /\ q = Nth(places, j)
      OBVIOUS
    <3>8. p \in places /\ q \in places /\ view[i] = timeline[p] /\ view[j] = timeline[q] /\ p < q
      BY <3>3, <3>4, <3>5, <3>6, <3>7, VersionsTyped, NthGrows
    <3>9. PlaceOf(view[i]) = p /\ PlaceOf(view[j]) = q
      BY <3>3, <3>8, PlaceOfIt
    <3>10. PICK M : M = {x \in places : p <= x /\ x <= q}
      OBVIOUS
    <3>11. Visible(p, q) = M
      <4>1. /\ p \in Nat /\ q \in Nat /\ before <= p /\ q <= upto
        BY <3>2, <3>3, <3>5, <3>8 DEF Visible
      <4>2. ASSUME NEW x \in Visible(p, q) PROVE x \in M
        <5>1. x \in Nat /\ p <= x /\ x <= q /\ timeline[x] \notin hidden
          BY <4>1 DEF Visible
        <5>2. x \in places
          BY <3>2, <3>3, <4>1, <5>1 DEF Visible
        <5>3. QED
          BY <3>10, <5>1, <5>2
      <4>3. ASSUME NEW x \in M PROVE x \in Visible(p, q)
        <5>1. x \in Nat /\ p <= x /\ x <= q /\ timeline[x] \notin hidden
          BY <3>2, <3>5, <3>10 DEF Visible
        <5>2. QED
          BY <4>1, <5>1 DEF Visible
      <4>4. QED
        BY <4>2, <4>3
    <3>12. wanted = Versions(M)
      <4>1. M = {x \in places : Nth(places, i) <= x /\ x <= Nth(places, j)}
        BY <3>7, <3>10
      <4>2. i <= j
        BY <1>3
      <4>3. places \in SUBSET DOMAIN timeline
        BY <3>3
      <4>5. SubSeq(Versions(places), i, j) = Versions(M)
        BY <3>6, <4>1, <4>2, <4>3, VersionsBetween
      <4>4. QED
        BY <1>5, <3>4, <4>5
    <3>13. view[i] \in ToSet(timeline) /\ view[j] \in ToSet(timeline)
      BY <3>3, <3>8 DEF ToSet
    <3>14. QED
      BY <3>9, <3>11, <3>12, <3>13
  <2>0. call.revision = revision /\ call.from = view[i] /\ call.to = view[j]
    BY <1>5
  <2>3. m.call.revision = revision /\ m.call.from = view[i] /\ m.call.to = view[j] /\ m.wanted = wanted
    BY <1>7, <2>0
  <2>4. QED
    BY <2>1, <2>2, <2>3 DEF Chosen
<1>10. QED
  BY <1>6, <1>7, <1>9, RefineMind

----------------------------------------------------------------------------
(* The pending requests, page by page. *)

LEMMA DownwardsFacts ==
  ASSUME NEW S \in SUBSET Nat, IsFiniteSet(S)
  PROVE  /\ Downwards(S) \in Seq(Nat) /\ Len(Downwards(S)) = Cardinality(S)
         /\ IsInjective(Downwards(S)) /\ ToSet(Downwards(S)) = S
<1>1. PICK n \in Nat : n = Cardinality(S)
  BY FS_CardinalityType
<1>2. PICK s : s = [k \in 1..n |-> Nth(S, n + 1 - k)]
  OBVIOUS
<1>3. Downwards(S) = s
  BY <1>1, <1>2 DEF Downwards
<1>4. ASSUME NEW k \in 1..n PROVE s[k] \in S /\ UpTo(S, s[k]) = n + 1 - k
  <2>1. n + 1 - k \in 1..n
    OBVIOUS
  <2>2. QED
    BY <1>1, <1>2, <2>1, NthFacts
<1>5. s \in [1..n -> Nat] /\ DOMAIN s = 1..n
  BY <1>2, <1>4
<1>6. s \in Seq(Nat) /\ Len(s) = n
  BY <1>5
<1>7. ASSUME NEW j \in 1..n, NEW k \in 1..n, s[j] = s[k] PROVE j = k
  <2>1. n + 1 - j = n + 1 - k
    BY <1>4, <1>7
  <2>2. QED
    BY <2>1
<1>8. IsInjective(s)
  BY <1>5, <1>7 DEF IsInjective
<1>9. ASSUME NEW x \in S PROVE x \in ToSet(s)
  <2>1. PICK m : m = UpTo(S, x)
    OBVIOUS
  <2>2. m \in 1..n /\ Nth(S, m) = x
    BY <1>1, <2>1, UpToBounds, NthUnique
  <2>3. n + 1 - m \in 1..n /\ n + 1 - (n + 1 - m) = m
    BY <2>2
  <2>4. s[n + 1 - m] = x
    BY <1>2, <2>2, <2>3
  <2>5. QED
    BY <1>5, <2>3, <2>4 DEF ToSet
<1>10. ToSet(s) = S
  BY <1>4, <1>5, <1>9 DEF ToSet
<1>11. QED
  BY <1>1, <1>3, <1>6, <1>8, <1>10

LEMMA SkillsTyped ==
  ASSUME SkillsInv
  PROVE  /\ DOMAIN skills = 1..Len(skills) /\ Len(skills) \in Nat
         /\ \A n \in DOMAIN skills :
              /\ n \in Nat /\ skills[n] \in Skill
              /\ skills[n].key \in SUBSET Call /\ skills[n].evidence \in Evidence
              /\ skills[n].revs \in Seq(Revision) /\ Len(skills[n].revs) \in Nat \ {0}
              /\ DOMAIN skills[n].revs = 1..Len(skills[n].revs)
              /\ \A k \in DOMAIN skills[n].revs : k \in Nat /\ skills[n].revs[k] \in Revision
<1>1. skills \in Seq(Skill)
  BY DEF SkillsInv
<1>2. DOMAIN skills = 1..Len(skills) /\ Len(skills) \in Nat
      /\ \A n \in DOMAIN skills : n \in Nat /\ skills[n] \in Skill
  BY <1>1
<1>3. ASSUME NEW n \in DOMAIN skills
      PROVE  /\ skills[n].key \in SUBSET Call /\ skills[n].evidence \in Evidence
             /\ skills[n].revs \in Seq(Revision) /\ skills[n].revs # <<>>
  BY <1>2 DEF Skill
<1>4. ASSUME NEW n \in DOMAIN skills
      PROVE  /\ Len(skills[n].revs) \in Nat \ {0}
             /\ DOMAIN skills[n].revs = 1..Len(skills[n].revs)
             /\ \A k \in DOMAIN skills[n].revs : k \in Nat /\ skills[n].revs[k] \in Revision
  <2>1. PICK revs : revs = skills[n].revs
    OBVIOUS
  <2>2. revs \in Seq(Revision) /\ revs # <<>>
    BY <1>3, <2>1
  <2>3. Len(revs) \in Nat /\ DOMAIN revs = 1..Len(revs) /\ \A k \in DOMAIN revs : k \in Nat /\ revs[k] \in Revision
    BY <2>2
  <2>4. Len(revs) # 0
    BY <2>2
  <2>5. QED
    BY <2>1, <2>3, <2>4
<1>5. QED
  BY <1>2, <1>3, <1>4

LEMMA PendingWalked ==
  ASSUME SkillsInv, NEW known \in Seq(Nat), NEW before \in Nat, NEW since \in SUBSET DOMAIN skills,
         IsInjective(known), \A k \in DOMAIN known : known[k] >= before,
         \A n \in since \cap Waiting : n \in ToSet(known) \/ n < before
  PROVE  MindInv(Pending(known, before, since))
<1>1. PICK older, places : older = {n \in Waiting : n < before} /\ places = Newest(older)
  OBVIOUS
<1>2. /\ Waiting \in SUBSET DOMAIN skills /\ DOMAIN skills \in SUBSET Nat
      /\ older \in SUBSET Nat /\ IsFiniteSet(older)
  <2>1. Waiting \in SUBSET DOMAIN skills /\ DOMAIN skills \in SUBSET Nat
    BY SkillsTyped DEF Waiting
  <2>2. older \in SUBSET DOMAIN skills
    BY <1>1, <2>1
  <2>3. IsFiniteSet(DOMAIN skills)
    BY SkillsTyped, FS_Interval
  <2>4. QED
    BY <2>1, <2>2, <2>3, FS_Subset
<1>3. /\ places \in SUBSET older /\ IsFiniteSet(places) /\ (older # {} => places # {})
      /\ \A x \in places : \A y \in older : x <= y => y \in places
  BY <1>1, <1>2, NewestFacts
<1>4. PICK cursor : cursor = IF places = {} THEN before ELSE Cursor(places)
  OBVIOUS
<1>5. /\ cursor \in Nat /\ cursor <= before /\ \A x \in places : cursor <= x
      /\ places # {} => cursor \in places
  <2>1. CASE places = {}
    BY <1>4, <2>1
  <2>2. CASE places # {}
    <3>1. places \in SUBSET Nat
      BY <1>2, <1>3
    <3>2. cursor \in places /\ \A x \in places : cursor <= x
      BY <1>3, <1>4, <2>2, <3>1, FirstAndLast DEF Cursor
    <3>3. cursor \in Nat /\ cursor < before
      BY <1>1, <1>2, <1>3, <3>2
    <3>4. QED
      BY <3>2, <3>3
  <2>3. QED
    BY <2>1, <2>2
<1>6. PICK page : page = Downwards(places)
  OBVIOUS
<1>7. page \in Seq(Nat) /\ IsInjective(page) /\ ToSet(page) = places
  <2>1. places \in SUBSET Nat
    BY <1>2, <1>3
  <2>2. QED
    BY <1>3, <1>6, <2>1, DownwardsFacts
<1>8. PICK all : all = known \o page
  OBVIOUS
<1>9. /\ all \in Seq(Nat) /\ DOMAIN all = 1..(Len(known) + Len(page))
      /\ Len(known) \in Nat /\ Len(page) \in Nat
      /\ \A k \in DOMAIN all : all[k] = IF k <= Len(known) THEN known[k] ELSE page[k - Len(known)]
      /\ DOMAIN known = 1..Len(known) /\ DOMAIN page = 1..Len(page)
  <2>1. all \in Seq(Nat) /\ Len(all) = Len(known) + Len(page)
        /\ \A k \in 1..(Len(known) + Len(page)) :
             all[k] = IF k <= Len(known) THEN known[k] ELSE page[k - Len(known)]
    BY <1>7, <1>8, JoinFacts
  <2>2. DOMAIN all = 1..Len(all)
    BY <2>1
  <2>3. DOMAIN known = 1..Len(known) /\ DOMAIN page = 1..Len(page) /\ Len(known) \in Nat /\ Len(page) \in Nat
    BY <1>7
  <2>4. QED
    BY <2>1, <2>2, <2>3
<1>10. ASSUME NEW k \in DOMAIN all
       PROVE  \/ k \in DOMAIN known /\ all[k] = known[k] /\ all[k] >= before
              \/ /\ k - Len(known) \in DOMAIN page /\ all[k] = page[k - Len(known)]
                 /\ all[k] \in places /\ all[k] < before
  <2>1. k \in Nat /\ k \in 1..(Len(known) + Len(page))
    BY <1>9
  <2>2. CASE k <= Len(known)
    <3>1. k \in DOMAIN known
      BY <1>9, <2>1, <2>2
    <3>2. QED
      BY <1>9, <2>2, <3>1
  <2>3. CASE ~(k <= Len(known))
    <3>1. k - Len(known) \in DOMAIN page /\ all[k] = page[k - Len(known)]
      BY <1>9, <2>1, <2>3
    <3>2. all[k] \in places
      BY <1>7, <3>1 DEF ToSet
    <3>3. all[k] < before
      BY <1>1, <1>3, <3>2
    <3>4. QED
      BY <3>1, <3>2, <3>3
  <2>4. QED
    BY <2>2, <2>3
<1>11. IsInjective(all)
  <2>1. ASSUME NEW j \in DOMAIN all, NEW k \in DOMAIN all, all[j] = all[k] PROVE j = k
    <3>0. j \in Nat /\ k \in Nat /\ all[j] \in Nat /\ all[k] \in Nat
      BY <1>9
    <3>1. CASE all[j] >= before
      <4>1. j \in DOMAIN known /\ all[j] = known[j] /\ k \in DOMAIN known /\ all[k] = known[k]
        BY <1>10, <2>1, <3>0, <3>1
      <4>2. QED
        BY <2>1, <4>1 DEF IsInjective
    <3>2. CASE all[j] < before
      <4>1. /\ j - Len(known) \in DOMAIN page /\ all[j] = page[j - Len(known)]
            /\ k - Len(known) \in DOMAIN page /\ all[k] = page[k - Len(known)]
        BY <1>10, <2>1, <3>0, <3>2
      <4>2. j - Len(known) = k - Len(known)
        BY <1>7, <2>1, <4>1 DEF IsInjective
      <4>3. QED
        BY <1>9, <3>0, <4>2
    <3>3. QED
      BY <3>0, <3>1, <3>2
  <2>2. QED
    BY <2>1 DEF IsInjective
<1>12. \A k \in DOMAIN all : all[k] >= cursor
  BY <1>5, <1>9, <1>10
<1>13. ASSUME NEW n, n \in ToSet(known) \cup places PROVE n \in ToSet(all)
  <2>1. CASE n \in ToSet(known)
    <3>1. PICK k \in DOMAIN known : n = known[k]
      BY <2>1 DEF ToSet
    <3>2. k \in DOMAIN all /\ all[k] = n
      BY <1>9, <3>1
    <3>3. QED
      BY <3>2 DEF ToSet
  <2>2. CASE n \in places
    <3>1. PICK k \in DOMAIN page : n = page[k]
      BY <1>7, <2>2 DEF ToSet
    <3>2. k \in Nat /\ Len(known) + k \in DOMAIN all /\ ~(Len(known) + k <= Len(known))
          /\ (Len(known) + k) - Len(known) = k
      BY <1>9, <3>1
    <3>3. all[Len(known) + k] = n
      BY <1>9, <3>1, <3>2
    <3>4. QED
      BY <3>2, <3>3 DEF ToSet
  <2>3. QED
    BY <1>13, <2>1, <2>2
<1>14. ASSUME NEW n \in since \cap Waiting PROVE n \in ToSet(all) \/ (n < cursor /\ places # {})
  <2>0. n \in Nat /\ n \in Waiting
    BY <1>2
  <2>1. CASE n \in ToSet(known)
    BY <1>13, <2>1
  <2>2. CASE n < before
    <3>1. n \in older
      BY <1>1, <2>0, <2>2
    <3>2. places # {} /\ cursor \in places
      BY <1>3, <1>5, <3>1
    <3>3. CASE cursor <= n
      BY <1>3, <1>13, <3>1, <3>2, <3>3
    <3>4. CASE n < cursor
      BY <3>2, <3>4
    <3>5. QED
      BY <1>5, <2>0, <3>3, <3>4
  <2>3. QED
    BY <2>1, <2>2
<1>15. PICK pc : pc = IF \E n \in Waiting : places # {} /\ n < Min(places) THEN "pending" ELSE "listed"
  OBVIOUS
<1>16. PICK m : m = [pc |-> pc, before |-> cursor, since |-> since, known |-> all]
  OBVIOUS
<1>17. Walked(m)
  <2>1. m.pc = pc /\ m.before = cursor /\ m.since = since /\ m.known = all
    BY <1>16
  <2>2. ASSUME NEW n \in since \cap Waiting PROVE n \in ToSet(all) \/ (pc = "pending" /\ n < cursor)
    <3>1. CASE n \in ToSet(all)
      BY <3>1
    <3>2. CASE n < cursor /\ places # {}
      <4>1. cursor = Min(places)
        BY <1>4, <3>2 DEF Cursor
      <4>2. pc = "pending"
        BY <1>15, <3>2, <4>1
      <4>3. QED
        BY <3>2, <4>2
    <3>3. QED
      BY <1>14, <3>1, <3>2
  <2>3. QED
    BY <1>11, <1>12, <2>1, <2>2 DEF Walked
<1>18. m = Pending(known, before, since)
  BY <1>1, <1>4, <1>6, <1>8, <1>15, <1>16 DEF Pending
<1>19. QED
  <2>1. pc \in {"pending", "listed"} /\ since \in SUBSET Nat
    BY <1>2, <1>15
  <2>2. QED
    BY <1>5, <1>9, <1>16, <1>17, <1>18, <2>1, ListMind

----------------------------------------------------------------------------
(* Steps of a client that change nothing else. *)

\* Whatever one may have in mind stays as good as it was.
Keeps == \A m : MindInv(m) => MindInv(m)'

LEMMA HistoryKept ==
  ASSUME UNCHANGED <<timeline, hidden, order>>, NEW m
  PROVE  /\ Seen(m) => Seen(m)'
         /\ Chosen(m) => Chosen(m)'
<1>1. /\ \A a, b : Visible(a, b)' = Visible(a, b)
      /\ \A places : Versions(places)' = Versions(places)
      /\ \A v : PlaceOf(v)' = PlaceOf(v)
  BY DEF Visible, Versions, PlaceOf, Nth, UpTo
<1>2. QED
  BY <1>1 DEF Seen, Chosen, ToSet

LEMMA SkillsKept ==
  ASSUME UNCHANGED skills, NEW m, MindInv(m),
         m.pc = "history" => Seen(m)',
         m.pc \in {"refine", "create"} => Chosen(m)'
  PROVE  MindInv(m)'
<1>1. Waiting' = Waiting
  BY DEF Waiting, Last
<1>2. Walked(m) => Walked(m)'
  BY <1>1 DEF Walked
<1>3. Minds' = Minds
  BY DEF Minds
<1>4. QED
  BY <1>2, <1>3 DEF MindInv, IsRevision

LEMMA AllKept ==
  ASSUME UNCHANGED <<timeline, hidden, order, skills>>
  PROVE  Keeps
<1>1. ASSUME NEW m, MindInv(m) PROVE MindInv(m)'
  <2>1. m.pc = "history" => Seen(m)'
    BY <1>1, HistoryKept DEF MindInv
  <2>2. m.pc \in {"refine", "create"} => Chosen(m)'
    BY <1>1, HistoryKept DEF MindInv
  <2>3. QED
    BY <1>1, <2>1, <2>2, SkillsKept
<1>2. QED
  BY <1>1 DEF Keeps

LEMMA ClientTurned ==
  ASSUME ClientsInv, Keeps, NEW c \in Clients, NEW m, MindInv(m)', TurnsTo(c, m)
  PROVE  ClientsInv'
<1>1. DOMAIN client' = Clients /\ client'[c] = m
      /\ \A d \in Clients \ {c} : client'[d] = client[d]
  BY DEF TurnsTo, ClientsInv
<1>2. ASSUME NEW d \in Clients PROVE MindInv(client[d])'
  <2>1. PICK x : x = client[d]
    OBVIOUS
  <2>2. MindInv(x)'
    BY <2>1 DEF Keeps, ClientsInv
  <2>3. PICK y : y = client'[d]
    OBVIOUS
  <2>4. MindInv(y)'
    BY <1>1, <2>1, <2>2, <2>3
  <2>5. QED
    BY <2>3, <2>4
<1>3. QED
  BY <1>1, <1>2 DEF ClientsInv

LEMMA ClientsStay ==
  ASSUME ClientsInv, Keeps, UNCHANGED client
  PROVE  ClientsInv'
<1>1. ASSUME NEW d \in Clients PROVE MindInv(client[d])'
  <2>1. PICK x : x = client[d]
    OBVIOUS
  <2>2. MindInv(x)'
    BY <2>1 DEF Keeps, ClientsInv
  <2>3. x = client'[d]
    BY <2>1
  <2>4. QED
    BY <2>2, <2>3
<1>2. QED
  BY <1>1 DEF ClientsInv

LEMMA RestKept ==
  ASSUME TimelineInv, SkillsInv, UNCHANGED <<history, skills, lost>>
  PROVE  TimelineInv' /\ SkillsInv'
BY DEF TimelineInv, SkillsInv, MadeOnce, RevisionsGood, history

LEMMA ClientThinks ==
  ASSUME LibraryInv, UNCHANGED <<history, skills, tasks, lost>>,
         NEW c \in Clients, NEW m, MindInv(m), TurnsTo(c, m)
  PROVE  LibraryInv'
<1>1. TimelineInv' /\ SkillsInv'
  BY RestKept DEF LibraryInv
<1>2. TasksInv'
  BY DEF LibraryInv, TasksInv, IsRevision
<1>3. Keeps
  BY AllKept DEF history
<1>4. MindInv(m)'
  BY <1>3 DEF Keeps
<1>5. ClientsInv'
  BY <1>3, <1>4, ClientTurned DEF LibraryInv
<1>6. QED
  BY <1>1, <1>2, <1>5 DEF LibraryInv

LEMMA HistorySteps ==
  ASSUME LibraryInv, NEW c \in Clients,
         FirstPage(c) \/ NextPage(c) \/ Choose(c) \/ Collect(c) \/ AskAgain(c) \/ Drop(c)
  PROVE  LibraryInv'
<1>0. TimelineInv /\ MindInv(client[c])
  BY DEF LibraryInv, ClientsInv
<1>1. CASE FirstPage(c)
  <2>1. PICK m : m = Listed(<<>>, order, NextVersion)
    OBVIOUS
  <2>2. MindInv(m)
    <3>1. Len(timeline) \in 0..Len(timeline) /\ NextVersion \in 1..(Len(timeline) + 1)
          /\ NextVersion = Len(timeline) + 1 /\ Len(timeline) \in Nat
      BY <1>0, TimelineTyped DEF NextVersion
    <3>2. Visible(NextVersion, Len(timeline)) = {}
      BY <3>1 DEF Visible
    <3>3. Versions({}) = <<>>
      BY FS_EmptySet DEF Versions, AtPlaces
    <3>4. QED
      BY <1>0, <2>1, <3>1, <3>2, <3>3, PageSeen
  <2>3. QED
    BY <1>1, <2>1, <2>2, ClientThinks DEF FirstPage
<1>2. CASE NextPage(c)
  <2>1. PICK mind : mind = client[c]
    OBVIOUS
  <2>2. PICK m : m = IF SameOrder(mind.revision) THEN Listed(mind.view, mind.revision, mind.before)
                     ELSE Nobody
    OBVIOUS
  <2>3. TurnsTo(c, m) /\ mind.pc = "history"
    BY <1>2, <2>1, <2>2 DEF NextPage
  <2>4. MindInv(m)
    <3>1. CASE SameOrder(mind.revision)
      <4>1. mind.revision = order /\ Seen(mind)
        BY <1>0, <2>1, <2>3, <3>1 DEF SameOrder, MindInv
      <4>2. PICK upto \in 0..Len(timeline) :
              mind.before \in 1..(upto + 1) /\ mind.view = Versions(Visible(mind.before, upto))
        BY <4>1 DEF Seen
      <4>a. PICK before \in 1..(upto + 1) : before = mind.before
        BY <4>2
      <4>b. PICK view : view = mind.view
        OBVIOUS
      <4>3. before = mind.before /\ view = mind.view /\ view = Versions(Visible(before, upto))
        BY <4>2, <4>a, <4>b
      <4>4. MindInv(Listed(view, order, before))
        BY <1>0, <4>3, PageSeen
      <4>5. QED
        BY <2>2, <3>1, <4>1, <4>3, <4>4
    <3>2. CASE ~SameOrder(mind.revision)
      BY <2>2, <3>2, NobodyInv
    <3>3. QED
      BY <3>1, <3>2
  <2>5. QED
    BY <1>2, <2>3, <2>4, ClientThinks DEF NextPage
<1>3. CASE Choose(c)
  <2>1. PICK mind : mind = client[c]
    OBVIOUS
  <2>2. PICK i \in DOMAIN mind.view, j \in DOMAIN mind.view :
          /\ i < j
          /\ TurnsTo(c, [pc |-> "refine", wanted |-> SubSeq(mind.view, i, j),
                call |-> [from |-> mind.view[i], to |-> mind.view[j], revision |-> mind.revision]])
    BY <1>3, <2>1 DEF Choose
  <2>3. PICK m : m = [pc |-> "refine", wanted |-> SubSeq(mind.view, i, j),
                call |-> [from |-> mind.view[i], to |-> mind.view[j], revision |-> mind.revision]]
    OBVIOUS
  <2>4. MindInv(m)
    BY <1>0, <1>3, <2>1, <2>2, <2>3, ChoiceSeen DEF Choose
  <2>5. QED
    BY <1>3, <2>2, <2>3, <2>4, ClientThinks DEF Choose
<1>4. CASE Collect(c)
  <2>1. PICK mind : mind = client[c]
    OBVIOUS
  <2>2. mind.pc = "refine" /\ mind.wanted \in Seq(Nat) /\ mind.call \in Call /\ Chosen(mind)
    BY <1>0, <1>4, <2>1, MindFields DEF Collect, MindInv
  <2>3. PICK places : places = Visible(PlaceOf(mind.call.from), PlaceOf(mind.call.to))
    OBVIOUS
  <2>4. PICK m : /\ TurnsTo(c, m)
                 /\ \/ m = Nobody
                    \/ /\ mind.call.revision = order
                       /\ m = [pc |-> "create", wanted |-> mind.wanted, call |-> mind.call,
                               items |-> Versions(places)]
    BY <1>4, <2>1, <2>3 DEF Collect, SameOrder
  <2>5. MindInv(m)
    <3>1. CASE m = Nobody
      BY <3>1, NobodyInv
    <3>2. CASE /\ mind.call.revision = order
               /\ m = [pc |-> "create", wanted |-> mind.wanted, call |-> mind.call,
                       items |-> Versions(places)]
      <4>1. Versions(places) = mind.wanted
        BY <2>2, <2>3, <3>2 DEF Chosen
      <4>2. PICK wanted \in Seq(Nat), call \in Call : wanted = mind.wanted /\ call = mind.call
        BY <2>2
      <4>3. m = [pc |-> "create", wanted |-> wanted, call |-> call, items |-> wanted]
        BY <3>2, <4>1, <4>2
      <4>4. Chosen(m)
        BY <2>2, <4>2, <4>3 DEF Chosen
      <4>5. QED
        BY <4>3, <4>4, CreateMind
    <3>3. QED
      BY <2>4, <3>1, <3>2
  <2>6. QED
    BY <1>4, <2>4, <2>5, ClientThinks DEF Collect
<1>5. CASE AskAgain(c)
  <2>1. PICK mind : mind = client[c]
    OBVIOUS
  <2>2. mind.pc = "create" /\ mind.wanted \in Seq(Nat) /\ mind.call \in Call /\ Chosen(mind)
    BY <1>0, <1>5, <2>1, MindFields DEF AskAgain, MindInv
  <2>3. PICK wanted \in Seq(Nat), call \in Call : wanted = mind.wanted /\ call = mind.call
    BY <2>2
  <2>4. PICK m : m = [pc |-> "refine", wanted |-> wanted, call |-> call]
    OBVIOUS
  <2>5. Chosen(m)
    BY <2>2, <2>3, <2>4 DEF Chosen
  <2>6. MindInv(m)
    BY <2>4, <2>5, RefineMind
  <2>7. QED
    BY <1>5, <2>1, <2>3, <2>4, <2>6, ClientThinks DEF AskAgain
<1>6. CASE Drop(c)
  BY <1>6, NobodyInv, ClientThinks DEF Drop
<1>7. QED
  BY <1>1, <1>2, <1>3, <1>4, <1>5, <1>6

LEMMA SkillSteps ==
  ASSUME LibraryInv, NEW c \in Clients,
         ListPending(c) \/ (\E n \in DOMAIN skills : Read(c, n)) \/ AskExport(c) \/ Export(c)
  PROVE  LibraryInv'
<1>0. SkillsInv /\ MindInv(client[c])
  BY DEF LibraryInv, ClientsInv
<1>1. CASE ListPending(c)
  <2>1. /\ UNCHANGED <<history, skills, tasks, lost>>
        /\ \/ TurnsTo(c, Pending(<<>>, Len(skills) + 1, Waiting))
           \/ /\ client[c].pc = "pending"
              /\ TurnsTo(c, Pending(client[c].known, client[c].before, client[c].since))
    BY <1>1 DEF ListPending
  <2>2. CASE TurnsTo(c, Pending(<<>>, Len(skills) + 1, Waiting))
    <3>1. Waiting \in SUBSET DOMAIN skills
      BY DEF Waiting
    <3>2. Len(skills) + 1 \in Nat /\ \A n \in Waiting : n < Len(skills) + 1
      BY <1>0, <3>1, SkillsTyped
    <3>3. PICK none : none = <<>>
      OBVIOUS
    <3>4. none \in Seq(Nat) /\ DOMAIN none = {}
      BY <3>3
    <3>5. IsInjective(none)
      BY <3>4 DEF IsInjective
    <3>6. MindInv(Pending(none, Len(skills) + 1, Waiting))
      BY <1>0, <3>1, <3>2, <3>4, <3>5, PendingWalked
    <3>7. QED
      BY <2>1, <2>2, <3>3, <3>6, ClientThinks
  <2>3. CASE /\ client[c].pc = "pending"
             /\ TurnsTo(c, Pending(client[c].known, client[c].before, client[c].since))
    <3>1. PICK mind : mind = client[c]
      OBVIOUS
    <3>2. mind.known \in Seq(Nat) /\ mind.before \in Nat /\ Walked(mind)
      BY <1>0, <2>3, <3>1, MindFields DEF MindInv
    <3>a. PICK known \in Seq(Nat), before \in Nat : known = mind.known /\ before = mind.before
      BY <3>2
    <3>b. PICK since : since = mind.since
      OBVIOUS
    <3>3. known = mind.known /\ before = mind.before /\ since = mind.since
      BY <3>a, <3>b
    <3>4. /\ since \in SUBSET DOMAIN skills /\ IsInjective(known)
          /\ \A k \in DOMAIN known : known[k] >= before
          /\ \A n \in since \cap Waiting : n \in ToSet(known) \/ n < before
      BY <3>2, <3>3 DEF Walked
    <3>5. MindInv(Pending(known, before, since))
      BY <1>0, <3>4, PendingWalked
    <3>6. QED
      BY <2>1, <2>3, <3>1, <3>3, <3>5, ClientThinks
  <2>4. QED
    BY <2>1, <2>2, <2>3
<1>2. CASE \E n \in DOMAIN skills : Read(c, n)
  <2>1. PICK n \in DOMAIN skills : Read(c, n)
    BY <1>2
  <2>2. PICK m : m = AtRevision(n, Len(skills[n].revs), <<>>)
    OBVIOUS
  <2>3. n \in Nat /\ Len(skills[n].revs) \in Nat /\ IsRevision(n, Len(skills[n].revs))
        /\ <<>> \in Seq(Nat)
    BY <1>0, SkillsTyped DEF IsRevision
  <2>4. MindInv(m)
    BY <2>2, <2>3, SkillMind
  <2>5. QED
    BY <2>1, <2>2, <2>4, ClientThinks DEF Read
<1>3. CASE AskExport(c)
  <2>1. PICK mind : mind = client[c]
    OBVIOUS
  <2>2. /\ mind.pc = "skill" /\ mind.skill \in Nat /\ mind.revision \in Nat /\ mind.wanted \in Seq(Nat)
        /\ mind = [pc |-> "skill", skill |-> mind.skill, revision |-> mind.revision, wanted |-> mind.wanted]
        /\ IsRevision(mind.skill, mind.revision)
        /\ mind.wanted # <<>> => skills[mind.skill].evidence.items = mind.wanted
    BY <1>0, <1>3, <2>1, MindFields DEF AskExport, MindInv
  <2>3. PICK n \in Nat, revision \in Nat, wanted \in Seq(Nat) :
          n = mind.skill /\ revision = mind.revision /\ wanted = mind.wanted
    BY <2>2
  <2>4. PICK m : /\ TurnsTo(c, m)
                 /\ m = Nobody \/ m = [AtRevision(n, revision, wanted) EXCEPT !.pc = "export"]
    BY <1>3, <2>1, <2>2, <2>3 DEF AskExport, AtRevision
  <2>5. MindInv(m)
    BY <2>2, <2>3, <2>4, NobodyInv, SkillMind
  <2>6. QED
    BY <1>3, <2>4, <2>5, ClientThinks DEF AskExport
<1>4. CASE Export(c)
  <2>1. PICK mind : mind = client[c]
    OBVIOUS
  <2>2. /\ mind.pc = "export" /\ mind.skill \in Nat /\ mind.revision \in Nat
        /\ IsRevision(mind.skill, mind.revision)
    BY <1>0, <1>4, <2>1, MindFields DEF Export, MindInv
  <2>3. PICK n \in Nat, revision \in Nat : n = mind.skill /\ revision = mind.revision
    BY <2>2
  <2>4. PICK m : m = [pc |-> "exported", skill |-> n, revision |-> revision,
                      holds |-> skills[n].revs[revision]]
    OBVIOUS
  <2>5. n \in DOMAIN skills /\ revision \in DOMAIN skills[n].revs
    BY <2>2, <2>3 DEF IsRevision
  <2>6. skills[n].revs[revision] \in Revision
    BY <1>0, <2>5, SkillsTyped
  <2>7. /\ m.pc = "exported" /\ m.skill = n /\ m.revision = revision
        /\ m.holds = skills[n].revs[revision]
        /\ m \in [pc : {"exported"}, skill : Nat, revision : Nat, holds : Revision]
    BY <2>4, <2>6
  <2>8. m.pc \in DOMAIN Minds /\ m \in Minds[m.pc]
    BY <2>7 DEF Minds
  <2>9. MindInv(m)
    BY <2>5, <2>7, <2>8 DEF MindInv, IsRevision
  <2>10. QED
    BY <1>4, <2>1, <2>3, <2>4, <2>9, ClientThinks DEF Export
<1>5. QED
  BY <1>1, <1>2, <1>3, <1>4

----------------------------------------------------------------------------
(* Steps of the history. *)

\* A change of the order outdates every choice; a version at the end changes
\* nothing before it.
LEMMA OrderMoved ==
  ASSUME TimelineInv, order' = order + 1, UNCHANGED skills
  PROVE  Keeps
<1>1. ASSUME NEW m, MindInv(m) PROVE MindInv(m)'
  <2>0. order \in Nat
    BY DEF TimelineInv
  <2>1. m.pc = "history" => Seen(m)'
    <3>1. ASSUME m.pc = "history" PROVE m.revision <= order /\ m.revision \in Nat
      BY <1>1, <3>1, MindFields DEF MindInv, Seen
    <3>2. ASSUME m.pc = "history" PROVE m.revision <= order' /\ m.revision # order'
      BY <2>0, <3>1, <3>2
    <3>3. QED
      BY <3>2 DEF Seen
  <2>2. m.pc \in {"refine", "create"} => Chosen(m)'
    <3>1. ASSUME m.pc \in {"refine", "create"}
          PROVE  m.call.revision <= order /\ m.call.revision \in Nat
      BY <1>1, <3>1, MindFields DEF MindInv, Chosen, Call
    <3>2. ASSUME m.pc \in {"refine", "create"}
          PROVE  m.call.revision <= order' /\ m.call.revision # order'
      BY <2>0, <3>1, <3>2
    <3>3. QED
      BY <3>2 DEF Chosen
  <2>3. QED
    BY <1>1, <2>1, <2>2, SkillsKept
<1>2. QED
  BY <1>1 DEF Keeps

LEMMA AppendedKept ==
  ASSUME TimelineInv, TimelineInv', timeline' = Append(timeline, NextVersion),
         UNCHANGED <<hidden, order, skills>>
  PROVE  Keeps
<1>1. /\ Len(timeline') = Len(timeline) + 1 /\ Len(timeline) \in Nat
      /\ DOMAIN timeline = 1..Len(timeline) /\ DOMAIN timeline' = 1..(Len(timeline) + 1)
      /\ \A i \in DOMAIN timeline : i \in DOMAIN timeline' /\ timeline'[i] = timeline[i]
  BY TimelineTyped DEF TimelineInv
<1>2. ASSUME NEW a \in Nat, a >= 1, NEW b \in Nat, b <= Len(timeline)
      PROVE  Visible(a, b)' = Visible(a, b) /\ Visible(a, b) \in SUBSET DOMAIN timeline
  <2>1. \A i \in a..b : i \in DOMAIN timeline
    BY <1>1, <1>2
  <2>2. \A i \in a..b : timeline'[i] = timeline[i]
    BY <1>1, <2>1
  <2>3. QED
    BY <2>1, <2>2 DEF Visible
<1>3. ASSUME NEW places \in SUBSET DOMAIN timeline PROVE Versions(places)' = Versions(places)
  <2>1. \A k \in 1..Cardinality(places) : timeline'[Nth(places, k)] = timeline[Nth(places, k)]
    BY <1>1, VersionsTyped
  <2>2. Versions(places)' = [k \in 1..Cardinality(places) |-> timeline'[Nth(places, k)]]
    BY DEF Versions, AtPlaces, Nth, UpTo
  <2>3. QED
    BY <2>1, <2>2 DEF Versions, AtPlaces
<1>4. ASSUME NEW p \in DOMAIN timeline
      PROVE  PlaceOf(timeline[p])' = p /\ PlaceOf(timeline[p]) = p
  <2>1. IsInjective(timeline') /\ p \in DOMAIN timeline' /\ timeline'[p] = timeline[p]
    BY <1>1 DEF TimelineInv
  <2>2. PICK v : v = timeline[p]
    OBVIOUS
  <2>3. PlaceOf(v) = p
    BY <2>2, PlaceOfIt
  <2>4. (CHOOSE i \in DOMAIN timeline' : timeline'[i] = v) = p
    BY <2>1, <2>2 DEF IsInjective
  <2>5. PlaceOf(timeline[p])' = CHOOSE i \in DOMAIN timeline' : timeline'[i] = timeline'[p]
    BY DEF PlaceOf
  <2>6. QED
    BY <2>1, <2>2, <2>3, <2>4, <2>5
<1>5. ASSUME NEW m, MindInv(m) PROVE MindInv(m)'
  <2>1. ASSUME Seen(m) PROVE Seen(m)'
    <3>1. m.revision <= order'
      BY <2>1 DEF Seen
    <3>2. ASSUME m.revision = order'
          PROVE  \E upto \in 0..Len(timeline') :
                   m.before \in 1..(upto + 1) /\ m.view = Versions(Visible(m.before, upto))'
      <4>1. PICK upto \in 0..Len(timeline) :
              m.before \in 1..(upto + 1) /\ m.view = Versions(Visible(m.before, upto))
        BY <2>1, <3>2 DEF Seen
      <4>2. PICK before \in Nat : before = m.before /\ before >= 1
        BY <4>1
      <4>3. upto \in Nat /\ upto <= Len(timeline) /\ upto \in 0..Len(timeline')
        BY <1>1
      <4>4. PICK places : places = Visible(before, upto)
        OBVIOUS
      <4>5. places \in SUBSET DOMAIN timeline /\ places = Visible(before, upto)'
        BY <1>2, <4>2, <4>3, <4>4
      <4>6. Versions(places)' = Versions(places)
        BY <1>3, <4>5
      <4>7. m.view = Versions(Visible(before, upto))'
        BY <4>1, <4>2, <4>4, <4>5, <4>6
      <4>8. QED
        BY <4>1, <4>2, <4>3, <4>7
    <3>3. QED
      BY <3>1, <3>2 DEF Seen
  <2>2. ASSUME Chosen(m) PROVE Chosen(m)'
    <3>1. m.call.revision <= order'
      BY <2>2 DEF Chosen
    <3>2. ASSUME m.call.revision = order'
          PROVE  /\ m.call.from \in ToSet(timeline)' /\ m.call.to \in ToSet(timeline)'
                 /\ m.wanted = Versions(Visible(PlaceOf(m.call.from), PlaceOf(m.call.to)))'
      <4>1. /\ m.call.from \in ToSet(timeline) /\ m.call.to \in ToSet(timeline)
            /\ m.wanted = Versions(Visible(PlaceOf(m.call.from), PlaceOf(m.call.to)))
        BY <2>2, <3>2 DEF Chosen
      <4>2. PICK p \in DOMAIN timeline, q \in DOMAIN timeline :
              m.call.from = timeline[p] /\ m.call.to = timeline[q]
        BY <4>1 DEF ToSet
      <4>3. timeline'[p] = timeline[p] /\ timeline'[q] = timeline[q]
        BY <1>1
      <4>4. PICK a, b : a = m.call.from /\ b = m.call.to
        OBVIOUS
      <4>5. PlaceOf(a) = p /\ PlaceOf(b) = q /\ PlaceOf(a)' = p /\ PlaceOf(b)' = q
        <5>1. PlaceOf(timeline[p])' = PlaceOf(a)' /\ PlaceOf(timeline[q])' = PlaceOf(b)'
          BY <4>2, <4>3, <4>4 DEF PlaceOf
        <5>2. QED
          BY <1>4, <4>2, <4>4, <5>1
      <4>6. PICK places : places = Visible(p, q)
        OBVIOUS
      <4>7. places \in SUBSET DOMAIN timeline /\ places = Visible(p, q)'
        <5>1. p \in Nat /\ p >= 1 /\ q \in Nat /\ q <= Len(timeline)
          BY <1>1
        <5>2. QED
          BY <1>2, <4>6, <5>1
      <4>8. Versions(places)' = Versions(places)
        BY <1>3, <4>7
      <4>9. Versions(Visible(PlaceOf(a), PlaceOf(b)))' = Versions(places)'
        BY <4>5, <4>7
      <4>10. m.wanted = Versions(places)
        BY <4>1, <4>4, <4>5, <4>6
      <4>11. m.call.from \in ToSet(timeline)' /\ m.call.to \in ToSet(timeline)'
        BY <1>1, <4>2 DEF ToSet
      <4>12. QED
        BY <4>4, <4>8, <4>9, <4>10, <4>11
    <3>3. QED
      BY <3>1, <3>2 DEF Chosen
  <2>3. QED
    BY <1>5, <2>1, <2>2, SkillsKept DEF MindInv
<1>6. QED
  BY <1>5 DEF Keeps

\* A new version is none of those that there are.
LEMMA SaveInv ==
  ASSUME TimelineInv, timeline' = Append(timeline, NextVersion),
         UNCHANGED <<hidden, order, notes, lost>>
  PROVE  TimelineInv'
<1>1. /\ DOMAIN timeline = 1..Len(timeline) /\ Len(timeline) \in Nat /\ timeline \in Seq(Nat)
      /\ NextVersion = Len(timeline) + 1
      /\ \A i \in DOMAIN timeline : timeline[i] \in Nat /\ timeline[i] <= Len(timeline)
      /\ Len(timeline) >= 2 /\ IsInjective(timeline)
  BY TimelineTyped DEF TimelineInv, NextVersion
<1>2. timeline' \in Seq(Nat) /\ Len(timeline') = Len(timeline) + 1
  BY <1>1
<1>3. DOMAIN timeline' = 1..(Len(timeline) + 1)
      /\ (\A i \in DOMAIN timeline : timeline'[i] = timeline[i])
      /\ timeline'[Len(timeline) + 1] = Len(timeline) + 1
  BY <1>1, <1>2
<1>4. ASSUME NEW i \in DOMAIN timeline' PROVE timeline'[i] <= Len(timeline')
  <2>1. CASE i \in DOMAIN timeline
    BY <1>1, <1>2, <1>3, <2>1
  <2>2. CASE i = Len(timeline) + 1
    BY <1>1, <1>2, <1>3, <2>2
  <2>3. QED
    BY <1>1, <1>3, <2>1, <2>2
<1>5. ASSUME NEW i \in DOMAIN timeline', NEW j \in DOMAIN timeline', timeline'[i] = timeline'[j]
      PROVE  i = j
  <2>1. CASE i \in DOMAIN timeline /\ j \in DOMAIN timeline
    BY <1>1, <1>3, <1>5, <2>1 DEF IsInjective
  <2>2. CASE i = Len(timeline) + 1 /\ j \in DOMAIN timeline
    <3>1. timeline[j] = Len(timeline) + 1
      BY <1>3, <1>5, <2>2
    <3>2. QED
      BY <1>1, <2>2, <3>1
  <2>3. CASE j = Len(timeline) + 1 /\ i \in DOMAIN timeline
    <3>1. timeline[i] = Len(timeline) + 1
      BY <1>3, <1>5, <2>3
    <3>2. QED
      BY <1>1, <2>3, <3>1
  <2>4. CASE i = Len(timeline) + 1 /\ j = Len(timeline) + 1
    BY <2>4
  <2>5. QED
    BY <1>1, <1>3, <2>1, <2>2, <2>3, <2>4
<1>6. IsInjective(timeline')
  BY <1>5 DEF IsInjective
<1>7. Len(timeline') >= 2
  BY <1>1, <1>2
<1>8. QED
  BY <1>2, <1>4, <1>6, <1>7 DEF TimelineInv

LEMMA ImportInv ==
  ASSUME TimelineInv, NEW i \in DOMAIN timeline, ImportBefore(i)
  PROVE  TimelineInv'
<1>1. /\ DOMAIN timeline = 1..Len(timeline) /\ Len(timeline) \in Nat /\ timeline \in Seq(Nat)
      /\ NextVersion = Len(timeline) + 1 /\ i \in 1..Len(timeline) /\ i \in Nat
      /\ \A j \in DOMAIN timeline : timeline[j] \in Nat /\ timeline[j] <= Len(timeline)
      /\ Len(timeline) >= 2 /\ IsInjective(timeline)
  BY TimelineTyped DEF TimelineInv, NextVersion
<1>2. timeline' = (SubSeq(timeline, 1, i - 1) \o <<NextVersion>>) \o SubSeq(timeline, i, Len(timeline))
  BY DEF ImportBefore, InsertAt
<1>a. PICK n \in Nat : n = Len(timeline)
  BY <1>1
<1>b. PICK s, t, u :
        /\ s = SubSeq(timeline, 1, i - 1) /\ t = <<NextVersion>> /\ u = SubSeq(timeline, i, Len(timeline))
  OBVIOUS
<1>3. /\ s = SubSeq(timeline, 1, i - 1) /\ t = <<NextVersion>> /\ u = SubSeq(timeline, i, n)
      /\ n \in Nat /\ n = Len(timeline)
  BY <1>a, <1>b
<1>4. s \in Seq(Nat) /\ Len(s) = i - 1 /\ \A k \in 1..(i - 1) : s[k] = timeline[k]
  <2>1. PICK b \in Nat : b = i - 1
    BY <1>1
  <2>2. 1 \in Nat /\ 1 >= 1 /\ b <= Len(timeline) /\ 1 <= b + 1
    BY <1>1, <2>1
  <2>3. s \in Seq(Nat) /\ Len(s) = b - 1 + 1 /\ \A k \in 1..(b - 1 + 1) : s[k] = timeline[1 + k - 1]
    <3>1. timeline \in Seq(Nat)
      BY <1>1
    <3>2. /\ SubSeq(timeline, 1, b) \in Seq(Nat) /\ Len(SubSeq(timeline, 1, b)) = b - 1 + 1
          /\ \A k \in 1..(b - 1 + 1) : SubSeq(timeline, 1, b)[k] = timeline[1 + k - 1]
      BY <2>1, <2>2, <3>1, SliceFacts, Zenon
    <3>3. s = SubSeq(timeline, 1, b)
      BY <1>3, <2>1
    <3>4. QED
      BY <3>2, <3>3, Zenon
  <2>4. b - 1 + 1 = b /\ \A k \in 1..b : 1 + k - 1 = k
    OBVIOUS
  <2>5. QED
    BY <2>1, <2>3, <2>4
<1>5. t \in Seq(Nat) /\ Len(t) = 1 /\ t[1] = n + 1
  BY <1>1, <1>3
<1>6. u \in Seq(Nat) /\ Len(u) = n - i + 1 /\ \A k \in 1..(n - i + 1) : u[k] = timeline[i + k - 1]
  <2>1. i >= 1 /\ n <= Len(timeline) /\ i <= n + 1
    BY <1>1, <1>3
  <2>2. timeline \in Seq(Nat) /\ i \in Nat /\ n \in Nat
    BY <1>1, <1>3
  <2>3. /\ SubSeq(timeline, i, n) \in Seq(Nat) /\ Len(SubSeq(timeline, i, n)) = n - i + 1
        /\ \A k \in 1..(n - i + 1) : SubSeq(timeline, i, n)[k] = timeline[i + k - 1]
    BY <2>1, <2>2, SliceFacts, Zenon
  <2>4. QED
    BY <1>3, <2>3, Zenon
<1>z. n \in Nat /\ i \in Nat /\ i \in 1..n /\ DOMAIN timeline = 1..n /\ NextVersion = n + 1
      /\ \A j \in 1..n : timeline[j] \in Nat /\ timeline[j] <= n
  BY <1>1, <1>3
<1>7. PICK st : st = s \o t
  OBVIOUS
<1>8. /\ st \in Seq(Nat) /\ Len(st) = i
      /\ \A k \in 1..i : st[k] = IF k <= i - 1 THEN s[k] ELSE t[k - (i - 1)]
  <2>1. Len(s) + Len(t) = i
    BY <1>1, <1>4, <1>5
  <2>2. Len(s) = i - 1 /\ Len(st) = i
    BY <1>4, <1>5, <1>7, <2>1, JoinFacts
  <2>3. /\ st \in Seq(Nat)
        /\ \A k \in 1..(Len(s) + Len(t)) : st[k] = IF k <= Len(s) THEN s[k] ELSE t[k - Len(s)]
    BY <1>4, <1>5, <1>7, JoinFacts
  <2>4. QED
    BY <2>1, <2>2, <2>3
<1>9. /\ timeline' \in Seq(Nat) /\ Len(timeline') = n + 1
      /\ \A k \in 1..(n + 1) : timeline'[k] = IF k <= i THEN st[k] ELSE u[k - i]
  <2>1. timeline' = st \o u
    BY <1>2, <1>3, <1>7, Zenon
  <2>2. Len(st) = i /\ Len(st) + Len(u) = n + 1
    BY <1>z, <1>6, <1>8
  <2>3. st \in Seq(Nat) /\ u \in Seq(Nat)
    BY <1>6, <1>8, Zenon
  <2>4. /\ st \o u \in Seq(Nat) /\ Len(st \o u) = Len(st) + Len(u)
        /\ \A k \in 1..(Len(st) + Len(u)) : (st \o u)[k] = IF k <= Len(st) THEN st[k] ELSE u[k - Len(st)]
    BY <2>3, JoinFacts, Zenon
  <2>5. QED
    BY <2>1, <2>2, <2>4, Zenon
<1>10. DOMAIN timeline' = 1..(n + 1)
  <2>1. PICK new : new = timeline'
    OBVIOUS
  <2>2. new \in Seq(Nat) /\ Len(new) = n + 1
    BY <1>9, <2>1, Zenon
  <2>3. DOMAIN new = 1..(n + 1)
    BY <2>2
  <2>4. QED
    BY <2>1, <2>3, Zenon
<1>11. ASSUME NEW k \in 1..(n + 1)
       PROVE  /\ k < i => timeline'[k] = timeline[k] /\ k \in DOMAIN timeline
              /\ k = i => timeline'[k] = n + 1
              /\ k > i => timeline'[k] = timeline[k - 1] /\ k - 1 \in DOMAIN timeline
  <2>1. CASE k < i
    <3>1. k \in 1..(i - 1) /\ k \in 1..i /\ k <= i - 1 /\ k <= i
      BY <1>1, <2>1
    <3>2. timeline'[k] = st[k]
      BY <1>9, <3>1
    <3>3. st[k] = s[k]
      BY <1>8, <3>1
    <3>4. s[k] = timeline[k]
      BY <1>4, <3>1
    <3>5. k \in DOMAIN timeline
      BY <1>z, <2>1
    <3>6. QED
      BY <1>z, <2>1, <3>2, <3>3, <3>4, <3>5
  <2>2. CASE k = i
    <3>1. k \in 1..i /\ ~(k <= i - 1) /\ k <= i /\ k - (i - 1) = 1
      BY <1>1, <2>2
    <3>2. QED
      BY <1>5, <1>8, <1>9, <2>2, <3>1, <1>1
  <2>3. CASE k > i
    <3>1. k - i \in 1..(n - i + 1) /\ ~(k <= i) /\ i + (k - i) - 1 = k - 1 /\ k - 1 \in DOMAIN timeline
      BY <1>z, <2>3
    <3>2. timeline'[k] = u[k - i]
      BY <1>9, <3>1
    <3>3. u[k - i] = timeline[k - 1]
      BY <1>6, <3>1
    <3>4. ~(k < i) /\ k # i
      BY <1>z, <2>3
    <3>5. QED
      BY <3>1, <3>2, <3>3, <3>4, Zenon
  <2>4. QED
    BY <1>z, <2>1, <2>2, <2>3
<1>12. ASSUME NEW k \in DOMAIN timeline' PROVE timeline'[k] <= Len(timeline')
  <2>1. CASE k < i
    BY <1>z, <1>9, <1>10, <1>11, <2>1
  <2>2. CASE k = i
    BY <1>z, <1>9, <1>10, <1>11, <2>2
  <2>3. CASE k > i
    BY <1>z, <1>9, <1>10, <1>11, <2>3
  <2>4. QED
    BY <1>1, <1>10, <2>1, <2>2, <2>3
<1>13. ASSUME NEW j \in DOMAIN timeline', NEW k \in DOMAIN timeline', j < k PROVE timeline'[j] # timeline'[k]
  <2>0. j \in 1..(n + 1) /\ k \in 1..(n + 1) /\ j \in Nat /\ k \in Nat
    BY <1>10
  <2>1. CASE j < i /\ k < i
    BY <1>1, <1>11, <1>13, <2>0, <2>1 DEF IsInjective
  <2>2. CASE j < i /\ k = i
    BY <1>z, <1>11, <2>0, <2>2
  <2>3. CASE j < i /\ k > i
    <3>1. timeline'[j] = timeline[j] /\ timeline'[k] = timeline[k - 1] /\ j # k - 1
          /\ j \in DOMAIN timeline /\ k - 1 \in DOMAIN timeline
      <4>1. /\ timeline'[j] = timeline[j] /\ j \in DOMAIN timeline
            /\ timeline'[k] = timeline[k - 1] /\ k - 1 \in DOMAIN timeline
        BY <1>11, <2>0, <2>3, Zenon
      <4>2. j # k - 1
        BY <1>z, <2>0, <2>3
      <4>3. QED
        BY <4>1, <4>2
    <3>2. QED
      BY <1>1, <3>1 DEF IsInjective
  <2>4. CASE j = i /\ k > i
    BY <1>z, <1>11, <2>0, <2>4
  <2>5. CASE j > i /\ k > i
    <3>1. timeline'[j] = timeline[j - 1] /\ timeline'[k] = timeline[k - 1] /\ j - 1 # k - 1
          /\ j - 1 \in DOMAIN timeline /\ k - 1 \in DOMAIN timeline
      <4>1. /\ timeline'[j] = timeline[j - 1] /\ j - 1 \in DOMAIN timeline
            /\ timeline'[k] = timeline[k - 1] /\ k - 1 \in DOMAIN timeline
        BY <1>11, <2>0, <2>5, Zenon
      <4>2. j - 1 # k - 1
        BY <1>13, <2>0
      <4>3. QED
        BY <4>1, <4>2
    <3>2. QED
      BY <1>1, <3>1 DEF IsInjective
  <2>6. QED
    BY <1>1, <1>13, <2>0, <2>1, <2>2, <2>3, <2>4, <2>5
<1>14. IsInjective(timeline')
  <2>1. \A k \in DOMAIN timeline' : k \in Nat
    BY <1>10
  <2>2. \A j, k \in DOMAIN timeline' : j = k \/ j < k \/ k < j
    BY <2>1
  <2>3. QED
    BY <1>13, <2>2 DEF IsInjective
<1>15. Len(timeline') >= 2
  BY <1>z, <1>9
<1>16. order' \in Nat /\ UNCHANGED <<hidden, notes, lost>>
  BY DEF ImportBefore, TimelineInv
<1>17. QED
  BY <1>9, <1>12, <1>14, <1>15, <1>16 DEF TimelineInv

LEMMA TimelineSteps ==
  ASSUME LibraryInv,
         Save \/ \E i \in DOMAIN timeline : ImportBefore(i) \/ Collapse(i) \/ Annotate(i)
  PROVE  LibraryInv'
<1>0. TimelineInv /\ UNCHANGED <<skills, tasks, client>>
  BY DEF LibraryInv, Save, ImportBefore, Collapse, Annotate
<1>1. SkillsInv' /\ TasksInv'
  BY <1>0 DEF LibraryInv, SkillsInv, TasksInv, MadeOnce, RevisionsGood, IsRevision
<1>2. TimelineInv' /\ Keeps
  <2>1. CASE Save
    <3>1. TimelineInv'
      BY <1>0, <2>1, SaveInv DEF Save
    <3>2. QED
      BY <1>0, <2>1, <3>1, AppendedKept DEF Save
  <2>2. ASSUME NEW i \in DOMAIN timeline, ImportBefore(i) PROVE TimelineInv' /\ Keeps
    BY <1>0, <2>2, ImportInv, OrderMoved DEF ImportBefore
  <2>3. ASSUME NEW i \in DOMAIN timeline, Collapse(i) PROVE TimelineInv' /\ Keeps
    <3>1. TimelineInv'
      <4>1. /\ UNCHANGED <<timeline, notes, lost>> /\ order' = order + 1
            /\ hidden' = hidden \cup {timeline[i]}
        BY <2>3 DEF Collapse
      <4>2. timeline[i] \in Nat
        BY <1>0, TimelineTyped
      <4>a. hidden \subseteq Nat /\ order \in Nat
        BY <1>0 DEF TimelineInv
      <4>b. hidden' \subseteq Nat
        BY <4>a, <4>1, <4>2
      <4>3. order' \in Nat
        BY <4>a, <4>1
      <4>4. QED
        BY <1>0, <4>1, <4>b, <4>3 DEF TimelineInv
    <3>2. QED
      BY <1>0, <2>3, <3>1, OrderMoved DEF Collapse
  <2>4. ASSUME NEW i \in DOMAIN timeline, Annotate(i) PROVE TimelineInv' /\ Keeps
    <3>1. TimelineInv'
      BY <1>0, <2>4, TimelineTyped DEF Annotate, TimelineInv
    <3>2. QED
      BY <1>0, <2>4, <3>1, AllKept DEF Annotate
  <2>5. QED
    BY <2>1, <2>2, <2>3, <2>4
<1>3. ClientsInv'
  BY <1>0, <1>2, ClientsStay DEF LibraryInv
<1>4. QED
  BY <1>1, <1>2, <1>3 DEF LibraryInv

----------------------------------------------------------------------------
(* Skills and revisions are added, and none is changed. *)

Grows ==
  \A n \in DOMAIN skills :
    /\ n \in DOMAIN skills' /\ skills'[n].evidence = skills[n].evidence
    /\ \A k \in DOMAIN skills[n].revs :
         k \in DOMAIN skills'[n].revs /\ skills'[n].revs[k] = skills[n].revs[k]
    /\ n \in Waiting' => n \in Waiting

LEMMA GrownKept ==
  ASSUME Grows, UNCHANGED <<timeline, hidden, order>>
  PROVE  Keeps
<1>1. ASSUME NEW m, MindInv(m) PROVE MindInv(m)'
  <2>1. m.pc = "history" => Seen(m)'
    BY <1>1, HistoryKept DEF MindInv
  <2>2. m.pc \in {"refine", "create"} => Chosen(m)'
    BY <1>1, HistoryKept DEF MindInv
  <2>3. ASSUME IsRevision(m.skill, m.revision)
        PROVE  /\ IsRevision(m.skill, m.revision)'
               /\ skills'[m.skill].evidence = skills[m.skill].evidence
               /\ skills'[m.skill].revs[m.revision] = skills[m.skill].revs[m.revision]
    BY <2>3 DEF IsRevision, Grows
  <2>4. ASSUME Walked(m) PROVE Walked(m)'
    <3>1. m.since \subseteq DOMAIN skills'
      BY <2>4 DEF Walked, Grows
    <3>2. \A n \in m.since \cap Waiting' : n \in m.since \cap Waiting
      BY <2>4 DEF Walked, Grows
    <3>3. QED
      BY <2>4, <3>1, <3>2 DEF Walked
  <2>5. Minds' = Minds
    BY DEF Minds
  <2>6. m.pc \in {"skill", "export", "exported"} => IsRevision(m.skill, m.revision)
    BY <1>1 DEF MindInv
  <2>7. /\ m.pc \in DOMAIN Minds' /\ m \in Minds'[m.pc]
        /\ m.pc = "create" => m.items = m.wanted
        /\ m.pc \in {"skill", "export", "exported"} => IsRevision(m.skill, m.revision)'
        /\ m.pc = "skill" /\ m.wanted # <<>> => skills'[m.skill].evidence.items = m.wanted
        /\ m.pc = "exported" => m.holds = skills'[m.skill].revs[m.revision]
        /\ m.pc \in {"pending", "listed"} => Walked(m)'
    BY <1>1, <2>3, <2>4, <2>5, <2>6 DEF MindInv
  <2>8. QED
    BY <2>1, <2>2, <2>7 DEF MindInv
<1>2. QED
  BY <1>1 DEF Keeps

LEMMA TasksKept ==
  ASSUME TasksInv, Grows, tasks' \subseteq tasks
  PROVE  TasksInv'
BY DEF TasksInv, Grows, IsRevision

LEMMA RevisionAdded ==
  ASSUME NEW revs \in Seq(Revision), RevisionsGood(revs), NEW new \in Revision,
         new.basis = Len(revs), new.state = "published" => new.kind = "instructions",
         \A report \in new.reports :
           /\ report.body = new.body /\ report.revision \in 0..(Len(revs) + 1)
           /\ report.revision \in 1..Len(revs) => revs[report.revision].body = report.body
  PROVE  RevisionsGood(Append(revs, new))
<1>a. PICK n \in Nat : n = Len(revs)
  OBVIOUS
<1>b. PICK all : all = Append(revs, new)
  OBVIOUS
<1>1. n = Len(revs) /\ all = Append(revs, new)
  BY <1>a, <1>b
<1>2. /\ DOMAIN revs = 1..n /\ DOMAIN all = 1..(n + 1) /\ all[n + 1] = new
      /\ \A k \in 1..n : all[k] = revs[k] /\ revs[k] \in Revision
  BY <1>1
<1>3. ASSUME NEW k \in 1..n
      PROVE  /\ all[k].basis = k - 1
             /\ all[k].state = "published" => all[k].kind = "instructions"
             /\ \A report \in all[k].reports :
                  /\ report.body = all[k].body /\ report.revision <= k
                  /\ report.revision # 0 => all[report.revision].body = report.body
  <2>1. all[k] = revs[k] /\ k \in DOMAIN revs /\ revs[k] \in Revision
    BY <1>2
  <2>2. /\ revs[k].basis = k - 1
        /\ revs[k].state = "published" => revs[k].kind = "instructions"
    BY <2>1 DEF RevisionsGood
  <2>3. ASSUME NEW report \in revs[k].reports
        PROVE  /\ report.body = revs[k].body /\ report.revision <= k
               /\ report.revision # 0 => all[report.revision].body = report.body
    <3>1. /\ report.body = revs[k].body /\ report.revision <= k
          /\ report.revision # 0 => revs[report.revision].body = report.body
      BY <2>1, <2>3 DEF RevisionsGood
    <3>2. report.revision \in Nat
      BY <2>1, <2>3 DEF Revision, Report
    <3>3. report.revision # 0 => report.revision \in 1..n
      BY <1>2, <3>1, <3>2
    <3>4. QED
      BY <1>2, <3>1, <3>3
  <2>4. QED
    BY <2>1, <2>2, <2>3
<1>4. ASSUME NEW report \in new.reports
      PROVE  /\ report.body = new.body /\ report.revision <= n + 1
             /\ report.revision # 0 => all[report.revision].body = report.body
  <2>1. /\ report.body = new.body /\ report.revision \in 0..(n + 1)
        /\ report.revision \in 1..n => revs[report.revision].body = report.body
    BY <1>1, <1>4
  <2>2. CASE report.revision \in 1..n
    BY <1>2, <2>1, <2>2
  <2>3. CASE report.revision = n + 1
    BY <1>2, <2>1, <2>3
  <2>4. CASE report.revision = 0
    BY <2>1, <2>4
  <2>5. QED
    BY <2>1, <2>2, <2>3, <2>4
<1>5. ASSUME NEW k \in DOMAIN all
      PROVE  /\ all[k].basis = k - 1
             /\ all[k].state = "published" => all[k].kind = "instructions"
             /\ \A report \in all[k].reports :
                  /\ report.body = all[k].body /\ report.revision <= k
                  /\ report.revision # 0 => all[report.revision].body = report.body
  <2>1. CASE k \in 1..n
    BY <1>3, <2>1
  <2>2. CASE k = n + 1
    <3>1. all[k] = new /\ k - 1 = Len(revs)
      BY <1>1, <1>2, <2>2
    <3>2. QED
      BY <1>4, <2>2, <3>1
  <2>3. QED
    BY <1>2, <2>1, <2>2
<1>6. RevisionsGood(all)
  BY <1>5 DEF RevisionsGood
<1>7. QED
  BY <1>1, <1>6

LEMMA Updated ==
  ASSUME SkillsInv, NEW n \in DOMAIN skills, NEW new \in Revision,
         skills' = [skills EXCEPT ![n].revs = Append(skills[n].revs, new)],
         new.basis = Len(skills[n].revs), new.state = "published" => new.kind = "instructions",
         new.state = "awaiting_agent" => Last(skills[n].revs).state = "awaiting_agent",
         \A report \in new.reports :
           /\ report.body = new.body /\ report.revision \in 0..(Len(skills[n].revs) + 1)
           /\ report.revision \in 1..Len(skills[n].revs) =>
                skills[n].revs[report.revision].body = report.body
  PROVE  SkillsInv' /\ Grows /\ n \in DOMAIN skills' /\ Len(skills[n].revs) + 1 \in DOMAIN skills'[n].revs
<1>1. PICK revs, all : revs = skills[n].revs /\ all = Append(revs, new)
  OBVIOUS
<1>2. revs \in Seq(Revision) /\ Len(revs) \in Nat \ {0} /\ RevisionsGood(revs) /\ skills[n] \in Skill
  BY <1>1, SkillsTyped DEF SkillsInv
<1>3. /\ all \in Seq(Revision) /\ Len(all) = Len(revs) + 1 /\ all # <<>>
      /\ DOMAIN revs = 1..Len(revs) /\ DOMAIN all = 1..(Len(revs) + 1)
      /\ all[Len(revs) + 1] = new /\ \A k \in DOMAIN revs : all[k] = revs[k]
  BY <1>1, <1>2
<1>4. RevisionsGood(all)
  BY <1>1, <1>2, RevisionAdded
<1>5. PICK skill : skill = [skills[n] EXCEPT !.revs = all]
  OBVIOUS
<1>6. skill \in Skill /\ skill.key = skills[n].key /\ skill.evidence = skills[n].evidence /\ skill.revs = all
  BY <1>2, <1>3, <1>5 DEF Skill
<1>7. skills' = [skills EXCEPT ![n] = skill]
  BY <1>1, <1>5
<1>8. /\ skills' \in Seq(Skill) /\ DOMAIN skills' = DOMAIN skills /\ skills'[n] = skill
      /\ \A m \in DOMAIN skills : m # n => skills'[m] = skills[m]
  <2>1. skills \in Seq(Skill)
    BY DEF SkillsInv
  <2>2. skill \in Skill
    BY <1>6
  <2>3. skills' \in Seq(Skill)
    BY <1>7, <2>1, <2>2
  <2>4. QED
    BY <1>7, <2>3
<1>9. \A m \in DOMAIN skills : skills'[m].key = skills[m].key /\ skills'[m].evidence = skills[m].evidence
  BY <1>6, <1>8
<1>10. MadeOnce'
  BY <1>8, <1>9 DEF SkillsInv, MadeOnce
<1>11. \A m \in DOMAIN skills' : RevisionsGood(skills'[m].revs)
  BY <1>4, <1>6, <1>8 DEF SkillsInv
<1>12. SkillsInv'
  BY <1>8, <1>10, <1>11 DEF SkillsInv, RevisionsGood
<1>13. Last(all) = new
  BY <1>3 DEF Last
<1>14. \A m \in DOMAIN skills : m \in Waiting' => m \in Waiting
  <2>1. n \in Waiting' => n \in Waiting
    BY <1>1, <1>6, <1>8, <1>13 DEF Waiting
  <2>2. ASSUME NEW m \in DOMAIN skills, m # n, m \in Waiting' PROVE m \in Waiting
    <3>1. skills'[m] = skills[m]
      BY <1>8, <2>2
    <3>2. Last(skills'[m].revs).state = "awaiting_agent"
      BY <2>2 DEF Waiting
    <3>3. QED
      BY <3>1, <3>2 DEF Waiting
  <2>3. QED
    BY <2>1, <2>2
<1>15. Grows
  <2>1. ASSUME NEW m \in DOMAIN skills, NEW k \in DOMAIN skills[m].revs
        PROVE  k \in DOMAIN skills'[m].revs /\ skills'[m].revs[k] = skills[m].revs[k]
    <3>1. CASE m = n
      <4>1. k \in DOMAIN revs
        BY <1>1, <2>1, <3>1
      <4>2. k \in DOMAIN all /\ all[k] = revs[k]
        BY <1>2, <1>3, <4>1
      <4>3. QED
        BY <1>1, <1>6, <1>8, <3>1, <4>2
    <3>2. CASE m # n
      BY <1>8, <2>1, <3>2
    <3>3. QED
      BY <3>1, <3>2
  <2>2. QED
    BY <1>8, <1>9, <1>14, <2>1 DEF Grows
<1>16. n \in DOMAIN skills' /\ Len(revs) + 1 \in DOMAIN skills'[n].revs
  <2>1. Len(revs) + 1 \in DOMAIN all
    BY <1>2, <1>3
  <2>2. QED
    BY <1>6, <1>8, <2>1
<1>17. QED
  BY <1>1, <1>12, <1>15, <1>16

\* What an answer does, and that it may be lost.
LEMMA ToldKept ==
  ASSUME TimelineInv, ClientsInv, Keeps, UNCHANGED history, NEW c \in Clients,
         NEW m, MindInv(m)', Told(c, m)
  PROVE  TimelineInv' /\ ClientsInv'
<1>1. TimelineInv'
  <2>1. lost' \in Nat /\ lost \in Nat
    BY DEF Told, TimelineInv
  <2>2. QED
    BY <2>1 DEF TimelineInv, history
<1>2. CASE TurnsTo(c, m)
  BY <1>1, <1>2, ClientTurned
<1>3. CASE UNCHANGED client
  BY <1>1, <1>3, ClientsStay
<1>4. QED
  BY <1>1, <1>2, <1>3 DEF Told

LEMMA SkillMindNext ==
  ASSUME NEW n \in Nat, NEW revision \in Nat, NEW wanted \in Seq(Nat),
         n \in DOMAIN skills', revision \in DOMAIN skills'[n].revs,
         wanted # <<>> => skills'[n].evidence.items = wanted
  PROVE  MindInv(AtRevision(n, revision, wanted))'
<1>1. PICK m : m = AtRevision(n, revision, wanted)
  OBVIOUS
<1>2. /\ m.pc = "skill" /\ m.skill = n /\ m.revision = revision /\ m.wanted = wanted
      /\ m \in [pc : {"skill"}, skill : Nat, revision : Nat, wanted : Seq(Nat)]
  BY <1>1 DEF AtRevision
<1>3. m.pc \in DOMAIN Minds /\ m \in Minds[m.pc]
  BY <1>2 DEF Minds
<1>4. Minds' = Minds
  BY DEF Minds
<1>5. MindInv(m)'
  BY <1>2, <1>3, <1>4 DEF MindInv, IsRevision
<1>6. AtRevision(n, revision, wanted)' = AtRevision(n, revision, wanted)
  BY DEF AtRevision
<1>7. QED
  BY <1>1, <1>5, <1>6

LEMMA CreateInv ==
  ASSUME LibraryInv, NEW c \in Clients, Create(c)
  PROVE  LibraryInv'
<1>0. TimelineInv /\ SkillsInv /\ TasksInv /\ ClientsInv /\ MindInv(client[c])
      /\ UNCHANGED <<history, tasks>>
  BY DEF LibraryInv, ClientsInv, Create
<1>1. PICK mind : mind = client[c]
  OBVIOUS
<1>2. /\ mind.pc = "create" /\ mind.items = mind.wanted /\ mind.wanted \in Seq(Nat) /\ mind.call \in Call
  BY <1>0, <1>1, MindFields DEF Create, MindInv
<1>3. PICK wanted \in Seq(Nat) : wanted = mind.wanted
  BY <1>2
<1>4. PICK evidence : evidence = [items |-> wanted, notes |-> notes \cap ToSet(wanted)]
  OBVIOUS
<1>5. evidence \in Evidence /\ evidence.items = wanted
  <2>1. notes \subseteq Nat
    BY <1>0 DEF TimelineInv
  <2>2. QED
    BY <1>4, <2>1 DEF Evidence
<1>6. PICK key : key = Key(c)
  OBVIOUS
<1>7. key \in SUBSET Call
  BY <1>1, <1>2, <1>6 DEF Key
<1>8. \/ /\ MadeWith(key) = {}
         /\ skills' = Append(skills, [key |-> key, evidence |-> evidence, revs |-> <<Outline>>])
         /\ Told(c, AtRevision(Len(skills'), 1, wanted))
      \/ \E n \in MadeWith(key) :
           /\ UNCHANGED skills
           /\ IF skills[n].evidence = evidence
              THEN Told(c, AtRevision(n, Len(skills[n].revs), wanted))
              ELSE TurnsTo(c, Nobody) /\ UNCHANGED lost
  BY <1>1, <1>2, <1>3, <1>4, <1>6 DEF Create
<1>9. CASE /\ MadeWith(key) = {}
           /\ skills' = Append(skills, [key |-> key, evidence |-> evidence, revs |-> <<Outline>>])
           /\ Told(c, AtRevision(Len(skills'), 1, wanted))
  <2>1. PICK revs : revs = <<Outline>>
    OBVIOUS
  <2>2. Outline \in Revision /\ Outline.basis = 0 /\ Outline.reports = {} /\ Outline.state # "published"
    BY DEF Outline, Revision
  <2>3. revs \in Seq(Revision) /\ revs # <<>> /\ DOMAIN revs = {1} /\ revs[1] = Outline
    BY <2>1, <2>2
  <2>4. RevisionsGood(revs)
    <3>1. ASSUME NEW k \in DOMAIN revs PROVE k = 1 /\ revs[k] = Outline
      BY <2>3
    <3>2. QED
      BY <2>2, <3>1 DEF RevisionsGood
  <2>5. PICK skill : skill = [key |-> key, evidence |-> evidence, revs |-> revs]
    OBVIOUS
  <2>6. skill \in Skill /\ skill.key = key /\ skill.evidence = evidence /\ skill.revs = revs
    BY <1>5, <1>7, <2>3, <2>5 DEF Skill
  <2>7. PICK s \in Nat : s = Len(skills)
    BY <1>0, SkillsTyped
  <2>8. skills' = Append(skills, skill)
    BY <1>9, <2>1, <2>5
  <2>9. /\ skills' \in Seq(Skill) /\ Len(skills') = s + 1 /\ DOMAIN skills = 1..s
        /\ DOMAIN skills' = 1..(s + 1) /\ skills'[s + 1] = skill
        /\ \A n \in DOMAIN skills : skills'[n] = skills[n]
    <3>1. skills \in Seq(Skill)
      BY <1>0 DEF SkillsInv
    <3>2. QED
      BY <2>6, <2>7, <2>8, <3>1
  <2>10. \A n \in DOMAIN skills' : n \in DOMAIN skills \/ n = s + 1
    BY <2>7, <2>9
  <2>11. \A n \in DOMAIN skills : key # {} => skills[n].key # key
    BY <1>9 DEF MadeWith
  <2>12. MadeOnce'
    <3>1. ASSUME NEW n \in DOMAIN skills', NEW m \in DOMAIN skills', skills'[n].key = skills'[m].key
          PROVE  n = m \/ skills'[n].key = {}
      <4>1. CASE n \in DOMAIN skills /\ m \in DOMAIN skills
        BY <1>0, <2>9, <3>1, <4>1 DEF SkillsInv, MadeOnce
      <4>2. CASE n = s + 1 /\ m \in DOMAIN skills
        BY <2>6, <2>9, <2>11, <3>1, <4>2
      <4>3. CASE m = s + 1 /\ n \in DOMAIN skills
        BY <2>6, <2>9, <2>11, <3>1, <4>3
      <4>4. CASE n = s + 1 /\ m = s + 1
        BY <4>4
      <4>5. QED
        BY <2>10, <4>1, <4>2, <4>3, <4>4
    <3>2. QED
      BY <3>1 DEF MadeOnce
  <2>13. ASSUME NEW n \in DOMAIN skills' PROVE RevisionsGood(skills'[n].revs)
    <3>1. CASE n \in DOMAIN skills
      <4>1. skills'[n].revs = skills[n].revs
        BY <2>9, <3>1
      <4>2. QED
        BY <1>0, <3>1, <4>1 DEF SkillsInv
    <3>2. CASE n = s + 1
      <4>1. skills'[n].revs = revs
        BY <2>6, <2>9, <3>2
      <4>2. QED
        BY <2>4, <4>1
    <3>3. QED
      BY <2>10, <3>1, <3>2
  <2>14. SkillsInv'
    BY <2>9, <2>12, <2>13 DEF SkillsInv, RevisionsGood
  <2>15. Grows
    <3>1. ASSUME NEW n \in DOMAIN skills
          PROVE  n \in DOMAIN skills' /\ skills'[n] = skills[n]
      BY <2>7, <2>9
    <3>2. ASSUME NEW n \in DOMAIN skills, n \in Waiting' PROVE n \in Waiting
      <4>1. Last(skills'[n].revs).state = "awaiting_agent"
        BY <3>2 DEF Waiting
      <4>2. QED
        BY <3>1, <4>1 DEF Waiting
    <3>3. QED
      BY <3>1, <3>2 DEF Grows
  <2>16. Keeps
    BY <1>0, <2>15, GrownKept DEF history
  <2>17. PICK n \in Nat : n = s + 1
    OBVIOUS
  <2>18. n \in DOMAIN skills' /\ skills'[n] = skill /\ 1 \in DOMAIN skills'[n].revs
    BY <2>3, <2>6, <2>7, <2>9, <2>17
  <2>19. MindInv(AtRevision(n, 1, wanted))'
    BY <1>5, <2>6, <2>18, SkillMindNext
  <2>20. PICK m : m = AtRevision(n, 1, wanted)
    OBVIOUS
  <2>21. MindInv(m)' /\ Told(c, m)
    <3>1. AtRevision(n, 1, wanted)' = AtRevision(n, 1, wanted)
      BY DEF AtRevision
    <3>2. QED
      BY <1>9, <2>9, <2>17, <2>19, <2>20, <3>1
  <2>22. TimelineInv' /\ ClientsInv'
    BY <1>0, <2>16, <2>21, ToldKept
  <2>23. TasksInv'
    BY <1>0, <2>15, TasksKept
  <2>24. QED
    BY <2>14, <2>22, <2>23 DEF LibraryInv
<1>10. ASSUME NEW n \in MadeWith(key), UNCHANGED skills,
              IF skills[n].evidence = evidence
              THEN Told(c, AtRevision(n, Len(skills[n].revs), wanted))
              ELSE TurnsTo(c, Nobody) /\ UNCHANGED lost
       PROVE  LibraryInv'
  <2>1. Keeps
    BY <1>0, <1>10, AllKept DEF history
  <2>2. SkillsInv' /\ TasksInv'
    BY <1>0, <1>10 DEF SkillsInv, MadeOnce, RevisionsGood, TasksInv, IsRevision
  <2>3. CASE skills[n].evidence = evidence
    <3>1. n \in DOMAIN skills /\ n \in Nat /\ Len(skills[n].revs) \in Nat
          /\ Len(skills[n].revs) \in DOMAIN skills[n].revs
      BY <1>0, <1>10, SkillsTyped DEF MadeWith
    <3>a. PICK revision \in Nat : revision = Len(skills[n].revs)
      BY <3>1
    <3>b. PICK m : m = AtRevision(n, revision, wanted)
      OBVIOUS
    <3>2. revision = Len(skills[n].revs) /\ m = AtRevision(n, revision, wanted)
      BY <3>a, <3>b
    <3>3. MindInv(m)
      BY <1>5, <2>3, <3>1, <3>2, SkillMind DEF IsRevision
    <3>4. MindInv(m)' /\ Told(c, m)
      BY <1>10, <2>1, <2>3, <3>2, <3>3 DEF Keeps
    <3>5. TimelineInv' /\ ClientsInv'
      BY <1>0, <2>1, <3>4, ToldKept
    <3>6. QED
      BY <2>2, <3>5 DEF LibraryInv
  <2>4. CASE skills[n].evidence # evidence
    BY <1>0, <1>10, <2>4, NobodyInv, ClientThinks
  <2>5. QED
    BY <2>3, <2>4
<1>11. QED
  BY <1>8, <1>9, <1>10

LEMMA TaskRequested ==
  ASSUME LibraryInv, NEW c \in Clients, NEW kind \in {"generate", "validate"}, RequestTask(c, kind)
  PROVE  LibraryInv'
<1>0. TimelineInv /\ SkillsInv /\ TasksInv /\ ClientsInv /\ MindInv(client[c])
      /\ UNCHANGED <<history, skills, lost>>
  BY DEF LibraryInv, ClientsInv, RequestTask
<1>1. PICK mind : mind = client[c]
  OBVIOUS
<1>2. mind.pc = "skill" /\ IsRevision(mind.skill, mind.revision)
  BY <1>0, <1>1 DEF RequestTask, MindInv
<1>3. Keeps
  BY <1>0, AllKept DEF history
<1>4. TimelineInv' /\ SkillsInv'
  BY <1>0, RestKept
<1>5. CASE Expected(mind.skill, mind.revision)
  <2>1. PICK task : task = [kind |-> kind, skill |-> mind.skill, revision |-> mind.revision]
    OBVIOUS
  <2>2. tasks' = tasks \cup {task} /\ UNCHANGED client
    BY <1>1, <1>5, <2>1 DEF RequestTask
  <2>3. task.kind = kind /\ task.skill = mind.skill /\ task.revision = mind.revision
    BY <2>1
  <2>4. TasksInv'
    BY <1>0, <1>2, <2>2, <2>3 DEF TasksInv, IsRevision
  <2>5. ClientsInv'
    BY <1>0, <1>3, <2>2, ClientsStay
  <2>6. QED
    BY <1>4, <2>4, <2>5 DEF LibraryInv
<1>6. CASE ~Expected(mind.skill, mind.revision)
  <2>1. UNCHANGED tasks /\ TurnsTo(c, Nobody)
    BY <1>1, <1>6 DEF RequestTask
  <2>2. QED
    BY <1>0, <2>1, NobodyInv, ClientThinks
<1>7. QED
  BY <1>5, <1>6

\* The last revision, on which an update builds.
LEMMA LastRevision ==
  ASSUME SkillsInv, NEW n \in DOMAIN skills
  PROVE  /\ Last(skills[n].revs) \in Revision /\ Len(skills[n].revs) \in Nat \ {0}
         /\ Last(skills[n].revs) = skills[n].revs[Len(skills[n].revs)]
         /\ Len(skills[n].revs) \in DOMAIN skills[n].revs
         /\ Last(skills[n].revs).state = "published" => Last(skills[n].revs).kind = "instructions"
         /\ \A report \in Last(skills[n].revs).reports :
              /\ report.body = Last(skills[n].revs).body
              /\ report.revision \in 0..Len(skills[n].revs)
              /\ report.revision # 0 => skills[n].revs[report.revision].body = report.body
<1>1. PICK revs : revs = skills[n].revs
  OBVIOUS
<1>2. PICK k : k = Len(revs)
  OBVIOUS
<1>3. /\ k \in Nat \ {0} /\ k \in DOMAIN revs /\ revs[k] \in Revision /\ RevisionsGood(revs)
      /\ Last(revs) = revs[k]
  BY <1>1, <1>2, SkillsTyped DEF Last, SkillsInv
<1>4. revs[k].state = "published" => revs[k].kind = "instructions"
  BY <1>3 DEF RevisionsGood
<1>5. ASSUME NEW report \in revs[k].reports
      PROVE  /\ report.body = revs[k].body /\ report.revision \in 0..k
             /\ report.revision # 0 => revs[report.revision].body = report.body
  <2>1. /\ report.body = revs[k].body /\ report.revision <= k
        /\ report.revision # 0 => revs[report.revision].body = report.body
    BY <1>3 DEF RevisionsGood
  <2>2. report.revision \in Nat
    BY <1>3 DEF Revision, Report
  <2>3. QED
    BY <1>3, <2>1, <2>2
<1>6. QED
  BY <1>1, <1>2, <1>3, <1>4, <1>5

\* One who has a skill at its last revision adds the next one.
LEMMA Written ==
  ASSUME LibraryInv, NEW c \in Clients, client[c].pc = "skill", UNCHANGED <<history, tasks>>,
         SkillsInv', Grows, NEW n, n = client[c].skill,
         Len(skills[n].revs) + 1 \in DOMAIN skills'[n].revs,
         Told(c, AtRevision(n, Len(skills[n].revs) + 1, <<>>))
  PROVE  LibraryInv'
<1>0. TimelineInv /\ SkillsInv /\ TasksInv /\ ClientsInv /\ MindInv(client[c])
  BY DEF LibraryInv, ClientsInv
<1>1. Keeps
  BY GrownKept DEF history
<1>2. IsRevision(n, client[c].revision)
  BY <1>0 DEF MindInv
<1>3. n \in Nat /\ n \in DOMAIN skills /\ n \in DOMAIN skills' /\ Len(skills[n].revs) \in Nat
  BY <1>0, <1>2, SkillsTyped DEF IsRevision, Grows
<1>4. PICK revision \in Nat : revision = Len(skills[n].revs) + 1
  BY <1>3
<1>5. PICK wanted : wanted = <<>>
  OBVIOUS
<1>6. wanted \in Seq(Nat)
  BY <1>5
<1>7. MindInv(AtRevision(n, revision, wanted))'
  BY <1>3, <1>4, <1>5, <1>6, SkillMindNext
<1>8. PICK m : m = AtRevision(n, revision, wanted)
  OBVIOUS
<1>9. MindInv(m)' /\ Told(c, m)
  <2>1. AtRevision(n, revision, wanted)' = AtRevision(n, revision, wanted)
    BY DEF AtRevision
  <2>2. QED
    BY <1>4, <1>5, <1>7, <1>8, <2>1
<1>10. TimelineInv' /\ ClientsInv'
  BY <1>0, <1>1, <1>9, ToldKept
<1>11. TasksInv'
  BY <1>0, TasksKept
<1>12. QED
  BY <1>10, <1>11 DEF LibraryInv

LEMMA ConflictKept ==
  ASSUME LibraryInv, NEW c \in Clients, Conflict(c), UNCHANGED <<history, tasks>>
  PROVE  LibraryInv'
BY NobodyInv, ClientThinks DEF Conflict

LEMMA SubmitInv ==
  ASSUME LibraryInv, NEW c \in Clients, Submit(c)
  PROVE  LibraryInv'
<1>0. SkillsInv /\ MindInv(client[c]) /\ client[c].pc = "skill" /\ UNCHANGED <<history, tasks>>
  BY DEF LibraryInv, ClientsInv, Submit
<1>1. PICK n, revision : n = client[c].skill /\ revision = client[c].revision
  OBVIOUS
<1>2. n \in DOMAIN skills /\ revision \in DOMAIN skills[n].revs
  BY <1>0, <1>1 DEF MindInv, IsRevision
<1>3. PICK revs : revs = skills[n].revs
  OBVIOUS
<1>4. CASE Expected(n, revision)
  <2>1. revision = Len(revs) /\ Len(revs) \in Nat \ {0} /\ Last(revs) \in Revision
    BY <1>0, <1>2, <1>3, <1>4, LastRevision DEF Expected
  <2>2. PICK next \in Nat : next = Len(revs) + 1
    BY <2>1
  <2>3. PICK structure, statement :
          structure = [body |-> next, revision |-> revision + 1] /\ statement = [body |-> next, revision |-> 0]
    OBVIOUS
  <2>a. \E said \in SUBSET {[body |-> Len(skills[n].revs) + 1, revision |-> 0]} :
          skills' = [skills EXCEPT ![n].revs = Append(skills[n].revs,
            [[Last(skills[n].revs) EXCEPT
              !.body = Len(skills[n].revs) + 1, !.kind = "instructions", !.state = "draft",
              !.reports = said \cup IF c \in Agents
                                    THEN {[body |-> Len(skills[n].revs) + 1, revision |-> revision + 1]}
                                    ELSE {}] EXCEPT !.basis = revision])]
    BY <1>1, <1>4 DEF Submit, Update
  <2>4. PICK said \in SUBSET {statement} :
          skills' = [skills EXCEPT ![n].revs = Append(skills[n].revs,
            [[Last(revs) EXCEPT
              !.body = next, !.kind = "instructions", !.state = "draft",
              !.reports = said \cup IF c \in Agents THEN {structure} ELSE {}] EXCEPT !.basis = revision])]
    BY <1>3, <2>2, <2>3, <2>a
  <2>5. PICK reports : reports = said \cup IF c \in Agents THEN {structure} ELSE {}
    OBVIOUS
  <2>6. PICK new : new = [[Last(revs) EXCEPT !.body = next, !.kind = "instructions", !.state = "draft",
                                             !.reports = reports] EXCEPT !.basis = revision]
    OBVIOUS
  <2>7. skills' = [skills EXCEPT ![n].revs = Append(skills[n].revs, new)]
    BY <2>4, <2>5, <2>6
  <2>8. \A report \in reports : report = structure \/ report = statement
    BY <2>5
  <2>9. structure \in Report /\ statement \in Report /\ structure.body = next /\ statement.body = next
        /\ structure.revision = next /\ statement.revision = 0
    BY <2>1, <2>2, <2>3 DEF Report
  <2>10. reports \in SUBSET Report
    BY <2>8, <2>9
  <2>11. /\ new \in Revision /\ new.basis = revision /\ new.kind = "instructions"
         /\ new.state = "draft" /\ new.body = next /\ new.reports = reports
    BY <2>1, <2>2, <2>6, <2>10 DEF Revision
  <2>12. \A report \in new.reports :
           /\ report.body = new.body /\ report.revision \in 0..(Len(revs) + 1)
           /\ report.revision \in 1..Len(revs) => revs[report.revision].body = report.body
    BY <2>1, <2>2, <2>8, <2>9, <2>11
  <2>13. /\ SkillsInv' /\ Grows
         /\ n \in DOMAIN skills' /\ Len(skills[n].revs) + 1 \in DOMAIN skills'[n].revs
    BY <1>0, <1>2, <1>3, <2>1, <2>7, <2>11, <2>12, Updated
  <2>14. Told(c, AtRevision(n, Len(skills[n].revs) + 1, <<>>))
    BY <1>1, <1>4 DEF Submit
  <2>15. QED
    BY <1>0, <1>1, <2>13, <2>14, Written
<1>5. CASE ~Expected(n, revision)
  <2>1. Conflict(c)
    BY <1>1, <1>5 DEF Submit
  <2>2. QED
    BY <1>0, <2>1, ConflictKept
<1>6. QED
  BY <1>4, <1>5

LEMMA PublishInv ==
  ASSUME LibraryInv, NEW c \in Clients, Publish(c)
  PROVE  LibraryInv'
<1>0. SkillsInv /\ MindInv(client[c]) /\ client[c].pc = "skill" /\ UNCHANGED <<history, tasks>>
  BY DEF LibraryInv, ClientsInv, Publish
<1>1. PICK n, revision : n = client[c].skill /\ revision = client[c].revision
  OBVIOUS
<1>2. n \in DOMAIN skills /\ revision \in DOMAIN skills[n].revs
  BY <1>0, <1>1 DEF MindInv, IsRevision
<1>3. PICK revs, last : revs = skills[n].revs /\ last = Last(revs)
  OBVIOUS
<1>4. CASE /\ Expected(n, revision) /\ last.state # "awaiting_agent" /\ last.kind # "outline"
  <2>1. /\ revision = Len(revs) /\ Len(revs) \in Nat \ {0} /\ last \in Revision
        /\ \A report \in last.reports :
             /\ report.body = last.body /\ report.revision \in 0..Len(revs)
             /\ report.revision # 0 => revs[report.revision].body = report.body
    BY <1>0, <1>2, <1>3, <1>4, LastRevision DEF Expected
  <2>2. /\ Update(n, revision, LAMBDA it : [it EXCEPT !.state = "published"])
        /\ Told(c, AtRevision(n, Len(skills[n].revs) + 1, <<>>))
    BY <1>1, <1>3, <1>4 DEF Publish
  <2>3. PICK new : new = [[last EXCEPT !.state = "published"] EXCEPT !.basis = revision]
    OBVIOUS
  <2>4. skills' = [skills EXCEPT ![n].revs = Append(skills[n].revs, new)]
    BY <1>3, <2>2, <2>3 DEF Update
  <2>5. /\ new \in Revision /\ new.basis = revision /\ new.kind = last.kind
        /\ new.state = "published" /\ new.body = last.body /\ new.reports = last.reports
    BY <2>1, <2>3 DEF Revision
  <2>6. new.kind = "instructions"
    BY <1>4, <2>1, <2>5 DEF Revision
  <2>7. \A report \in new.reports :
          /\ report.body = new.body /\ report.revision \in 0..(Len(revs) + 1)
          /\ report.revision \in 1..Len(revs) => revs[report.revision].body = report.body
    BY <2>1, <2>5
  <2>a. /\ new.basis = Len(skills[n].revs) /\ new.state # "awaiting_agent"
        /\ \A report \in new.reports :
             /\ report.body = new.body /\ report.revision \in 0..(Len(skills[n].revs) + 1)
             /\ report.revision \in 1..Len(skills[n].revs) =>
                  skills[n].revs[report.revision].body = report.body
    BY <1>3, <2>1, <2>5, <2>7
  <2>8. /\ SkillsInv' /\ Grows
        /\ n \in DOMAIN skills' /\ Len(skills[n].revs) + 1 \in DOMAIN skills'[n].revs
    BY <1>0, <1>2, <2>4, <2>5, <2>6, <2>a, Updated
  <2>9. QED
    BY <1>0, <1>1, <2>2, <2>8, Written
<1>5. CASE ~(/\ Expected(n, revision) /\ last.state # "awaiting_agent" /\ last.kind # "outline")
  <2>1. Conflict(c)
    BY <1>1, <1>3, <1>5 DEF Publish
  <2>2. QED
    BY <1>0, <2>1, ConflictKept
<1>6. QED
  BY <1>4, <1>5

LEMMA RunTaskInv ==
  ASSUME LibraryInv, NEW task \in tasks, RunTask(task)
  PROVE  LibraryInv'
<1>0. /\ TimelineInv /\ SkillsInv /\ TasksInv /\ ClientsInv
      /\ UNCHANGED <<history, client, lost>> /\ tasks' \subseteq tasks
  BY DEF LibraryInv, RunTask
<1>1. PICK n, revision : n = task.skill /\ revision = task.revision
  OBVIOUS
<1>2. n \in DOMAIN skills /\ revision \in DOMAIN skills[n].revs
  BY <1>0, <1>1 DEF TasksInv, IsRevision
<1>3. PICK revs, last : revs = skills[n].revs /\ last = Last(revs)
  OBVIOUS
<1>4. SkillsInv' /\ Grows
  <2>1. CASE UNCHANGED skills
    <3>1. SkillsInv'
      BY <1>0, <2>1 DEF SkillsInv, MadeOnce, RevisionsGood
    <3>2. Waiting' = Waiting
      BY <2>1 DEF Waiting, Last
    <3>3. Grows
      BY <2>1, <3>2 DEF Grows
    <3>4. QED
      BY <3>1, <3>3
  <2>2. CASE ~UNCHANGED skills
    <3>0. Expected(n, revision)
      BY <1>1, <2>2 DEF RunTask
    <3>1. /\ revision = Len(revs) /\ Len(revs) \in Nat \ {0} /\ last \in Revision
          /\ last = revs[revision]
          /\ last.state = "published" => last.kind = "instructions"
      BY <1>0, <1>2, <1>3, <3>0, LastRevision DEF Expected
    <3>a. PICK next \in Nat : next = Len(revs) + 1
      BY <3>1
    <3>b. PICK report : report = [body |-> revs[revision].body, revision |-> revision]
      OBVIOUS
    <3>2. next = Len(revs) + 1 /\ report = [body |-> revs[revision].body, revision |-> revision]
      BY <3>a, <3>b
    <3>3. \/ \E kind \in {"outline", "instructions"} :
               Update(n, revision, LAMBDA item : [item EXCEPT
                 !.body = next, !.kind = kind, !.state = "draft", !.reports = {}])
          \/ Update(n, revision, LAMBDA item : [item EXCEPT !.reports = {report}])
      BY <1>1, <1>3, <3>0, <3>2 DEF RunTask
    <3>4. ASSUME NEW kind \in {"outline", "instructions"},
                 Update(n, revision, LAMBDA item : [item EXCEPT
                   !.body = next, !.kind = kind, !.state = "draft", !.reports = {}])
          PROVE  SkillsInv' /\ Grows
      <4>1. PICK new : new = [[last EXCEPT !.body = next, !.kind = kind, !.state = "draft",
                                           !.reports = {}] EXCEPT !.basis = revision]
        OBVIOUS
      <4>2. skills' = [skills EXCEPT ![n].revs = Append(skills[n].revs, new)]
        BY <1>3, <3>4, <4>1 DEF Update
      <4>3. new \in Revision /\ new.basis = revision /\ new.state = "draft" /\ new.reports = {}
        BY <3>1, <4>1 DEF Revision
      <4>4. QED
        BY <1>0, <1>2, <1>3, <3>1, <4>2, <4>3, Updated
    <3>5. ASSUME Update(n, revision, LAMBDA item : [item EXCEPT !.reports = {report}])
          PROVE  SkillsInv' /\ Grows
      <4>1. PICK new : new = [[last EXCEPT !.reports = {report}] EXCEPT !.basis = revision]
        OBVIOUS
      <4>2. skills' = [skills EXCEPT ![n].revs = Append(skills[n].revs, new)]
        BY <1>3, <3>5, <4>1 DEF Update
      <4>3. report \in Report /\ report.body = last.body /\ report.revision = Len(revs)
        BY <3>1, <3>2 DEF Revision, Report
      <4>4. /\ new \in Revision /\ new.basis = revision /\ new.state = last.state
            /\ new.kind = last.kind /\ new.body = last.body /\ new.reports = {report}
        BY <3>1, <4>1, <4>3 DEF Revision
      <4>5. \A r \in new.reports :
              /\ r.body = new.body /\ r.revision \in 0..(Len(revs) + 1)
              /\ r.revision \in 1..Len(revs) => revs[r.revision].body = r.body
        BY <3>1, <4>3, <4>4
      <4>6. /\ new.basis = Len(skills[n].revs)
            /\ new.state = "published" => new.kind = "instructions"
            /\ new.state = "awaiting_agent" => Last(skills[n].revs).state = "awaiting_agent"
            /\ \A r \in new.reports :
                 /\ r.body = new.body /\ r.revision \in 0..(Len(skills[n].revs) + 1)
                 /\ r.revision \in 1..Len(skills[n].revs) => skills[n].revs[r.revision].body = r.body
        BY <1>3, <3>1, <4>4, <4>5
      <4>7. QED
        BY <1>0, <1>2, <4>2, <4>4, <4>6, Updated
    <3>6. QED
      BY <3>3, <3>4, <3>5
  <2>3. QED
    BY <2>1, <2>2
<1>5. Keeps
  BY <1>0, <1>4, GrownKept DEF history
<1>6. ClientsInv' /\ TasksInv'
  BY <1>0, <1>4, <1>5, ClientsStay, TasksKept
<1>7. TimelineInv'
  BY <1>0 DEF TimelineInv, history
<1>8. QED
  BY <1>4, <1>6, <1>7 DEF LibraryInv

----------------------------------------------------------------------------
(* The invariant. *)

LEMMA LibraryInitial ==
  ASSUME LibraryInit
  PROVE  LibraryInv
<1>1. PICK first : first = <<1, 2>>
  OBVIOUS
<1>2. /\ first \in Seq(Nat) /\ Len(first) = 2 /\ DOMAIN first = 1..2 /\ first[1] = 1 /\ first[2] = 2
  BY <1>1
<1>3. timeline = first /\ hidden = {} /\ order = 0 /\ notes = {} /\ lost = 0
  BY <1>1 DEF LibraryInit
<1>4. IsInjective(first)
  BY <1>2 DEF IsInjective
<1>5. TimelineInv
  BY <1>2, <1>3, <1>4 DEF TimelineInv
<1>6. SkillsInv
  <2>1. skills \in Seq(Skill) /\ DOMAIN skills = {}
    BY DEF LibraryInit
  <2>2. QED
    BY <2>1 DEF SkillsInv, MadeOnce
<1>7. TasksInv
  BY DEF LibraryInit, TasksInv
<1>8. ClientsInv
  BY NobodyInv DEF LibraryInit, ClientsInv
<1>9. QED
  BY <1>5, <1>6, <1>7, <1>8 DEF LibraryInv

LEMMA LibraryKept ==
  ASSUME LibraryInv, [LibraryNext]_libraryVars
  PROVE  LibraryInv'
<1>1. CASE UNCHANGED libraryVars
  <2>1. UNCHANGED <<history, skills, tasks, client, lost>> /\ UNCHANGED <<timeline, hidden, order>>
    BY <1>1 DEF libraryVars, history
  <2>2. Keeps
    BY <2>1, AllKept
  <2>3. QED
    BY <2>1, <2>2, RestKept, ClientsStay DEF LibraryInv, TasksInv, IsRevision
<1>2. ASSUME NEW c \in Clients,
             \/ FirstPage(c) \/ NextPage(c) \/ Choose(c) \/ Collect(c) \/ Create(c) \/ AskAgain(c)
             \/ ListPending(c) \/ (\E n \in DOMAIN skills : Read(c, n))
             \/ Submit(c) \/ Publish(c) \/ AskExport(c) \/ Export(c) \/ Drop(c)
             \/ \E kind \in {"generate", "validate"} : RequestTask(c, kind)
      PROVE  LibraryInv'
  <2>1. CASE FirstPage(c) \/ NextPage(c) \/ Choose(c) \/ Collect(c) \/ AskAgain(c) \/ Drop(c)
    BY <2>1, HistorySteps
  <2>2. CASE ListPending(c) \/ (\E n \in DOMAIN skills : Read(c, n)) \/ AskExport(c) \/ Export(c)
    BY <2>2, SkillSteps
  <2>3. CASE Create(c)
    BY <2>3, CreateInv
  <2>4. CASE Submit(c)
    BY <2>4, SubmitInv
  <2>5. CASE Publish(c)
    BY <2>5, PublishInv
  <2>6. CASE \E kind \in {"generate", "validate"} : RequestTask(c, kind)
    BY <2>6, TaskRequested
  <2>7. QED
    BY <1>2, <2>1, <2>2, <2>3, <2>4, <2>5, <2>6
<1>3. CASE Save \/ \E i \in DOMAIN timeline : ImportBefore(i) \/ Collapse(i) \/ Annotate(i)
  BY <1>3, TimelineSteps
<1>4. CASE \E task \in tasks : RunTask(task)
  BY <1>4, RunTaskInv
<1>5. CASE LibraryStep
  BY <1>2, <1>3, <1>4, <1>5 DEF LibraryStep
<1>6. QED
  BY <1>1, <1>5 DEF LibraryNext

\* The invariant of the library: what is collected, created, revised and listed
\* in SkillCatalog and HistoryWindow keeps it, in whatever order clients, jobs
\* and the history take their steps.
THEOREM LibraryAlways == LibrarySpec => []LibraryInv
<1>1. LibraryInit => LibraryInv
  BY LibraryInitial
<1>2. LibraryInv /\ [LibraryNext]_libraryVars => LibraryInv'
  BY LibraryKept
<1>3. QED
  BY <1>1, <1>2, PTL DEF LibrarySpec

LEMMA LibraryImplies ==
  ASSUME LibraryInv
  PROVE  LibraryTypeOK /\ RefinedOnce /\ RevisionsTrue /\ PendingListed
<1>0. /\ TimelineInv /\ SkillsInv /\ TasksInv /\ ClientsInv
      /\ \A c \in Clients : MindInv(client[c])
  BY DEF LibraryInv, ClientsInv
<1>1. LibraryTypeOK
  BY <1>0 DEF LibraryTypeOK, TimelineInv, SkillsInv, TasksInv, ClientsInv, MindInv
<1>2. RefinedOnce
  BY <1>0 DEF RefinedOnce, EvidenceSeen, SkillsInv, MindInv
<1>3. RevisionsTrue
  <2>1. ASSUME NEW n \in DOMAIN skills, NEW k \in DOMAIN skills[n].revs
        PROVE  LET item == skills[n].revs[k]
               IN /\ item.basis = k - 1
                  /\ item.state = "published" => item.kind = "instructions"
                  /\ \A report \in item.reports :
                       /\ report.body = item.body
                       /\ report.revision # 0 => skills[n].revs[report.revision].body = report.body
    <3>1. PICK revs : revs = skills[n].revs
      OBVIOUS
    <3>2. RevisionsGood(revs) /\ k \in DOMAIN revs
      BY <1>0, <2>1, <3>1 DEF SkillsInv
    <3>3. QED
      BY <3>1, <3>2 DEF RevisionsGood
  <2>2. ASSUME NEW c \in Clients, client[c].pc = "exported"
        PROVE  client[c].holds = skills[client[c].skill].revs[client[c].revision]
    BY <1>0, <2>2 DEF MindInv
  <2>3. QED
    BY <2>1, <2>2 DEF RevisionsTrue
<1>4. PendingListed
  <2>1. ASSUME NEW c \in Clients, client[c].pc = "listed"
        PROVE  /\ client[c].since \cap Waiting \subseteq ToSet(client[c].known)
               /\ IsInjective(client[c].known)
    <3>1. Walked(client[c])
      BY <1>0, <2>1 DEF MindInv
    <3>2. QED
      BY <2>1, <3>1 DEF Walked
  <2>2. QED
    BY <2>1 DEF PendingListed
<1>5. QED
  BY <1>1, <1>2, <1>3, <1>4

\* The fields of versions, skills, revisions, jobs and clients are of their
\* types, a version is listed once, and jobs, editors and exports are of
\* revisions that exist.
THEOREM LibraryTypeCorrect == LibrarySpec => []LibraryTypeOK
BY LibraryAlways, LibraryImplies, PTL

\* refine, with an agent's idempotency key and its repeats after lost answers:
\* a call makes one skill (the key lookup of SkillCatalog.create), and the
\* frozen evidence of a skill is the interval that its client saw in the list,
\* however the list changed between the pages and the call (the revision of the
\* history in cursors and selections).
THEOREM SkillsAreRefinedOnce == LibrarySpec => []RefinedOnce
BY LibraryAlways, LibraryImplies, PTL

\* SkillCatalog.update and its callers: revisions are made one on the other,
\* reports are about the body that they stand with, an outline is never
\* published, and an export is of the revision that was asked for.
THEOREM RevisionsAreTrue == LibrarySpec => []RevisionsTrue
BY LibraryAlways, LibraryImplies, PTL

\* The list of pending requests, walked with next_before: whoever has walked it
\* to its end has seen each request that was pending all the time, and none
\* twice.
THEOREM PendingIsListed == LibrarySpec => []PendingListed
BY LibraryAlways, LibraryImplies, PTL

(* What Compression keeps. *)

\* What a share and a save are, and where a save is while it holds a share.
Objects == DOMAIN Size
ShareRecs == [workers : Nat, bytes : Nat, epoch : Nat, learn : BOOLEAN, alone : BOOLEAN]
Pcs == {"fill", "wait", "parallel", "inline", "shutdown", "observe", "release",
        "prepared", "cancelled", "failed"}
SharingPcs == {"parallel", "inline", "shutdown", "observe", "release"}
SaveRecs ==
  [whole : Streams, seen : Nat, pc : Pcs, todo : Seq(Objects), next : Nat,
   flight : Seq([object : Objects, status : {"queued", "running", "done", "failed", "cancelled"}]),
   written : Seq([object : Objects, data : Objects]), share : ShareRecs,
   cancel : BOOLEAN, outcome : {"fill", "observe", "failed", "cancelled"}]

\* The type of every variable.
CompressionTypeOK ==
  /\ save \in [Saves -> SaveRecs]
  /\ active \in [workers : Nat, bytes : Nat, batches : Nat] /\ epoch \in Nat
  /\ samples \in SUBSET [workers : Nat, alone : BOOLEAN]
  /\ policy \in [mode : {"auto", "quiet", "fixed"}, max : Nat \ {0}] /\ errors \in Nat

\* The threads of a pool, and the objects of its tasks.
RunningOf(r) == {i \in DOMAIN r.flight : r.flight[i].status = "running"}
ObjectsOf(flight) == [i \in DOMAIN flight |-> flight[i].object]

\* The objects that a save must store of the first n of its stream.
WantedOf(r, n) == AtPlaces(r.whole, New(r.whole, 1, n, Stored))

\* The share of a save: it has one exactly while it works on a batch, of at least
\* one worker, with at most that many threads.  A batch learns only as long as
\* nobody came since its epoch, and one that is not alone is of an earlier epoch.
ShareOK(r, e) ==
  /\ (r.share # NoShare) <=> (r.pc \in SharingPcs)
  /\ r.share # NoShare => r.share.workers >= 1
  /\ r.pc = "release" => r.outcome # "observe"
  /\ Cardinality(RunningOf(r)) <= r.share.workers
  /\ r.pc \notin {"parallel", "shutdown"} => RunningOf(r) = {}
  /\ r.share.epoch <= e
  /\ (r.share.learn /\ r.share.epoch = e) => r.share.alone

\* No batch of the save is under way, or all of it is written.
AllWritten(r) ==
  \/ r.pc \in {"fill", "prepared", "observe"}
  \/ (r.pc \in {"shutdown", "release"} /\ r.outcome \in {"observe", "fill"})

\* What is written is the beginning of what is wanted; while a batch is under
\* way the rest of that is todo, and the tasks are the next of todo.
RecordFor(r, wanted) ==
  /\ r.seen <= Len(r.whole) /\ Len(r.written) <= Len(wanted)
  /\ \A i \in 1..Len(r.written) : r.written[i] = [object |-> wanted[i], data |-> wanted[i]]
  /\ AllWritten(r) => (Len(r.written) = Len(wanted) /\ r.flight = <<>>)
  /\ r.pc = "prepared" => r.seen = Len(r.whole)
  /\ r.pc \in {"wait", "inline", "parallel"} =>
       /\ Len(r.todo) > 0 /\ Len(r.todo) <= Len(wanted)
       /\ Len(r.flight) <= r.next /\ r.next <= Len(r.todo)
       /\ Len(r.written) = Len(wanted) - Len(r.todo) + r.next - Len(r.flight)
       /\ \A k \in 1..Len(r.todo) : r.todo[k] = wanted[Len(wanted) - Len(r.todo) + k]
       /\ \A i \in 1..Len(r.flight) : r.flight[i].object = r.todo[r.next - Len(r.flight) + i]
  /\ r.pc \in {"wait", "inline"} => r.flight = <<>>
  /\ Len(r.flight) > 1 => 2 * Bytes(ObjectsOf(r.flight)) <= Quota

\* What is given out is what the saves hold.
SharesAdd ==
  active = [workers |-> Total([s \in Saves |-> save[s].share.workers]),
            bytes |-> Total([s \in Saves |-> save[s].share.bytes]), batches |-> Cardinality(Sharing)]

\* The inductive invariant.
CompressionInv ==
  /\ CompressionTypeOK
  /\ \A s \in Saves : ShareOK(save[s], epoch)
  /\ \A s \in Saves : RecordFor(save[s], WantedOf(save[s], save[s].seen))
  /\ SharesAdd
  /\ active.workers <= CpuBudget
  /\ active.batches > 1 => active.bytes <= MemoryBudget
  /\ SamplesAlone

(* Steps of one save. *)

LEMMA BytesTyped ==
  ASSUME NEW objects \in Seq(Objects)
  PROVE  Bytes(objects) \in Nat
<1> DEFINE f == [i \in DOMAIN objects |-> Size[objects[i]]]
<1>1. \A o \in Objects : Size[o] \in Nat
  BY CompressionAssumption DEF Objects
<1>2. DOMAIN objects = 1..Len(objects) /\ Len(objects) \in Nat /\ \A i \in DOMAIN objects : objects[i] \in Objects
  OBVIOUS
<1>3. f \in [DOMAIN objects -> Nat]
  BY <1>1, <1>2
<1>4. IsFiniteSet(DOMAIN objects)
  <2>1. 1 \in Int /\ Len(objects) \in Int
    BY <1>2
  <2>2. QED
    BY <1>2, <2>1, FS_Interval
<1>5. Total(f) \in Nat
  <2> HIDE DEF f
  <2>1. QED
    BY <1>3, <1>4, TotalTyped
<1>6. QED
  BY <1>5 DEF Bytes

\* A part of some objects is no larger than they are.
LEMMA BytesTail ==
  ASSUME NEW whole \in Seq(Objects), NEW part \in Seq(Objects), Len(whole) = Len(part) + 1,
         \A i \in 1..Len(part) : part[i] = whole[i + 1]
  PROVE  Bytes(part) <= Bytes(whole)
<1> DEFINE f == [i \in DOMAIN part |-> Size[part[i]]]
           g == [i \in DOMAIN whole |-> Size[whole[i]]]
           h == [i \in DOMAIN part |-> i + 1]
<1>1. \A o \in Objects : Size[o] \in Nat
  BY CompressionAssumption DEF Objects
<1>2. DOMAIN part = 1..Len(part) /\ Len(part) \in Nat /\ \A i \in DOMAIN part : part[i] \in Objects
  OBVIOUS
<1>3. DOMAIN whole = 1..Len(whole) /\ Len(whole) \in Nat /\ \A i \in DOMAIN whole : whole[i] \in Objects
  OBVIOUS
<1>4. f \in [DOMAIN part -> Nat] /\ g \in [DOMAIN whole -> Nat]
  BY <1>1, <1>2, <1>3
<1>5. IsFiniteSet(DOMAIN whole)
  <2>1. 1 \in Int /\ Len(whole) \in Int
    BY <1>3
  <2>2. QED
    BY <1>3, <2>1, FS_Interval
<1>6. h \in [DOMAIN part -> DOMAIN whole]
  BY <1>2, <1>3
<1>7. IsInjective(h)
  <2>1. DOMAIN h = DOMAIN part
    OBVIOUS
  <2>2. \A i \in DOMAIN part : \A j \in DOMAIN part : h[i] = h[j] => i = j
    BY <1>2
  <2> HIDE DEF h
  <2>3. QED
    BY <2>1, <2>2 DEF IsInjective
<1>8. \A i \in DOMAIN part : f[i] <= g[h[i]]
  <2>1. TAKE i \in DOMAIN part
  <2>2. i + 1 \in DOMAIN whole /\ i \in 1..Len(part)
    BY <1>2, <1>3
  <2>3. h[i] = i + 1 /\ f[i] = Size[part[i]] /\ g[i + 1] = Size[whole[i + 1]]
    BY <2>2
  <2>4. part[i] = whole[i + 1]
    BY <2>2
  <2>5. f[i] \in Nat
    BY <1>4
  <2>6. f[i] = g[h[i]]
    BY <2>3, <2>4
  <2> HIDE DEF f, g, h
  <2>7. QED
    BY <2>5, <2>6
<1>9. Total(f) <= Total(g)
  <2> HIDE DEF f, g, h
  <2>1. QED
    BY <1>4, <1>5, <1>6, <1>7, <1>8, TotalInjects
<1>10. QED
  BY <1>9 DEF Bytes

\* A save goes on by itself.
LEMMA OneSaveMoves ==
  ASSUME CompressionInv, NEW s \in Saves, NEW q \in SaveRecs, save' = [save EXCEPT ![s] = q],
         q.share = save[s].share, ShareOK(q, epoch), RecordFor(q, WantedOf(q, q.seen)),
         errors' \in Nat,
         active' = active, epoch' = epoch, policy' = policy,
         samples' \in SUBSET [workers : Nat, alone : BOOLEAN], SamplesAlone'
  PROVE  CompressionInv'
<1>1. /\ save \in [Saves -> SaveRecs] /\ active' = active /\ epoch' = epoch
      /\ policy' = policy
  BY DEF CompressionInv, CompressionTypeOK
<1>2. save' \in [Saves -> SaveRecs] /\ save'[s] = q /\ \A t \in Saves : t # s => save'[t] = save[t]
  BY <1>1
<1>3. \A t \in Saves : save'[t].share = save[t].share
  BY <1>2
<1>4. CompressionTypeOK'
  BY <1>1, <1>2 DEF CompressionInv, CompressionTypeOK
<1>5. \A t \in Saves : ShareOK(save'[t], epoch)
  BY <1>2 DEF CompressionInv
<1>6. \A t \in Saves : RecordFor(save'[t], WantedOf(save'[t], save'[t].seen))
  BY <1>2 DEF CompressionInv
<1>7. SharesAdd'
  <2>1. [t \in Saves |-> save[t].share.workers]' = [t \in Saves |-> save[t].share.workers]
    BY <1>3
  <2>2. [t \in Saves |-> save[t].share.bytes]' = [t \in Saves |-> save[t].share.bytes]
    BY <1>3
  <2>3. Sharing' = Sharing
    BY <1>3 DEF Sharing
  <2>4. SharesAdd
    BY DEF CompressionInv
  <2>5. QED
    BY <1>1, <2>1, <2>2, <2>3, <2>4 DEF SharesAdd
<1>8. /\ (active.workers <= CpuBudget)'
      /\ (active.batches > 1 => active.bytes <= MemoryBudget)' /\ SamplesAlone'
  BY <1>1 DEF CompressionInv
<1>9. (\A t \in Saves : ShareOK(save[t], epoch))'
  BY <1>1, <1>5 DEF ShareOK, RunningOf, NoShare
<1>10. (\A t \in Saves : RecordFor(save[t], WantedOf(save[t], save[t].seen)))'
  BY <1>6
<1>11. QED
  BY <1>4, <1>7, <1>8, <1>9, <1>10 DEF CompressionInv

LEMMA LocalStep ==
  ASSUME CompressionInv, NEW s \in Saves, NEW q \in SaveRecs, save' = [save EXCEPT ![s] = q],
         q.share = save[s].share, ShareOK(q, epoch), RecordFor(q, WantedOf(q, q.seen)),
         errors' \in Nat, Only(s)
  PROVE  CompressionInv'
<1>1. /\ active' = active /\ epoch' = epoch /\ policy' = policy /\ samples' = samples
  BY DEF Only
<1>2. samples' \in SUBSET [workers : Nat, alone : BOOLEAN] /\ SamplesAlone'
  BY <1>1 DEF CompressionInv, CompressionTypeOK, SamplesAlone
<1>3. QED
  BY <1>1, <1>2, OneSaveMoves

LEMMA NewIsOf ==
  ASSUME NEW w \in Seq(Objects), NEW n \in Nat, n <= Len(w)
  PROVE  /\ New(w, 1, n, Stored) \in SUBSET DOMAIN w
         /\ AtPlaces(w, New(w, 1, n, Stored)) \in Seq(Objects)
<1>1. DOMAIN w = 1..Len(w) /\ Len(w) \in Nat
  OBVIOUS
<1>2. New(w, 1, n, Stored) \in SUBSET DOMAIN w
  BY <1>1 DEF New
<1>3. QED
  BY <1>2, AtPlacesTyped

\* What is known of a save.
LEMMA SaveFacts ==
  ASSUME CompressionInv, NEW s \in Saves
  PROVE  /\ save \in [Saves -> SaveRecs] /\ save[s] \in SaveRecs
         /\ epoch \in Nat /\ errors \in Nat /\ save[s].share \in ShareRecs
         /\ save[s].whole \in Seq(Objects) /\ save[s].seen \in Nat /\ save[s].seen <= Len(save[s].whole)
         /\ ShareOK(save[s], epoch) /\ RecordFor(save[s], WantedOf(save[s], save[s].seen))
         /\ WantedOf(save[s], save[s].seen) \in Seq(Objects)
<1>1. PICK r : r = save[s]
  OBVIOUS
<1>2. save \in [Saves -> SaveRecs] /\ epoch \in Nat /\ errors \in Nat
  BY DEF CompressionInv, CompressionTypeOK
<1>3. r \in SaveRecs
  BY <1>1, <1>2
<1>4. r.whole \in Seq(Objects) /\ r.seen \in Nat /\ r.share \in ShareRecs
  BY <1>3, CompressionAssumption DEF SaveRecs, Objects
<1>5. ShareOK(r, epoch) /\ RecordFor(r, WantedOf(r, r.seen))
  BY <1>1 DEF CompressionInv
<1>6. r.seen <= Len(r.whole)
  BY <1>5 DEF RecordFor
<1>7. WantedOf(r, r.seen) \in Seq(Objects)
  BY <1>4, <1>6, NewIsOf DEF WantedOf
<1>8. QED
  BY <1>1, <1>2, <1>3, <1>4, <1>5, <1>6, <1>7

LEMMA PcMoves ==
  ASSUME CompressionInv, NEW s \in Saves, NEW p \in Pcs,
         NEW o \in {"fill", "observe", "failed", "cancelled"}, NEW c \in BOOLEAN,
         NEW q, q = [save[s] EXCEPT !.pc = p, !.outcome = o, !.cancel = c],
         save' = [save EXCEPT ![s] = q], errors' \in Nat, Only(s),
         p \in SharingPcs <=> save[s].pc \in SharingPcs,
         p \in {"wait", "inline", "parallel"} => save[s].pc = p,
         p \notin {"parallel", "shutdown"} => RunningOf(save[s]) = {},
         p = "prepared" => save[s].seen = Len(save[s].whole), p = "release" => o # "observe",
         \/ ~AllWritten(q) \/ AllWritten(save[s])
         \/ (/\ Len(save[s].written) = Len(WantedOf(save[s], save[s].seen))
             /\ save[s].flight = <<>>)
  PROVE  CompressionInv'
<1>1. PICK r, w : r = save[s] /\ w = WantedOf(r, r.seen)
  OBVIOUS
<1>2. r \in SaveRecs /\ ShareOK(r, epoch) /\ RecordFor(r, w) /\ w \in Seq(Objects)
  BY <1>1, SaveFacts
<1>3. q \in SaveRecs
  BY <1>1, <1>2 DEF SaveRecs
<1>4. /\ q.pc = p /\ q.outcome = o /\ q.cancel = c /\ q.whole = r.whole /\ q.seen = r.seen
      /\ q.todo = r.todo /\ q.next = r.next /\ q.flight = r.flight /\ q.written = r.written
      /\ q.share = r.share
  BY <1>1, <1>2 DEF SaveRecs
<1>5. ShareOK(q, epoch)
  BY <1>1, <1>2, <1>4 DEF ShareOK, RunningOf
<1>6. WantedOf(q, q.seen) = w
  BY <1>1, <1>4 DEF WantedOf
<1>7. RecordFor(q, w)
  <2>1. AllWritten(q) => (Len(r.written) = Len(w) /\ r.flight = <<>>)
    BY <1>1, <1>2 DEF RecordFor
  <2>2. r.pc = p \/ p \notin {"wait", "inline", "parallel"}
    BY <1>1
  <2>3. p = "prepared" => r.seen = Len(r.whole)
    BY <1>1
  <2>4. AllWritten(q) => (Len(q.written) = Len(w) /\ q.flight = <<>>)
    BY <1>4, <2>1
  <2>5. q.pc = "prepared" => q.seen = Len(q.whole)
    BY <1>4, <2>3
  <2>6. q.seen <= Len(q.whole) /\ Len(q.written) <= Len(w)
    BY <1>2, <1>4 DEF RecordFor
  <2>7. \A i \in 1..Len(q.written) : q.written[i] = [object |-> w[i], data |-> w[i]]
    BY <1>2, <1>4 DEF RecordFor
  <2>8. q.pc \in {"wait", "inline"} => q.flight = <<>>
    BY <1>2, <1>4, <2>2 DEF RecordFor
  <2>9. Len(q.flight) > 1 => 2 * Bytes(ObjectsOf(q.flight)) <= Quota
    BY <1>2, <1>4 DEF RecordFor
  <2>10. ASSUME q.pc \in {"wait", "inline", "parallel"}
         PROVE  /\ Len(q.todo) > 0 /\ Len(q.todo) <= Len(w)
                /\ Len(q.flight) <= q.next /\ q.next <= Len(q.todo)
                /\ Len(q.written) = Len(w) - Len(q.todo) + q.next - Len(q.flight)
                /\ \A k \in 1..Len(q.todo) : q.todo[k] = w[Len(w) - Len(q.todo) + k]
                /\ \A i \in 1..Len(q.flight) : q.flight[i].object = q.todo[q.next - Len(q.flight) + i]
    <3>1. r.pc \in {"wait", "inline", "parallel"}
      BY <1>4, <2>2, <2>10
    <3>2. QED
      BY <1>2, <1>4, <3>1 DEF RecordFor
  <2>11. QED
    BY <2>4, <2>5, <2>6, <2>7, <2>8, <2>9, <2>10 DEF RecordFor
<1>8. QED
  BY <1>1, <1>3, <1>4, <1>5, <1>6, <1>7, LocalStep

LEMMA AllStoredKeeps ==
  ASSUME CompressionInv, NEW s \in Saves, AllStored(s)
  PROVE  CompressionInv'
<1>1. PICK r : r = save[s] /\ r \in SaveRecs
  BY SaveFacts
<1>2. /\ r.pc = "fill" /\ r.seen = Len(r.whole) /\ Only(s) /\ errors' \in Nat
      /\ save' = [save EXCEPT ![s].pc = "prepared"]
  BY <1>1, SaveFacts DEF AllStored
<1>3. PICK q : q = [r EXCEPT !.pc = "prepared", !.outcome = r.outcome, !.cancel = r.cancel]
  OBVIOUS
<1>4. save' = [save EXCEPT ![s] = q]
  BY <1>1, <1>2, <1>3 DEF SaveRecs
<1>5. RunningOf(r) = {}
  BY <1>1, <1>2, SaveFacts DEF ShareOK
<1>6. AllWritten(r)
  BY <1>2 DEF AllWritten
<1>7. r.outcome \in {"fill", "observe", "failed", "cancelled"} /\ r.cancel \in BOOLEAN
  BY <1>1 DEF SaveRecs
<1>8. "prepared" \in Pcs /\ ("prepared" \in SharingPcs <=> r.pc \in SharingPcs)
  BY <1>2 DEF Pcs, SharingPcs
<1>9. QED
  BY <1>1, <1>2, <1>3, <1>4, <1>5, <1>6, <1>7, <1>8, PcMoves

(* Saves that end, join and are cancelled, and a pool that begins. *)

LEMMA InlineEndsKeeps ==
  ASSUME CompressionInv, NEW s \in Saves, InlineEnds(s)
  PROVE  CompressionInv'
<1>1. PICK r : r = save[s] /\ r \in SaveRecs
  BY SaveFacts
<1>2. /\ r.pc = "inline" /\ r.next = Len(r.todo) /\ Only(s) /\ errors' \in Nat
      /\ save' = [save EXCEPT ![s].pc = "observe"]
  BY <1>1, SaveFacts DEF InlineEnds
<1>3. PICK q : q = [r EXCEPT !.pc = "observe", !.outcome = r.outcome, !.cancel = r.cancel]
  OBVIOUS
<1>4. save' = [save EXCEPT ![s] = q]
  BY <1>1, <1>2, <1>3 DEF SaveRecs
<1>5. RunningOf(r) = {}
  BY <1>1, <1>2, SaveFacts DEF ShareOK
<1>6. Len(r.written) = Len(WantedOf(r, r.seen)) /\ r.flight = <<>>
  <2>1. PICK w : w = WantedOf(r, r.seen) /\ w \in Seq(Objects) /\ RecordFor(r, w)
    BY <1>1, SaveFacts
  <2>2. r.flight = <<>> /\ Len(r.written) = Len(w) - Len(r.todo) + r.next - Len(r.flight)
    BY <1>2, <2>1 DEF RecordFor
  <2>3. Len(r.todo) \in Nat /\ Len(w) \in Nat
    BY <1>1, <2>1 DEF SaveRecs
  <2>4. QED
    BY <1>2, <2>1, <2>2, <2>3
<1>7. r.outcome \in {"fill", "observe", "failed", "cancelled"} /\ r.cancel \in BOOLEAN
  BY <1>1 DEF SaveRecs
<1>8. "observe" \in Pcs /\ ("observe" \in SharingPcs <=> r.pc \in SharingPcs)
  BY <1>2 DEF Pcs, SharingPcs
<1>9. QED
  BY <1>1, <1>2, <1>3, <1>4, <1>5, <1>6, <1>7, <1>8, PcMoves

LEMMA JoinsKeeps ==
  ASSUME CompressionInv, NEW s \in Saves, Joins(s)
  PROVE  CompressionInv'
<1>1. PICK r : r = save[s] /\ r \in SaveRecs
  BY SaveFacts
<1>2. PICK p : p = IF r.outcome = "observe" THEN "observe" ELSE "release"
  OBVIOUS
<1>3. /\ r.pc = "shutdown" /\ RunningOf(r) = {} /\ Only(s) /\ errors' \in Nat
      /\ save' = [save EXCEPT ![s].pc = p]
  <2>1. Tasks(s, "running") = RunningOf(r)
    BY <1>1 DEF Tasks, RunningOf
  <2>2. QED
    BY <1>1, <1>2, <2>1, SaveFacts DEF Joins, PoolIdle
<1>4. PICK q : q = [r EXCEPT !.pc = p, !.outcome = r.outcome, !.cancel = r.cancel]
  OBVIOUS
<1>5. save' = [save EXCEPT ![s] = q]
  BY <1>1, <1>3, <1>4 DEF SaveRecs
<1>6. q.pc = p /\ q.outcome = r.outcome
  BY <1>1, <1>4 DEF SaveRecs
<1>7. AllWritten(q) => AllWritten(r)
  BY <1>2, <1>3, <1>6 DEF AllWritten
<1>8. r.outcome \in {"fill", "observe", "failed", "cancelled"} /\ r.cancel \in BOOLEAN
  BY <1>1 DEF SaveRecs
<1>9. p \in Pcs /\ (p \in SharingPcs <=> r.pc \in SharingPcs) /\ p \in {"observe", "release"}
  BY <1>2, <1>3 DEF Pcs, SharingPcs
<1>10. p \notin {"wait", "inline", "parallel", "prepared"} /\ (p = "release" => r.outcome # "observe")
  BY <1>2, <1>9
<1>11. QED
  BY <1>1, <1>3, <1>4, <1>5, <1>7, <1>8, <1>9, <1>10, PcMoves

LEMMA CancelKeeps ==
  ASSUME CompressionInv, NEW s \in Saves, Cancel(s)
  PROVE  CompressionInv'
<1>1. PICK r : r = save[s] /\ r \in SaveRecs
  BY SaveFacts
<1>2. /\ r.pc \notin {"prepared", "cancelled", "failed"} /\ Only(s) /\ errors' \in Nat
      /\ save' = [save EXCEPT ![s].cancel = TRUE]
  BY <1>1, SaveFacts DEF Cancel, SaveEnded
<1>3. PICK q : q = [r EXCEPT !.pc = r.pc, !.outcome = r.outcome, !.cancel = TRUE]
  OBVIOUS
<1>4. save' = [save EXCEPT ![s] = q]
  BY <1>1, <1>2, <1>3 DEF SaveRecs
<1>5. r.pc \notin {"parallel", "shutdown"} => RunningOf(r) = {}
  BY <1>1, SaveFacts DEF ShareOK
<1>6. q.pc = r.pc /\ q.outcome = r.outcome
  BY <1>1, <1>3 DEF SaveRecs
<1>7. AllWritten(q) => AllWritten(r)
  BY <1>6 DEF AllWritten
<1>8. r.outcome \in {"fill", "observe", "failed", "cancelled"} /\ r.pc \in Pcs /\ TRUE \in BOOLEAN
  BY <1>1 DEF SaveRecs
<1>9. r.pc # "prepared"
  BY <1>2
<1>10. r.pc = "release" => r.outcome # "observe"
  BY <1>1, SaveFacts DEF ShareOK
<1>11. QED
  BY <1>1, <1>2, <1>3, <1>4, <1>5, <1>7, <1>8, <1>9, <1>10, PcMoves

\* What happens to the tasks of a pool.
LEMMA PoolMoves ==
  ASSUME CompressionInv, NEW s \in Saves, NEW q \in SaveRecs, save' = [save EXCEPT ![s] = q],
         errors' \in Nat, Only(s), save[s].pc \in {"parallel", "shutdown"},
         q.pc \in {save[s].pc, "shutdown"}, q.whole = save[s].whole, q.seen = save[s].seen,
         q.todo = save[s].todo, q.next = save[s].next, q.written = save[s].written,
         q.share = save[s].share, Len(q.flight) = Len(save[s].flight),
         \A i \in 1..Len(q.flight) : q.flight[i].object = save[s].flight[i].object,
         Cardinality(RunningOf(q)) <= save[s].share.workers,
         AllWritten(q) => (/\ Len(save[s].written) = Len(WantedOf(save[s], save[s].seen))
                           /\ q.flight = <<>>)
  PROVE  CompressionInv'
<1>1. PICK r, w : r = save[s] /\ w = WantedOf(r, r.seen)
  OBVIOUS
<1>2. r \in SaveRecs /\ ShareOK(r, epoch) /\ RecordFor(r, w) /\ w \in Seq(Objects)
  BY <1>1, SaveFacts
<1>3. PICK p, f : p = q.pc /\ f = q.flight
  OBVIOUS
<1>4. p \in {"parallel", "shutdown"} /\ (p = "parallel" => r.pc = "parallel")
  BY <1>1, <1>3
<1>5. /\ q.pc = p /\ q.whole = r.whole /\ q.seen = r.seen
      /\ q.todo = r.todo /\ q.next = r.next /\ q.flight = f /\ q.written = r.written
      /\ q.share = r.share
  BY <1>1, <1>3
<1>a. Len(f) = Len(r.flight) /\ \A i \in 1..Len(f) : f[i].object = r.flight[i].object
  BY <1>1, <1>3
<1>6. ShareOK(q, epoch)
  <2>1. (q.share # NoShare) <=> q.pc \in SharingPcs
    BY <1>1, <1>2, <1>4, <1>5 DEF ShareOK, SharingPcs
  <2>2. q.pc # "release" /\ q.pc \in {"parallel", "shutdown"} /\ (q.pc = "parallel" => r.pc = "parallel")
    BY <1>4, <1>5
  <2>3. QED
    BY <1>1, <1>2, <1>5, <2>1, <2>2 DEF ShareOK
<1>7. WantedOf(q, q.seen) = w
  BY <1>1, <1>5 DEF WantedOf
<1>8. RecordFor(q, w)
  <2>1. AllWritten(q) => (Len(q.written) = Len(w) /\ q.flight = <<>>)
    BY <1>1, <1>5
  <2>2. q.pc # "prepared" /\ q.pc \notin {"wait", "inline"}
    BY <1>4, <1>5
  <2>3. q.seen <= Len(q.whole) /\ Len(q.written) <= Len(w)
    BY <1>2, <1>5 DEF RecordFor
  <2>4. \A i \in 1..Len(q.written) : q.written[i] = [object |-> w[i], data |-> w[i]]
    BY <1>2, <1>5 DEF RecordFor
  <2>5. Len(q.flight) > 1 => 2 * Bytes(ObjectsOf(q.flight)) <= Quota
    <3>1. DOMAIN f = DOMAIN r.flight /\ DOMAIN f = 1..Len(f)
      BY <1>2, <1>3, <1>a DEF SaveRecs
    <3>2. ObjectsOf(f) = ObjectsOf(r.flight)
      BY <1>a, <3>1 DEF ObjectsOf
    <3>3. QED
      BY <1>1, <1>2, <1>5, <3>2 DEF RecordFor
  <2>6. ASSUME q.pc \in {"wait", "inline", "parallel"}
        PROVE  /\ Len(q.todo) > 0 /\ Len(q.todo) <= Len(w)
               /\ Len(q.flight) <= q.next /\ q.next <= Len(q.todo)
               /\ Len(q.written) = Len(w) - Len(q.todo) + q.next - Len(q.flight)
               /\ \A k \in 1..Len(q.todo) : q.todo[k] = w[Len(w) - Len(q.todo) + k]
               /\ \A i \in 1..Len(q.flight) : q.flight[i].object = q.todo[q.next - Len(q.flight) + i]
    <3>1. r.pc = "parallel"
      BY <1>4, <1>5, <2>6
    <3>2. PICK n : n = Len(f) /\ n = Len(r.flight)
      BY <1>a
    <3>3. /\ Len(r.todo) > 0 /\ Len(r.todo) <= Len(w) /\ n <= r.next /\ r.next <= Len(r.todo)
          /\ Len(r.written) = Len(w) - Len(r.todo) + r.next - n
          /\ \A k \in 1..Len(r.todo) : r.todo[k] = w[Len(w) - Len(r.todo) + k]
          /\ \A i \in 1..n : r.flight[i].object = r.todo[r.next - n + i]
      BY <1>2, <3>1, <3>2 DEF RecordFor
    <3>4. \A i \in 1..n : f[i].object = r.flight[i].object
      BY <1>a, <3>2
    <3>5. \A i \in 1..n : f[i].object = r.todo[r.next - n + i]
      BY <3>3, <3>4
    <3>6. /\ q.todo = r.todo /\ q.flight = f /\ q.next = r.next /\ Len(q.flight) = n
          /\ q.written = r.written
      BY <1>5, <3>2
    <3>7. \A i \in 1..Len(q.flight) : q.flight[i].object = q.todo[q.next - Len(q.flight) + i]
      BY <3>5, <3>6
    <3>8. \A k \in 1..Len(q.todo) : q.todo[k] = w[Len(w) - Len(q.todo) + k]
      BY <3>3, <3>6
    <3>9. /\ Len(q.todo) > 0 /\ Len(q.todo) <= Len(w)
          /\ Len(q.flight) <= q.next /\ q.next <= Len(q.todo)
          /\ Len(q.written) = Len(w) - Len(q.todo) + q.next - Len(q.flight)
      BY <3>3, <3>6
    <3>10. QED
      BY <3>7, <3>8, <3>9
  <2>7. QED
    BY <2>1, <2>2, <2>3, <2>4, <2>5, <2>6 DEF RecordFor
<1>9. QED
  BY <1>1, <1>5, <1>6, <1>7, <1>8, LocalStep

(* Tasks. *)

\* A task of a pool.
Task == [object : Objects, status : {"queued", "running", "done", "failed", "cancelled"}]

LEMMA RunningFinite ==
  ASSUME NEW r \in SaveRecs
  PROVE  /\ IsFiniteSet(RunningOf(r)) /\ Cardinality(RunningOf(r)) \in Nat
         /\ r.flight \in Seq(Task) /\ Len(r.flight) \in Nat /\ DOMAIN r.flight = 1..Len(r.flight)
<1>1. r.flight \in Seq(Task) /\ Len(r.flight) \in Nat /\ DOMAIN r.flight = 1..Len(r.flight)
  BY DEF SaveRecs, Task
<1>2. IsFiniteSet(DOMAIN r.flight)
  <2>1. 1 \in Int /\ Len(r.flight) \in Int
    BY <1>1
  <2>2. QED
    BY <1>1, <2>1, FS_Interval
<1>3. RunningOf(r) \in SUBSET DOMAIN r.flight
  BY DEF RunningOf
<1>4. QED
  BY <1>1, <1>2, <1>3, FS_Subset, FS_CardinalityType

\* The status of one task changes.
LEMMA StatusMoves ==
  ASSUME CompressionInv, NEW s \in Saves, save[s].pc \in {"parallel", "shutdown"},
         NEW i \in DOMAIN save[s].flight,
         NEW t \in {"queued", "running", "done", "failed", "cancelled"},
         save' = [save EXCEPT ![s].flight[i].status = t], errors' \in Nat, Only(s),
         t = "running" => Cardinality(RunningOf(save[s])) < save[s].share.workers
  PROVE  CompressionInv'
<1>1. PICK r : r = save[s] /\ r \in SaveRecs /\ ShareOK(r, epoch)
  BY SaveFacts
<1>2. PICK f : f = [r.flight EXCEPT ![i].status = t]
  OBVIOUS
<1>3. r.flight \in Seq(Task) /\ DOMAIN r.flight = 1..Len(r.flight) /\ i \in 1..Len(r.flight)
  BY <1>1, RunningFinite
<1>4. f \in Seq(Task) /\ Len(f) = Len(r.flight)
  <2>1. r.flight[i] \in Task
    BY <1>3
  <2>2. PICK e : e = [r.flight[i] EXCEPT !.status = t]
    OBVIOUS
  <2>3. e \in Task
    BY <2>1, <2>2 DEF Task
  <2>4. f = [r.flight EXCEPT ![i] = e]
    BY <1>2, <2>2
  <2>5. QED
    BY <1>3, <2>3, <2>4, ReplaceFacts
<1>5. \A k \in 1..Len(f) : /\ f[k].object = r.flight[k].object
                           /\ f[k].status = IF k = i THEN t ELSE r.flight[k].status
  <2>1. TAKE k \in 1..Len(f)
  <2>2. r.flight[k] \in Task /\ k \in DOMAIN r.flight
    BY <1>3, <1>4
  <2>3. CASE k = i
    <3>1. f[k] = [r.flight[k] EXCEPT !.status = t]
      BY <1>2, <2>2, <2>3
    <3>2. QED
      BY <2>2, <2>3, <3>1 DEF Task
  <2>4. CASE k # i
    BY <1>2, <2>2, <2>4
  <2>5. QED
    BY <2>3, <2>4
<1>6. PICK q : q = [r EXCEPT !.pc = r.pc, !.outcome = r.outcome, !.flight = f]
  OBVIOUS
<1>7. q.flight = f /\ q.pc = r.pc /\ q.outcome = r.outcome
  BY <1>1, <1>6 DEF SaveRecs
<1>8. save' = [save EXCEPT ![s] = q]
  BY <1>1, <1>2, <1>6 DEF SaveRecs
<1>9. Cardinality(RunningOf(q)) <= r.share.workers
  <2>1. DOMAIN f = 1..Len(f)
    BY <1>4
  <2>2. IsFiniteSet(RunningOf(r)) /\ Cardinality(RunningOf(r)) \in Nat
    BY <1>1, RunningFinite
  <2>3. Cardinality(RunningOf(r)) <= r.share.workers /\ r.share.workers \in Nat
    BY <1>1 DEF ShareOK, SaveRecs, ShareRecs
  <2>4. CASE t = "running"
    <3>1. RunningOf(q) \in SUBSET (RunningOf(r) \cup {i})
      BY <1>3, <1>4, <1>5, <1>7, <2>1 DEF RunningOf
    <3>2. IsFiniteSet(RunningOf(r) \cup {i}) /\ Cardinality(RunningOf(r) \cup {i}) <= Cardinality(RunningOf(r)) + 1
      <4>1. CASE i \in RunningOf(r)
        <5>1. RunningOf(r) \cup {i} = RunningOf(r)
          BY <4>1
        <5>2. QED
          BY <2>2, <5>1
      <4>2. CASE i \notin RunningOf(r)
        <5>1. IsFiniteSet(RunningOf(r) \cup {i}) /\ Cardinality(RunningOf(r) \cup {i}) = Cardinality(RunningOf(r)) + 1
          BY <2>2, <4>2, FS_AddElement
        <5>2. QED
          BY <2>2, <5>1
      <4>3. QED
        BY <4>1, <4>2
    <3>3. Cardinality(RunningOf(q)) <= Cardinality(RunningOf(r) \cup {i}) /\ IsFiniteSet(RunningOf(q))
      BY <3>1, <3>2, FS_Subset
    <3>4. Cardinality(RunningOf(r)) < r.share.workers
      BY <1>1, <2>4
    <3>5. Cardinality(RunningOf(q)) \in Nat /\ Cardinality(RunningOf(r) \cup {i}) \in Nat
      BY <3>2, <3>3, FS_CardinalityType
    <3>6. QED
      BY <2>2, <2>3, <3>2, <3>3, <3>4, <3>5
  <2>5. CASE t # "running"
    <3>1. RunningOf(q) \in SUBSET RunningOf(r)
      BY <1>3, <1>4, <1>5, <1>7, <2>1, <2>5 DEF RunningOf
    <3>2. Cardinality(RunningOf(q)) <= Cardinality(RunningOf(r)) /\ IsFiniteSet(RunningOf(q))
      BY <2>2, <3>1, FS_Subset
    <3>3. Cardinality(RunningOf(q)) \in Nat
      BY <3>2, FS_CardinalityType
    <3>4. QED
      BY <2>2, <2>3, <3>2, <3>3
  <2>6. QED
    BY <2>4, <2>5
<1>10. ~AllWritten(q)
  <2>1. r.flight # <<>>
    BY <1>3
  <2>2. ~AllWritten(r)
    BY <1>1, <2>1, SaveFacts DEF RecordFor
  <2>3. QED
    BY <1>7, <2>2 DEF AllWritten
<1>11. r.outcome \in {"fill", "observe", "failed", "cancelled"}
  BY <1>1 DEF SaveRecs
<1>12. \A k \in 1..Len(f) : f[k].object = r.flight[k].object
  BY <1>5
<1>13. q \in SaveRecs
  BY <1>1, <1>4, <1>6 DEF SaveRecs, Task
<1>14. /\ q.whole = r.whole /\ q.seen = r.seen /\ q.todo = r.todo /\ q.next = r.next
       /\ q.written = r.written /\ q.share = r.share
  BY <1>1, <1>6 DEF SaveRecs
<1>15. /\ Len(q.flight) = Len(r.flight)
       /\ \A k \in 1..Len(q.flight) : q.flight[k].object = r.flight[k].object
  BY <1>4, <1>7, <1>12
<1>16. QED
  BY <1>1, <1>7, <1>8, <1>9, <1>10, <1>13, <1>14, <1>15, PoolMoves

LEMMA TaskBeginsKeeps ==
  ASSUME CompressionInv, NEW s \in Saves, TaskBegins(s)
  PROVE  CompressionInv'
<1>1. PICK r : r = save[s] /\ r \in SaveRecs
  BY SaveFacts
<1>2. r.flight \in Seq(Task) /\ DOMAIN r.flight = 1..Len(r.flight) /\ Len(r.flight) \in Nat
  BY <1>1, RunningFinite
<1>3. PICK Q : Q = Tasks(s, "queued")
  OBVIOUS
<1>4. Q \in SUBSET Nat /\ Q \in SUBSET DOMAIN r.flight /\ Q # {}
  BY <1>1, <1>2, <1>3 DEF Tasks, TaskBegins
<1>5. IsFiniteSet(Q)
  <2>1. 1 \in Int /\ Len(r.flight) \in Int
    BY <1>2
  <2>2. IsFiniteSet(DOMAIN r.flight)
    BY <1>2, <2>1, FS_Interval
  <2>3. QED
    BY <1>4, <2>2, FS_Subset
<1>6. PICK i : i = Min(Q)
  OBVIOUS
<1>7. i \in DOMAIN r.flight
  BY <1>4, <1>5, <1>6, FirstAndLast
<1>8. Cardinality(RunningOf(r)) < r.share.workers
  <2>1. Tasks(s, "running") = RunningOf(r)
    BY <1>1 DEF Tasks, RunningOf
  <2>2. QED
    BY <1>1, <2>1 DEF TaskBegins
<1>9. PICK t : t = IF save[s].cancel THEN "failed" ELSE "running"
  OBVIOUS
<1>10. /\ save' = [save EXCEPT ![s].flight[i].status = t] /\ Only(s) /\ errors' \in Nat
       /\ save[s].pc = "parallel"
  BY <1>3, <1>6, <1>9, SaveFacts DEF TaskBegins
<1>11. t \in {"queued", "running", "done", "failed", "cancelled"}
  BY <1>9
<1>12. QED
  BY <1>1, <1>7, <1>8, <1>10, <1>11, StatusMoves

LEMMA TaskEndsKeeps ==
  ASSUME CompressionInv, NEW s \in Saves, NEW i, TaskEnds(s, i)
  PROVE  CompressionInv'
<1>1. i \in DOMAIN save[s].flight /\ save[s].flight[i].status = "running"
  BY DEF TaskEnds, Tasks
<1>2. save[s].pc \in {"parallel", "shutdown"}
  <2>1. i \in RunningOf(save[s])
    BY <1>1 DEF RunningOf
  <2>2. QED
    BY <2>1, SaveFacts DEF ShareOK
<1>3. errors' \in Nat /\ Only(s)
  BY SaveFacts DEF TaskEnds, Error
<1>4. CASE save' = [save EXCEPT ![s].flight[i].status = "done"]
  BY <1>1, <1>2, <1>3, <1>4, StatusMoves
<1>5. CASE save' = [save EXCEPT ![s].flight[i].status = "failed"]
  BY <1>1, <1>2, <1>3, <1>5, StatusMoves
<1>6. QED
  BY <1>4, <1>5 DEF TaskEnds

(* Batches that end. *)

\* A pool is shut down.
LEMMA ShutKeeps ==
  ASSUME CompressionInv, NEW s \in Saves, save[s].pc = "parallel",
         NEW o \in {"observe", "failed", "cancelled"}, save' = Shut(s, o), errors' \in Nat, Only(s),
         o = "observe" => (/\ Len(save[s].written) = Len(WantedOf(save[s], save[s].seen))
                           /\ save[s].flight = <<>>)
  PROVE  CompressionInv'
<1>1. PICK r : r = save[s] /\ r \in SaveRecs /\ ShareOK(r, epoch)
  BY SaveFacts
<1>2. PICK f : f = [i \in DOMAIN r.flight |->
                     IF r.flight[i].status = "queued" THEN [r.flight[i] EXCEPT !.status = "cancelled"]
                     ELSE r.flight[i]]
  OBVIOUS
<1>3. r.flight \in Seq(Task) /\ DOMAIN r.flight = 1..Len(r.flight) /\ Len(r.flight) \in Nat
  BY <1>1, RunningFinite
<1>4. \A i \in 1..Len(r.flight) :
        /\ f[i] \in Task /\ f[i].object = r.flight[i].object
        /\ f[i].status = "running" => r.flight[i].status = "running"
  <2>1. TAKE i \in 1..Len(r.flight)
  <2>2. r.flight[i] \in Task /\ i \in DOMAIN r.flight
    BY <1>3
  <2>3. CASE r.flight[i].status = "queued"
    <3>1. f[i] = [r.flight[i] EXCEPT !.status = "cancelled"]
      BY <1>2, <2>2, <2>3
    <3>2. QED
      BY <2>2, <3>1 DEF Task
  <2>4. CASE r.flight[i].status # "queued"
    <3>1. f[i] = r.flight[i]
      BY <1>2, <2>2, <2>4
    <3>2. QED
      BY <2>2, <3>1
  <2>5. QED
    BY <2>3, <2>4
<1>5. f \in Seq(Task) /\ Len(f) = Len(r.flight) /\ DOMAIN f = 1..Len(r.flight)
  <2>1. PICK n \in Nat : n = Len(r.flight)
    BY <1>3
  <2>2. f \in [1..n -> Task]
    BY <1>2, <1>3, <1>4, <2>1
  <2>3. f \in Seq(Task) /\ Len(f) = n /\ DOMAIN f = 1..n
    BY <2>2
  <2>4. QED
    BY <2>1, <2>3
<1>6. PICK q : q = [r EXCEPT !.pc = "shutdown", !.outcome = o, !.flight = f]
  OBVIOUS
<1>7. /\ q.whole = r.whole /\ q.seen = r.seen /\ q.todo = r.todo /\ q.next = r.next
      /\ q.written = r.written /\ q.share = r.share /\ q.pc = "shutdown" /\ q.outcome = o
      /\ q.flight = f
  BY <1>1, <1>6 DEF SaveRecs
<1>8. q \in SaveRecs
  <2>1. o \in {"fill", "observe", "failed", "cancelled"} /\ "shutdown" \in Pcs
    BY DEF Pcs
  <2>2. QED
    BY <1>1, <1>5, <1>6, <2>1 DEF SaveRecs, Task
<1>9. save' = [save EXCEPT ![s] = q]
  <2>1. save' = [save EXCEPT ![s].pc = "shutdown", ![s].outcome = o, ![s].flight = f]
    BY <1>1, <1>2 DEF Shut
  <2>2. QED
    BY <1>1, <1>6, <2>1 DEF SaveRecs
<1>10. Cardinality(RunningOf(q)) <= r.share.workers
  <2>1. RunningOf(q) \in SUBSET RunningOf(r)
    BY <1>3, <1>4, <1>5, <1>7 DEF RunningOf
  <2>2. /\ IsFiniteSet(RunningOf(r)) /\ Cardinality(RunningOf(r)) \in Nat
        /\ Cardinality(RunningOf(q)) \in Nat
    BY <1>1, <1>8, RunningFinite
  <2>3. Cardinality(RunningOf(q)) <= Cardinality(RunningOf(r))
    BY <2>1, <2>2, FS_Subset
  <2>4. Cardinality(RunningOf(r)) <= r.share.workers /\ r.share.workers \in Nat
    BY <1>1 DEF ShareOK, SaveRecs, ShareRecs
  <2>5. QED
    BY <2>2, <2>3, <2>4
<1>11. AllWritten(q) => (/\ Len(r.written) = Len(WantedOf(r, r.seen)) /\ q.flight = <<>>)
  <2>1. AllWritten(q) => o = "observe"
    BY <1>7 DEF AllWritten
  <2>2. r.flight = <<>> => f = <<>>
    <3>1. ASSUME r.flight = <<>> PROVE f = <<>>
      <4>1. Len(f) = 0
        BY <1>5, <3>1
      <4>2. QED
        BY <1>5, <4>1
    <3>2. QED
      BY <3>1
  <2>3. QED
    BY <1>1, <1>7, <2>1, <2>2
<1>12. /\ Len(q.flight) = Len(r.flight)
       /\ \A k \in 1..Len(q.flight) : q.flight[k].object = r.flight[k].object
  BY <1>4, <1>5, <1>7
<1>13. QED
  BY <1>1, <1>7, <1>8, <1>9, <1>10, <1>11, <1>12, PoolMoves

\* A pool that has nothing to do and nothing in flight has written the batch.
LEMMA NothingLeft ==
  ASSUME CompressionInv, NEW s \in Saves, save[s].pc = "parallel", save[s].flight = <<>>, ~TopsUp(s)
  PROVE  Len(save[s].written) = Len(WantedOf(save[s], save[s].seen))
<1>1. PICK r, w : r = save[s] /\ w = WantedOf(r, r.seen) /\ r \in SaveRecs /\ w \in Seq(Objects)
                  /\ RecordFor(r, w) /\ ShareOK(r, epoch)
  BY SaveFacts
<1>2. r.share.workers \in Nat /\ r.share.workers >= 1
  <2>1. r.pc \in SharingPcs
    BY <1>1 DEF SharingPcs
  <2>2. r.share \in ShareRecs
    BY <1>1 DEF SaveRecs
  <2>3. QED
    BY <1>1, <2>1, <2>2 DEF ShareOK, ShareRecs
<1>3. Lookahead \in Nat \ {0}
  BY CompressionAssumption
<1>4. 0 < Lookahead * r.share.workers
  BY <1>2, <1>3
<1>5. Len(r.flight) = 0
  BY <1>1
<1>6. ~(r.next < Len(r.todo))
  BY <1>1, <1>4, <1>5 DEF TopsUp
<1>7. /\ r.next \in Nat /\ Len(r.todo) \in Nat /\ Len(w) \in Nat /\ r.next <= Len(r.todo)
      /\ Len(r.written) = Len(w) - Len(r.todo) + r.next - Len(r.flight)
  <2>1. r.next \in Nat /\ Len(r.todo) \in Nat /\ Len(w) \in Nat
    BY <1>1 DEF SaveRecs
  <2>2. /\ r.next <= Len(r.todo)
        /\ Len(r.written) = Len(w) - Len(r.todo) + r.next - Len(r.flight)
    BY <1>1 DEF RecordFor
  <2>3. QED
    BY <2>1, <2>2
<1>8. r.next = Len(r.todo)
  BY <1>6, <1>7
<1>9. Len(r.written) = Len(w)
  BY <1>5, <1>7, <1>8
<1>10. QED
  BY <1>1, <1>9

LEMMA BatchEndsKeeps ==
  ASSUME CompressionInv, NEW s \in Saves, BatchEnds(s)
  PROVE  CompressionInv'
<1>1. save[s].pc = "parallel" /\ ~TopsUp(s) /\ Only(s) /\ errors' \in Nat
  BY SaveFacts DEF BatchEnds, Error
<1>2. CASE save[s].flight = <<>> /\ save' = Shut(s, "observe")
  <2>1. Len(save[s].written) = Len(WantedOf(save[s], save[s].seen))
    BY <1>1, <1>2, NothingLeft
  <2>2. QED
    BY <1>1, <1>2, <2>1, ShutKeeps
<1>3. CASE save' = Shut(s, "failed")
  BY <1>1, <1>3, ShutKeeps
<1>4. QED
  BY <1>2, <1>3 DEF BatchEnds

LEMMA CancelSeenKeeps ==
  ASSUME CompressionInv, NEW s \in Saves, CancelSeen(s)
  PROVE  CompressionInv'
<1>1. PICK r : r = save[s] /\ r \in SaveRecs
  BY SaveFacts
<1>2. Only(s) /\ errors' \in Nat
  BY SaveFacts DEF CancelSeen
<1>3. r.outcome \in {"fill", "observe", "failed", "cancelled"} /\ r.cancel \in BOOLEAN
  BY <1>1 DEF SaveRecs
<1>4. CASE r.pc \in {"fill", "wait"} /\ save' = [save EXCEPT ![s].pc = "cancelled"]
  <2>1. PICK q : q = [r EXCEPT !.pc = "cancelled", !.outcome = r.outcome, !.cancel = r.cancel]
    OBVIOUS
  <2>2. save' = [save EXCEPT ![s] = q]
    BY <1>1, <1>4, <2>1 DEF SaveRecs
  <2>3. RunningOf(r) = {}
    BY <1>1, <1>4, SaveFacts DEF ShareOK
  <2>4. ~AllWritten(q)
    BY <1>1, <2>1 DEF AllWritten, SaveRecs
  <2>5. "cancelled" \in Pcs /\ ("cancelled" \in SharingPcs <=> r.pc \in SharingPcs)
    BY <1>4 DEF Pcs, SharingPcs
  <2>6. QED
    BY <1>1, <1>2, <1>3, <2>1, <2>2, <2>3, <2>4, <2>5, PcMoves
<1>5. CASE r.pc = "inline" /\ save' = [save EXCEPT ![s].pc = "release", ![s].outcome = "cancelled"]
  <2>1. PICK q : q = [r EXCEPT !.pc = "release", !.outcome = "cancelled", !.cancel = r.cancel]
    OBVIOUS
  <2>2. save' = [save EXCEPT ![s] = q]
    BY <1>1, <1>5, <2>1 DEF SaveRecs
  <2>3. RunningOf(r) = {}
    BY <1>1, <1>5, SaveFacts DEF ShareOK
  <2>4. ~AllWritten(q)
    BY <1>1, <2>1 DEF AllWritten, SaveRecs
  <2>5. "release" \in Pcs /\ ("release" \in SharingPcs <=> r.pc \in SharingPcs)
    BY <1>5 DEF Pcs, SharingPcs
  <2>6. QED
    BY <1>1, <1>2, <1>3, <2>1, <2>2, <2>3, <2>4, <2>5, PcMoves
<1>6. CASE r.pc = "parallel" /\ save' = Shut(s, "cancelled")
  BY <1>1, <1>2, <1>6, ShutKeeps
<1>7. QED
  BY <1>1, <1>4, <1>5, <1>6 DEF CancelSeen

\* A batch r under way, of what is wanted w.
BatchAt(r, w) ==
  /\ r \in SaveRecs /\ w \in Seq(Objects) /\ r.todo \in Seq(Objects) /\ r.flight \in Seq(Task)
  /\ r.written \in Seq([object : Objects, data : Objects])
  /\ r.next \in Nat /\ Len(r.todo) \in Nat /\ Len(w) \in Nat /\ Len(r.flight) \in Nat
  /\ Len(r.todo) <= Len(w) /\ Len(r.flight) <= r.next /\ r.next <= Len(r.todo)
  /\ Len(r.written) \in Nat
  /\ Len(r.written) = Len(w) - Len(r.todo) + r.next - Len(r.flight)
  /\ \A k \in 1..Len(r.todo) : r.todo[k] = w[Len(w) - Len(r.todo) + k]
  /\ \A i \in 1..Len(r.flight) : r.flight[i].object = r.todo[r.next - Len(r.flight) + i]
  /\ \A i \in 1..Len(r.written) : r.written[i] = [object |-> w[i], data |-> w[i]]
  /\ r.pc = "inline" => r.flight = <<>>
  /\ Len(r.flight) > 1 => 2 * Bytes(ObjectsOf(r.flight)) <= Quota

LEMMA StillToWrite ==
  ASSUME NEW a \in Nat, NEW b \in Nat, NEW c \in Nat, NEW d \in Nat, a <= b
  PROVE  c - b + a - d <= c
OBVIOUS

\* A batch goes on: more of it is in flight, or written.
LEMMA BatchGoesOn ==
  ASSUME CompressionInv, NEW s \in Saves, NEW q \in SaveRecs, save' = [save EXCEPT ![s] = q],
         errors' \in Nat, Only(s), save[s].pc \in {"inline", "parallel"},
         q.pc = save[s].pc, q.whole = save[s].whole, q.seen = save[s].seen,
         q.todo = save[s].todo, q.share = save[s].share,
         Cardinality(RunningOf(q)) <= Cardinality(RunningOf(save[s])),
         BatchAt(q, WantedOf(save[s], save[s].seen))
  PROVE  CompressionInv'
<1>1. PICK r, w : r = save[s] /\ w = WantedOf(r, r.seen)
  OBVIOUS
<1>2. r \in SaveRecs /\ ShareOK(r, epoch) /\ RecordFor(r, w) /\ w \in Seq(Objects) /\ BatchAt(q, w)
  BY <1>1, SaveFacts
<1>3. ShareOK(q, epoch)
  <2>1. /\ Cardinality(RunningOf(r)) \in Nat /\ Cardinality(RunningOf(q)) \in Nat
        /\ IsFiniteSet(RunningOf(q)) /\ IsFiniteSet(RunningOf(r))
    BY <1>2, RunningFinite
  <2>2. r.share.workers \in Nat /\ Cardinality(RunningOf(r)) <= r.share.workers
    BY <1>2 DEF ShareOK, SaveRecs, ShareRecs
  <2>3. Cardinality(RunningOf(q)) <= r.share.workers
    BY <1>1, <2>1, <2>2
  <2>4. q.pc \notin {"parallel", "shutdown"} => RunningOf(q) = {}
    <3>1. ASSUME q.pc \notin {"parallel", "shutdown"} PROVE RunningOf(q) = {}
      <4>1. RunningOf(r) = {}
        BY <1>1, <1>2, <3>1 DEF ShareOK
      <4>2. Cardinality(RunningOf(q)) = 0
        BY <1>1, <2>1, <4>1, FS_EmptySet
      <4>3. QED
        BY <2>1, <4>2, FS_EmptySet
    <3>2. QED
      BY <3>1
  <2>5. /\ (q.share # NoShare) <=> (q.pc \in SharingPcs)
        /\ q.share # NoShare => q.share.workers >= 1
        /\ q.pc # "release" /\ q.share.epoch <= epoch
        /\ (q.share.learn /\ q.share.epoch = epoch) => q.share.alone
    BY <1>1, <1>2 DEF ShareOK
  <2>6. QED
    BY <1>1, <2>3, <2>4, <2>5 DEF ShareOK
<1>4. WantedOf(q, q.seen) = w
  BY <1>1 DEF WantedOf
<1>5. RecordFor(q, w)
  <2>1. q.pc \in {"inline", "parallel"} /\ ~AllWritten(q) /\ q.pc \notin {"wait", "prepared"}
    BY DEF AllWritten
  <2>2. q.seen <= Len(q.whole)
    BY <1>1, <1>2 DEF RecordFor
  <2>3. Len(q.todo) > 0
    BY <1>1, <1>2 DEF RecordFor
  <2>4. Len(q.written) <= Len(w)
    <3>1. PICK a, b, c, d \in Nat : a = q.next /\ b = Len(q.todo) /\ c = Len(w) /\ d = Len(q.flight)
      BY <1>2 DEF BatchAt
    <3>2. Len(q.written) = c - b + a - d /\ a <= b
      BY <1>2, <3>1 DEF BatchAt
    <3>3. QED
      BY <3>1, <3>2, StillToWrite
  <2>5. QED
    BY <1>2, <2>1, <2>2, <2>3, <2>4 DEF RecordFor, BatchAt
<1>6. QED
  BY <1>1, <1>3, <1>4, <1>5, LocalStep

\* The record of the next object is written.
LEMMA WrittenGrows ==
  ASSUME NEW w \in Seq(Objects), NEW t \in Seq([object : Objects, data : Objects]), NEW o \in Objects,
         Len(t) < Len(w), w[Len(t) + 1] = o,
         \A i \in 1..Len(t) : t[i] = [object |-> w[i], data |-> w[i]],
         NEW u, u = Append(t, [object |-> o, data |-> o])
  PROVE  /\ u \in Seq([object : Objects, data : Objects]) /\ Len(u) = Len(t) + 1
         /\ \A i \in 1..Len(u) : u[i] = [object |-> w[i], data |-> w[i]]
<1>1. PICK e : e = [object |-> o, data |-> o] /\ e \in [object : Objects, data : Objects]
  OBVIOUS
<1>2. PICK n \in Nat : n = Len(t)
  OBVIOUS
<1>3. /\ u \in Seq([object : Objects, data : Objects]) /\ Len(u) = n + 1 /\ u[n + 1] = e
      /\ \A i \in 1..n : u[i] = t[i]
  BY <1>1, <1>2
<1>4. ASSUME NEW i \in 1..(n + 1) PROVE u[i] = [object |-> w[i], data |-> w[i]]
  <2>1. CASE i = n + 1
    BY <1>1, <1>2, <1>3, <2>1
  <2>2. CASE i # n + 1
    <3>1. i \in 1..n
      BY <2>2
    <3>2. QED
      BY <1>2, <1>3, <3>1
  <2>3. QED
    BY <2>1, <2>2
<1>5. QED
  BY <1>2, <1>3, <1>4

\* Where a batch has got to.
LEMMA BatchFacts ==
  ASSUME CompressionInv, NEW s \in Saves, save[s].pc \in {"inline", "parallel"}
  PROVE  BatchAt(save[s], WantedOf(save[s], save[s].seen))
<1>0. PICK r, w : r = save[s] /\ w = WantedOf(r, r.seen)
  OBVIOUS
<1>1. r \in SaveRecs /\ RecordFor(r, w) /\ w \in Seq(Objects)
  BY <1>0, SaveFacts
<1>2. /\ r.todo \in Seq(Objects) /\ r.flight \in Seq(Task) /\ r.next \in Nat
      /\ r.written \in Seq([object : Objects, data : Objects])
  BY <1>1 DEF SaveRecs, Task
<1>3. Len(r.todo) \in Nat /\ Len(w) \in Nat /\ Len(r.flight) \in Nat /\ Len(r.written) \in Nat
  BY <1>1, <1>2
<1>4. r.pc \in {"wait", "inline", "parallel"}
  BY <1>0
<1>5. BatchAt(r, w)
  BY <1>1, <1>2, <1>3, <1>4 DEF RecordFor, BatchAt
<1>6. QED
  BY <1>0, <1>5

LEMMA WriteInlineKeeps ==
  ASSUME CompressionInv, NEW s \in Saves, WriteInline(s)
  PROVE  CompressionInv'
<1>1. PICK r, w : r = save[s] /\ w = WantedOf(r, r.seen)
  OBVIOUS
<1>2. /\ r.pc = "inline" /\ r.next < Len(r.todo) /\ Only(s) /\ errors' \in Nat
  BY <1>1, SaveFacts DEF WriteInline, Error
<1>3. BatchAt(r, w) /\ r \in SaveRecs
  BY <1>1, <1>2, BatchFacts DEF BatchAt
<1>a. /\ w \in Seq(Objects) /\ r.todo \in Seq(Objects) /\ r.flight = <<>> /\ Len(r.flight) = 0
      /\ r.written \in Seq([object : Objects, data : Objects]) 
      /\ r.next \in Nat /\ Len(r.todo) \in Nat /\ Len(w) \in Nat /\ Len(r.written) \in Nat
  BY <1>2, <1>3 DEF BatchAt
<1>b. PICK place, ofTodo, ofAll, ofWritten \in Nat :
        place = r.next /\ ofTodo = Len(r.todo) /\ ofAll = Len(w) /\ ofWritten = Len(r.written)
  BY <1>a
<1>c. place < ofTodo /\ ofTodo <= ofAll /\ ofWritten = ofAll - ofTodo + place
  BY <1>2, <1>3, <1>a, <1>b DEF BatchAt
<1>4. CASE save' = [save EXCEPT ![s].written = Wrote(s, save[s].todo[save[s].next + 1],
                                                     save[s].todo[save[s].next + 1]),
                                ![s].next = @ + 1]
  <2>1. PICK o : o = r.todo[place + 1]
    OBVIOUS
  <2>2. PICK u : u = Append(r.written, [object |-> o, data |-> o])
    OBVIOUS
  <2>a. place + 1 \in 1..ofTodo /\ ofAll - ofTodo + (place + 1) = ofWritten + 1 /\ ofWritten < ofAll
    BY <1>c
  <2>b. o \in Objects
    BY <1>a, <1>b, <2>1, <2>a
  <2>c. r.todo[place + 1] = w[ofAll - ofTodo + (place + 1)]
    BY <1>3, <1>b, <2>a DEF BatchAt
  <2>3. Len(r.written) < Len(w) /\ w[Len(r.written) + 1] = o
    BY <1>b, <2>1, <2>a, <2>c
  <2>4. \A i \in 1..Len(r.written) : r.written[i] = [object |-> w[i], data |-> w[i]]
    BY <1>3 DEF BatchAt
  <2>5. /\ u \in Seq([object : Objects, data : Objects]) /\ Len(u) = Len(r.written) + 1
        /\ \A i \in 1..Len(u) : u[i] = [object |-> w[i], data |-> w[i]]
    <3>1. PICK t : t = r.written
      OBVIOUS
    <3>2. /\ t \in Seq([object : Objects, data : Objects]) /\ Len(t) < Len(w) /\ w[Len(t) + 1] = o
          /\ \A i \in 1..Len(t) : t[i] = [object |-> w[i], data |-> w[i]]
          /\ u = Append(t, [object |-> o, data |-> o])
      BY <1>a, <2>2, <2>3, <2>4, <3>1
    <3>3. QED
      BY <1>a, <2>b, <3>1, <3>2, WrittenGrows
  <2>6. PICK q : q = [r EXCEPT !.written = u, !.next = r.next + 1]
    OBVIOUS
  <2>7. save' = [save EXCEPT ![s] = q]
    BY <1>1, <1>3, <1>4, <1>b, <2>1, <2>2, <2>6 DEF SaveRecs, Wrote
  <2>8. q \in SaveRecs
    <3>1. r.next + 1 \in Nat
      BY <1>a
    <3>2. QED
      BY <1>3, <2>5, <2>6, <3>1 DEF SaveRecs
  <2>9. /\ q.whole = r.whole /\ q.seen = r.seen /\ q.todo = r.todo /\ q.next = r.next + 1
        /\ q.written = u /\ q.share = r.share /\ q.pc = r.pc /\ q.flight = r.flight
    BY <1>3, <2>6 DEF SaveRecs
  <2>10. RunningOf(q) = RunningOf(r) /\ Cardinality(RunningOf(r)) <= Cardinality(RunningOf(r))
    <3>1. Cardinality(RunningOf(r)) \in Nat
      BY <1>3, RunningFinite
    <3>2. QED
      BY <2>9, <3>1 DEF RunningOf
  <2>11. Len(q.flight) = 0 /\ q.flight = <<>> /\ q.next <= Len(q.todo) /\ Len(q.flight) <= q.next
    BY <1>a, <1>b, <1>c, <2>9
  <2>12. Len(q.written) = Len(w) - Len(q.todo) + q.next - Len(q.flight)
    <3>1. Len(q.written) = ofWritten + 1 /\ q.next = place + 1 /\ Len(q.todo) = ofTodo
      BY <1>b, <2>5, <2>9
    <3>2. QED
      BY <1>b, <1>c, <2>11, <3>1
  <2>13. /\ \A i \in 1..Len(q.written) : q.written[i] = [object |-> w[i], data |-> w[i]]
         /\ \A i \in 1..Len(q.flight) : q.flight[i].object = q.todo[q.next - Len(q.flight) + i]
         /\ ~(Len(q.flight) > 1)
    BY <2>5, <2>9, <2>11
  <2>14. BatchAt(q, w)
    <3>1. /\ Len(q.todo) <= Len(w) /\ Len(q.written) \in Nat /\ q.next \in Nat
          /\ \A k \in 1..Len(q.todo) : q.todo[k] = w[Len(w) - Len(q.todo) + k]
      <4>1. Len(q.todo) <= Len(w) /\ \A k \in 1..Len(q.todo) : q.todo[k] = w[Len(w) - Len(q.todo) + k]
        BY <1>3, <2>9 DEF BatchAt
      <4>2. Len(q.written) \in Nat
        BY <1>a, <2>5, <2>9
      <4>3. q.next \in Nat
        BY <1>a, <2>9
      <4>4. QED
        BY <4>1, <4>2, <4>3
    <3>2. r.flight \in Seq(Task)
      BY <1>3 DEF BatchAt
    <3>3. QED
      BY <1>a, <2>5, <2>8, <2>9, <2>11, <2>12, <2>13, <3>1, <3>2 DEF BatchAt
  <2>15. QED
    BY <1>1, <1>2, <2>7, <2>8, <2>9, <2>10, <2>14, BatchGoesOn
<1>5. CASE save' = [save EXCEPT ![s].pc = "release", ![s].outcome = "failed"]
  <2>1. PICK q : q = [r EXCEPT !.pc = "release", !.outcome = "failed", !.cancel = r.cancel]
    OBVIOUS
  <2>2. save' = [save EXCEPT ![s] = q]
    BY <1>1, <1>3, <1>5, <2>1 DEF SaveRecs
  <2>3. RunningOf(r) = {}
    BY <1>1, <1>2, SaveFacts DEF ShareOK
  <2>4. ~AllWritten(q)
    BY <1>3, <2>1 DEF AllWritten, SaveRecs
  <2>5. "release" \in Pcs /\ ("release" \in SharingPcs <=> r.pc \in SharingPcs) /\ r.cancel \in BOOLEAN
    BY <1>2, <1>3 DEF Pcs, SharingPcs, SaveRecs
  <2>6. QED
    BY <1>1, <1>2, <2>1, <2>2, <2>3, <2>4, <2>5, PcMoves
<1>6. QED
  BY <1>4, <1>5 DEF WriteInline

(* Objects of a batch. *)

LEMMA FirstRemoved ==
  ASSUME NEW T, NEW t \in Seq(T), Len(t) > 0
  PROVE  /\ RemoveAt(t, 1) \in Seq(T) /\ Len(RemoveAt(t, 1)) = Len(t) - 1
         /\ \A i \in 1..(Len(t) - 1) : RemoveAt(t, 1)[i] = t[i + 1]
<1>1. PICK n \in Nat : n = Len(t)
  OBVIOUS
<1>2. PICK u : u = SubSeq(t, 2, Len(t))
  OBVIOUS
<1>3. u \in Seq(T) /\ Len(u) = n - 1 /\ \A i \in 1..(n - 1) : u[i] = t[i + 1]
  <2>1. u = [i \in 1..(n - 1) |-> t[i + 1]]
    BY <1>1, <1>2
  <2>2. \A i \in 1..(n - 1) : t[i + 1] \in T
    BY <1>1
  <2>3. PICK m \in Nat : m = n - 1
    BY <1>1
  <2>4. u \in [1..m -> T]
    BY <2>1, <2>2, <2>3
  <2>5. u \in Seq(T) /\ Len(u) = m
    BY <2>4
  <2>6. QED
    BY <2>1, <2>3, <2>5
<1>4. SubSeq(t, 1, 1 - 1) = <<>>
  BY <1>1
<1>5. RemoveAt(t, 1) = u
  <2>1. RemoveAt(t, 1) = SubSeq(t, 1, 1 - 1) \o SubSeq(t, 1 + 1, Len(t))
    BY DEF RemoveAt
  <2>2. SubSeq(t, 1 + 1, Len(t)) = u
    BY <1>2
  <2>3. <<>> \o u = u
    BY <1>3
  <2>4. QED
    BY <1>4, <2>1, <2>2, <2>3
<1>6. QED
  BY <1>1, <1>3, <1>5

LEMMA OneMore ==
  ASSUME NEW a \in Int, NEW b \in Int, NEW c \in Int
  PROVE  (a + 1) - (b + 1) + c = a - b + c /\ c + a - b = c + (a + 1) - (b + 1)
OBVIOUS

LEMMA OneLess ==
  ASSUME NEW a \in Int, NEW b \in Int
  PROVE  /\ a - b + 1 = a - (b - 1)
         /\ \A c \in Int : a - b + (c + 1) = a - (b - 1) + c
OBVIOUS

\* The objects of some tasks.
LEMMA ObjectsTyped ==
  ASSUME NEW f \in Seq(Task)
  PROVE  /\ ObjectsOf(f) \in Seq(Objects) /\ Len(ObjectsOf(f)) = Len(f)
         /\ \A i \in 1..Len(f) : ObjectsOf(f)[i] = f[i].object
<1>1. PICK n \in Nat : n = Len(f)
  OBVIOUS
<1>2. DOMAIN f = 1..n /\ \A i \in 1..n : f[i] \in Task
  BY <1>1
<1>3. \A i \in 1..n : f[i].object \in Objects
  BY <1>2 DEF Task
<1>4. PICK u : u = ObjectsOf(f)
  OBVIOUS
<1>5. u = [i \in 1..n |-> f[i].object]
  BY <1>2, <1>4 DEF ObjectsOf
<1>6. u \in [1..n -> Objects]
  BY <1>3, <1>5
<1>7. u \in Seq(Objects) /\ Len(u) = n
  BY <1>6
<1>8. QED
  BY <1>1, <1>4, <1>5, <1>7

LEMMA SubmitTaskKeeps ==
  ASSUME CompressionInv, NEW s \in Saves, SubmitTask(s)
  PROVE  CompressionInv'
<1>1. PICK r, w : r = save[s] /\ w = WantedOf(r, r.seen)
  OBVIOUS
<1>2. r.pc = "parallel" /\ r.next < Len(r.todo) /\ Only(s) /\ errors' \in Nat /\ TopsUp(s)
  BY <1>1, SaveFacts DEF SubmitTask, TopsUp
<1>3. BatchAt(r, w) /\ r \in SaveRecs
  BY <1>1, <1>2, BatchFacts DEF BatchAt
<1>4. PICK place, ofTodo, ofAll, ofFlight \in Nat :
        place = r.next /\ ofTodo = Len(r.todo) /\ ofAll = Len(w) /\ ofFlight = Len(r.flight)
  BY <1>3 DEF BatchAt
<1>5. place < ofTodo /\ ofTodo <= ofAll /\ ofFlight <= place
  BY <1>2, <1>3, <1>4 DEF BatchAt
<1>6. PICK o : o = r.todo[place + 1]
  OBVIOUS
<1>7. o \in Objects
  <2>1. r.todo \in Seq(Objects) /\ place + 1 \in 1..Len(r.todo)
    BY <1>3, <1>4, <1>5 DEF BatchAt
  <2>2. QED
    BY <1>6, <2>1
<1>a. PICK e : e = [object |-> o, status |-> "queued"]
  OBVIOUS
<1>8. e = [object |-> o, status |-> "queued"] /\ e \in Task
  BY <1>7, <1>a DEF Task
<1>9. PICK f : f = Append(r.flight, e)
  OBVIOUS
<1>10. r.flight \in Seq(Task) /\ DOMAIN r.flight = 1..ofFlight
  BY <1>3, <1>4 DEF BatchAt
<1>11. /\ f \in Seq(Task) /\ Len(f) = ofFlight + 1 /\ DOMAIN f = 1..(ofFlight + 1) /\ f[ofFlight + 1] = e
       /\ \A i \in 1..ofFlight : f[i] = r.flight[i]
  BY <1>4, <1>8, <1>9, <1>10
<1>12. PICK q : q = [r EXCEPT !.next = r.next + 1, !.flight = f]
  OBVIOUS
<1>13. save' = [save EXCEPT ![s] = q]
  BY <1>1, <1>3, <1>4, <1>6, <1>8, <1>9, <1>12 DEF SubmitTask, SaveRecs
<1>14. q \in SaveRecs
  <2>1. r.next + 1 \in Nat
    BY <1>4
  <2>2. QED
    BY <1>3, <1>11, <1>12, <2>1 DEF SaveRecs, Task
<1>15. /\ q.whole = r.whole /\ q.seen = r.seen /\ q.todo = r.todo /\ q.next = place + 1
       /\ q.written = r.written /\ q.share = r.share /\ q.pc = r.pc /\ q.flight = f
  BY <1>3, <1>4, <1>12 DEF SaveRecs
<1>16. RunningOf(q) = RunningOf(r)
  <2>1. e.status # "running"
    BY <1>8
  <2>2. ASSUME NEW i \in DOMAIN f PROVE f[i].status = "running" <=> (i \in DOMAIN r.flight /\ r.flight[i].status = "running")
    <3>1. CASE i = ofFlight + 1
      BY <1>4, <1>10, <1>11, <2>1, <3>1
    <3>2. CASE i # ofFlight + 1
      <4>1. i \in 1..ofFlight
        BY <1>4, <1>11, <3>2
      <4>2. QED
        BY <1>10, <1>11, <4>1
    <3>3. QED
      BY <3>1, <3>2
  <2>3. DOMAIN r.flight \in SUBSET DOMAIN f
    BY <1>4, <1>10, <1>11
  <2>4. QED
    BY <1>15, <2>2, <2>3 DEF RunningOf
<1>17. Cardinality(RunningOf(q)) <= Cardinality(RunningOf(r))
  <2>1. Cardinality(RunningOf(r)) \in Nat
    BY <1>3, RunningFinite
  <2>2. QED
    BY <1>16, <2>1
<1>18. ASSUME NEW i \in 1..(ofFlight + 1)
       PROVE  f[i].object = r.todo[(place + 1) - (ofFlight + 1) + i]
  <2>1. CASE i = ofFlight + 1
    <3>1. (place + 1) - (ofFlight + 1) + i = place + 1
      BY <1>4, <2>1
    <3>2. f[i].object = o
      BY <1>8, <1>11, <2>1
    <3>3. QED
      BY <1>6, <3>1, <3>2
  <2>2. CASE i # ofFlight + 1
    <3>1. i \in 1..ofFlight /\ (place + 1) - (ofFlight + 1) + i = place - ofFlight + i
      <4>1. i \in 1..ofFlight
        BY <2>2
      <4>2. place \in Int /\ ofFlight \in Int /\ i \in Int
        OBVIOUS
      <4>3. QED
        BY <4>1, <4>2, OneMore
    <3>2. r.flight[i].object = r.todo[place - ofFlight + i]
      BY <1>3, <1>4, <3>1 DEF BatchAt
    <3>3. QED
      BY <1>11, <3>1, <3>2
  <2>3. QED
    BY <2>1, <2>2
<1>19. Len(f) > 1 => 2 * Bytes(ObjectsOf(f)) <= Quota
  <2>1. ASSUME Len(f) > 1 PROVE 2 * Bytes(ObjectsOf(f)) <= Quota
    <3>1. r.flight # <<>>
      BY <1>4, <1>10, <1>11, <2>1
    <3>2. PICK objects : objects = ObjectsOf(r.flight)
      OBVIOUS
    <3>3. 2 * Bytes(Append(objects, o)) <= Quota
      BY <1>1, <1>2, <1>4, <1>6, <3>1, <3>2 DEF TopsUp, ObjectsOf
    <3>4. \A i \in 1..ofFlight : r.flight[i].object \in Objects
      <4>1. \A i \in 1..ofFlight : r.flight[i] \in Task
        BY <1>10
      <4>2. QED
        BY <4>1 DEF Task
    <3>5. objects \in [1..ofFlight -> Objects]
      BY <1>10, <3>2, <3>4 DEF ObjectsOf
    <3>6. objects \in Seq(Objects) /\ Len(objects) = ofFlight
      BY <1>4, <3>5
    <3>7. PICK more : more = Append(objects, o)
      OBVIOUS
    <3>8. /\ more \in Seq(Objects) /\ Len(more) = ofFlight + 1 /\ more[ofFlight + 1] = o
          /\ \A i \in 1..ofFlight : more[i] = objects[i]
      BY <1>7, <3>6, <3>7
    <3>9. ASSUME NEW i \in 1..(ofFlight + 1) PROVE more[i] = f[i].object
      <4>1. CASE i = ofFlight + 1
        BY <1>8, <1>11, <3>8, <4>1
      <4>2. CASE i # ofFlight + 1
        <5>1. i \in 1..ofFlight
          BY <4>2
        <5>2. QED
          BY <1>10, <1>11, <3>2, <3>8, <5>1 DEF ObjectsOf
      <4>3. QED
        BY <4>1, <4>2
    <3>10. ObjectsOf(f) = more
      <4>1. DOMAIN more = 1..(ofFlight + 1)
        BY <3>8
      <4>2. more = [i \in 1..(ofFlight + 1) |-> f[i].object]
        BY <3>8, <3>9, <4>1
      <4>3. QED
        BY <1>11, <4>2 DEF ObjectsOf
    <3>11. QED
      BY <3>3, <3>7, <3>10
  <2>2. QED
    BY <2>1
<1>20. BatchAt(q, w)
  <2>1. /\ Len(q.todo) <= Len(w) /\ \A k \in 1..Len(q.todo) : q.todo[k] = w[Len(w) - Len(q.todo) + k]
        /\ q.todo \in Seq(Objects) /\ Len(q.todo) \in Nat /\ Len(w) \in Nat /\ w \in Seq(Objects)
    BY <1>3, <1>15 DEF BatchAt
  <2>2. /\ Len(q.written) \in Nat /\ q.written \in Seq([object : Objects, data : Objects])
        /\ \A i \in 1..Len(q.written) : q.written[i] = [object |-> w[i], data |-> w[i]]
    BY <1>3, <1>15 DEF BatchAt
  <2>3. /\ q.next \in Nat /\ q.next <= Len(q.todo) /\ Len(q.flight) \in Nat /\ Len(q.flight) <= q.next
        /\ q.flight \in Seq(Task)
    BY <1>4, <1>5, <1>11, <1>15
  <2>4. Len(q.written) = Len(w) - Len(q.todo) + q.next - Len(q.flight)
    <3>1. Len(r.written) = ofAll - ofTodo + place - ofFlight
      BY <1>3, <1>4 DEF BatchAt
    <3>2. ofAll - ofTodo + place - ofFlight = ofAll - ofTodo + (place + 1) - (ofFlight + 1)
      <4>1. ofAll - ofTodo \in Int /\ place \in Int /\ ofFlight \in Int
        OBVIOUS
      <4>2. QED
        BY <4>1, OneMore
    <3>3. QED
      BY <1>4, <1>11, <1>15, <3>1, <3>2
  <2>5. \A i \in 1..Len(q.flight) : q.flight[i].object = q.todo[q.next - Len(q.flight) + i]
    BY <1>11, <1>15, <1>18
  <2>6. q.pc # "inline"
    BY <1>2, <1>15
  <2>7. Len(q.flight) > 1 => 2 * Bytes(ObjectsOf(q.flight)) <= Quota
    BY <1>15, <1>19
  <2>8. QED
    BY <1>14, <2>1, <2>2, <2>3, <2>4, <2>5, <2>6, <2>7 DEF BatchAt
<1>21. QED
  BY <1>1, <1>2, <1>13, <1>14, <1>15, <1>17, <1>20, BatchGoesOn

LEMMA TakeKeeps ==
  ASSUME CompressionInv, NEW s \in Saves, Take(s)
  PROVE  CompressionInv'
<1>1. PICK r, w : r = save[s] /\ w = WantedOf(r, r.seen)
  OBVIOUS
<1>2. /\ r.pc = "parallel" /\ Only(s) /\ errors' \in Nat /\ 1 \in DOMAIN r.flight
      /\ save' = [save EXCEPT ![s].written = Wrote(s, r.todo[r.next - Len(r.flight) + 1], r.flight[1].object),
                              ![s].flight = RemoveAt(@, 1)]
  <2>1. PICK i \in HeadDone(s) :
          save' = [save EXCEPT ![s].written = Wrote(s, r.todo[r.next - Len(r.flight) + 1], r.flight[i].object),
                               ![s].flight = RemoveAt(@, i)]
    BY <1>1 DEF Take
  <2>2. i = 1 /\ i \in DOMAIN r.flight
    BY <1>1 DEF HeadDone, Tasks
  <2>3. r.pc = "parallel" /\ Only(s) /\ errors' \in Nat
    BY <1>1, SaveFacts DEF Take
  <2>4. QED
    BY <2>1, <2>2, <2>3
<1>3. BatchAt(r, w) /\ r \in SaveRecs
  BY <1>1, <1>2, BatchFacts DEF BatchAt
<1>4. PICK place, ofTodo, ofAll, ofFlight \in Nat :
        place = r.next /\ ofTodo = Len(r.todo) /\ ofAll = Len(w) /\ ofFlight = Len(r.flight)
  BY <1>3 DEF BatchAt
<1>5. r.flight \in Seq(Task) /\ DOMAIN r.flight = 1..ofFlight /\ ofFlight > 0
  BY <1>2, <1>3, <1>4 DEF BatchAt
<1>6. place <= ofTodo /\ ofTodo <= ofAll /\ ofFlight <= place
  BY <1>3, <1>4 DEF BatchAt
<1>7. PICK o : o = r.todo[place - ofFlight + 1]
  OBVIOUS
<1>8. r.flight[1].object = o /\ o \in Objects
  <2>1. 1 \in 1..ofFlight
    BY <1>5
  <2>2. r.flight[1].object = o
    BY <1>3, <1>4, <1>7, <2>1 DEF BatchAt
  <2>3. r.flight[1] \in Task
    BY <1>5, <2>1
  <2>4. QED
    BY <2>2, <2>3 DEF Task
<1>9. Len(r.written) = ofAll - ofTodo + place - ofFlight /\ Len(r.written) \in Nat
      /\ r.written \in Seq([object : Objects, data : Objects]) /\ w \in Seq(Objects)
  BY <1>3, <1>4 DEF BatchAt
<1>10. Len(r.written) < Len(w) /\ w[Len(r.written) + 1] = o
  <2>1. place - ofFlight + 1 \in 1..ofTodo
    BY <1>5, <1>6
  <2>2. r.todo[place - ofFlight + 1] = w[ofAll - ofTodo + (place - ofFlight + 1)]
    BY <1>3, <1>4, <2>1 DEF BatchAt
  <2>3. ofAll - ofTodo + (place - ofFlight + 1) = Len(r.written) + 1 /\ Len(r.written) < ofAll
    BY <1>4, <1>5, <1>6, <1>9
  <2>4. QED
    BY <1>4, <1>7, <2>2, <2>3
<1>11. PICK t, u : t = r.written /\ u = Append(t, [object |-> o, data |-> o])
  OBVIOUS
<1>12. /\ u \in Seq([object : Objects, data : Objects]) /\ Len(u) = Len(t) + 1
       /\ \A i \in 1..Len(u) : u[i] = [object |-> w[i], data |-> w[i]]
  <2>1. \A i \in 1..Len(t) : t[i] = [object |-> w[i], data |-> w[i]]
    BY <1>3, <1>11 DEF BatchAt
  <2>2. t \in Seq([object : Objects, data : Objects]) /\ Len(t) < Len(w) /\ w[Len(t) + 1] = o
    BY <1>9, <1>10, <1>11
  <2>3. QED
    BY <1>8, <1>9, <1>11, <2>1, <2>2, WrittenGrows
<1>13. PICK f : f = RemoveAt(r.flight, 1)
  OBVIOUS
<1>14. /\ f \in Seq(Task) /\ Len(f) = ofFlight - 1 /\ DOMAIN f = 1..(ofFlight - 1)
       /\ \A i \in 1..(ofFlight - 1) : f[i] = r.flight[i + 1]
  <2>1. f \in Seq(Task) /\ Len(f) = Len(r.flight) - 1 /\ \A i \in 1..(Len(r.flight) - 1) : f[i] = r.flight[i + 1]
    BY <1>4, <1>5, <1>13, FirstRemoved
  <2>2. QED
    BY <1>4, <2>1
<1>15. PICK q : q = [r EXCEPT !.written = u, !.flight = f]
  OBVIOUS
<1>16. save' = [save EXCEPT ![s] = q]
  BY <1>1, <1>2, <1>3, <1>4, <1>7, <1>8, <1>11, <1>13, <1>15 DEF Wrote, SaveRecs
<1>17. q \in SaveRecs
  BY <1>3, <1>12, <1>14, <1>15 DEF SaveRecs, Task
<1>18. /\ q.whole = r.whole /\ q.seen = r.seen /\ q.todo = r.todo /\ q.next = r.next
       /\ q.written = u /\ q.share = r.share /\ q.pc = r.pc /\ q.flight = f
  BY <1>3, <1>15 DEF SaveRecs
<1>19. Cardinality(RunningOf(q)) <= Cardinality(RunningOf(r))
  <2>1. PICK m : m = [i \in RunningOf(q) |-> i + 1]
    OBVIOUS
  <2>2. \A i \in RunningOf(q) : i \in 1..(ofFlight - 1) /\ f[i].status = "running"
    BY <1>14, <1>18 DEF RunningOf
  <2>3. \A i \in RunningOf(q) : i + 1 \in RunningOf(r)
    <3>1. TAKE i \in RunningOf(q)
    <3>2. i \in 1..(ofFlight - 1) /\ f[i].status = "running"
      BY <2>2
    <3>3. i + 1 \in 1..ofFlight
      BY <3>2
    <3>4. QED
      BY <1>5, <1>14, <3>2, <3>3 DEF RunningOf
  <2>4. m \in [RunningOf(q) -> RunningOf(r)] /\ DOMAIN m = RunningOf(q)
    BY <2>1, <2>3
  <2>5. \A i \in RunningOf(q) : \A j \in RunningOf(q) : m[i] = m[j] => i = j
    BY <2>1, <2>2
  <2>6. m \in Injection(RunningOf(q), RunningOf(r))
    BY <2>4, <2>5 DEF Injection, IsInjective
  <2>7. IsFiniteSet(RunningOf(r))
    BY <1>3, RunningFinite
  <2>8. QED
    BY <2>6, <2>7, FS_Injection
<1>20. Len(f) > 1 => 2 * Bytes(ObjectsOf(f)) <= Quota
  <2>1. ASSUME Len(f) > 1 PROVE 2 * Bytes(ObjectsOf(f)) <= Quota
    <3>1. PICK whole, part : whole = ObjectsOf(r.flight) /\ part = ObjectsOf(f)
      OBVIOUS
    <3>2. 2 * Bytes(whole) <= Quota
      <4>1. Len(r.flight) > 1
        BY <1>4, <1>14, <2>1
      <4>2. QED
        BY <1>3, <3>1, <4>1 DEF BatchAt
    <3>3. whole \in Seq(Objects) /\ Len(whole) = ofFlight /\ \A i \in 1..ofFlight : whole[i] = r.flight[i].object
      BY <1>4, <1>5, <3>1, ObjectsTyped
    <3>4. part \in Seq(Objects) /\ Len(part) = ofFlight - 1 /\ \A i \in 1..(ofFlight - 1) : part[i] = f[i].object
      BY <1>14, <3>1, ObjectsTyped
    <3>5. Len(whole) = Len(part) + 1
      BY <1>4, <3>3, <3>4
    <3>6. ASSUME NEW i \in 1..Len(part) PROVE part[i] = whole[i + 1]
      <4>1. i \in 1..(ofFlight - 1) /\ i + 1 \in 1..ofFlight
        BY <1>4, <3>4
      <4>2. QED
        BY <1>14, <3>3, <3>4, <4>1
    <3>7. Bytes(part) <= Bytes(whole)
      BY <3>3, <3>4, <3>5, <3>6, BytesTail
    <3>8. Bytes(part) \in Nat /\ Bytes(whole) \in Nat /\ Quota \in Nat
      BY <3>3, <3>4, BytesTyped, CompressionAssumption
    <3>9. 2 * Bytes(part) <= Quota
      BY <3>2, <3>7, <3>8
    <3>10. QED
      BY <3>1, <3>9
  <2>2. QED
    BY <2>1
<1>21. BatchAt(q, w)
  <2>1. /\ Len(q.todo) <= Len(w) /\ \A k \in 1..Len(q.todo) : q.todo[k] = w[Len(w) - Len(q.todo) + k]
        /\ q.todo \in Seq(Objects) /\ Len(q.todo) \in Nat /\ Len(w) \in Nat /\ w \in Seq(Objects)
    BY <1>3, <1>18 DEF BatchAt
  <2>2. /\ Len(q.written) \in Nat /\ q.written \in Seq([object : Objects, data : Objects])
        /\ \A i \in 1..Len(q.written) : q.written[i] = [object |-> w[i], data |-> w[i]]
    BY <1>12, <1>18
  <2>3. /\ q.next \in Nat /\ q.next <= Len(q.todo) /\ Len(q.flight) \in Nat /\ Len(q.flight) <= q.next
        /\ q.flight \in Seq(Task)
    BY <1>4, <1>5, <1>6, <1>14, <1>18
  <2>4. Len(q.written) = Len(w) - Len(q.todo) + q.next - Len(q.flight)
    <3>1. Len(q.written) = ofAll - ofTodo + place - ofFlight + 1
      BY <1>9, <1>11, <1>12, <1>18
    <3>2. Len(q.flight) = ofFlight - 1 /\ q.next = place /\ Len(q.todo) = ofTodo
      BY <1>4, <1>14, <1>18
    <3>3. ofAll - ofTodo + place - ofFlight + 1 = ofAll - ofTodo + place - (ofFlight - 1)
      <4>1. ofAll - ofTodo + place \in Int /\ ofFlight \in Int
        OBVIOUS
      <4>2. QED
        BY <4>1, OneLess
    <3>4. QED
      BY <1>4, <3>1, <3>2, <3>3
  <2>5. ASSUME NEW i \in 1..Len(q.flight) PROVE q.flight[i].object = q.todo[q.next - Len(q.flight) + i]
    <3>1. i \in 1..(ofFlight - 1) /\ i + 1 \in 1..ofFlight
      BY <1>14, <1>18
    <3>2. r.flight[i + 1].object = r.todo[place - ofFlight + (i + 1)]
      BY <1>3, <1>4, <3>1 DEF BatchAt
    <3>3. place - ofFlight + (i + 1) = place - (ofFlight - 1) + i
      <4>1. place \in Int /\ ofFlight \in Int /\ i \in Int
        BY <3>1
      <4>2. QED
        BY <4>1, OneLess
    <3>4. QED
      BY <1>4, <1>14, <1>18, <3>1, <3>2, <3>3
  <2>6. q.pc # "inline"
    BY <1>2, <1>18
  <2>7. Len(q.flight) > 1 => 2 * Bytes(ObjectsOf(q.flight)) <= Quota
    BY <1>18, <1>20
  <2>8. QED
    BY <1>17, <2>1, <2>2, <2>3, <2>4, <2>5, <2>6, <2>7 DEF BatchAt
<1>22. QED
  BY <1>1, <1>2, <1>16, <1>17, <1>18, <1>19, <1>21, BatchGoesOn

\* The least of some numbers.
LEMMA LeastOf ==
  ASSUME NEW S \in SUBSET Nat, S # {}
  PROVE  Min(S) \in S /\ \A x \in S : Min(S) <= x
<1>1. PICK x \in S : TRUE
  OBVIOUS
<1>2. PICK T : T = {y \in S : y <= x}
  OBVIOUS
<1>3. T \in SUBSET Nat /\ T \in SUBSET (0..x) /\ x \in T /\ T # {}
  <2>1. x \in Nat /\ x <= x
    BY <1>1
  <2>2. x \in T
    BY <1>1, <1>2, <2>1
  <2>3. \A y \in T : y \in Nat /\ y <= x
    BY <1>2
  <2>4. \A y \in T : y \in 0..x
    BY <2>1, <2>3
  <2>5. QED
    BY <2>2, <2>3, <2>4
<1>4. IsFiniteSet(T)
  <2>1. 0 \in Int /\ x \in Int
    BY <1>1
  <2>2. IsFiniteSet(0..x)
    BY <2>1, FS_Interval
  <2>3. QED
    BY <1>3, <2>2, FS_Subset
<1>5. PICK m : m = Min(T)
  OBVIOUS
<1>6. m \in T /\ \A y \in T : m <= y
  BY <1>3, <1>4, <1>5, FirstAndLast
<1>7. m \in S /\ \A y \in S : m <= y
  <2>1. ASSUME NEW y \in S PROVE m <= y
    <3>1. m \in Nat /\ y \in Nat /\ x \in Nat /\ m <= x
      BY <1>2, <1>3, <1>6
    <3>2. CASE y <= x
      BY <1>2, <1>6, <3>2
    <3>3. CASE ~(y <= x)
      BY <3>1, <3>3
    <3>4. QED
      BY <3>2, <3>3
  <2>2. QED
    BY <1>2, <1>6, <2>1
<1>8. QED
  BY <1>7 DEF Min

\* What is new after a place is new after all that was stored before it.
LEMMA NewSplits ==
  ASSUME NEW w \in Seq(Objects), NEW a \in Nat, NEW b \in Nat, a <= b, b <= Len(w), NEW have,
         \A o : o \in have <=> (o \in Stored \/ \E i \in New(w, 1, a, Stored) : o = w[i])
  PROVE  /\ New(w, 1, b, Stored) = New(w, 1, a, Stored) \cup New(w, a + 1, b, have)
         /\ \A i \in New(w, 1, a, Stored) : \A j \in New(w, a + 1, b, have) : i < j
         /\ New(w, a + 1, b, have) \in SUBSET DOMAIN w /\ New(w, 1, a, Stored) \in SUBSET DOMAIN w
<1>1. DOMAIN w = 1..Len(w) /\ Len(w) \in Nat
  OBVIOUS
<1>2. ASSUME NEW j \in 1..a, w[j] \notin Stored
      PROVE  \E i \in New(w, 1, a, Stored) : w[i] = w[j]
  <2>1. PICK F : F = {i \in 1..a : w[i] = w[j]}
    OBVIOUS
  <2>2. F \in SUBSET Nat /\ F # {}
    BY <2>1
  <2>3. PICK i : i = Min(F)
    OBVIOUS
  <2>4. i \in F /\ \A k \in F : i <= k
    BY <2>2, <2>3, LeastOf
  <2>5. i \in 1..a /\ w[i] = w[j]
    BY <2>1, <2>4
  <2>6. ASSUME NEW k \in 1..(i - 1) PROVE w[k] # w[i]
    <3>1. k \in 1..a /\ ~(i <= k)
      BY <2>5
    <3>2. QED
      BY <2>1, <2>4, <2>5, <3>1
  <2>7. i \in New(w, 1, a, Stored)
    BY <1>2, <2>5, <2>6 DEF New
  <2>8. QED
    BY <2>5, <2>7
<1>3. ASSUME NEW i \in New(w, 1, b, Stored), i > a PROVE i \in New(w, a + 1, b, have)
  <2>1. i \in 1..b /\ w[i] \notin Stored /\ \A j \in 1..(i - 1) : w[j] # w[i]
    BY DEF New
  <2>2. i \in (a + 1)..b
    BY <1>3, <2>1
  <2>3. \A j \in (a + 1)..(i - 1) : w[j] # w[i]
    <3>1. \A j \in (a + 1)..(i - 1) : j \in 1..(i - 1)
      OBVIOUS
    <3>2. QED
      BY <2>1, <3>1
  <2>4. w[i] \notin have
    <3>1. \A j \in New(w, 1, a, Stored) : j \in 1..(i - 1)
      BY <1>3, <2>1 DEF New
    <3>2. QED
      BY <2>1, <3>1
  <2>5. QED
    BY <2>2, <2>3, <2>4 DEF New
<1>4. ASSUME NEW i \in New(w, 1, b, Stored), ~(i > a) PROVE i \in New(w, 1, a, Stored)
  <2>1. i \in 1..b /\ w[i] \notin Stored /\ \A j \in 1..(i - 1) : w[j] # w[i]
    BY DEF New
  <2>2. i \in 1..a
    BY <1>4, <2>1
  <2>3. QED
    BY <2>1, <2>2 DEF New
<1>5. ASSUME NEW i \in New(w, 1, a, Stored) PROVE i \in New(w, 1, b, Stored)
  <2>1. i \in 1..a /\ w[i] \notin Stored /\ \A j \in 1..(i - 1) : w[j] # w[i]
    BY DEF New
  <2>2. i \in 1..b
    BY <2>1
  <2>3. QED
    BY <2>1, <2>2 DEF New
<1>6. ASSUME NEW i \in New(w, a + 1, b, have) PROVE i \in New(w, 1, b, Stored)
  <2>1. i \in (a + 1)..b /\ w[i] \notin have /\ \A j \in (a + 1)..(i - 1) : w[j] # w[i]
    BY DEF New
  <2>2. i \in 1..b /\ w[i] \notin Stored
    BY <2>1
  <2>3. ASSUME NEW j \in 1..(i - 1), w[j] = w[i] PROVE FALSE
    <3>1. CASE j \in 1..a
      <4>1. PICK k \in New(w, 1, a, Stored) : w[k] = w[j]
        BY <1>2, <2>2, <2>3, <3>1
      <4>2. QED
        BY <2>1, <2>3, <4>1
    <3>2. CASE j \notin 1..a
      <4>1. j \in (a + 1)..(i - 1)
        BY <3>2
      <4>2. QED
        BY <2>1, <2>3, <4>1
    <3>3. QED
      BY <3>1, <3>2
  <2>4. QED
    BY <2>2, <2>3 DEF New
<1>7. New(w, 1, b, Stored) = New(w, 1, a, Stored) \cup New(w, a + 1, b, have)
  BY <1>3, <1>4, <1>5, <1>6
<1>8. \A i \in New(w, 1, a, Stored) : i \in 1..a
  BY DEF New
<1>9. \A i \in New(w, a + 1, b, have) : i \in (a + 1)..b
  BY DEF New
<1>10. \A i \in New(w, 1, a, Stored) : \A j \in New(w, a + 1, b, have) : i < j
  BY <1>8, <1>9
<1>11. \A i \in 1..a : i \in DOMAIN w
  BY <1>1
<1>12. \A i \in (a + 1)..b : i \in DOMAIN w
  BY <1>1
<1>13. QED
  BY <1>7, <1>8, <1>9, <1>10, <1>11, <1>12

\* What a sequence has at some places.
LEMMA AtPlacesHas ==
  ASSUME NEW T, NEW s \in Seq(T), NEW places \in SUBSET DOMAIN s
  PROVE  /\ \A k \in 1..Len(AtPlaces(s, places)) : \E i \in places : s[i] = AtPlaces(s, places)[k]
         /\ \A i \in places : \E k \in 1..Len(AtPlaces(s, places)) : AtPlaces(s, places)[k] = s[i]
<1>1. /\ places \in SUBSET Nat /\ IsFiniteSet(places)
      /\ Len(AtPlaces(s, places)) = Cardinality(places)
      /\ \A k \in 1..Cardinality(places) :
           Nth(places, k) \in places /\ AtPlaces(s, places)[k] = s[Nth(places, k)]
  BY AtPlacesTyped
<1>2. ASSUME NEW i \in places
      PROVE  \E k \in 1..Cardinality(places) : AtPlaces(s, places)[k] = s[i]
  <2>1. PICK k : k = UpTo(places, i)
    OBVIOUS
  <2>2. k \in 1..Cardinality(places) /\ Nth(places, k) = i
    BY <1>1, <2>1, UpToBounds, NthUnique
  <2>3. QED
    BY <1>1, <2>2
<1>3. QED
  BY <1>1, <1>2

(* Batches that are filled and flushed. *)

\* A batch ends after where it began.
LEMMA BufferGoesOn ==
  ASSUME NEW s \in Saves, save[s].whole \in Seq(Objects), save[s].seen \in Nat,
         save[s].seen < Len(save[s].whole)
  PROVE  /\ BufferEnd(s) \in Nat /\ save[s].seen < BufferEnd(s)
         /\ BufferEnd(s) <= Len(save[s].whole)
<1>1. PICK whole, from : whole = save[s].whole /\ from = save[s].seen + 1
  OBVIOUS
<1>2. from \in Nat /\ Len(whole) \in Nat /\ from <= Len(whole) /\ from = save[s].seen + 1
  BY <1>1
<1>3. PICK F : F = {n \in from..Len(whole) : BatchFull(SubSeq(whole, from, n))} \cup {Len(whole)}
  OBVIOUS
<1>4. BufferEnd(s) = Min(F)
  BY <1>1, <1>3 DEF BufferEnd
<1>5. F # {} /\ \A n \in F : n \in from..Len(whole)
  <2>1. Len(whole) \in from..Len(whole)
    BY <1>2
  <2>2. QED
    BY <1>3, <2>1
<1>6. F \in SUBSET Nat
  BY <1>2, <1>5
<1>7. Min(F) \in F
  BY <1>5, <1>6, LeastOf
<1>8. Min(F) \in from..Len(whole)
  BY <1>5, <1>7
<1>9. QED
  BY <1>1, <1>2, <1>4, <1>8

LEMMA FlushKeeps ==
  ASSUME CompressionInv, NEW s \in Saves, Flush(s)
  PROVE  CompressionInv'
<1>1. PICK r, w : r = save[s] /\ w = WantedOf(r, r.seen)
  OBVIOUS
<1>2. /\ r.pc = "fill" /\ r.seen < Len(r.whole) /\ Only(s) /\ errors' \in Nat
  BY <1>1, SaveFacts DEF Flush
<1>3. /\ r \in SaveRecs /\ r.whole \in Seq(Objects) /\ r.seen \in Nat /\ w \in Seq(Objects)
      /\ ShareOK(r, epoch) /\ RecordFor(r, w)
  BY <1>1, SaveFacts
<1>4. PICK end, todo : end = BufferEnd(s) /\ todo = AtPlaces(r.whole, New(r.whole, r.seen + 1, end, Have(s)))
  OBVIOUS
<1>5. end \in Nat /\ r.seen < end /\ end <= Len(r.whole)
  BY <1>1, <1>2, <1>3, <1>4, BufferGoesOn
<1>6. /\ Len(r.written) = Len(w) /\ r.flight = <<>>
      /\ \A i \in 1..Len(w) : r.written[i] = [object |-> w[i], data |-> w[i]]
  <2>1. AllWritten(r)
    BY <1>2 DEF AllWritten
  <2>2. Len(r.written) = Len(w) /\ r.flight = <<>>
    BY <1>3, <2>1 DEF RecordFor
  <2>3. \A i \in 1..Len(r.written) : r.written[i] = [object |-> w[i], data |-> w[i]]
    BY <1>3 DEF RecordFor
  <2>4. QED
    BY <2>2, <2>3
<1>7. \A o : o \in Have(s) <=> (o \in Stored \/ \E i \in New(r.whole, 1, r.seen, Stored) : o = r.whole[i])
  <2>1. TAKE o
  <2>2. r.seen <= Len(r.whole)
    BY <1>3, <1>5
  <2>3. New(r.whole, 1, r.seen, Stored) \in SUBSET DOMAIN r.whole
    BY <1>3, <2>2, NewIsOf
  <2>4. (\E i \in 1..Len(w) : w[i] = o) <=> (\E i \in New(r.whole, 1, r.seen, Stored) : r.whole[i] = o)
    <3>1. PICK P : P = New(r.whole, 1, r.seen, Stored)
      OBVIOUS
    <3>2. P \in SUBSET DOMAIN r.whole /\ w = AtPlaces(r.whole, P)
      BY <1>1, <2>3, <3>1 DEF WantedOf
    <3>3. (\E k \in 1..Len(w) : w[k] = o) <=> (\E i \in P : r.whole[i] = o)
      <4>1. PICK whole : whole = r.whole
        OBVIOUS
      <4>2. whole \in Seq(Objects) /\ P \in SUBSET DOMAIN whole
        BY <1>3, <3>2, <4>1
      <4>3. w = AtPlaces(whole, P)
        BY <3>2, <4>1
      <4>4. /\ \A k \in 1..Len(AtPlaces(whole, P)) : \E i \in P : whole[i] = AtPlaces(whole, P)[k]
            /\ \A i \in P : \E k \in 1..Len(AtPlaces(whole, P)) : AtPlaces(whole, P)[k] = whole[i]
        BY <4>2, AtPlacesHas
      <4>5. /\ \A k \in 1..Len(w) : \E i \in P : whole[i] = w[k]
            /\ \A i \in P : \E k \in 1..Len(w) : w[k] = whole[i]
        BY <4>3, <4>4, Zenon
      <4>6. QED
        BY <4>1, <4>5
    <3>4. QED
      BY <3>1, <3>3
  <2>5. DOMAIN r.written = 1..Len(w)
    BY <1>3, <1>6 DEF SaveRecs
  <2>6. ASSUME NEW i \in 1..Len(w) PROVE r.written[i].object = w[i]
    <3>1. r.written[i] = [object |-> w[i], data |-> w[i]]
      BY <1>6
    <3>2. QED
      BY <3>1
  <2>7. o \in {item.object : item \in Range(r.written)} <=> \E i \in 1..Len(w) : w[i] = o
    BY <2>5, <2>6 DEF Range
  <2>8. o \in Have(s) <=> (o \in Stored \/ o \in {item.object : item \in Range(r.written)})
    BY <1>1 DEF Have
  <2>9. QED
    BY <2>4, <2>7, <2>8
<1>8. PICK A, B, C : /\ A = New(r.whole, 1, r.seen, Stored) /\ B = New(r.whole, r.seen + 1, end, Have(s))
                     /\ C = New(r.whole, 1, end, Stored)
  OBVIOUS
<1>9. /\ C = A \cup B /\ A \in SUBSET DOMAIN r.whole /\ B \in SUBSET DOMAIN r.whole
      /\ \A a \in A : \A b \in B : a < b
  <2>1. r.seen <= end
    BY <1>3, <1>5
  <2>2. PICK have : have = Have(s)
    OBVIOUS
  <2>3. \A o : o \in have <=> (o \in Stored \/ \E i \in New(r.whole, 1, r.seen, Stored) : o = r.whole[i])
    BY <1>7, <2>2
  <2>4. QED
    BY <1>3, <1>5, <1>8, <2>1, <2>2, <2>3, NewSplits
<1>10. /\ w = AtPlaces(r.whole, A) /\ todo = AtPlaces(r.whole, B)
       /\ todo \in Seq(Objects)
  <2>1. w = AtPlaces(r.whole, A) /\ todo = AtPlaces(r.whole, B)
    BY <1>1, <1>4, <1>8 DEF WantedOf
  <2>2. AtPlaces(r.whole, B) \in Seq(Objects)
    BY <1>3, <1>9, AtPlacesTyped
  <2>3. QED
    BY <2>1, <2>2
<1>11. PICK v : v = AtPlaces(r.whole, C)
  OBVIOUS
<1>12. v = w \o todo
  <2>1. AtPlaces(r.whole, A) \o AtPlaces(r.whole, B) = AtPlaces(r.whole, A \cup B)
    BY <1>3, <1>9, AtPlacesJoin
  <2>2. QED
    BY <1>9, <1>10, <1>11, <2>1
<1>13. /\ v \in Seq(Objects) /\ Len(v) = Len(w) + Len(todo) /\ Len(w) \in Nat /\ Len(todo) \in Nat
       /\ \A k \in 1..(Len(w) + Len(todo)) : v[k] = IF k <= Len(w) THEN w[k] ELSE todo[k - Len(w)]
  BY <1>3, <1>10, <1>12, JoinFacts
<1>14. PICK p : p = IF todo = <<>> THEN "fill" ELSE "wait"
  OBVIOUS
<1>15. PICK q : q = [r EXCEPT !.seen = end, !.todo = todo, !.next = 0, !.pc = p]
  OBVIOUS
<1>16. save' = [save EXCEPT ![s] = q]
  BY <1>1, <1>3, <1>4, <1>14, <1>15 DEF Flush, SaveRecs
<1>17. p \in Pcs /\ p \in {"fill", "wait"}
  BY <1>14 DEF Pcs
<1>18. q \in SaveRecs
  BY <1>3, <1>5, <1>10, <1>15, <1>17 DEF SaveRecs
<1>19. /\ q.whole = r.whole /\ q.seen = end /\ q.todo = todo /\ q.next = 0 /\ q.pc = p
       /\ q.flight = r.flight /\ q.written = r.written /\ q.share = r.share
  BY <1>3, <1>15 DEF SaveRecs
<1>20. ShareOK(q, epoch)
  <2>1. p \notin SharingPcs /\ r.pc \notin SharingPcs /\ p \notin {"parallel", "shutdown", "release"}
    BY <1>2, <1>17 DEF SharingPcs
  <2>2. RunningOf(q) = RunningOf(r) /\ RunningOf(r) = {}
    BY <1>2, <1>3, <1>19 DEF ShareOK, RunningOf
  <2>3. QED
    BY <1>3, <1>19, <2>1, <2>2 DEF ShareOK
<1>21. WantedOf(q, q.seen) = v
  BY <1>8, <1>11, <1>19 DEF WantedOf
<1>22. RecordFor(q, v)
  <2>1. Len(q.flight) = 0 /\ q.flight = <<>> /\ q.written = r.written /\ Len(q.written) = Len(w)
    BY <1>6, <1>19
  <2>2. q.seen <= Len(q.whole) /\ Len(q.written) <= Len(v)
    BY <1>5, <1>13, <1>19, <2>1
  <2>3. \A i \in 1..Len(q.written) : q.written[i] = [object |-> v[i], data |-> v[i]]
    <3>1. TAKE i \in 1..Len(q.written)
    <3>2. i \in 1..Len(w) /\ v[i] = w[i]
      BY <1>13, <2>1
    <3>3. QED
      BY <1>6, <2>1, <3>2
  <2>4. ~(Len(q.flight) > 1)
    BY <2>1
  <2>5. CASE todo = <<>>
    <3>1. q.pc = "fill" /\ Len(todo) = 0
      BY <1>14, <1>19, <2>5
    <3>2. Len(q.written) = Len(v)
      BY <1>13, <2>1, <3>1
    <3>3. q.pc \notin {"prepared", "wait", "inline", "parallel"}
      BY <3>1
    <3>4. QED
      BY <2>1, <2>2, <2>3, <2>4, <3>2, <3>3 DEF RecordFor
  <2>6. CASE todo # <<>>
    <3>1. q.pc = "wait" /\ ~AllWritten(q)
      BY <1>14, <1>19, <2>6 DEF AllWritten
    <3>2. Len(todo) > 0
      BY <1>10, <2>6
    <3>3. ASSUME NEW k \in 1..Len(todo) PROVE todo[k] = v[Len(v) - Len(todo) + k]
      <4>1. Len(v) - Len(todo) + k = Len(w) + k
        BY <1>13
      <4>2. Len(w) + k \in 1..(Len(w) + Len(todo)) /\ ~(Len(w) + k <= Len(w)) /\ Len(w) + k - Len(w) = k
        BY <1>13
      <4>3. v[Len(w) + k] = todo[k]
        BY <1>13, <4>2
      <4>4. QED
        BY <4>1, <4>3
    <3>4. /\ Len(q.todo) > 0 /\ Len(q.todo) <= Len(v) /\ Len(q.flight) <= q.next /\ q.next <= Len(q.todo)
          /\ Len(q.written) = Len(v) - Len(q.todo) + q.next - Len(q.flight)
      BY <1>13, <1>19, <2>1, <3>2
    <3>5. /\ \A k \in 1..Len(q.todo) : q.todo[k] = v[Len(v) - Len(q.todo) + k]
          /\ \A i \in 1..Len(q.flight) : q.flight[i].object = q.todo[q.next - Len(q.flight) + i]
      BY <1>19, <2>1, <3>3
    <3>6. q.pc # "prepared"
      BY <3>1
    <3>7. QED
      BY <2>1, <2>2, <2>3, <2>4, <3>1, <3>4, <3>5, <3>6 DEF RecordFor
  <2>7. QED
    BY <2>5, <2>6
<1>23. QED
  BY <1>1, <1>2, <1>16, <1>18, <1>19, <1>20, <1>21, <1>22, LocalStep

(* Shares that are observed, released and reserved. *)

LEMMA ObserveKeeps ==
  ASSUME CompressionInv, NEW s \in Saves, Observe(s)
  PROVE  CompressionInv'
<1>1. PICK r, w : r = save[s] /\ w = WantedOf(r, r.seen)
  OBVIOUS
<1>2. /\ r \in SaveRecs /\ w \in Seq(Objects) /\ ShareOK(r, epoch) /\ RecordFor(r, w)
      /\ r.share \in ShareRecs /\ errors \in Nat
  BY <1>1, SaveFacts
<1>3. PICK sample : sample = [workers |-> r.share.workers, alone |-> r.share.alone]
  OBVIOUS
<1>4. /\ r.pc = "observe" /\ active' = active /\ epoch' = epoch /\ policy' = policy /\ errors' \in Nat
      /\ samples' = IF r.share.learn /\ r.share.epoch = epoch THEN samples \cup {sample} ELSE samples
      /\ save' = [save EXCEPT ![s].pc = "release", ![s].outcome = "fill"]
  BY <1>1, <1>2, <1>3 DEF Observe
<1>5. sample \in [workers : Nat, alone : BOOLEAN] /\ sample.alone = r.share.alone
  BY <1>2, <1>3 DEF ShareRecs
<1>6. samples' \in SUBSET [workers : Nat, alone : BOOLEAN]
  BY <1>4, <1>5 DEF CompressionInv, CompressionTypeOK
<1>7. SamplesAlone'
  <2>1. \A other \in samples : other.alone
    BY DEF CompressionInv, SamplesAlone
  <2>2. CASE r.share.learn /\ r.share.epoch = epoch
    <3>1. r.share.alone
      BY <1>2, <2>2 DEF ShareOK
    <3>2. samples' = samples \cup {sample}
      BY <1>4, <2>2
    <3>3. QED
      BY <1>5, <2>1, <3>1, <3>2 DEF SamplesAlone
  <2>3. CASE ~(r.share.learn /\ r.share.epoch = epoch)
    BY <1>4, <2>1, <2>3 DEF SamplesAlone
  <2>4. QED
    BY <2>2, <2>3
<1>8. PICK q : q = [r EXCEPT !.pc = "release", !.outcome = "fill"]
  OBVIOUS
<1>9. save' = [save EXCEPT ![s] = q]
  BY <1>1, <1>2, <1>4, <1>8 DEF SaveRecs
<1>10. "release" \in Pcs /\ "release" \in SharingPcs /\ r.pc \in SharingPcs
  BY <1>4 DEF Pcs, SharingPcs
<1>11. q \in SaveRecs
  BY <1>2, <1>8, <1>10 DEF SaveRecs
<1>12. /\ q.whole = r.whole /\ q.seen = r.seen /\ q.todo = r.todo /\ q.next = r.next
       /\ q.written = r.written /\ q.share = r.share /\ q.pc = "release" /\ q.outcome = "fill"
       /\ q.flight = r.flight
  BY <1>2, <1>8 DEF SaveRecs
<1>13. ShareOK(q, epoch)
  <2>1. RunningOf(q) = RunningOf(r)
    BY <1>12 DEF RunningOf
  <2>2. r.pc \notin {"parallel", "shutdown"}
    BY <1>4
  <2>3. QED
    BY <1>2, <1>10, <1>12, <2>1, <2>2 DEF ShareOK
<1>14. WantedOf(q, q.seen) = w
  BY <1>1, <1>12 DEF WantedOf
<1>15. RecordFor(q, w)
  <2>1. AllWritten(r)
    BY <1>4 DEF AllWritten
  <2>2. Len(q.written) = Len(w) /\ q.flight = <<>>
    BY <1>2, <1>12, <2>1 DEF RecordFor
  <2>3. q.pc \notin {"prepared", "wait", "inline", "parallel"}
    BY <1>12
  <2>4. q.seen <= Len(q.whole) /\ Len(q.written) <= Len(w)
    BY <1>2, <1>12 DEF RecordFor
  <2>5. \A i \in 1..Len(q.written) : q.written[i] = [object |-> w[i], data |-> w[i]]
    BY <1>2, <1>12 DEF RecordFor
  <2>6. ~(Len(q.flight) > 1)
    BY <2>2
  <2>7. QED
    BY <2>2, <2>3, <2>4, <2>5, <2>6 DEF RecordFor
<1>16. QED
  BY <1>1, <1>4, <1>6, <1>7, <1>9, <1>11, <1>12, <1>13, <1>14, <1>15, OneSaveMoves

\* What is shared, counted.
LEMMA SharesFacts ==
  ASSUME CompressionInv
  PROVE  /\ active \in [workers : Nat, bytes : Nat, batches : Nat] /\ IsFiniteSet(Saves)
         /\ [t \in Saves |-> save[t].share.workers] \in [Saves -> Nat]
         /\ [t \in Saves |-> save[t].share.bytes] \in [Saves -> Nat]
         /\ active.workers = Total([t \in Saves |-> save[t].share.workers])
         /\ active.bytes = Total([t \in Saves |-> save[t].share.bytes])
         /\ active.batches = Cardinality(Sharing) /\ IsFiniteSet(Sharing) /\ Sharing \in SUBSET Saves
         /\ active.workers <= CpuBudget /\ (active.batches > 1 => active.bytes <= MemoryBudget)
<1>1. \A t \in Saves : save[t].share \in ShareRecs
  BY SaveFacts
<1>2. \A t \in Saves : save[t].share.workers \in Nat /\ save[t].share.bytes \in Nat
  BY <1>1 DEF ShareRecs
<1>3. IsFiniteSet(Saves)
  BY CompressionAssumption
<1>4. Sharing \in SUBSET Saves
  BY DEF Sharing
<1>5. IsFiniteSet(Sharing)
  BY <1>3, <1>4, FS_Subset
<1>6. /\ active.workers = Total([t \in Saves |-> save[t].share.workers])
      /\ active.bytes = Total([t \in Saves |-> save[t].share.bytes])
      /\ active.batches = Cardinality(Sharing)
  BY DEF CompressionInv, SharesAdd
<1>7. /\ active \in [workers : Nat, bytes : Nat, batches : Nat] /\ active.workers <= CpuBudget
      /\ (active.batches > 1 => active.bytes <= MemoryBudget)
  BY DEF CompressionInv, CompressionTypeOK
<1>8. QED
  BY <1>2, <1>3, <1>4, <1>5, <1>6, <1>7

\* One share changes.
LEMMA ShareChanges ==
  ASSUME CompressionInv, NEW s \in Saves, save' \in [Saves -> SaveRecs],
         \A t \in Saves : t # s => (/\ save'[t].share.workers = save[t].share.workers
                                    /\ save'[t].share.bytes = save[t].share.bytes)
  PROVE  /\ [t \in Saves |-> save'[t].share.workers] \in [Saves -> Nat]
         /\ [t \in Saves |-> save'[t].share.bytes] \in [Saves -> Nat]
         /\ Total([t \in Saves |-> save'[t].share.workers]) \in Nat
         /\ Total([t \in Saves |-> save'[t].share.bytes]) \in Nat
         /\ Total([t \in Saves |-> save'[t].share.workers]) + save[s].share.workers
              = active.workers + save'[s].share.workers
         /\ Total([t \in Saves |-> save'[t].share.bytes]) + save[s].share.bytes
              = active.bytes + save'[s].share.bytes
<1>1. \A t \in Saves : save'[t].share \in ShareRecs
  BY DEF SaveRecs
<1>2. \A t \in Saves : save'[t].share.workers \in Nat /\ save'[t].share.bytes \in Nat
  BY <1>1 DEF ShareRecs
<1>3. PICK f, g : f = [t \in Saves |-> save[t].share.workers] /\ g = [t \in Saves |-> save'[t].share.workers]
  OBVIOUS
<1>4. PICK h, k : h = [t \in Saves |-> save[t].share.bytes] /\ k = [t \in Saves |-> save'[t].share.bytes]
  OBVIOUS
<1>5. IsFiniteSet(Saves) /\ f \in [Saves -> Nat] /\ h \in [Saves -> Nat]
      /\ active.workers = Total(f) /\ active.bytes = Total(h)
  BY <1>3, <1>4, SharesFacts
<1>6. g \in [Saves -> Nat] /\ k \in [Saves -> Nat]
  BY <1>2, <1>3, <1>4
<1>7. /\ \A t \in Saves : t # s => g[t] = f[t]
      /\ \A t \in Saves : t # s => k[t] = h[t]
  BY <1>3, <1>4
<1>8. Total(g) + f[s] = Total(f) + g[s]
  BY <1>5, <1>6, <1>7, TotalChanges
<1>9. Total(k) + h[s] = Total(h) + k[s]
  BY <1>5, <1>6, <1>7, TotalChanges
<1>10. Total(g) \in Nat /\ Total(k) \in Nat
  BY <1>5, <1>6, TotalTyped
<1>11. /\ f[s] = save[s].share.workers /\ g[s] = save'[s].share.workers
       /\ h[s] = save[s].share.bytes /\ k[s] = save'[s].share.bytes
  BY <1>3, <1>4
<1>12. QED
  BY <1>3, <1>4, <1>5, <1>6, <1>8, <1>9, <1>10, <1>11

LEMMA ReleaseKeeps ==
  ASSUME CompressionInv, NEW s \in Saves, Release(s)
  PROVE  CompressionInv'
<1>1. PICK r, w : r = save[s] /\ w = WantedOf(r, r.seen)
  OBVIOUS
<1>2. /\ save \in [Saves -> SaveRecs] /\ r \in SaveRecs /\ w \in Seq(Objects) /\ ShareOK(r, epoch)
      /\ RecordFor(r, w) /\ r.share \in ShareRecs /\ errors \in Nat /\ epoch \in Nat
  BY <1>1, SaveFacts
<1>3. /\ r.pc = "release" /\ epoch' = epoch /\ samples' = samples /\ policy' = policy /\ errors' = errors
      /\ active' = [workers |-> active.workers - r.share.workers, bytes |-> active.bytes - r.share.bytes,
                    batches |-> active.batches - 1]
      /\ save' = [save EXCEPT ![s].share = NoShare, ![s].pc = r.outcome]
  BY <1>1 DEF Release
<1>4. r.outcome \in {"fill", "failed", "cancelled"} /\ r.outcome \in Pcs /\ r.outcome \notin SharingPcs
  BY <1>2, <1>3 DEF ShareOK, SaveRecs, Pcs, SharingPcs
<1>5. PICK q : q = [r EXCEPT !.share = NoShare, !.pc = r.outcome]
  OBVIOUS
<1>6. save' = [save EXCEPT ![s] = q]
  BY <1>1, <1>2, <1>3, <1>5 DEF SaveRecs
<1>7. NoShare \in ShareRecs /\ NoShare.workers = 0 /\ NoShare.bytes = 0
  BY DEF NoShare, ShareRecs
<1>8. q \in SaveRecs
  BY <1>2, <1>4, <1>5, <1>7 DEF SaveRecs
<1>9. /\ q.whole = r.whole /\ q.seen = r.seen /\ q.todo = r.todo /\ q.next = r.next
      /\ q.written = r.written /\ q.share = NoShare /\ q.pc = r.outcome /\ q.outcome = r.outcome
      /\ q.flight = r.flight
  BY <1>2, <1>5 DEF SaveRecs
<1>10. save' \in [Saves -> SaveRecs] /\ save'[s] = q /\ \A t \in Saves : t # s => save'[t] = save[t]
  BY <1>2, <1>6, <1>8
<1>11. ShareOK(q, epoch)
  <2>1. RunningOf(q) = RunningOf(r) /\ RunningOf(r) = {}
    BY <1>2, <1>3, <1>9 DEF ShareOK, RunningOf
  <2>2. Cardinality(RunningOf(q)) = 0
    BY <2>1, FS_EmptySet
  <2>3. q.pc # "release" /\ q.pc \notin SharingPcs
    BY <1>4, <1>9
  <2>4. /\ q.share.workers = 0 /\ q.share.epoch = 0 /\ q.share.learn = FALSE
    BY <1>9 DEF NoShare
  <2>5. QED
    BY <1>2, <1>9, <2>1, <2>2, <2>3, <2>4 DEF ShareOK
<1>12. RecordFor(q, w)
  <2>1. AllWritten(q) => AllWritten(r)
    BY <1>3, <1>4, <1>9 DEF AllWritten
  <2>2. AllWritten(q) => (Len(q.written) = Len(w) /\ q.flight = <<>>)
    BY <1>2, <1>9, <2>1 DEF RecordFor
  <2>3. q.pc \notin {"prepared", "wait", "inline", "parallel"}
    BY <1>4, <1>9
  <2>4. q.seen <= Len(q.whole) /\ Len(q.written) <= Len(w)
    BY <1>2, <1>9 DEF RecordFor
  <2>5. \A i \in 1..Len(q.written) : q.written[i] = [object |-> w[i], data |-> w[i]]
    BY <1>2, <1>9 DEF RecordFor
  <2>6. Len(q.flight) > 1 => 2 * Bytes(ObjectsOf(q.flight)) <= Quota
    BY <1>2, <1>9 DEF RecordFor
  <2>7. QED
    BY <2>2, <2>3, <2>4, <2>5, <2>6 DEF RecordFor
<1>13. /\ active \in [workers : Nat, bytes : Nat, batches : Nat]
       /\ active.batches = Cardinality(Sharing) /\ IsFiniteSet(Sharing) /\ Sharing \in SUBSET Saves
       /\ active.workers <= CpuBudget /\ (active.batches > 1 => active.bytes <= MemoryBudget)
  BY SharesFacts
<1>14. PICK workers, bytes : /\ workers = Total([t \in Saves |-> save'[t].share.workers])
                             /\ bytes = Total([t \in Saves |-> save'[t].share.bytes])
  OBVIOUS
<1>15. /\ workers \in Nat /\ bytes \in Nat /\ workers + r.share.workers = active.workers + 0
       /\ bytes + r.share.bytes = active.bytes + 0
  <2>1. \A t \in Saves : t # s => (/\ save'[t].share.workers = save[t].share.workers
                                   /\ save'[t].share.bytes = save[t].share.bytes)
    BY <1>10
  <2>2. save'[s].share.workers = 0 /\ save'[s].share.bytes = 0
    BY <1>7, <1>9, <1>10
  <2>3. QED
    BY <1>1, <1>10, <1>14, <2>1, <2>2, ShareChanges
<1>16. Sharing' = Sharing \ {s} /\ s \in Sharing
  <2>1. r.share # NoShare
    BY <1>2, <1>3 DEF ShareOK, SharingPcs
  <2>2. \A t \in Saves : (save'[t].share # NoShare) <=> (t # s /\ save[t].share # NoShare)
    BY <1>9, <1>10
  <2>3. QED
    BY <1>1, <2>1, <2>2 DEF Sharing
<1>17. Cardinality(Sharing') = Cardinality(Sharing) - 1 /\ Cardinality(Sharing') \in Nat
  <2>1. IsFiniteSet(Sharing \ {s}) /\ Cardinality(Sharing \ {s}) = Cardinality(Sharing) - 1
    BY <1>13, <1>16, FS_RemoveElement
  <2>2. QED
    BY <1>16, <2>1, FS_CardinalityType
<1>18. /\ r.share.workers \in Nat /\ r.share.bytes \in Nat /\ active.workers \in Nat
       /\ active.bytes \in Nat /\ active.batches \in Nat /\ MemoryBudget \in Nat /\ CpuBudget \in Nat
  BY <1>2, <1>13, CompressionAssumption DEF ShareRecs
<1>19. workers = active.workers - r.share.workers /\ bytes = active.bytes - r.share.bytes
  BY <1>15, <1>18
<1>20. active' = [workers |-> workers, bytes |-> bytes, batches |-> Cardinality(Sharing')]
  BY <1>3, <1>13, <1>17, <1>19
<1>21. CompressionTypeOK'
  <2>1. active' \in [workers : Nat, bytes : Nat, batches : Nat]
    BY <1>15, <1>17, <1>20
  <2>2. QED
    BY <1>3, <1>10, <2>1 DEF CompressionInv, CompressionTypeOK
<1>22. SharesAdd'
  BY <1>14, <1>20 DEF SharesAdd
<1>23. (active.workers <= CpuBudget)' /\ (active.batches > 1 => active.bytes <= MemoryBudget)'
  <2>1. active'.workers = workers /\ active'.bytes = bytes /\ active'.batches = active.batches - 1
    BY <1>13, <1>17, <1>20
  <2>2. workers <= CpuBudget
    BY <1>13, <1>18, <1>19
  <2>3. active.batches - 1 > 1 => bytes <= MemoryBudget
    BY <1>13, <1>18, <1>19
  <2>4. QED
    BY <2>1, <2>2, <2>3
<1>24. \A t \in Saves : ShareOK(save'[t], epoch)
  BY <1>10, <1>11 DEF CompressionInv
<1>25. (\A t \in Saves : ShareOK(save[t], epoch))'
  BY <1>3, <1>24 DEF ShareOK, RunningOf, NoShare
<1>26. \A t \in Saves : RecordFor(save'[t], WantedOf(save'[t], save'[t].seen))
  <2>1. WantedOf(q, q.seen) = w
    BY <1>1, <1>9 DEF WantedOf
  <2>2. QED
    BY <1>10, <1>12, <2>1 DEF CompressionInv
<1>27. (\A t \in Saves : RecordFor(save[t], WantedOf(save[t], save[t].seen)))'
  BY <1>26
<1>28. SamplesAlone'
  BY <1>3 DEF CompressionInv, SamplesAlone
<1>29. QED
  BY <1>21, <1>22, <1>23, <1>25, <1>27, <1>28 DEF CompressionInv

\* What the cost model chooses is a number of workers.
LEMMA DesiredWorkers ==
  ASSUME NEW todo \in Seq(Objects), Len(todo) > 0, policy.max \in Nat \ {0}, NEW d \in Desired(todo)
  PROVE  d \in Nat /\ d >= 1
<1>1. PICK limit : limit = Min({policy.max, CpuBudget, Len(todo)})
  OBVIOUS
<1>2. limit \in Nat \ {0}
  <2>1. Len(todo) \in Nat \ {0} /\ CpuBudget \in Nat \ {0}
    BY CompressionAssumption
  <2>2. PICK F : F = {policy.max, CpuBudget, Len(todo)}
    OBVIOUS
  <2>3. F \in SUBSET Nat /\ F # {} /\ \A n \in F : n \in Nat \ {0}
    BY <2>1, <2>2
  <2>4. Min(F) \in F
    BY <2>3, LeastOf
  <2>5. QED
    BY <1>1, <2>2, <2>3, <2>4
<1>3. \A n \in WorkerChoices(limit) : n \in Nat \ {0}
  <2>1. PICK C, U : /\ C = {1, limit} \cup {n \in {2, 4, 8} : n <= limit}
                    /\ U = {n \in C : \A sample \in samples : sample.workers # n}
    OBVIOUS
  <2>2. WorkerChoices(limit) = IF U = {} THEN C ELSE {Min(U)}
    BY <2>1 DEF WorkerChoices
  <2>3. \A n \in C : n \in Nat \ {0}
    BY <1>2, <2>1
  <2>4. U \in SUBSET Nat /\ \A n \in U : n \in Nat \ {0}
    BY <2>1, <2>3
  <2>5. CASE U = {}
    BY <2>2, <2>3, <2>5
  <2>6. CASE U # {}
    <3>1. Min(U) \in U
      BY <2>4, <2>6, LeastOf
    <3>2. QED
      BY <2>2, <2>4, <2>6, <3>1
  <2>7. QED
    BY <2>5, <2>6
<1>4. d \in {1} \/ d \in WorkerChoices(limit) \/ d \in {limit}
  BY <1>1 DEF Desired
<1>5. QED
  BY <1>2, <1>3, <1>4

\* Another batch has joined.
LEMMA NoLongerAlone ==
  ASSUME NEW r \in SaveRecs, NEW e \in Nat, ShareOK(r, e), NEW q, q = [r EXCEPT !.share.alone = FALSE]
  PROVE  /\ q \in SaveRecs
         /\ q.whole = r.whole /\ q.seen = r.seen /\ q.todo = r.todo /\ q.next = r.next
         /\ q.written = r.written /\ q.pc = r.pc /\ q.outcome = r.outcome /\ q.flight = r.flight
         /\ q.share.workers = r.share.workers /\ q.share.bytes = r.share.bytes
         /\ q.share.epoch = r.share.epoch /\ q.share.learn = r.share.learn
         /\ q.share # NoShare <=> r.share # NoShare
<1>1. PICK share : share = [r.share EXCEPT !.alone = FALSE]
  OBVIOUS
<1>2. r.share \in ShareRecs
  BY DEF SaveRecs
<1>3. /\ share \in ShareRecs /\ share.workers = r.share.workers /\ share.bytes = r.share.bytes
      /\ share.epoch = r.share.epoch /\ share.learn = r.share.learn
  BY <1>1, <1>2 DEF ShareRecs
<1>4. q = [r EXCEPT !.share = share]
  BY <1>1
<1>5. q \in SaveRecs
  BY <1>3, <1>4 DEF SaveRecs
<1>6. /\ q.whole = r.whole /\ q.seen = r.seen /\ q.todo = r.todo /\ q.next = r.next
      /\ q.written = r.written /\ q.pc = r.pc /\ q.outcome = r.outcome /\ q.flight = r.flight
      /\ q.share = share
  BY <1>4 DEF SaveRecs
<1>7. share # NoShare <=> r.share # NoShare
  <2>1. CASE r.share = NoShare
    <3>1. share = NoShare
      <4>1. r.share = [workers |-> 0, bytes |-> 0, epoch |-> 0, learn |-> FALSE, alone |-> FALSE]
        BY <2>1 DEF NoShare
      <4>2. share = [workers |-> 0, bytes |-> 0, epoch |-> 0, learn |-> FALSE, alone |-> FALSE]
        <5>1. /\ share.workers = 0 /\ share.bytes = 0 /\ share.epoch = 0 /\ share.learn = FALSE
              /\ share.alone = FALSE
          BY <1>1, <1>2, <1>3, <4>1 DEF ShareRecs
        <5>2. share = [workers |-> share.workers, bytes |-> share.bytes, epoch |-> share.epoch,
                       learn |-> share.learn, alone |-> share.alone]
          BY <1>3 DEF ShareRecs
        <5>3. QED
          BY <5>1, <5>2
      <4>3. QED
        BY <4>2 DEF NoShare
    <3>2. QED
      BY <2>1, <3>1
  <2>2. CASE r.share # NoShare
    <3>1. r.share.workers >= 1
      BY <2>2 DEF ShareOK
    <3>2. NoShare.workers = 0
      BY DEF NoShare
    <3>3. share # NoShare
      BY <1>3, <3>1, <3>2
    <3>4. QED
      BY <2>2, <3>3
  <2>3. QED
    BY <2>1, <2>2
<1>8. QED
  BY <1>3, <1>5, <1>6, <1>7

LEMMA ReserveKeeps ==
  ASSUME CompressionInv, NEW s \in Saves, Reserve(s)
  PROVE  CompressionInv'
<1>1. PICK r, w : r = save[s] /\ w = WantedOf(r, r.seen)
  OBVIOUS
<1>2. /\ save \in [Saves -> SaveRecs] /\ r \in SaveRecs /\ w \in Seq(Objects) /\ ShareOK(r, epoch)
      /\ RecordFor(r, w) /\ r.share \in ShareRecs /\ errors \in Nat /\ epoch \in Nat
  BY <1>1, SaveFacts
<1>3. PICK todo, size : todo = r.todo /\ size = 2 * Bytes(todo)
  OBVIOUS
<1>4. /\ r.pc = "wait" /\ active.workers < CpuBudget /\ Fits(size) /\ epoch' = Contention
      /\ samples' = samples /\ policy' = policy /\ errors' = errors
  BY <1>1, <1>3 DEF Reserve
<1>5. /\ active \in [workers : Nat, bytes : Nat, batches : Nat]
      /\ active.batches = Cardinality(Sharing) /\ IsFiniteSet(Sharing) /\ Sharing \in SUBSET Saves
      /\ active.workers <= CpuBudget /\ (active.batches > 1 => active.bytes <= MemoryBudget)
  BY SharesFacts
<1>6. PICK desired \in Desired(todo) : \E workers, learn, new :
        /\ workers = Min({desired, CpuBudget - active.workers})
        /\ learn \in BOOLEAN /\ (learn => active.batches = 0)
        /\ active' = [workers |-> active.workers + workers, bytes |-> active.bytes + size,
                      batches |-> active.batches + 1]
        /\ new = [r EXCEPT
             !.share = [workers |-> workers, bytes |-> size, epoch |-> epoch', learn |-> learn,
                        alone |-> active.batches = 0],
             !.pc = IF Parallel(todo) /\ workers > 1 THEN "parallel" ELSE "inline"]
        /\ save' = Joined(s, new)
  <2>1. PICK desired \in Desired(todo) :
          LET workers == Min({desired, CpuBudget - active.workers})
              learn == /\ Parallel(todo) /\ policy.mode = "auto"
                       /\ workers = desired /\ active.batches = 0
          IN /\ active' = [workers |-> active.workers + workers, bytes |-> active.bytes + size,
                           batches |-> active.batches + 1]
             /\ save' = Joined(s, [r EXCEPT
                  !.share = [workers |-> workers, bytes |-> size, epoch |-> epoch', learn |-> learn,
                             alone |-> active.batches = 0],
                  !.pc = IF Parallel(todo) /\ workers > 1 THEN "parallel" ELSE "inline"])
    BY <1>1, <1>3 DEF Reserve
  <2>2. PICK workers : workers = Min({desired, CpuBudget - active.workers})
    OBVIOUS
  <2>3. PICK learn : learn = (/\ Parallel(todo) /\ policy.mode = "auto"
                              /\ workers = desired /\ active.batches = 0)
    OBVIOUS
  <2>4. learn \in BOOLEAN /\ (learn => active.batches = 0)
    BY <2>3
  <2>5. PICK new : new = [r EXCEPT
             !.share = [workers |-> workers, bytes |-> size, epoch |-> epoch', learn |-> learn,
                        alone |-> active.batches = 0],
             !.pc = IF Parallel(todo) /\ workers > 1 THEN "parallel" ELSE "inline"]
    OBVIOUS
  <2>6. /\ active' = [workers |-> active.workers + workers, bytes |-> active.bytes + size,
                      batches |-> active.batches + 1]
        /\ save' = Joined(s, new)
    BY <2>1, <2>2, <2>3, <2>5
  <2>7. QED
    BY <2>2, <2>4, <2>5, <2>6
<1>7. PICK workers, learn, q :
        /\ workers = Min({desired, CpuBudget - active.workers})
        /\ learn \in BOOLEAN /\ (learn => active.batches = 0)
        /\ active' = [workers |-> active.workers + workers, bytes |-> active.bytes + size,
                      batches |-> active.batches + 1]
        /\ q = [r EXCEPT
             !.share = [workers |-> workers, bytes |-> size, epoch |-> epoch', learn |-> learn,
                        alone |-> active.batches = 0],
             !.pc = IF Parallel(todo) /\ workers > 1 THEN "parallel" ELSE "inline"]
        /\ save' = Joined(s, q)
  BY <1>6
<1>8. todo \in Seq(Objects) /\ Len(todo) > 0
  BY <1>2, <1>3, <1>4 DEF SaveRecs, RecordFor
<1>9. size \in Nat
  <2>1. Bytes(todo) \in Nat
    BY <1>8, BytesTyped
  <2>2. QED
    BY <1>3, <2>1
<1>10. /\ active.workers \in Nat /\ active.bytes \in Nat /\ active.batches \in Nat
       /\ MemoryBudget \in Nat /\ CpuBudget \in Nat
  BY <1>5, CompressionAssumption
<1>11. workers \in Nat /\ workers >= 1 /\ workers <= CpuBudget - active.workers
  <2>1. desired \in Nat /\ desired >= 1
    <3>1. policy.max \in Nat \ {0}
      BY DEF CompressionInv, CompressionTypeOK
    <3>2. QED
      BY <1>6, <1>8, <3>1, DesiredWorkers
  <2>2. PICK free : free = CpuBudget - active.workers
    OBVIOUS
  <2>3. free \in Nat /\ free >= 1
    BY <1>4, <1>10, <2>2
  <2>4. PICK F : F = {desired, free}
    OBVIOUS
  <2>5. F \in SUBSET Nat /\ F # {}
    BY <2>1, <2>3, <2>4
  <2>6. Min(F) \in F /\ Min(F) <= free
    BY <2>4, <2>5, LeastOf
  <2>7. workers = Min(F)
    BY <1>7, <2>2, <2>4
  <2>8. QED
    BY <2>1, <2>2, <2>3, <2>4, <2>6, <2>7
<1>12. epoch' \in Nat /\ epoch <= epoch' /\ (active.batches > 0 => epoch < epoch')
  BY <1>2, <1>4 DEF Contention
<1>13. PICK share : share = [workers |-> workers, bytes |-> size, epoch |-> epoch', learn |-> learn,
                             alone |-> active.batches = 0]
  OBVIOUS
<1>14. /\ share \in ShareRecs /\ share.workers = workers /\ share.bytes = size /\ share.epoch = epoch'
       /\ share.learn = learn /\ share.alone = (active.batches = 0)
  BY <1>7, <1>9, <1>11, <1>12, <1>13 DEF ShareRecs
<1>15. share # NoShare
  <2>1. NoShare.workers = 0
    BY DEF NoShare
  <2>2. QED
    BY <1>11, <1>14, <2>1
<1>16. PICK p : p = IF Parallel(todo) /\ workers > 1 THEN "parallel" ELSE "inline"
  OBVIOUS
<1>17. p \in {"parallel", "inline"} /\ p \in Pcs /\ p \in SharingPcs
  BY <1>16 DEF Pcs, SharingPcs
<1>18. q = [r EXCEPT !.share = share, !.pc = p]
  BY <1>7, <1>13, <1>16
<1>19. q \in SaveRecs
  BY <1>2, <1>14, <1>17, <1>18 DEF SaveRecs
<1>20. /\ q.whole = r.whole /\ q.seen = r.seen /\ q.todo = r.todo /\ q.next = r.next
       /\ q.written = r.written /\ q.share = share /\ q.pc = p /\ q.flight = r.flight
  BY <1>2, <1>18 DEF SaveRecs
<1>21. ShareOK(q, epoch')
  <2>1. RunningOf(q) = RunningOf(r) /\ RunningOf(r) = {}
    BY <1>2, <1>4, <1>20 DEF ShareOK, RunningOf
  <2>2. Cardinality(RunningOf(q)) = 0
    BY <2>1, FS_EmptySet
  <2>3. learn => share.alone
    BY <1>7, <1>14
  <2>4. q.pc # "release" /\ q.pc \in SharingPcs
    BY <1>17, <1>20
  <2>5. QED
    BY <1>11, <1>12, <1>14, <1>15, <1>20, <2>1, <2>2, <2>3, <2>4 DEF ShareOK
<1>22. RecordFor(q, w)
  <2>1. /\ r.flight = <<>> /\ q.flight = <<>> /\ ~AllWritten(q)
    BY <1>2, <1>4, <1>17, <1>20 DEF RecordFor, AllWritten
  <2>2. q.pc \notin {"prepared", "wait"} /\ r.pc \in {"wait", "inline", "parallel"}
    BY <1>4, <1>17, <1>20
  <2>3. q.seen <= Len(q.whole) /\ Len(q.written) <= Len(w)
    BY <1>2, <1>20 DEF RecordFor
  <2>4. \A i \in 1..Len(q.written) : q.written[i] = [object |-> w[i], data |-> w[i]]
    BY <1>2, <1>20 DEF RecordFor
  <2>5. /\ Len(q.todo) > 0 /\ Len(q.todo) <= Len(w)
        /\ Len(q.flight) <= q.next /\ q.next <= Len(q.todo)
        /\ Len(q.written) = Len(w) - Len(q.todo) + q.next - Len(q.flight)
    BY <1>2, <1>20, <2>2 DEF RecordFor
  <2>6. /\ \A k \in 1..Len(q.todo) : q.todo[k] = w[Len(w) - Len(q.todo) + k]
        /\ \A i \in 1..Len(q.flight) : q.flight[i].object = q.todo[q.next - Len(q.flight) + i]
    BY <1>2, <1>20, <2>2 DEF RecordFor
  <2>7. Len(q.flight) > 1 => 2 * Bytes(ObjectsOf(q.flight)) <= Quota
    BY <2>1
  <2>8. QED
    BY <2>1, <2>2, <2>3, <2>4, <2>5, <2>6, <2>7 DEF RecordFor
<1>23. /\ DOMAIN save' = Saves /\ save'[s] = q
       /\ \A t \in Saves : t # s => save'[t] = [save[t] EXCEPT !.share.alone = FALSE]
  <2>1. save' = [t \in Saves |-> IF t = s THEN q ELSE [save[t] EXCEPT !.share.alone = FALSE]]
    BY <1>7 DEF Joined
  <2>2. QED
    BY <2>1
<1>24. ASSUME NEW t \in Saves, t # s
       PROVE  /\ save'[t] \in SaveRecs
              /\ save'[t].share.workers = save[t].share.workers
              /\ save'[t].share.bytes = save[t].share.bytes
              /\ (save'[t].share # NoShare) <=> (save[t].share # NoShare)
              /\ ShareOK(save'[t], epoch')
              /\ RecordFor(save'[t], WantedOf(save'[t], save'[t].seen))
  <2>1. PICK a, b, v : a = save[t] /\ b = save'[t] /\ v = WantedOf(a, a.seen)
    OBVIOUS
  <2>2. a \in SaveRecs /\ ShareOK(a, epoch) /\ RecordFor(a, v) /\ a.share \in ShareRecs
    BY <2>1, SaveFacts
  <2>3. b = [a EXCEPT !.share.alone = FALSE]
    BY <1>23, <1>24, <2>1
  <2>4. /\ b \in SaveRecs
        /\ b.whole = a.whole /\ b.seen = a.seen /\ b.todo = a.todo /\ b.next = a.next
        /\ b.written = a.written /\ b.pc = a.pc /\ b.outcome = a.outcome /\ b.flight = a.flight
        /\ b.share.workers = a.share.workers /\ b.share.bytes = a.share.bytes
        /\ b.share.epoch = a.share.epoch /\ b.share.learn = a.share.learn
        /\ b.share # NoShare <=> a.share # NoShare
    <3>1. epoch \in Nat /\ a \in SaveRecs /\ ShareOK(a, epoch)
      BY <1>2, <2>2
    <3>2. QED
      BY <2>3, <3>1, NoLongerAlone, ZenonT(30)
  <2>5. ShareOK(b, epoch')
    <3>1. RunningOf(b) = RunningOf(a)
      BY <2>4 DEF RunningOf
    <3>2. ~(b.share.learn /\ b.share.epoch = epoch')
      <4>1. CASE active.batches > 0
        <5>1. a.share.epoch \in Nat /\ a.share.epoch <= epoch
          BY <2>2 DEF ShareOK, ShareRecs
        <5>2. QED
          BY <1>2, <1>12, <2>4, <4>1, <5>1
      <4>2. CASE ~(active.batches > 0)
        <5>1. Cardinality(Sharing) = 0
          BY <1>5, <1>10, <4>2
        <5>2. Sharing = {}
          BY <1>5, <5>1, FS_EmptySet
        <5>3. a.share = NoShare
          BY <2>1, <5>2 DEF Sharing
        <5>4. a.share.learn = FALSE
          BY <5>3 DEF NoShare
        <5>5. QED
          BY <2>4, <5>4
      <4>3. QED
        BY <4>1, <4>2
    <3>3. b.share.epoch <= epoch'
      <4>1. a.share.epoch \in Nat /\ a.share.epoch <= epoch
        BY <2>2 DEF ShareOK, ShareRecs
      <4>2. QED
        BY <1>2, <1>12, <2>4, <4>1
    <3>4. /\ (b.share # NoShare) <=> (b.pc \in SharingPcs)
          /\ b.share # NoShare => b.share.workers >= 1
          /\ b.pc = "release" => b.outcome # "observe"
          /\ Cardinality(RunningOf(b)) <= b.share.workers
          /\ b.pc \notin {"parallel", "shutdown"} => RunningOf(b) = {}
      BY <2>2, <2>4, <3>1 DEF ShareOK
    <3>5. QED
      BY <3>2, <3>3, <3>4 DEF ShareOK
  <2>6. WantedOf(b, b.seen) = v
    BY <2>1, <2>4 DEF WantedOf
  <2>7. RecordFor(b, v)
    <3>1. AllWritten(b) <=> AllWritten(a)
      BY <2>4 DEF AllWritten
    <3>2. AllWritten(b) => (Len(b.written) = Len(v) /\ b.flight = <<>>)
      BY <2>2, <2>4, <3>1 DEF RecordFor
    <3>3. /\ b.seen <= Len(b.whole) /\ Len(b.written) <= Len(v)
          /\ b.pc = "prepared" => b.seen = Len(b.whole)
          /\ b.pc \in {"wait", "inline"} => b.flight = <<>>
      BY <2>2, <2>4 DEF RecordFor
    <3>4. \A i \in 1..Len(b.written) : b.written[i] = [object |-> v[i], data |-> v[i]]
      BY <2>2, <2>4 DEF RecordFor
    <3>5. Len(b.flight) > 1 => 2 * Bytes(ObjectsOf(b.flight)) <= Quota
      BY <2>2, <2>4 DEF RecordFor
    <3>6. ASSUME b.pc \in {"wait", "inline", "parallel"}
          PROVE  /\ Len(b.todo) > 0 /\ Len(b.todo) <= Len(v)
                 /\ Len(b.flight) <= b.next /\ b.next <= Len(b.todo)
                 /\ Len(b.written) = Len(v) - Len(b.todo) + b.next - Len(b.flight)
                 /\ \A k \in 1..Len(b.todo) : b.todo[k] = v[Len(v) - Len(b.todo) + k]
                 /\ \A i \in 1..Len(b.flight) : b.flight[i].object = b.todo[b.next - Len(b.flight) + i]
      <4>1. a.pc \in {"wait", "inline", "parallel"}
        BY <2>4, <3>6
      <4>2. QED
        BY <2>2, <2>4, <4>1 DEF RecordFor
    <3>7. QED
      BY <3>2, <3>3, <3>4, <3>5, <3>6 DEF RecordFor
  <2>8. QED
    BY <2>1, <2>4, <2>5, <2>6, <2>7
<1>25. save' \in [Saves -> SaveRecs]
  <2>1. \A t \in Saves : save'[t] \in SaveRecs
    BY <1>19, <1>23, <1>24
  <2>2. save' = [t \in Saves |-> save'[t]]
    BY <1>7 DEF Joined
  <2>3. QED
    BY <2>1, <2>2
<1>26. PICK sum, bytes : /\ sum = Total([t \in Saves |-> save'[t].share.workers])
                         /\ bytes = Total([t \in Saves |-> save'[t].share.bytes])
  OBVIOUS
<1>27. r.share = NoShare /\ r.share.workers = 0 /\ r.share.bytes = 0
  <2>1. r.share = NoShare
    BY <1>2, <1>4 DEF ShareOK, SharingPcs
  <2>2. QED
    BY <2>1 DEF NoShare
<1>28. /\ sum \in Nat /\ bytes \in Nat /\ sum + 0 = active.workers + workers
       /\ bytes + 0 = active.bytes + size
  <2>1. \A t \in Saves : t # s => (/\ save'[t].share.workers = save[t].share.workers
                                   /\ save'[t].share.bytes = save[t].share.bytes)
    BY <1>24
  <2>2. save'[s].share.workers = workers /\ save'[s].share.bytes = size
    BY <1>14, <1>20, <1>23
  <2>3. save[s].share.workers = 0 /\ save[s].share.bytes = 0
    BY <1>1, <1>27
  <2>4. /\ sum \in Nat /\ bytes \in Nat
        /\ sum + save[s].share.workers = active.workers + save'[s].share.workers
        /\ bytes + save[s].share.bytes = active.bytes + save'[s].share.bytes
    BY <1>25, <1>26, <2>1, ShareChanges
  <2>5. QED
    BY <2>2, <2>3, <2>4
<1>29. sum = active.workers + workers /\ bytes = active.bytes + size
  BY <1>9, <1>10, <1>11, <1>28
<1>30. Sharing' = Sharing \cup {s} /\ s \notin Sharing
  <2>1. save'[s].share # NoShare
    BY <1>15, <1>20, <1>23
  <2>2. \A t \in Saves : t # s => ((save'[t].share # NoShare) <=> (save[t].share # NoShare))
    BY <1>24
  <2>3. save[s].share = NoShare
    BY <1>1, <1>27
  <2>4. QED
    BY <2>1, <2>2, <2>3 DEF Sharing
<1>31. Cardinality(Sharing') = active.batches + 1
  <2>1. Cardinality(Sharing \cup {s}) = Cardinality(Sharing) + 1
    BY <1>5, <1>30, FS_AddElement
  <2>2. QED
    BY <1>5, <1>30, <2>1
<1>32. active' = [workers |-> sum, bytes |-> bytes, batches |-> Cardinality(Sharing')]
  BY <1>7, <1>29, <1>31
<1>33. CompressionTypeOK'
  <2>1. active.batches + 1 \in Nat
    BY <1>10
  <2>2. active' \in [workers : Nat, bytes : Nat, batches : Nat]
    BY <1>28, <1>31, <1>32, <2>1
  <2>3. QED
    BY <1>4, <1>12, <1>25, <2>2 DEF CompressionInv, CompressionTypeOK
<1>34. SharesAdd'
  BY <1>26, <1>32 DEF SharesAdd
<1>35. (active.workers <= CpuBudget)' /\ (active.batches > 1 => active.bytes <= MemoryBudget)'
  <2>1. active'.workers = sum /\ active'.bytes = bytes /\ active'.batches = active.batches + 1
    BY <1>31, <1>32
  <2>2. sum <= CpuBudget
    BY <1>10, <1>11, <1>29
  <2>3. active.batches + 1 > 1 => bytes <= MemoryBudget
    BY <1>4, <1>10, <1>29 DEF Fits
  <2>4. QED
    BY <2>1, <2>2, <2>3
<1>36. \A t \in Saves : ShareOK(save'[t], epoch')
  BY <1>21, <1>23, <1>24
<1>37. \A t \in Saves : RecordFor(save'[t], WantedOf(save'[t], save'[t].seen))
  <2>1. WantedOf(q, q.seen) = w
    BY <1>1, <1>20 DEF WantedOf
  <2>2. QED
    BY <1>22, <1>23, <1>24, <2>1
<1>38. (\A t \in Saves : ShareOK(save[t], epoch))'
  BY <1>36
<1>39. (\A t \in Saves : RecordFor(save[t], WantedOf(save[t], save[t].seen)))'
  BY <1>37
<1>40. SamplesAlone'
  BY <1>4 DEF CompressionInv, SamplesAlone
<1>41. QED
  BY <1>33, <1>34, <1>35, <1>38, <1>39, <1>40 DEF CompressionInv

(* Compression: the invariant, and what follows. *)

LEMMA CompressionBegins ==
  ASSUME CompressionInit
  PROVE  CompressionInv
<1>1. ASSUME NEW s \in Saves
      PROVE  /\ save[s] \in SaveRecs /\ save[s].share = NoShare /\ ShareOK(save[s], epoch)
             /\ RecordFor(save[s], WantedOf(save[s], save[s].seen))
  <2>1. PICK w \in Streams :
          save[s] = [whole |-> w, seen |-> 0, pc |-> "fill", todo |-> <<>>, next |-> 0,
                     flight |-> <<>>, written |-> <<>>, share |-> NoShare,
                     cancel |-> FALSE, outcome |-> "fill"]
    BY DEF CompressionInit
  <2>2. PICK r : r = save[s]
    OBVIOUS
  <2>3. /\ r.whole = w /\ r.seen = 0 /\ r.pc = "fill" /\ r.flight = <<>> /\ r.written = <<>>
        /\ r.share = NoShare
    BY <2>1, <2>2
  <2>4. NoShare \in ShareRecs /\ NoShare.epoch = 0 /\ NoShare.workers = 0 /\ NoShare.learn = FALSE
    BY DEF NoShare, ShareRecs
  <2>5. r \in SaveRecs
    <3>1. "fill" \in Pcs /\ 0 \in Nat
      BY DEF Pcs
    <3>2. \A T : <<>> \in Seq(T)
      OBVIOUS
    <3>3. QED
      BY <2>1, <2>2, <2>4, <3>1, <3>2 DEF SaveRecs
  <2>6. w \in Seq(Objects) /\ Len(w) \in Nat
    BY CompressionAssumption DEF Objects
  <2>7. PICK v : v = WantedOf(r, r.seen)
    OBVIOUS
  <2>8. v \in Seq(Objects) /\ Len(v) = 0
    <3>1. New(w, 1, 0, Stored) = {}
      BY DEF New
    <3>2. v = AtPlaces(w, {})
      BY <2>3, <2>7, <3>1 DEF WantedOf
    <3>3. {} \in SUBSET DOMAIN w
      OBVIOUS
    <3>4. AtPlaces(w, {}) \in Seq(Objects) /\ Len(AtPlaces(w, {})) = Cardinality({})
      BY <2>6, <3>3, AtPlacesTyped
    <3>5. QED
      BY <3>2, <3>4, FS_EmptySet
  <2>9. RunningOf(r) = {} /\ Cardinality(RunningOf(r)) = 0
    <3>1. RunningOf(r) = {}
      BY <2>3 DEF RunningOf
    <3>2. QED
      BY <3>1, FS_EmptySet
  <2>10. ShareOK(r, epoch)
    <3>1. epoch = 0
      BY DEF CompressionInit
    <3>2. r.pc \notin SharingPcs
      BY <2>3 DEF SharingPcs
    <3>3. QED
      BY <2>3, <2>4, <2>9, <3>1, <3>2 DEF ShareOK
  <2>11. RecordFor(r, v)
    <3>1. Len(r.written) = 0 /\ Len(r.flight) = 0 /\ r.flight = <<>>
      BY <2>3
    <3>2. r.pc \notin {"prepared", "wait", "inline", "parallel"}
      BY <2>3
    <3>3. r.seen <= Len(r.whole)
      BY <2>3, <2>6
    <3>4. \A i \in 1..Len(r.written) : r.written[i] = [object |-> v[i], data |-> v[i]]
      BY <3>1
    <3>5. QED
      BY <2>8, <3>1, <3>2, <3>3, <3>4 DEF RecordFor
  <2>12. QED
    BY <2>2, <2>3, <2>5, <2>7, <2>10, <2>11
<1>2. save \in [Saves -> SaveRecs]
  <2>1. save = [s \in Saves |-> save[s]]
    BY DEF CompressionInit
  <2>2. QED
    BY <1>1, <2>1
<1>3. /\ active = [workers |-> 0, bytes |-> 0, batches |-> 0] /\ epoch = 0 /\ samples = {} /\ errors = 0
  BY DEF CompressionInit
<1>4. policy \in [mode : {"auto", "quiet", "fixed"}, max : Nat \ {0}]
  <2>1. PICK p \in Policies : policy = Parsed(p)
    BY DEF CompressionInit
  <2>2. p \in [mode : {"auto", "quiet", "fixed"}, max : Nat \ {0}]
    BY CompressionAssumption
  <2>3. [p EXCEPT !.max = 1] \in [mode : {"auto", "quiet", "fixed"}, max : Nat \ {0}]
    BY <2>2
  <2>4. QED
    BY <2>1, <2>2, <2>3 DEF Parsed
<1>5. CompressionTypeOK
  BY <1>2, <1>3, <1>4 DEF CompressionTypeOK
<1>6. SharesAdd
  <2>1. NoShare.workers = 0 /\ NoShare.bytes = 0
    BY DEF NoShare
  <2>2. PICK f, g : f = [s \in Saves |-> save[s].share.workers] /\ g = [s \in Saves |-> save[s].share.bytes]
    OBVIOUS
  <2>3. f \in [Saves -> Nat] /\ g \in [Saves -> Nat] /\ \A s \in Saves : f[s] = 0 /\ g[s] = 0
    BY <1>1, <2>1, <2>2
  <2>4. Total(f) = 0 /\ Total(g) = 0
    BY <2>3, TotalZero
  <2>5. Sharing = {}
    BY <1>1 DEF Sharing
  <2>6. Cardinality(Sharing) = 0
    BY <2>5, FS_EmptySet
  <2>7. QED
    BY <1>3, <2>2, <2>4, <2>6 DEF SharesAdd
<1>7. active.workers <= CpuBudget /\ (active.batches > 1 => active.bytes <= MemoryBudget)
  BY <1>3, CompressionAssumption
<1>8. SamplesAlone
  BY <1>3 DEF SamplesAlone
<1>9. QED
  BY <1>1, <1>5, <1>6, <1>7, <1>8 DEF CompressionInv

LEMMA CompressionSteps ==
  ASSUME CompressionInv, [CompressionNext]_compressionVars
  PROVE  CompressionInv'
<1>1. CASE UNCHANGED compressionVars
  BY <1>1 DEF compressionVars, CompressionInv, CompressionTypeOK, SharesAdd, Sharing, SamplesAlone
<1>2. CASE CompressionNext
  <2>1. CASE Done
    BY <1>1, <2>1 DEF Done
  <2>2. ASSUME NEW s \in Saves, SaveStep(s) PROVE CompressionInv'
    <3>1. CASE Flush(s)
      BY <3>1, FlushKeeps
    <3>2. CASE AllStored(s)
      BY <3>2, AllStoredKeeps
    <3>3. CASE Reserve(s)
      BY <3>3, ReserveKeeps
    <3>4. CASE Observe(s)
      BY <3>4, ObserveKeeps
    <3>5. CASE Release(s)
      BY <3>5, ReleaseKeeps
    <3>6. CASE WriteInline(s)
      BY <3>6, WriteInlineKeeps
    <3>7. CASE InlineEnds(s)
      BY <3>7, InlineEndsKeeps
    <3>8. CASE SubmitTask(s)
      BY <3>8, SubmitTaskKeeps
    <3>9. CASE TaskBegins(s)
      BY <3>9, TaskBeginsKeeps
    <3>10. CASE Take(s)
      BY <3>10, TakeKeeps
    <3>11. CASE BatchEnds(s)
      BY <3>11, BatchEndsKeeps
    <3>12. CASE Joins(s)
      BY <3>12, JoinsKeeps
    <3>13. CASE \E i \in DOMAIN save[s].flight : TaskEnds(s, i)
      BY <3>13, TaskEndsKeeps
    <3>14. CASE CancelSeen(s)
      BY <3>14, CancelSeenKeeps
    <3>15. QED
      BY <2>2, <3>1, <3>2, <3>3, <3>4, <3>5, <3>6, <3>7, <3>8, <3>9, <3>10, <3>11, <3>12, <3>13,
         <3>14 DEF SaveStep
  <2>3. ASSUME NEW s \in Saves, Cancel(s) PROVE CompressionInv'
    BY <2>3, CancelKeeps
  <2>4. QED
    BY <1>2, <2>1, <2>2, <2>3 DEF CompressionNext
<1>3. QED
  BY <1>1, <1>2

\* The invariant that the others follow from.
THEOREM CompressionAlways == CompressionSpec => []CompressionInv
<1>1. CompressionInit => CompressionInv
  BY CompressionBegins
<1>2. CompressionInv /\ [CompressionNext]_compressionVars => CompressionInv'
  BY CompressionSteps
<1>3. QED
  BY <1>1, <1>2, PTL DEF CompressionSpec

\* Every variable of the scheduler and the saves keeps its type.
THEOREM CompressionTypeCorrect == CompressionSpec => []CompressionTypeOK
<1>1. CompressionInv => CompressionTypeOK
  BY DEF CompressionInv
<1>2. QED
  BY <1>1, CompressionAlways, PTL

\* Scheduler.reserve, however saves begin, end, fail and are cancelled: what is
\* given out is what the saves hold and within the budgets, unless a batch is
\* alone; no thread is without a share; and every sample was measured alone.
THEOREM SharesAreKept == CompressionSpec => []SharesKept
<1>1. ASSUME CompressionInv PROVE SharesKept
  <2>1. ASSUME NEW s \in Saves PROVE Threads(s) <= save[s].share.workers
    <3>1. /\ ShareOK(save[s], epoch) /\ save[s] \in SaveRecs /\ save[s].share \in ShareRecs
      BY <1>1, SaveFacts
    <3>2. CASE save[s].pc = "inline"
      <4>1. save[s].share # NoShare
        BY <3>1, <3>2 DEF ShareOK, SharingPcs
      <4>2. save[s].share.workers >= 1 /\ save[s].share.workers \in Nat
        BY <3>1, <4>1 DEF ShareOK, ShareRecs
      <4>3. Threads(s) = 1
        BY <3>2 DEF Threads
      <4>4. QED
        BY <4>2, <4>3
    <3>3. CASE save[s].pc # "inline"
      <4>1. Tasks(s, "running") = RunningOf(save[s])
        BY DEF Tasks, RunningOf
      <4>2. Threads(s) = Cardinality(RunningOf(save[s]))
        BY <3>3, <4>1 DEF Threads
      <4>3. QED
        BY <3>1, <4>2 DEF ShareOK
    <3>4. QED
      BY <3>2, <3>3
  <2>2. BudgetKept
    BY <1>1, <2>1 DEF BudgetKept, CompressionInv, SharesAdd
  <2>3. QED
    BY <1>1, <2>2 DEF SharesKept, CompressionInv
<1>2. QED
  BY <1>1, CompressionAlways, PTL

\* What a save must store of the first part of its stream comes first.
LEMMA WantedGrows ==
  ASSUME NEW r, r.whole \in Seq(Objects), r.seen \in Nat, r.seen <= Len(r.whole)
  PROVE  \E u \in Seq(Objects) : WantedOf(r, Len(r.whole)) = WantedOf(r, r.seen) \o u
<1>1. PICK whole, a, b : whole = r.whole /\ a = r.seen /\ b = Len(r.whole)
  OBVIOUS
<1>2. whole \in Seq(Objects) /\ a \in Nat /\ b \in Nat /\ a <= b /\ b <= Len(whole)
  BY <1>1
<1>3. PICK have : have = Stored \cup {whole[i] : i \in New(whole, 1, a, Stored)}
  OBVIOUS
<1>4. PICK A, B, C : /\ A = New(whole, 1, a, Stored) /\ B = New(whole, a + 1, b, have)
                     /\ C = New(whole, 1, b, Stored)
  OBVIOUS
<1>5. \A o : o \in have <=> (o \in Stored \/ \E i \in New(whole, 1, a, Stored) : o = whole[i])
  BY <1>3
<1>6. /\ C = A \cup B /\ A \in SUBSET DOMAIN whole /\ B \in SUBSET DOMAIN whole
      /\ \A i \in A : \A j \in B : i < j
  BY <1>2, <1>4, <1>5, NewSplits
<1>7. AtPlaces(whole, A) \o AtPlaces(whole, B) = AtPlaces(whole, A \cup B)
  BY <1>2, <1>6, AtPlacesJoin
<1>8. AtPlaces(whole, B) \in Seq(Objects)
  BY <1>2, <1>6, AtPlacesTyped
<1>9. WantedOf(r, r.seen) = AtPlaces(whole, A) /\ WantedOf(r, Len(r.whole)) = AtPlaces(whole, A \cup B)
  BY <1>1, <1>4, <1>6 DEF WantedOf
<1>10. QED
  BY <1>7, <1>8, <1>9

LEMMA PrefixIs ==
  ASSUME NEW T, NEW s \in Seq(T), NEW t \in Seq(T), Len(s) <= Len(t),
         \A i \in 1..Len(s) : s[i] = t[i]
  PROVE  IsPrefix(s, t)
<1>1. PICK n \in Nat : n = Len(s)
  OBVIOUS
<1>2. SubSeq(s, 1, n) = [i \in 1..n |-> s[i]]
  BY <1>1
<1>3. SubSeq(t, 1, n) = [i \in 1..n |-> t[i]]
  BY <1>1
<1>4. SubSeq(s, 1, n) = SubSeq(t, 1, n)
  BY <1>1, <1>2, <1>3
<1>5. QED
  BY <1>1, <1>4 DEF IsPrefix

\* ObjectWriter: for any number of threads, in whatever order they finish, the
\* records are the new objects of the layout in their order, each once and each
\* with its own encoding; the tasks in flight keep to the quota, and a save that
\* is prepared has all its records.
THEOREM RecordsAreTrue == CompressionSpec => []RecordsTrue
<1>1. ASSUME CompressionInv PROVE RecordsTrue
  <2>1. ASSUME NEW s \in Saves, NEW r, r = save[s]
        PROVE  /\ \A i \in DOMAIN r.written : r.written[i].data = r.written[i].object
               /\ IsPrefix([i \in DOMAIN r.written |-> r.written[i].object], WantedOf(r, Len(r.whole)))
               /\ Len(ObjectsOf(r.flight)) > 1 => 2 * Bytes(ObjectsOf(r.flight)) <= Quota
               /\ r.pc = "prepared" => Len(r.written) = Len(WantedOf(r, Len(r.whole)))
    <3>1. PICK w, v : w = WantedOf(r, r.seen) /\ v = WantedOf(r, Len(r.whole))
      OBVIOUS
    <3>2. /\ r \in SaveRecs /\ r.whole \in Seq(Objects) /\ r.seen \in Nat /\ r.seen <= Len(r.whole)
          /\ RecordFor(r, w) /\ w \in Seq(Objects)
      BY <1>1, <2>1, <3>1, SaveFacts
    <3>3. PICK u \in Seq(Objects) : v = w \o u
      BY <3>1, <3>2, WantedGrows
    <3>4. /\ v \in Seq(Objects) /\ Len(w) \in Nat /\ Len(v) \in Nat /\ Len(w) <= Len(v)
          /\ \A i \in 1..Len(w) : v[i] = w[i]
      <4>1. /\ w \o u \in Seq(Objects) /\ Len(w \o u) = Len(w) + Len(u) /\ Len(w) \in Nat /\ Len(u) \in Nat
            /\ \A k \in 1..(Len(w) + Len(u)) : (w \o u)[k] = IF k <= Len(w) THEN w[k] ELSE u[k - Len(w)]
        BY <3>2, JoinFacts
      <4>2. \A i \in 1..Len(w) : i \in 1..(Len(w) + Len(u)) /\ i <= Len(w)
        BY <4>1
      <4>3. Len(v) = Len(w) + Len(u)
        BY <3>3, <4>1
      <4>4. QED
        BY <3>3, <4>1, <4>2, <4>3
    <3>5. PICK n \in Nat : n = Len(r.written) /\ DOMAIN r.written = 1..n
      BY <3>2 DEF SaveRecs
    <3>6. n <= Len(w) /\ \A i \in 1..n : r.written[i] = [object |-> w[i], data |-> w[i]]
      BY <3>2, <3>5 DEF RecordFor
    <3>7. \A i \in 1..n : r.written[i].object = w[i] /\ r.written[i].data = w[i] /\ w[i] \in Objects
      <4>1. \A i \in 1..n : i \in 1..Len(w)
        BY <3>4, <3>6
      <4>2. \A i \in 1..n : w[i] \in Objects
        BY <3>2, <4>1
      <4>3. ASSUME NEW i \in 1..n PROVE r.written[i].object = w[i] /\ r.written[i].data = w[i]
        <5>1. r.written[i] = [object |-> w[i], data |-> w[i]]
          BY <3>6
        <5>2. QED
          BY <5>1
      <4>4. QED
        BY <4>2, <4>3
    <3>8. PICK t : t = [i \in 1..n |-> r.written[i].object]
      OBVIOUS
    <3>9. t \in Seq(Objects) /\ Len(t) = n /\ \A i \in 1..n : t[i] = w[i]
      <4>1. t \in [1..n -> Objects]
        BY <3>7, <3>8
      <4>2. t \in Seq(Objects) /\ Len(t) = n
        BY <4>1
      <4>3. QED
        BY <3>7, <3>8, <4>2
    <3>10. IsPrefix(t, v)
      <4>1. Len(t) <= Len(v)
        BY <3>4, <3>6, <3>9
      <4>2. \A i \in 1..Len(t) : t[i] = v[i]
        <5>1. \A i \in 1..n : i \in 1..Len(w)
          BY <3>4, <3>6
        <5>2. QED
          BY <3>4, <3>9, <5>1
      <4>3. QED
        BY <3>4, <3>9, <4>1, <4>2, PrefixIs
    <3>11. Len(ObjectsOf(r.flight)) > 1 => 2 * Bytes(ObjectsOf(r.flight)) <= Quota
      <4>1. r.flight \in Seq(Task)
        BY <3>2 DEF SaveRecs, Task
      <4>2. Len(ObjectsOf(r.flight)) = Len(r.flight)
        BY <4>1, ObjectsTyped
      <4>3. QED
        BY <3>2, <4>2 DEF RecordFor
    <3>12. r.pc = "prepared" => n = Len(v)
      <4>1. ASSUME r.pc = "prepared" PROVE n = Len(v)
        <5>1. AllWritten(r) /\ r.seen = Len(r.whole)
          BY <3>2, <4>1 DEF RecordFor, AllWritten
        <5>2. Len(r.written) = Len(w)
          BY <3>2, <5>1 DEF RecordFor
        <5>3. v = w
          BY <3>1, <5>1
        <5>4. QED
          BY <3>5, <5>2, <5>3
      <4>2. QED
        BY <4>1
    <3>13. QED
      BY <3>1, <3>5, <3>7, <3>8, <3>10, <3>11, <3>12
  <2>2. QED
    BY <2>1 DEF RecordsTrue, WantedOf, ObjectsOf
<1>2. QED
  BY <1>1, CompressionAlways, PTL
=============================================================================
