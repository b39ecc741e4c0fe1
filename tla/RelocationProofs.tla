--------------------------- MODULE RelocationProofs ---------------------------
(***************************************************************************)
(* No move loses a version, for any number of histories, folders, writers, *)
(* moves and faults.                                                       *)
(*                                                                         *)
(* Between its steps a move relies on what others cannot do: the histories *)
(* it moves stay where they are (Shape), nobody writes the folders it has  *)
(* leased, a copy that was verified stays whole, whoever writes to it      *)
(* (Verified), and who writes where the catalog does not point came back   *)
(* to a folder the project had left, or found remains (Writing).           *)
(***************************************************************************)
EXTENDS Relocation, TLAPS

---------------------------------------------------------------------------
(* The inductive invariant.                                                *)

Excused == untidy \/ returned

\* The histories that move are those of one folder, all leased before the first
\* is copied, and the catalog has them all in one of the two folders.
Shape ==
    /\ move.mapping \subseteq move.copied /\ move.copied \subseteq move.locked
    /\ move.locked \subseteq move.live /\ move.removed \subseteq move.live
    /\ move.pc \in {"idle", "hold"} => move.live = {}
    /\ move.pc \in {"idle", "hold", "lock"} => move.copied = {}
    /\ move.pc # "remove" /\ ~(move.pc = "rollback" /\ root = move.to) => move.removed = {}
    /\ move.pc # "idle" => move.from # move.to /\ root \in {move.from, move.to} /\ labels
    /\ move.pc \in {"hold", "lock", "copy"} => root = move.from
    /\ move.pc = "remove" => root = move.to
    /\ move.pc = "copy" => move.live = move.locked
    /\ move.pc # "idle" /\ root = move.to => move.live = move.locked
    /\ \A d \in move.live : d \in Known /\ path[d] = root
    /\ \A d \in move.locked : lease[move.from][d] = Mover
    /\ move.pc # "idle" /\ root = move.from /\ move.to \in former => returned

\* While histories are copied: the log of a folder that is copied stays empty,
\* and a verified copy has what its folder has, or more where others write to it.
Agrees(s, d) == s.main + s.log >= written[d] /\ (astray[d] = 0 => s.main + s.log = written[d])
Verified ==
    move.pc = "copy" =>
        \A d \in move.copied :
            /\ store[move.from][d].log = 0
            /\ LET s == store[move.to][d] IN
               /\ s.kind = "whole" /\ astray[d] = 0 => s.log = 0
               /\ d \in move.mapping => s.kind = "whole" /\ Agrees(s, d)

\* Who writes where the catalog does not point.
Writing ==
    \A w \in Writers : LET at == writer[w].at
                           d == writer[w].doc
                       IN
        /\ writer[w].pc # "idle" => d \in Known /\ (at = path[d] \/ at \in former)
        /\ writer[w].pc = "writing" => /\ lease[at][d] = w
                                       /\ at = path[d] \/ Excused

\* Where there are copies, besides those the catalog names.
CopyAt(f, d) ==
    \/ root = move.from /\ f = move.to /\ d \in move.copied
    \/ root = move.to /\ f = move.from /\ d \in move.live \ move.removed
Elsewhere ==
    ~untidy => \A f \in Folders, d \in Docs :
        store[f][d].kind \in {"partial", "whole"} =>
            d \in Known /\ (f = path[d] \/ CopyAt(f, d))

\* Histories the catalog does not know have no versions.
Unwritten == \A d \in Docs \ Known : written[d] = 0 /\ astray[d] = 0

Strays == (\E d \in Docs : astray[d] > 0) => Excused

IInv == /\ TypeOK /\ Shape /\ Verified /\ Writing /\ Elsewhere /\ Unwritten
        /\ HistoryWhole /\ Strays

---------------------------------------------------------------------------
(* Types.                                                                  *)

\* One folder of one history changes; what the others are told.
LEMMA At ==
  ASSUME TypeOK, NEW f \in Folders, NEW d \in Docs, NEW s \in Store
  PROVE  /\ [store EXCEPT ![f][d] = s] \in [Folders -> [Docs -> Store]]
         /\ \A g \in Folders, e \in Docs :
              [store EXCEPT ![f][d] = s][g][e] = IF g = f /\ e = d THEN s ELSE store[g][e]
  BY DEF TypeOK

LEMMA FoldedType ==
  ASSUME NEW s \in Store
  PROVE  /\ Folded(s) \in Store /\ Folded(s).kind = s.kind /\ Folded(s).log = 0
         /\ Folded(s).main + Folded(s).log = s.main + s.log
<1>1. s.kind \in Kinds /\ s.main \in Nat /\ s.log \in Nat
  BY DEF Store
<1>2. Folded(s) \in Store
  <2> DEFINE m == s.main + s.log
  <2>1. m \in Nat
    BY <1>1
  <2> HIDE DEF m
  <2>2. [s EXCEPT !.main = m, !.log = 0] \in Store
    BY <2>1 DEF Store
  <2>3. QED
    BY <2>2 DEF Folded, m
<1>3. Folded(s).kind = s.kind
  BY DEF Folded, Store
<1>4. Folded(s).main = s.main + s.log
  BY DEF Folded, Store
<1>5. Folded(s).log = 0
  BY DEF Folded, Store
<1>6. QED
  BY <1>1, <1>2, <1>3, <1>4, <1>5

LEMMA KindType ==
  ASSUME NEW s \in Store, NEW k \in Kinds
  PROVE  [s EXCEPT !.kind = k] \in Store
  BY DEF Store

LEMMA NoStoreType == NoStore \in Store /\ [NoStore EXCEPT !.kind = "whole"] \in Store
                     /\ [NoStore EXCEPT !.kind = "shell"] \in Store
  BY DEF NoStore, Store, Kinds

LEMMA IdleType == Idle \in [pc: {"idle", "found", "open", "writing"}, doc: Docs, at: Folders]
<1>1. (CHOOSE d \in Docs : TRUE) \in Docs
  BY RelocationAssumption DEF RelocationAssumption
<1>2. QED
  BY <1>1, RelocationAssumption DEF RelocationAssumption, Idle

LEMMA NoMoveType == NoMove \in Move
  BY RelocationAssumption DEF RelocationAssumption, NoMove, Move

LEMMA InitType == Init => TypeOK
<1> SUFFICES ASSUME Init PROVE TypeOK
  OBVIOUS
<1>1. (CHOOSE d \in Docs : TRUE) \in Docs
  BY RelocationAssumption DEF RelocationAssumption
<1>2. /\ DOMAIN path \subseteq Docs /\ path \in [DOMAIN path -> Folders]
  BY <1>1, RelocationAssumption DEF Init, RelocationAssumption
<1>3. store \in [Folders -> [Docs -> Store]]
  BY NoStoreType DEF Init
<1>4. writer \in [Writers -> [pc: {"idle", "found", "open", "writing"}, doc: Docs, at: Folders]]
  BY IdleType DEF Init
<1>5. lease \in [Folders -> [Docs -> Writers \cup {Free, Mover}]] /\ asked \in Seq(Moves)
  BY DEF Init
<1>6. root \in Folders /\ move \in Move
  BY NoMoveType, RelocationAssumption DEF Init, RelocationAssumption
<1>7. QED
  BY <1>2, <1>3, <1>4, <1>5, <1>6 DEF Init, TypeOK, Known

\* A step of the move changes its phase, or adds a history to a set.
LEMMA Going ==
  ASSUME NEW m \in Move, NEW pc \in {"idle", "hold", "lock", "copy", "remove", "rollback"}
  PROVE  [m EXCEPT !.pc = pc] \in Move
  BY DEF Move
LEMMA Growing ==
  ASSUME NEW m \in Move, NEW ds \in SUBSET Docs
  PROVE  /\ [m EXCEPT !.live = ds] \in Move /\ [m EXCEPT !.locked = ds] \in Move
         /\ [m EXCEPT !.copied = ds] \in Move /\ [m EXCEPT !.mapping = ds] \in Move
         /\ [m EXCEPT !.removed = ds] \in Move
  BY DEF Move
LEMMA Stepping ==
  ASSUME NEW m \in Move, NEW ds \in SUBSET Docs, NEW pc \in {"idle", "hold", "lock", "copy", "remove", "rollback"}
  PROVE  /\ [m EXCEPT !.pc = pc, !.live = ds] \in Move 
   /\ [m EXCEPT !.locked = ds, !.pc = pc] \in Move
  BY DEF Move
LEMMA Raising == TypeOK /\ Raises => faults' \in Nat /\ move' \in Move /\ move' = [move EXCEPT !.pc = "rollback"]
<1> SUFFICES ASSUME TypeOK, Raises PROVE faults' \in Nat /\ move' \in Move /\ move' = [move EXCEPT !.pc = "rollback"]
  OBVIOUS
<1>1. faults' \in Nat
  BY DEF Raises, Fault, TypeOK
<1>2. move \in Move
  BY DEF TypeOK
<1>3. move' = [move EXCEPT !.pc = "rollback"]
  BY DEF Raises, Goes
<1>4. QED
  BY <1>1, <1>2, <1>3, Going

LEMMA WriterMoves ==
  ASSUME TypeOK, NEW w \in Writers, NEW pc \in {"idle", "found", "open", "writing"}
  PROVE  /\ [writer EXCEPT ![w].pc = pc]
              \in [Writers -> [pc: {"idle", "found", "open", "writing"}, doc: Docs, at: Folders]]
         /\ [writer EXCEPT ![w] = Idle]
              \in [Writers -> [pc: {"idle", "found", "open", "writing"}, doc: Docs, at: Folders]]
<1>1. writer \in [Writers -> [pc: {"idle", "found", "open", "writing"}, doc: Docs, at: Folders]]
  BY DEF TypeOK
<1>2. QED
  BY <1>1, IdleType

LEMMA LeaseMoves ==
  ASSUME TypeOK, NEW f \in Folders, NEW d \in Docs, NEW h \in Writers \cup {Free, Mover}
  PROVE  [lease EXCEPT ![f][d] = h] \in [Folders -> [Docs -> Writers \cup {Free, Mover}]]
<1>1. lease \in [Folders -> [Docs -> Writers \cup {Free, Mover}]]
  BY DEF TypeOK
<1>2. QED
  BY <1>1

LEMMA TypeStep == TypeOK /\ Shape /\ Writing /\ [Next]_vars => TypeOK'
<1> SUFFICES ASSUME TypeOK, Shape, Writing, [Next]_vars PROVE TypeOK'
  OBVIOUS
<1>0. Writers \in SUBSET (Writers \cup {Free, Mover}) /\ Kinds = {"none", "shell", "partial", "whole"}
  BY DEF Kinds
<1> USE DEF catalogVars, diskVars, lockVars, ghosts, vars, WriterOnly, MoverOnly, Unmoved, InMove
<1>25. /\ writer \in [Writers -> [pc: {"idle", "found", "open", "writing"}, doc: Docs, at: Folders]]
       /\ lease \in [Folders -> [Docs -> Writers \cup {Free, Mover}]]
       /\ move \in Move /\ move.from \in Folders /\ move.to \in Folders
       /\ written \in [Docs -> Nat] /\ astray \in [Docs -> Nat]
  BY DEF TypeOK, Move
<1>1. CASE UNCHANGED vars
  BY <1>1 DEF TypeOK, Known
<1>2. ASSUME NEW d \in Docs, AddDocument(d) PROVE TypeOK'
  <2>1. Known' = Known \cup {d} /\ path' \in [Known' -> Folders]
    BY <1>2 DEF AddDocument, TypeOK, Known
  <2>2. store' \in [Folders -> [Docs -> Store]]
    BY <1>2, At, NoStoreType DEF AddDocument, TypeOK
  <2>3. QED
    BY <1>2, <2>1, <2>2 DEF AddDocument, TypeOK
<1>3. ASSUME NEW d \in Docs, Rename(d) PROVE TypeOK'
  <2>1. d \in Known /\ path[d] \in Folders /\ store[path[d]][d] \in Store
    BY <1>3 DEF Rename, TypeOK
  <2> DEFINE s == [store[path[d]][d] EXCEPT !.main = @ + 1]
  <2>2. s \in Store
    BY <2>1 DEF Store
  <2>3. store' = [store EXCEPT ![path[d]][d] = s]
    BY <1>3 DEF Rename
  <2>4. store' \in [Folders -> [Docs -> Store]]
    BY <2>1, <2>2, <2>3, At
  <2>5. written' \in [Docs -> Nat]
    BY <1>3 DEF Rename, TypeOK
  <2>6. QED
    BY <1>3, <2>4, <2>5 DEF Rename, TypeOK, Known
<1>4. ASSUME NEW w \in Writers, NEW d \in Docs, LookUp(w, d) PROVE TypeOK'
  BY <1>4 DEF LookUp, TypeOK, Known
<1>5. ASSUME NEW w \in Writers, OpenStore(w) PROVE TypeOK'
  <2>1. writer' \in [Writers -> [pc: {"idle", "found", "open", "writing"}, doc: Docs, at: Folders]]
    <3>1. \/ writer' = [writer EXCEPT ![w].pc = "open"]
          \/ writer' = [writer EXCEPT ![w] = Idle]
      BY <1>5 DEF OpenStore
    <3>2. QED
      <4>1. /\ [writer EXCEPT ![w].pc = "open"]
                   \in [Writers -> [pc: {"idle", "found", "open", "writing"}, doc: Docs, at: Folders]]
            /\ [writer EXCEPT ![w] = Idle]
                   \in [Writers -> [pc: {"idle", "found", "open", "writing"}, doc: Docs, at: Folders]]
        BY WriterMoves
      <4>2. QED
        BY <3>1, <4>1
  <2>2. QED
    BY <1>5, <2>1 DEF OpenStore, TypeOK, Known
<1>6. ASSUME NEW w \in Writers, Acquire(w) PROVE TypeOK'
  <2>1. writer' \in [Writers -> [pc: {"idle", "found", "open", "writing"}, doc: Docs, at: Folders]]
    <3>1. \/ writer' = [writer EXCEPT ![w].pc = "writing"]
          \/ writer' = [writer EXCEPT ![w] = Idle]
      BY <1>6 DEF Acquire
    <3>2. QED
      BY <3>1, WriterMoves
  <2>2. writer[w].at \in Folders /\ writer[w].doc \in Docs
    BY DEF TypeOK
  <2>3. store[writer[w].at][writer[w].doc] \in Store
    BY <2>2 DEF TypeOK
  <2>4. [store[writer[w].at][writer[w].doc] EXCEPT !.kind = "shell"] \in Store
    BY <1>0, <2>3, KindType
  <2>5. [store EXCEPT ![writer[w].at][writer[w].doc] = [store[writer[w].at][writer[w].doc] EXCEPT !.kind = "shell"]]
          \in [Folders -> [Docs -> Store]]
    BY <2>2, <2>4, At
  <2>6. store' \in [Folders -> [Docs -> Store]]
    BY <1>6, <2>5 DEF Acquire, TypeOK
  <2>7. lease' \in [Folders -> [Docs -> Writers \cup {Free, Mover}]]
    <3>1. lease' = lease \/ lease' = [lease EXCEPT ![writer[w].at][writer[w].doc] = w]
      BY <1>6 DEF Acquire
    <3>2. QED
      <4>1. [lease EXCEPT ![writer[w].at][writer[w].doc] = w] \in [Folders -> [Docs -> Writers \cup {Free, Mover}]]
        BY <2>2, LeaseMoves
      <4>2. QED
        BY <1>25, <3>1, <4>1
  <2>8. QED
    BY <1>6, <2>1, <2>6, <2>7 DEF Acquire, TypeOK, Known
<1>7. ASSUME NEW w \in Writers, Commit(w) PROVE TypeOK'
  <2> DEFINE f == writer[w].at
             d == writer[w].doc
             s == [store[f][d] EXCEPT !.log = @ + 1]
  <2>1. f \in Folders /\ d \in Docs
    BY DEF TypeOK
  <2>2. s \in Store
    <3>1. store[f][d] \in Store
      BY <2>1 DEF TypeOK
    <3>2. QED
      BY <3>1 DEF Store
  <2>3. store' = [store EXCEPT ![f][d] = s]
    BY <1>7 DEF Commit
  <2>4. store' \in [Folders -> [Docs -> Store]]
    BY <2>1, <2>2, <2>3, At
  <2>5. written' \in [Docs -> Nat] /\ astray' \in [Docs -> Nat]
    BY <1>7, <1>25, <2>1 DEF Commit
  <2>6. QED
    BY <1>7, <2>4, <2>5 DEF Commit, TypeOK, Known
<1>8. ASSUME NEW w \in Writers, CloseStore(w) PROVE TypeOK'
  <2> DEFINE f == writer[w].at
             d == writer[w].doc
  <2>1. f \in Folders /\ d \in Docs
    BY DEF TypeOK
  <2>2. store[f][d] \in Store
    BY <2>1 DEF TypeOK
  <2>3. [store EXCEPT ![f][d] = Folded(store[f][d])] \in [Folders -> [Docs -> Store]]
    BY <2>1, <2>2, FoldedType, At
  <2>4. store' \in [Folders -> [Docs -> Store]]
    BY <1>8, <2>3 DEF CloseStore, TypeOK
  <2>5. writer' \in [Writers -> [pc: {"idle", "found", "open", "writing"}, doc: Docs, at: Folders]]
    BY <1>8, IdleType DEF CloseStore, TypeOK
  <2>6. lease' \in [Folders -> [Docs -> Writers \cup {Free, Mover}]]
    BY <1>8, <2>1 DEF CloseStore, TypeOK
  <2>7. QED
    BY <1>8, <2>4, <2>5, <2>6 DEF CloseStore, TypeOK, Known
<1>9. ASSUME NEW f \in Folders, RequestMove(f) PROVE TypeOK'
  <2>1. <<root, f>> \in Moves
    BY <1>9 DEF RequestMove, TypeOK, Moves
  <2>2. asked' \in Seq(Moves) /\ moves' \in Nat
    BY <1>9, <2>1 DEF RequestMove, TypeOK
  <2>3. QED
    BY <1>9, <2>2 DEF RequestMove, TypeOK, Known
<1>10. CASE Begin
  <2>1. Head(asked) \in Moves /\ Tail(asked) \in Seq(Moves)
    BY <1>10 DEF Begin, TypeOK
  <2>2. [NoMove EXCEPT !.pc = "hold", !.from = root, !.to = Head(asked)[2]] \in Move
    BY <2>1, NoMoveType DEF TypeOK, Move, Moves
  <2>3. move' \in Move
    BY <1>10, <2>2 DEF Begin, TypeOK
  <2>4. labels' \in BOOLEAN /\ returned' \in BOOLEAN
    BY <1>10 DEF Begin, TypeOK
  <2>5. QED
    BY <1>10, <2>1, <2>3, <2>4 DEF Begin, TypeOK, Known
<1>11. ASSUME NEW w \in Writers, Hold(w) PROVE TypeOK'
  <2>1. move' \in Move /\ faults' \in Nat
    BY <1>11, Raising DEF Hold, TypeOK
  <2>2. QED
    BY <1>11, <2>1 DEF Hold, TypeOK, Known
<1>12. CASE Survey
  <2>1. move' \in Move /\ faults' \in Nat
    <3>1. {d \in Known : path[d] = move.from} \subseteq Docs
      BY DEF TypeOK
    <3>2. CASE Raises
      BY <3>2, Raising
    <3>3. CASE ~Raises
      <4>1. /\ faults' = faults
            /\ move' = [move EXCEPT !.pc = "lock", !.live = {e \in Known : path[e] = move.from}]
        BY <1>12, <3>3 DEF Survey
      <4>2. [move EXCEPT !.pc = "lock", !.live = {e \in Known : path[e] = move.from}] \in Move
        BY <1>25, <3>1, Stepping
      <4>3. QED
        BY <4>1, <4>2 DEF TypeOK
    <3>4. QED
      BY <3>2, <3>3
  <2>2. QED
    BY <1>12, <2>1 DEF Survey, TypeOK, Known
<1>13. ASSUME NEW d \in Docs, Lock(d) PROVE TypeOK'
  <2>1. move' \in Move
    <3>1. move.locked \cup {d} \subseteq Docs
      BY <1>25 DEF Move
    <3>2. CASE lease[move.from][d] = Free
      <4>1. PICK pc \in {"copy", "lock"} :
              move' = [move EXCEPT !.locked = @ \cup {d}, !.pc = pc]
        BY <1>13, <3>2 DEF Lock
      <4>2. QED
        BY <1>25, <3>1, <4>1, Stepping
    <3>3. CASE lease[move.from][d] # Free
      BY <1>13, <1>25, <3>3, Going DEF Lock, Goes
    <3>4. QED
      BY <3>2, <3>3
  <2>2. move.from \in Folders
    BY DEF TypeOK, Move
  <2>3. lease' \in [Folders -> [Docs -> Writers \cup {Free, Mover}]]
    <3>1. lease' = lease \/ lease' = [lease EXCEPT ![move.from][d] = Mover]
      BY <1>13 DEF Lock
    <3>2. QED
      <4>1. [lease EXCEPT ![move.from][d] = Mover] \in [Folders -> [Docs -> Writers \cup {Free, Mover}]]
        BY <1>25, LeaseMoves
      <4>2. QED
        BY <1>25, <3>1, <4>1
  <2>4. QED
    BY <1>13, <2>1, <2>3 DEF Lock, TypeOK, Known
<1>14. ASSUME NEW d \in Docs, CopyBegins(d) PROVE TypeOK'
  <2>1. move' \in Move /\ faults' \in Nat
    <3>1. move.copied \cup {d} \subseteq Docs
      BY <1>25 DEF Move
    <3>2. QED
      <4>1. CASE Raises
        BY <4>1, Raising
      <4>2. CASE ~Raises
        <5>1. /\ faults' = faults
              /\ \/ move' = [move EXCEPT !.pc = "rollback"]
                 \/ move' = [move EXCEPT !.copied = move.copied \cup {d}]
          BY <1>14, <4>2 DEF CopyBegins, Goes
        <5>2. QED
          <6>1. /\ [move EXCEPT !.pc = "rollback"] \in Move
                /\ [move EXCEPT !.copied = move.copied \cup {d}] \in Move
            BY <1>25, <3>1, Growing, Going
          <6>2. QED
            BY <5>1, <6>1 DEF TypeOK
      <4>3. QED
        BY <4>1, <4>2
  <2>2. move.from \in Folders /\ move.to \in Folders
    BY DEF TypeOK, Move
  <2> DEFINE t == [store EXCEPT ![move.from][d] = Folded(store[move.from][d])]
  <2>3. t \in [Folders -> [Docs -> Store]]
    BY <2>2, FoldedType, At DEF TypeOK
  <2>4. [t EXCEPT ![move.to][d].kind = "partial"] \in [Folders -> [Docs -> Store]]
    <3>1. t[move.to][d] \in Store
      BY <2>2, <2>3
    <3>2. [t[move.to][d] EXCEPT !.kind = "partial"] \in Store
      BY <1>0, <3>1, KindType
    <3> HIDE DEF t
    <3>3. QED
      BY <2>2, <2>3, <3>2
  <2>5. store' \in [Folders -> [Docs -> Store]]
    BY <1>14, <2>4 DEF CopyBegins, TypeOK
  <2>6. QED
    BY <1>14, <2>1, <2>5 DEF CopyBegins, TypeOK, Known
<1>15. ASSUME NEW d \in Docs, CopyEnds(d) PROVE TypeOK'
  <2>1. move' \in Move /\ faults' \in Nat
    BY <1>15, <1>25, Raising DEF CopyEnds, TypeOK
  <2>2. move.from \in Folders /\ move.to \in Folders
    BY DEF TypeOK, Move
  <2>3. [kind |-> "whole", main |-> store[move.from][d].main, log |-> 0] \in Store
    BY <1>0, <2>2 DEF TypeOK, Store
  <2>4. store' \in [Folders -> [Docs -> Store]]
    <3>1. store \in [Folders -> [Docs -> Store]]
      BY DEF TypeOK
    <3>2. QED
      <4>1. \/ store' = store
            \/ store' = [store EXCEPT ![move.to][d] =
                           [kind |-> "whole", main |-> store[move.from][d].main, log |-> 0]]
        BY <1>15 DEF CopyEnds
      <4>2. QED
        <5>1. [store EXCEPT ![move.to][d] =
                           [kind |-> "whole", main |-> store[move.from][d].main, log |-> 0]]
                \in [Folders -> [Docs -> Store]]
          BY <2>2, <2>3, At
        <5>2. QED
          BY <3>1, <4>1, <5>1
  <2>5. QED
    BY <1>15, <2>1, <2>4 DEF CopyEnds, TypeOK, Known
<1>16. ASSUME NEW d \in Docs, Verify(d) PROVE TypeOK'
  <2>1. move' \in Move /\ faults' \in Nat
    <3>1. move.mapping \cup {d} \subseteq Docs
      BY <1>25 DEF Move
    <3>2. QED
      <4>1. Raises \/ (faults' = faults /\ move' = [move EXCEPT !.mapping = move.mapping \cup {d}])
        BY <1>16 DEF Verify
      <4>2. QED
        <5>1. [move EXCEPT !.mapping = move.mapping \cup {d}] \in Move
          BY <1>25, <3>1, Growing
        <5>2. QED
          BY <4>1, <5>1, Raising DEF TypeOK
  <2>2. QED
    BY <1>16, <2>1 DEF Verify, TypeOK, Known
<1>17. CASE Switch
  <2>1. move' \in Move /\ faults' \in Nat
    BY <1>17, <1>25, Raising, Going DEF Switch, Goes, TypeOK
  <2>2. move.from \in Folders /\ move.to \in Folders
    BY DEF TypeOK, Move
  <2>3. root' \in Folders /\ former' \subseteq Folders
    BY <1>17, <2>2 DEF Switch, TypeOK
  <2>4. Known' \subseteq Docs /\ path' \in [Known' -> Folders]
    BY <1>17, <2>2 DEF Switch, TypeOK, Known
  <2>5. QED
    BY <1>17, <2>1, <2>3, <2>4 DEF Switch, TypeOK
<1>18. CASE NothingToLock
  <2>1. move' \in Move
    BY <1>18 DEF NothingToLock, Goes, TypeOK, Move
  <2>2. QED
    BY <1>18, <2>1 DEF NothingToLock, TypeOK, Known
<1>19. ASSUME NEW d \in Docs, Remove(d) PROVE TypeOK'
  <2>1. move' \in Move /\ faults' \in Nat /\ untidy' \in BOOLEAN
    <3>1. move.removed \cup {d} \subseteq Docs
      BY <1>25 DEF Move
    <3>2. QED
      <4>1. /\ Raises \/ (faults' = faults /\ move' = [move EXCEPT !.removed = move.removed \cup {d}])
            /\ untidy' = untidy \/ untidy' = TRUE
        BY <1>19 DEF Remove
      <4>2. QED
        <5>1. [move EXCEPT !.removed = move.removed \cup {d}] \in Move
          BY <1>25, <3>1, Growing
        <5>2. move' \in Move /\ faults' \in Nat
          BY <4>1, <5>1, Raising DEF TypeOK
        <5>3. untidy' \in BOOLEAN
          BY <4>1 DEF TypeOK
        <5>4. QED
          BY <5>2, <5>3
  <2>2. move.from \in Folders
    BY DEF TypeOK, Move
  <2>3. [store[move.from][d] EXCEPT !.kind = "partial"] \in Store
    <3>1. store[move.from][d] \in Store
      BY <2>2 DEF TypeOK
    <3>2. QED
      BY <1>0, <3>1, KindType
  <2>4. /\ [store EXCEPT ![move.from][d] = [store[move.from][d] EXCEPT !.kind = "partial"]]
             \in [Folders -> [Docs -> Store]]
        /\ [store EXCEPT ![move.from][d] = [NoStore EXCEPT !.kind = "shell"]]
             \in [Folders -> [Docs -> Store]]
    BY <2>2, <2>3, At, NoStoreType
  <2>5. store' \in [Folders -> [Docs -> Store]]
    BY <1>19, <2>4 DEF Remove, TypeOK
  <2>6. QED
    BY <1>19, <2>1, <2>5 DEF Remove, TypeOK, Known
<1>20. Unlocked(lease) \in [Folders -> [Docs -> Writers \cup {Free, Mover}]]
  BY DEF Unlocked, TypeOK
<1>21. CASE Finish
  <2>1. store' \in [Folders -> [Docs -> Store]]
    BY <1>21, NoStoreType DEF Finish, Tidy, TypeOK, Move
  <2>2. QED
    BY <1>20, <1>21, <2>1, NoMoveType DEF Finish, Released, TypeOK, Known
<1>22. CASE Rollback
  <2>1. store' \in [Folders -> [Docs -> Store]]
    <3>1. store \in [Folders -> [Docs -> Store]]
      BY DEF TypeOK
    <3>2. QED
      <4>1. \/ store' = store
            \/ store' = [store EXCEPT ![move.to] =
                           [d \in Docs |-> IF d \in Copies THEN NoStore ELSE store[move.to][d]]]
        BY <1>22 DEF Rollback
      <4>2. QED
        <5>1. [store EXCEPT ![move.to] =
                 [d \in Docs |-> IF d \in Copies THEN NoStore ELSE store[move.to][d]]]
                \in [Folders -> [Docs -> Store]]
          BY <1>25, <3>1, NoStoreType
        <5>2. QED
          BY <3>1, <4>1, <5>1
  <2>2. faults' \in Nat /\ untidy' \in BOOLEAN
    <3>1. faults \in Nat /\ untidy \in BOOLEAN
      BY DEF TypeOK
    <3>2. QED
      <4>1. /\ faults' = faults \/ faults' = faults + 1
            /\ untidy' = untidy \/ untidy' = TRUE
        BY <1>22 DEF Rollback, Fault
      <4>2. QED
        <5>1. faults' \in Nat
          BY <3>1, <4>1
        <5>2. untidy' \in BOOLEAN
          BY <3>1, <4>1
        <5>3. QED
          BY <5>1, <5>2
  <2>3. QED
    BY <1>20, <1>22, <2>1, <2>2, NoMoveType DEF Rollback, Released, TypeOK, Known
<1>23. CASE Crash
  <2>1. writer' \in [Writers -> [pc: {"idle", "found", "open", "writing"}, doc: Docs, at: Folders]]
    BY <1>23, IdleType DEF Crash
  <2>2. lease' \in [Folders -> [Docs -> Writers \cup {Free, Mover}]] /\ asked' \in Seq(Moves)
    BY <1>23 DEF Crash
  <2>3. faults' \in Nat /\ untidy' \in BOOLEAN
    BY <1>23 DEF Crash, Fault, TypeOK
  <2>4. QED
    BY <1>23, <2>1, <2>2, <2>3, NoMoveType DEF Crash, TypeOK, Known
<1>24. QED
  BY <1>1, <1>2, <1>3, <1>4, <1>5, <1>6, <1>7, <1>8, <1>9, <1>10, <1>11, <1>12, <1>13, <1>14,
     <1>15, <1>16, <1>17, <1>18, <1>19, <1>21, <1>22, <1>23 DEF Next, WriterStep, MoveStep

---------------------------------------------------------------------------
(* The shape of a move.                                                    *)

LEMMA Parties == "free" # "mover" /\ Free = "free" /\ Mover = "mover"
                 /\ \A w \in Writers : w # Free /\ w # Mover
  BY RelocationAssumption DEF RelocationAssumption, Free, Mover

LEMMA NobodyMoves == /\ NoMove.pc = "idle" /\ NoMove.live = {} /\ NoMove.locked = {}
                     /\ NoMove.copied = {} /\ NoMove.mapping = {} /\ NoMove.removed = {}
  BY DEF NoMove

\* What a step changes of the move.
LEMMA MoveParts ==
  ASSUME NEW m \in Move, NEW pc, NEW X
  PROVE  /\ LET n == [m EXCEPT !.pc = pc] IN
            /\ n.pc = pc /\ n.from = m.from /\ n.to = m.to /\ n.live = m.live /\ n.locked = m.locked
            /\ n.copied = m.copied /\ n.mapping = m.mapping /\ n.removed = m.removed
         /\ LET n == [m EXCEPT !.pc = pc, !.live = X] IN
            /\ n.pc = pc /\ n.from = m.from /\ n.to = m.to /\ n.live = X /\ n.locked = m.locked
            /\ n.copied = m.copied /\ n.mapping = m.mapping /\ n.removed = m.removed
         /\ LET n == [m EXCEPT !.locked = X, !.pc = pc] IN
            /\ n.pc = pc /\ n.from = m.from /\ n.to = m.to /\ n.live = m.live /\ n.locked = X
            /\ n.copied = m.copied /\ n.mapping = m.mapping /\ n.removed = m.removed
         /\ LET n == [m EXCEPT !.copied = X] IN
            /\ n.pc = m.pc /\ n.from = m.from /\ n.to = m.to /\ n.live = m.live /\ n.locked = m.locked
            /\ n.copied = X /\ n.mapping = m.mapping /\ n.removed = m.removed
         /\ LET n == [m EXCEPT !.mapping = X] IN
            /\ n.pc = m.pc /\ n.from = m.from /\ n.to = m.to /\ n.live = m.live /\ n.locked = m.locked
            /\ n.copied = m.copied /\ n.mapping = X /\ n.removed = m.removed
         /\ LET n == [m EXCEPT !.removed = X] IN
            /\ n.pc = m.pc /\ n.from = m.from /\ n.to = m.to /\ n.live = m.live /\ n.locked = m.locked
            /\ n.copied = m.copied /\ n.mapping = m.mapping /\ n.removed = X
  BY DEF Move

\* A move that has not switched can stop at any moment, and one that has keeps
\* what it locked.
LEMMA Stopping ==
  ASSUME TypeOK, Shape, move.pc # "idle", move' = [move EXCEPT !.pc = "rollback"],
         UNCHANGED <<root, path, lease, labels, former, returned>>
  PROVE  Shape'
  BY MoveParts DEF TypeOK, Shape, Known

LEMMA ShapeStep == TypeOK /\ Shape /\ Writing /\ [Next]_vars => Shape'
<1> SUFFICES ASSUME TypeOK, Shape, Writing, [Next]_vars PROVE Shape'
  OBVIOUS
<1>0. move \in Move /\ move.live \subseteq Docs
  BY DEF TypeOK, Move
<1> USE DEF catalogVars, diskVars, lockVars, ghosts, vars, WriterOnly, MoverOnly, Unmoved, InMove
<1>1. ASSUME UNCHANGED <<root, path, lease, move, labels, former, returned>> PROVE Shape'
  BY <1>1 DEF Shape, Known
<1>2. CASE \/ UNCHANGED vars
           \/ \E d \in Docs : Rename(d)
           \/ \E w \in Writers : (\E d \in Docs : LookUp(w, d)) \/ OpenStore(w) \/ Commit(w)
           \/ \E f \in Folders : RequestMove(f)
  BY <1>1, <1>2 DEF Rename, LookUp, OpenStore, Commit, RequestMove
<1>3. ASSUME NEW d \in Docs, AddDocument(d) PROVE Shape'
  BY <1>3 DEF AddDocument, Shape, Known
<1>4. ASSUME NEW w \in Writers, Acquire(w) PROVE Shape'
  <2>1. \A e \in move.locked : lease'[move.from][e] = Mover
    <3>1. lease' = lease \/ (lease[writer[w].at][writer[w].doc] = Free
                             /\ lease' = [lease EXCEPT ![writer[w].at][writer[w].doc] = w])
      BY <1>4 DEF Acquire
    <3>2. CASE lease' = lease
      BY <3>2 DEF Shape
    <3>3. ASSUME lease[writer[w].at][writer[w].doc] = Free, NEW e \in move.locked,
                 lease' = [lease EXCEPT ![writer[w].at][writer[w].doc] = w]
          PROVE  lease'[move.from][e] = Mover
      <4>1. lease[move.from][e] = Mover /\ Free # Mover
        BY Parties DEF Shape
      <4>2. lease \in [Folders -> [Docs -> Writers \cup {Free, Mover}]] /\ move.from \in Folders /\ e \in Docs
        BY <1>0 DEF TypeOK, Move
      <4>3. QED
        BY <3>3, <4>1, <4>2
    <3>4. QED
      BY <3>1, <3>2, <3>3
  <2>2. UNCHANGED <<root, path, move, labels, former, returned>>
    BY <1>4 DEF Acquire
  <2>3. QED
    BY <2>1, <2>2 DEF Shape, Known
<1>5. ASSUME NEW w \in Writers, CloseStore(w) PROVE Shape'
  <2>1. \A e \in move.locked : lease'[move.from][e] = Mover
    <3>1. lease[writer[w].at][writer[w].doc] = w /\ lease' = [lease EXCEPT ![writer[w].at][writer[w].doc] = Free]
      BY <1>5 DEF CloseStore, Writing
    <3>2. QED
      BY <3>1, Parties DEF Shape, TypeOK
  <2>2. UNCHANGED <<root, path, move, labels, former, returned>>
    BY <1>5 DEF CloseStore
  <2>3. QED
    BY <2>1, <2>2 DEF Shape, Known
<1>6. CASE Begin
  <2>1. CASE Head(asked)[1] = root
    <3>1. move' = [NoMove EXCEPT !.pc = "hold", !.from = root, !.to = Head(asked)[2]]
      BY <1>6, <2>1 DEF Begin
    <3>2. Head(asked)[1] # Head(asked)[2]
      BY <1>6 DEF Begin, TypeOK, Moves
    <3>3. /\ move'.pc = "hold" /\ move'.from = root /\ move'.to # root /\ move'.to = Head(asked)[2]
          /\ move'.live = {} /\ move'.locked = {} /\ move'.copied = {} /\ move'.mapping = {} /\ move'.removed = {}
      BY <2>1, <3>1, <3>2 DEF NoMove
    <3>4. root' = root /\ former' = former /\ labels' = TRUE /\ returned' = (returned \/ move'.to \in former)
      BY <1>6, <2>1, <3>3 DEF Begin
    <3>5. QED
      BY <3>3, <3>4 DEF Shape
  <2>2. CASE Head(asked)[1] # root
    BY <1>1, <1>6, <2>2 DEF Begin
  <2>3. QED
    BY <2>1, <2>2
<1>7. ASSUME Raises, move.pc # "idle", UNCHANGED <<root, path, lease, labels, former, returned>> PROVE Shape'
  BY <1>7, Stopping, Raising
<1>8. ASSUME NEW w \in Writers, Hold(w) PROVE Shape'
  BY <1>1, <1>7, <1>8 DEF Hold
<1>9. CASE Survey
  <2>1. CASE Raises
    BY <1>7, <1>9, <2>1 DEF Survey
  <2>2. CASE ~Raises
    <3> DEFINE live == {e \in Known : path[e] = move.from}
    <3>1. move' = [move EXCEPT !.pc = "lock", !.live = live]
      BY <1>9, <2>2 DEF Survey
    <3>2. /\ move'.pc = "lock" /\ move'.from = move.from /\ move'.to = move.to /\ move'.live = live
          /\ move'.locked = move.locked /\ move'.copied = {} /\ move'.mapping = move.mapping /\ move'.removed = {}
      BY <1>0, <1>9, <3>1, MoveParts DEF Survey, Shape
    <3>3. UNCHANGED <<root, path, lease, labels, former, returned>> /\ root = move.from
      BY <1>9 DEF Survey, Shape
    <3>4. move.locked = {}
      BY <1>9 DEF Survey, Shape
    <3>5. QED
      BY <1>9, <3>2, <3>3, <3>4 DEF Survey, Shape, Known
  <2>3. QED
    BY <2>1, <2>2
<1>10. ASSUME NEW d \in Docs, Lock(d) PROVE Shape'
  <2>1. CASE lease[move.from][d] = Free
    <3>1. PICK pc \in {"lock", "copy"} :
            /\ move' = [move EXCEPT !.locked = move.locked \cup {d}, !.pc = pc]
            /\ pc = "copy" => move.live = move.locked \cup {d}
      BY <1>10, <2>1 DEF Lock, Shape
    <3>2. /\ move'.pc = pc /\ move'.from = move.from /\ move'.to = move.to /\ move'.live = move.live
          /\ move'.locked = move.locked \cup {d} /\ move'.copied = move.copied
          /\ move'.mapping = move.mapping /\ move'.removed = move.removed
      BY <1>0, <3>1, MoveParts
    <3>3. /\ UNCHANGED <<root, path, labels, former, returned>>
          /\ root = move.from /\ d \in move.live /\ move.copied = {} /\ move.removed = {}
          /\ move.pc = "lock" /\ lease' = [lease EXCEPT ![move.from][d] = Mover]
      BY <1>10, <2>1 DEF Lock, Shape
    <3>4. \A e \in move'.locked : lease'[move'.from][e] = Mover
      BY <1>0, <3>2, <3>3 DEF Shape, TypeOK, Move
    <3>5. QED
      BY <3>1, <3>2, <3>3, <3>4 DEF Shape, Known
  <2>2. CASE lease[move.from][d] # Free
    BY <1>10, <2>2, Stopping DEF Lock, Goes
  <2>3. QED
    BY <2>1, <2>2
<1>11. ASSUME NEW d \in Docs, CopyBegins(d) PROVE Shape'
  <2>1. CASE Raises
    BY <1>7, <1>11, <2>1 DEF CopyBegins
  <2>2. CASE move' = [move EXCEPT !.pc = "rollback"]
    BY <1>11, <2>2, Stopping DEF CopyBegins
  <2>3. CASE move' = [move EXCEPT !.copied = move.copied \cup {d}]
    <3>1. /\ move'.pc = move.pc /\ move'.from = move.from /\ move'.to = move.to /\ move'.live = move.live
          /\ move'.locked = move.locked /\ move'.copied = move.copied \cup {d}
          /\ move'.mapping = move.mapping /\ move'.removed = move.removed
      BY <1>0, <2>3, MoveParts
    <3>2. UNCHANGED <<root, path, lease, labels, former, returned>> /\ move.pc = "copy" /\ d \in move.live
      BY <1>11 DEF CopyBegins
    <3>3. QED
      BY <3>1, <3>2 DEF Shape, Known
  <2>4. QED
    BY <1>11, <2>1, <2>2, <2>3 DEF CopyBegins, Goes
<1>12. ASSUME NEW d \in Docs, CopyEnds(d) PROVE Shape'
  BY <1>1, <1>7, <1>12 DEF CopyEnds
<1>13. ASSUME NEW d \in Docs, Verify(d) PROVE Shape'
  <2>1. CASE Raises
    BY <1>7, <1>13, <2>1 DEF Verify
  <2>2. CASE move' = [move EXCEPT !.mapping = move.mapping \cup {d}]
    <3>1. /\ move'.pc = move.pc /\ move'.from = move.from /\ move'.to = move.to /\ move'.live = move.live
          /\ move'.locked = move.locked /\ move'.copied = move.copied
          /\ move'.mapping = move.mapping \cup {d} /\ move'.removed = move.removed
      BY <1>0, <2>2, MoveParts
    <3>2. UNCHANGED <<root, path, lease, labels, former, returned>> /\ move.pc = "copy" /\ d \in move.copied
      BY <1>13 DEF Verify
    <3>3. QED
      BY <3>1, <3>2 DEF Shape, Known
  <2>3. QED
    BY <1>13, <2>1, <2>2 DEF Verify
<1>14. CASE Switch
  <2>1. /\ move.pc = "copy" /\ move.mapping = move.live /\ UNCHANGED <<lease, labels, returned>>
        /\ move.live = move.locked /\ move.live \subseteq Known
    BY <1>14 DEF Switch, Shape
  <2>2. CASE root' = root
    <3>1. Raises /\ UNCHANGED <<path, former>>
      BY <1>14, <2>1, <2>2 DEF Switch, Shape
    <3>2. QED
      BY <1>7, <2>1, <2>2, <3>1
  <2>3. CASE root' # root
    <3>1. /\ root' = move.to /\ former' = former \cup {move.from}
          /\ path' = [d \in Known |-> IF d \in move.mapping THEN move.to ELSE path[d]]
      BY <1>14, <2>3 DEF Switch
    <3>2. PICK pc \in {"remove", "rollback"} : move' = [move EXCEPT !.pc = pc]
      BY <1>14, Raising DEF Switch, Goes
    <3>3. /\ move'.pc = pc /\ move'.from = move.from /\ move'.to = move.to /\ move'.live = move.live
          /\ move'.locked = move.locked /\ move'.copied = move.copied
          /\ move'.mapping = move.mapping /\ move'.removed = move.removed
      BY <1>0, <3>2, MoveParts
    <3>4. \A d \in move.live : d \in Known' /\ path'[d] = move.to
      BY <2>1, <3>1 DEF Known
    <3>5. QED
      BY <2>1, <3>1, <3>2, <3>3, <3>4 DEF Shape
  <2>4. QED
    BY <2>2, <2>3
<1>15. CASE NothingToLock
  <2>1. move' = [move EXCEPT !.pc = "copy"] /\ UNCHANGED <<root, path, lease, labels, former, returned>>
        /\ move.live = {} /\ move.pc = "lock"
    BY <1>15 DEF NothingToLock, Goes
  <2>2. /\ move'.pc = "copy" /\ move'.from = move.from /\ move'.to = move.to /\ move'.live = move.live
        /\ move'.locked = move.locked /\ move'.copied = move.copied
        /\ move'.mapping = move.mapping /\ move'.removed = move.removed
    BY <1>0, <2>1, MoveParts
  <2>3. QED
    BY <2>1, <2>2 DEF Shape
<1>16. ASSUME NEW d \in Docs, Remove(d) PROVE Shape'
  <2>1. CASE Raises
    BY <1>7, <1>16, <2>1 DEF Remove
  <2>2. CASE move' = [move EXCEPT !.removed = move.removed \cup {d}]
    <3>1. /\ move'.pc = move.pc /\ move'.from = move.from /\ move'.to = move.to /\ move'.live = move.live
          /\ move'.locked = move.locked /\ move'.copied = move.copied
          /\ move'.mapping = move.mapping /\ move'.removed = move.removed \cup {d}
      BY <1>0, <2>2, MoveParts
    <3>2. UNCHANGED <<root, path, lease, labels, former, returned>> /\ move.pc = "remove" /\ d \in move.live
      BY <1>16 DEF Remove
    <3>3. QED
      BY <3>1, <3>2 DEF Shape, Known
  <2>3. QED
    BY <1>16, <2>1, <2>2 DEF Remove
<1>17. ASSUME move' = NoMove PROVE Shape'
  BY <1>17, NobodyMoves DEF Shape
<1>18. CASE Finish \/ Rollback \/ Crash
  BY <1>17, <1>18 DEF Finish, Rollback, Crash, Released
<1>19. QED
  BY <1>2, <1>3, <1>4, <1>5, <1>6, <1>8, <1>9, <1>10, <1>11, <1>12, <1>13, <1>14, <1>15, <1>16,
     <1>18 DEF Next, WriterStep, MoveStep

---------------------------------------------------------------------------
(* What happens to the folders.                                            *)

Versions(s) == s.main + s.log

\* A writer changes one folder, and there only the log, or a missing folder.
LEMMA WriterStores ==
  ASSUME TypeOK, NEW w \in Writers, Acquire(w) \/ Commit(w) \/ CloseStore(w),
         NEW g \in Folders, NEW e \in Docs
  PROVE  /\ store'[g][e].kind = store[g][e].kind
            \/ (store[g][e].kind = "none" /\ store'[g][e].kind = "shell")
         /\ (g = writer[w].at /\ e = writer[w].doc) \/ store'[g][e] = store[g][e]
         /\ Commit(w) /\ g = writer[w].at /\ e = writer[w].doc =>
              Versions(store'[g][e]) = Versions(store[g][e]) + 1
         /\ ~Commit(w) => Versions(store'[g][e]) = Versions(store[g][e])
         /\ store[g][e].log = 0 /\ store'[g][e].log # 0 =>
              Commit(w) /\ g = writer[w].at /\ e = writer[w].doc
<1> DEFINE f == writer[w].at
           d == writer[w].doc
<1>1. f \in Folders /\ d \in Docs /\ store[f][d] \in Store /\ store[g][e] \in Store
  BY DEF TypeOK
<1>2. ASSUME NEW s \in Store, store' = [store EXCEPT ![f][d] = s]
      PROVE  store'[g][e] = IF g = f /\ e = d THEN s ELSE store[g][e]
  BY <1>1, <1>2, At
<1>3. ASSUME UNCHANGED store PROVE
        /\ store'[g][e] = store[g][e] /\ Versions(store'[g][e]) = Versions(store[g][e])
  BY <1>3
<1>4. CASE Acquire(w)
  <2>1. store' = store \/ (store[f][d].kind = "none" /\ store' = [store EXCEPT ![f][d].kind = "shell"])
    BY <1>4 DEF Acquire, diskVars
  <2>2. ~Commit(w)
    BY <1>4 DEF Acquire, Commit
  <2>3. CASE store' = store
    BY <1>3, <2>2, <2>3
  <2>4. CASE store[f][d].kind = "none" /\ store' = [store EXCEPT ![f][d].kind = "shell"]
    <3> DEFINE s == [store[f][d] EXCEPT !.kind = "shell"]
    <3>1. s \in Store /\ s.kind = "shell" /\ s.main = store[f][d].main /\ s.log = store[f][d].log
      BY <1>1, KindType DEF Store, Kinds
    <3>2. store' = [store EXCEPT ![f][d] = s]
      BY <2>4
    <3>3. store'[g][e] = IF g = f /\ e = d THEN s ELSE store[g][e]
      BY <1>2, <3>1, <3>2
    <3> HIDE DEF s
    <3>4. QED
      BY <2>2, <2>4, <3>1, <3>3 DEF Versions
  <2>5. QED
    BY <2>1, <2>3, <2>4
<1>5. CASE Commit(w)
  <2> DEFINE s == [store[f][d] EXCEPT !.log = store[f][d].log + 1]
  <2>1. s \in Store /\ s.kind = store[f][d].kind /\ s.main = store[f][d].main
        /\ s.log = store[f][d].log + 1
    BY <1>1 DEF Store
  <2>2. store' = [store EXCEPT ![f][d] = s]
    BY <1>5 DEF Commit
  <2>3. store'[g][e] = IF g = f /\ e = d THEN s ELSE store[g][e]
    BY <1>2, <2>1, <2>2
  <2> HIDE DEF s
  <2>4. store[f][d].main \in Nat /\ store[f][d].log \in Nat
    BY <1>1 DEF Store
  <2>5. QED
    BY <1>5, <2>1, <2>3, <2>4 DEF Versions
<1>6. CASE CloseStore(w)
  <2>1. store' = store \/ store' = [store EXCEPT ![f][d] = Folded(store[f][d])]
    BY <1>6 DEF CloseStore
  <2>2. ASSUME Commit(w) PROVE writer' # writer' 
    <3>1. writer[w].pc = "writing" /\ writer' = [writer EXCEPT ![w] = Idle] /\ writer' = writer
      BY <1>6, <2>2 DEF CloseStore, Commit
    <3>2. writer'[w] = Idle /\ Idle.pc = "idle"
      BY <3>1 DEF TypeOK, Idle
    <3>3. QED
      BY <3>1, <3>2
  <2>3. CASE store' = store
    BY <1>3, <2>2, <2>3
  <2>4. CASE store' = [store EXCEPT ![f][d] = Folded(store[f][d])]
    <3>1. /\ Folded(store[f][d]) \in Store /\ Folded(store[f][d]).kind = store[f][d].kind
          /\ Folded(store[f][d]).log = 0 /\ Versions(Folded(store[f][d])) = Versions(store[f][d])
      BY <1>1, FoldedType DEF Versions
    <3>2. store'[g][e] = IF g = f /\ e = d THEN Folded(store[f][d]) ELSE store[g][e]
      BY <1>2, <2>4, <3>1
    <3>3. QED
      BY <2>2, <3>1, <3>2
  <2>5. QED
    BY <2>1, <2>3, <2>4
<1>7. QED
  BY <1>4, <1>5, <1>6

\* A move changes a history only in the two folders it is about, and never its
\* folder but to fold the log.
LEMMA MoveStores ==
  ASSUME TypeOK, Shape, MoveStep, NEW g \in Folders, NEW e \in Docs,
         e \notin move.live \/ (g # move.from /\ g # move.to)
         \/ (g = path[e])
  PROVE  /\ store'[g][e].kind = store[g][e].kind
         /\ Versions(store'[g][e]) = Versions(store[g][e])
<1> USE DEF catalogVars, diskVars, lockVars, ghosts, vars, MoverOnly, Unmoved, InMove
<1>0. /\ move \in Move /\ move.from \in Folders /\ move.to \in Folders /\ store[g][e] \in Store
      /\ store \in [Folders -> [Docs -> Store]]
  BY DEF TypeOK, Move
<1>1. ASSUME UNCHANGED store
      PROVE  store'[g][e] = store[g][e] /\ Versions(store'[g][e]) = Versions(store[g][e])
  BY <1>1
<1>2. CASE \/ Begin \/ Survey \/ NothingToLock \/ Switch \/ \E w \in Writers : Hold(w)
           \/ \E d \in Docs : Lock(d) \/ Verify(d)
  BY <1>1, <1>2 DEF Begin, Survey, NothingToLock, Switch, Hold, Lock, Verify
<1>3. ASSUME NEW d \in move.live, move.pc # "idle"
      PROVE  d \in Docs /\ path[d] = root /\ move.from # move.to /\ root \in {move.from, move.to}
  BY <1>0, <1>3 DEF Shape, Move
<1>4. ASSUME NEW d \in Docs, CopyBegins(d) PROVE
             /\ store'[g][e].kind = store[g][e].kind
             /\ Versions(store'[g][e]) = Versions(store[g][e])
  <2>1. d \in move.live /\ move.pc = "copy" /\ root = move.from
    BY <1>4 DEF CopyBegins, Shape
  <2>2. store' = store \/ store' = [store EXCEPT ![move.from][d] = Folded(@), ![move.to][d].kind = "partial"]
    BY <1>4 DEF CopyBegins
  <2>3. store[move.from][d] \in Store
    BY <1>0
  <2>4. ASSUME store' = [store EXCEPT ![move.from][d] = Folded(store[move.from][d]), ![move.to][d].kind = "partial"]
        PROVE  \/ store'[g][e] = store[g][e]
               \/ (g = move.from /\ e = d /\ store'[g][e] = Folded(store[g][e]))
    BY <1>0, <1>3, <2>1, <2>4
  <2>5. Folded(store[g][e]).kind = store[g][e].kind /\ Versions(Folded(store[g][e])) = Versions(store[g][e])
    BY <1>0, FoldedType DEF Versions
  <2>6. QED
    BY <1>1, <2>2, <2>4, <2>5
<1>5. ASSUME NEW d \in Docs, CopyEnds(d) PROVE store'[g][e] = store[g][e]
  <2>1. d \in move.live /\ move.pc = "copy" /\ root = move.from
    BY <1>5 DEF CopyEnds, Shape
  <2>2. store' = store \/ store' = [store EXCEPT ![move.to][d] =
                           [kind |-> "whole", main |-> store[move.from][d].main, log |-> 0]]
    BY <1>5 DEF CopyEnds
  <2>3. QED
    BY <1>0, <1>3, <2>1, <2>2
<1>6. ASSUME NEW d \in Docs, Remove(d) PROVE store'[g][e] = store[g][e]
  <2>1. d \in move.live /\ move.pc = "remove" /\ root = move.to
    BY <1>6 DEF Remove, Shape
  <2>2. \/ store' = store
        \/ store' = [store EXCEPT ![move.from][d] = [NoStore EXCEPT !.kind = "shell"]]
        \/ store' = [store EXCEPT ![move.from][d].kind = "partial"]
    BY <1>6 DEF Remove
  <2>3. QED
    BY <1>0, <1>3, <2>1, <2>2
<1>7. CASE Finish
  <2>1. move.pc = "remove" /\ root = move.to /\ move.removed = move.live
    BY <1>7 DEF Finish, Shape
  <2>2. store' = [store EXCEPT ![move.from] =
                   [d \in Docs |-> IF d \in move.removed THEN NoStore ELSE store[move.from][d]]]
    BY <1>7 DEF Finish, Tidy
  <2>3. store'[g][e] = store[g][e]
    BY <1>0, <1>3, <2>1, <2>2
  <2>4. QED
    BY <2>3
<1>8. CASE Rollback
  <2>1. move.pc = "rollback" /\ move.copied \subseteq move.live
    BY <1>8 DEF Rollback, Shape
  <2>2. \/ store' = store
        \/ /\ root # move.to
           /\ store' = [store EXCEPT ![move.to] =
                   [d \in Docs |-> IF d \in move.copied THEN NoStore ELSE store[move.to][d]]]
    BY <1>8 DEF Rollback, Switched, Copies
  <2>3. store'[g][e] = store[g][e]
    BY <1>0, <1>3, <2>1, <2>2
  <2>4. QED
    BY <2>3
<1>9. QED
  BY <1>2, <1>4, <1>5, <1>6, <1>7, <1>8 DEF MoveStep

---------------------------------------------------------------------------
(* Who writes, and where.                                                  *)

LEMMA ExcusedStays == TypeOK /\ [Next]_vars /\ Excused => Excused'
<1> SUFFICES ASSUME [Next]_vars PROVE (untidy => untidy') /\ (returned => returned')
  BY DEF Excused
<1> USE DEF catalogVars, diskVars, lockVars, ghosts, vars, WriterOnly, MoverOnly, Unmoved, InMove
<1>1. CASE UNCHANGED vars \/ \E f \in Folders : RequestMove(f)
  BY <1>1 DEF RequestMove
<1>2. CASE WriterStep
  <2>1. CASE \E d \in Docs : AddDocument(d) \/ Rename(d)
    BY <2>1 DEF AddDocument, Rename
  <2>2. CASE \E w \in Writers : (\E d \in Docs : LookUp(w, d)) \/ OpenStore(w) \/ Commit(w)
    BY <2>2 DEF LookUp, OpenStore, Commit
  <2>3. CASE \E w \in Writers : Acquire(w) \/ CloseStore(w)
    BY <2>3 DEF Acquire, CloseStore
  <2>4. QED
    BY <1>2, <2>1, <2>2, <2>3 DEF WriterStep
<1>3. CASE MoveStep
  <2>1. CASE Survey \/ NothingToLock \/ \E w \in Writers : Hold(w)
    BY <2>1 DEF Survey, NothingToLock, Hold
  <2>6. CASE Begin
    <3>1. UNCHANGED untidy
      BY <2>6 DEF Begin
    <3>2. returned => returned'
      BY <2>6 DEF Begin
    <3>3. QED
      BY <3>1, <3>2
  <2>2. CASE \E d \in Docs : Lock(d) \/ CopyBegins(d) \/ CopyEnds(d) \/ Verify(d)
    BY <2>2 DEF Lock, CopyBegins, CopyEnds, Verify
  <2>3. CASE Switch
    BY <2>3 DEF Switch
  <2>7. ASSUME NEW d \in Docs, Remove(d) PROVE (untidy => untidy') /\ (returned => returned')
    <3>1. UNCHANGED returned
      BY <2>7 DEF Remove
    <3>2. UNCHANGED untidy \/ untidy' = TRUE
      BY <2>7 DEF Remove
    <3>3. QED
      BY <3>1, <3>2
  <2>4. CASE Finish \/ Rollback
    BY <2>4 DEF Finish, Rollback
  <2>5. QED
    BY <1>3, <2>1, <2>2, <2>3, <2>4, <2>6, <2>7 DEF MoveStep
<1>4. CASE Crash
  BY <1>4 DEF Crash
<1>5. QED
  BY <1>1, <1>2, <1>3, <1>4 DEF Next

LEMMA WritingStep == TypeOK /\ Shape /\ Writing /\ Elsewhere /\ [Next]_vars => Writing'
<1> SUFFICES ASSUME TypeOK, Shape, Writing, Elsewhere, [Next]_vars PROVE Writing'
  OBVIOUS
<1> USE DEF catalogVars, diskVars, lockVars, ghosts, vars, WriterOnly, MoverOnly, Unmoved, InMove
<1>0. /\ writer \in [Writers -> [pc: {"idle", "found", "open", "writing"}, doc: Docs, at: Folders]]
      /\ lease \in [Folders -> [Docs -> Writers \cup {Free, Mover}]]
      /\ move \in Move /\ move.from \in Folders /\ move.to \in Folders
      /\ \A v \in Writers : writer[v].at \in Folders /\ writer[v].doc \in Docs
  BY DEF TypeOK, Move
<1>1. Excused => Excused'
  BY ExcusedStays
\* Writers that do nothing, in a step that takes nothing from them.
<1>2. ASSUME NEW v \in Writers, writer'[v] = writer[v], former \subseteq former',
             writer[v].doc \in Known =>
               writer[v].doc \in Known' /\ path'[writer[v].doc] = path[writer[v].doc],
             lease[writer[v].at][writer[v].doc] = v => lease'[writer[v].at][writer[v].doc] = v
      PROVE  /\ writer'[v].pc # "idle" =>
                  /\ writer'[v].doc \in Known'
                  /\ writer'[v].at = path'[writer'[v].doc] \/ writer'[v].at \in former'
             /\ writer'[v].pc = "writing" =>
                  /\ lease'[writer'[v].at][writer'[v].doc] = v
                  /\ writer'[v].at = path'[writer'[v].doc] \/ Excused'
  BY <1>1, <1>2 DEF Writing
<1>3. ASSUME UNCHANGED <<writer, path, former>>,
             \A v \in Writers : lease[writer[v].at][writer[v].doc] = v
                                  => lease'[writer[v].at][writer[v].doc] = v
      PROVE  Writing'
  BY <1>2, <1>3 DEF Writing, Known
<1>4. CASE \/ UNCHANGED vars
           \/ \E d \in Docs : Rename(d)
           \/ \E w \in Writers : Commit(w) \/ Hold(w)
           \/ \E f \in Folders : RequestMove(f)
           \/ Begin \/ Survey \/ NothingToLock
           \/ \E d \in Docs : CopyBegins(d) \/ CopyEnds(d) \/ Verify(d) \/ Remove(d)
  BY <1>3, <1>4 DEF Rename, Commit, Hold, RequestMove, Begin, Survey, NothingToLock, CopyBegins,
     CopyEnds, Verify, Remove
<1>5. ASSUME NEW d \in Docs, AddDocument(d) PROVE Writing'
  <2>1. \A v \in Writers : writer[v].doc \in Known =>
               writer[v].doc \in Known' /\ path'[writer[v].doc] = path[writer[v].doc]
    BY <1>5 DEF AddDocument, Known
  <2>2. UNCHANGED <<writer, lease, former>>
    BY <1>5 DEF AddDocument
  <2>3. QED
    BY <1>2, <2>1, <2>2 DEF Writing
<1>6. ASSUME NEW w \in Writers, NEW v \in Writers, v # w,
             (\E d \in Docs : LookUp(w, d)) \/ OpenStore(w) \/ Acquire(w) \/ CloseStore(w)
      PROVE  /\ writer'[v] = writer[v] /\ UNCHANGED <<path, former>>
             /\ lease[writer[v].at][writer[v].doc] = v => lease'[writer[v].at][writer[v].doc] = v
  <2>1. UNCHANGED <<path, former>>
    BY <1>6 DEF LookUp, OpenStore, Acquire, CloseStore
  <2>2. \E x : writer' = [writer EXCEPT ![w] = x]
    BY <1>6 DEF LookUp, OpenStore, Acquire, CloseStore
  <2>3. writer'[v] = writer[v]
    BY <1>0, <1>6, <2>2
  <2>4. \/ lease' = lease
        \/ /\ lease[writer[w].at][writer[w].doc] = Free
           /\ lease' = [lease EXCEPT ![writer[w].at][writer[w].doc] = w]
        \/ /\ lease[writer[w].at][writer[w].doc] = w
           /\ lease' = [lease EXCEPT ![writer[w].at][writer[w].doc] = Free]
    BY <1>6 DEF LookUp, OpenStore, Acquire, CloseStore, Writing
  <2>5. lease[writer[v].at][writer[v].doc] = v => lease'[writer[v].at][writer[v].doc] = v
    <3>1. v # Free
      BY Parties
    <3>2. ASSUME NEW f \in Folders, NEW d \in Docs, NEW g \in Folders, NEW e \in Docs, NEW x,
                 lease' = [lease EXCEPT ![f][d] = x], lease[g][e] = v, lease[f][d] # v
          PROVE  lease'[g][e] = v
      BY <1>0, <3>2
    <3>3. QED
      <4>1. CASE lease' = lease
        BY <4>1
      <4>2. CASE lease' # lease
        <5>1. PICK x : /\ lease' = [lease EXCEPT ![writer[w].at][writer[w].doc] = x]
                       /\ lease[writer[w].at][writer[w].doc] # v
          BY <1>6, <2>4, <3>1, <4>2
        <5>2. /\ writer[w].at \in Folders /\ writer[w].doc \in Docs
              /\ writer[v].at \in Folders /\ writer[v].doc \in Docs
          BY <1>0
        <5>3. QED
          BY <3>2, <5>1, <5>2
      <4>3. QED
        BY <4>1, <4>2
  <2>6. QED
    BY <2>1, <2>3, <2>5
<1>7. ASSUME NEW w \in Writers, UNCHANGED <<path, former>>,
             (\E d \in Docs : LookUp(w, d)) \/ OpenStore(w) \/ Acquire(w) \/ CloseStore(w),
             /\ writer'[w].pc # "idle" =>
                  /\ writer'[w].doc \in Known'
                  /\ writer'[w].at = path'[writer'[w].doc] \/ writer'[w].at \in former'
             /\ writer'[w].pc = "writing" =>
                  /\ lease'[writer'[w].at][writer'[w].doc] = w
                  /\ writer'[w].at = path'[writer'[w].doc] \/ Excused'
      PROVE  Writing'
  BY <1>2, <1>6, <1>7 DEF Writing, Known
<1>8. ASSUME NEW w \in Writers, NEW d \in Docs, LookUp(w, d) PROVE Writing'
  <2>1. writer'[w] = [pc |-> "found", doc |-> d, at |-> path[d]]
    BY <1>0, <1>8 DEF LookUp
  <2>2. d \in Known /\ UNCHANGED <<path, former>>
    BY <1>8 DEF LookUp
  <2>3. QED
    BY <1>7, <1>8, <2>1, <2>2 DEF Known
<1>9. ASSUME NEW w \in Writers, writer'[w] = Idle, UNCHANGED <<path, former>>,
             OpenStore(w) \/ Acquire(w) \/ CloseStore(w)
      PROVE  Writing'
  <2>1. writer'[w].pc = "idle"
    BY <1>9 DEF Idle
  <2>2. QED
    BY <1>7, <1>9, <2>1
<1>10. ASSUME NEW w \in Writers, OpenStore(w) PROVE Writing'
  <2>1. UNCHANGED <<path, former>>
    BY <1>10 DEF OpenStore
  <2>2. CASE writer' = [writer EXCEPT ![w] = Idle]
    BY <1>0, <1>9, <1>10, <2>1, <2>2
  <2>3. CASE writer' # [writer EXCEPT ![w] = Idle]
    <3>1. writer[w].pc = "found" /\ writer' = [writer EXCEPT ![w].pc = "open"]
      BY <1>10, <2>3 DEF OpenStore
    <3>2. writer'[w].pc = "open" /\ writer'[w].doc = writer[w].doc /\ writer'[w].at = writer[w].at
      BY <1>0, <3>1
    <3>3. /\ writer[w].doc \in Known
          /\ writer[w].at = path[writer[w].doc] \/ writer[w].at \in former
      BY <3>1 DEF Writing
    <3>4. QED
      BY <1>7, <1>10, <2>1, <3>2, <3>3 DEF Known
  <2>4. QED
    BY <2>2, <2>3
<1>11. ASSUME NEW w \in Writers, Acquire(w) PROVE Writing'
  <2> DEFINE f == writer[w].at
             d == writer[w].doc
  <2>1. UNCHANGED <<path, former>> /\ writer[w].pc = "open"
    BY <1>11 DEF Acquire
  <2>2. CASE writer' = [writer EXCEPT ![w] = Idle]
    BY <1>0, <1>9, <1>11, <2>1, <2>2
  <2>3. CASE writer' # [writer EXCEPT ![w] = Idle]
    <3>1. /\ lease[f][d] = Free /\ store[f][d].kind = "whole"
          /\ lease' = [lease EXCEPT ![f][d] = w]
          /\ writer' = [writer EXCEPT ![w].pc = "writing"]
      BY <1>11, <2>3 DEF Acquire
    <3>2. writer'[w].pc = "writing" /\ writer'[w].doc = d /\ writer'[w].at = f
      BY <1>0, <3>1
    <3>3. lease'[f][d] = w
      BY <1>0, <3>1
    <3>4. d \in Known /\ (f = path[d] \/ f \in former)
      BY <2>1 DEF Writing
    <3>5. f = path[d] \/ Excused
      <4>1. CASE untidy \/ f = path[d]
        BY <4>1 DEF Excused
      <4>2. CASE ~untidy /\ f # path[d]
        <5>1. CopyAt(f, d)
          BY <1>0, <3>1, <4>2 DEF Elsewhere
        <5>2. move.pc # "idle"
          BY <5>1 DEF CopyAt, Shape
        <5>3. d \in move.live
          BY <5>1 DEF CopyAt, Shape
        <5>4. CASE root = move.to /\ f = move.from
          BY <3>1, <5>2, <5>3, <5>4, Parties DEF Shape
        <5>5. CASE root = move.from /\ f = move.to
          BY <3>4, <4>2, <5>2, <5>5 DEF Shape, Excused
        <5>6. QED
          BY <5>1, <5>4, <5>5 DEF CopyAt
      <4>3. QED
        BY <4>1, <4>2
    <3>6. QED
      BY <1>1, <1>7, <1>11, <2>1, <3>2, <3>3, <3>4, <3>5 DEF Known
  <2>4. QED
    BY <2>2, <2>3
<1>12. ASSUME NEW w \in Writers, CloseStore(w) PROVE Writing'
  BY <1>0, <1>9, <1>12 DEF CloseStore
<1>13. ASSUME NEW d \in Docs, Lock(d) PROVE Writing'
  <2>1. UNCHANGED <<writer, path, former>>
    BY <1>13 DEF Lock
  <2>2. lease' = lease \/ (lease[move.from][d] = Free /\ lease' = [lease EXCEPT ![move.from][d] = Mover])
    BY <1>13 DEF Lock
  <2>3. ASSUME NEW v \in Writers, NEW g \in Folders, NEW e \in Docs, lease[g][e] = v PROVE lease'[g][e] = v
    <3>1. v # Free
      BY Parties
    <3>2. CASE lease' = lease
      BY <2>3, <3>2
    <3>3. CASE lease[move.from][d] = Free /\ lease' = [lease EXCEPT ![move.from][d] = Mover]
      BY <1>0, <2>3, <3>1, <3>3
    <3>4. QED
      BY <2>2, <3>2, <3>3
  <2>4. QED
    BY <1>0, <1>3, <2>1, <2>3
<1>14. CASE Switch
  <2>1. CASE path' = path
    <3>1. UNCHANGED <<writer, lease>> /\ former \subseteq former'
      BY <1>14 DEF Switch
    <3>2. QED
      BY <1>2, <2>1, <3>1 DEF Writing, Known
  <2>2. CASE path' # path
    <3>1. /\ UNCHANGED <<writer, lease>> /\ former' = former \cup {move.from}
          /\ move.pc = "copy" /\ move.mapping = move.live
          /\ path' = [d \in Known |-> IF d \in move.mapping THEN move.to ELSE path[d]]
      BY <1>14, <2>2 DEF Switch
    <3>2. Known' = Known
      BY <3>1 DEF Known
    <3>3. ASSUME NEW v \in Writers, writer[v].doc \in move.mapping
          PROVE  /\ writer[v].pc # "idle" =>
                       /\ writer[v].doc \in Known'
                       /\ writer[v].at = path'[writer[v].doc] \/ writer[v].at \in former'
                 /\ writer[v].pc = "writing" =>
                       /\ lease'[writer[v].at][writer[v].doc] = v
                       /\ writer[v].at = path'[writer[v].doc] \/ Excused'
      <4> DEFINE d == writer[v].doc
      <4>1. d \in move.live /\ d \in Known /\ path[d] = move.from /\ lease[move.from][d] = Mover /\ v # Mover
        BY <3>1, <3>3, Parties DEF Shape
      <4>2. QED
        BY <1>1, <3>1, <3>2, <4>1 DEF Writing
    <3>4. ASSUME NEW v \in Writers, writer[v].doc \notin move.mapping
          PROVE  writer[v].doc \in Known =>
                   writer[v].doc \in Known' /\ path'[writer[v].doc] = path[writer[v].doc]
      BY <3>1, <3>2, <3>4
    <3>5. QED
      BY <1>2, <3>1, <3>3, <3>4 DEF Writing
  <2>3. QED
    BY <2>1, <2>2
<1>15. CASE Finish \/ Rollback
  <2>1. UNCHANGED <<writer, path, former>> /\ lease' = Unlocked(lease)
    BY <1>15 DEF Finish, Rollback, Released
  <2>2. ASSUME NEW v \in Writers, NEW g \in Folders, NEW e \in Docs, lease[g][e] = v PROVE lease'[g][e] = v
    BY <2>1, <2>2, Parties DEF Unlocked
  <2>3. QED
    BY <1>0, <1>3, <2>1, <2>2
<1>16. CASE Crash
  BY <1>16 DEF Crash, Writing, Idle
<1>17. QED
  BY <1>4, <1>5, <1>8, <1>10, <1>11, <1>12, <1>13, <1>14, <1>15, <1>16 DEF Next, WriterStep, MoveStep

---------------------------------------------------------------------------
(* Where the copies are.                                                   *)

LEMMA ElsewhereStep == TypeOK /\ Shape /\ Writing /\ Elsewhere /\ [Next]_vars => Elsewhere'
<1> SUFFICES ASSUME TypeOK, Shape, Writing, Elsewhere, [Next]_vars, ~untidy',
                    NEW g \in Folders, NEW e \in Docs, store'[g][e].kind \in {"partial", "whole"}
             PROVE  e \in Known' /\ (g = path'[e] \/ CopyAt(g, e)')
  BY DEF Elsewhere
<1> DEFINE Goal == e \in Known' /\ (g = path'[e] \/ CopyAt(g, e)')
<1> USE DEF catalogVars, diskVars, lockVars, ghosts, vars, WriterOnly, MoverOnly, Unmoved, InMove
<1>0. /\ move \in Move /\ move.from \in Folders /\ move.to \in Folders
      /\ store \in [Folders -> [Docs -> Store]] /\ store[g][e] \in Store
  BY DEF TypeOK, Move
\* What was there before the step.
<1>1. ASSUME ~untidy, store[g][e].kind \in {"partial", "whole"}
      PROVE  e \in Known /\ (g = path[e] \/ CopyAt(g, e))
  BY <1>1 DEF Elsewhere
<1>2. ASSUME UNCHANGED <<root, path, move>>, ~untidy, store'[g][e].kind = store[g][e].kind PROVE Goal
  BY <1>1, <1>2 DEF CopyAt, Known
<1>3. ASSUME UNCHANGED <<root, path, store>>, ~untidy, move.pc \in {"hold", "lock", "copy"}, move \in Move,
             move'.from = move.from, move'.to = move.to, move'.copied = move.copied
      PROVE  Goal
  BY <1>1, <1>3 DEF CopyAt, Known, Shape
<1>4. ASSUME Raises PROVE /\ move'.from = move.from /\ move'.to = move.to /\ move'.copied = move.copied
                          /\ move'.live = move.live /\ move'.removed = move.removed
  <2>1. move' = [move EXCEPT !.pc = "rollback"]
    BY <1>4 DEF Raises, Goes
  <2>2. QED
    BY <1>0, <2>1, MoveParts
<1>5. CASE \/ UNCHANGED vars
           \/ \E f \in Folders : RequestMove(f)
           \/ \E w \in Writers : (\E d \in Docs : LookUp(w, d)) \/ OpenStore(w)
  BY <1>2, <1>5 DEF RequestMove, LookUp, OpenStore
<1>6. ASSUME NEW w \in Writers, Acquire(w) \/ Commit(w) \/ CloseStore(w) PROVE Goal
  <2>1. store'[g][e].kind = store[g][e].kind
    BY <1>6, WriterStores
  <2>2. UNCHANGED <<root, path, move, untidy>>
    BY <1>6 DEF Acquire, Commit, CloseStore
  <2>3. QED
    BY <1>2, <2>1, <2>2
<1>7. ASSUME NEW d \in Docs, AddDocument(d) PROVE Goal
  <2>1. /\ store' = [store EXCEPT ![root][d] = [NoStore EXCEPT !.kind = "whole"]]
        /\ path' = [x \in Known \cup {d} |-> IF x = d THEN root ELSE path[x]]
        /\ UNCHANGED <<root, move, untidy>> /\ d \notin Known
    BY <1>7 DEF AddDocument
  <2>2. root \in Folders /\ Known' = Known \cup {d}
    BY <2>1 DEF TypeOK, Known
  <2>3. CASE g = root /\ e = d
    BY <2>1, <2>2, <2>3
  <2>4. CASE ~(g = root /\ e = d)
    <3>1. store'[g][e] = store[g][e]
      BY <1>0, <2>1, <2>2, <2>4
    <3>2. e \in Known /\ (g = path[e] \/ CopyAt(g, e))
      BY <1>1, <2>1, <3>1
    <3>3. QED
      BY <2>1, <2>2, <3>2 DEF CopyAt
  <2>5. QED
    BY <2>3, <2>4
<1>8. ASSUME NEW d \in Docs, Rename(d) PROVE Goal
  <2>1. d \in Known /\ path[d] \in Folders
    BY <1>8 DEF Rename, TypeOK
  <2> DEFINE s == [store[path[d]][d] EXCEPT !.main = store[path[d]][d].main + 1]
  <2>2. store[path[d]][d] \in Store
    BY <1>0, <2>1
  <2>3. s \in Store /\ s.kind = store[path[d]][d].kind
    BY <2>2 DEF Store
  <2>4. store' = [store EXCEPT ![path[d]][d] = s]
    BY <1>8 DEF Rename
  <2> HIDE DEF s
  <2>5. store'[g][e] = IF g = path[d] /\ e = d THEN s ELSE store[g][e]
    BY <2>1, <2>3, <2>4, At
  <2>6. UNCHANGED <<root, path, move, untidy>>
    BY <1>8 DEF Rename
  <2>7. QED
    BY <1>2, <2>3, <2>5, <2>6
<1>9. CASE Begin
  <2>1. UNCHANGED <<root, path, store, untidy>> /\ move.pc = "idle"
    BY <1>9 DEF Begin
  <2>2. e \in Known /\ (g = path[e] \/ CopyAt(g, e))
    BY <1>1, <2>1
  <2>3. ~CopyAt(g, e)
    BY <2>1 DEF CopyAt, Shape
  <2>4. QED
    BY <2>1, <2>2, <2>3 DEF Known
<1>10. ASSUME NEW w \in Writers, Hold(w) PROVE Goal
  BY <1>0, <1>3, <1>4, <1>10 DEF Hold
<1>11. CASE Survey
  <2>1. UNCHANGED <<root, path, store, untidy>> /\ move.pc = "hold"
    BY <1>11 DEF Survey
  <2>2. move'.from = move.from /\ move'.to = move.to /\ move'.copied = move.copied
    <3>1. CASE Raises
      BY <1>4, <3>1
    <3>2. CASE ~Raises
      <4>1. move' = [move EXCEPT !.pc = "lock", !.live = {d \in Known : path[d] = move.from}]
        BY <1>11, <3>2 DEF Survey
      <4>2. QED
        BY <1>0, <4>1, MoveParts
    <3>3. QED
      BY <3>1, <3>2
  <2>3. QED
    BY <1>0, <1>3, <2>1, <2>2
<1>12. ASSUME NEW d \in Docs, Lock(d) PROVE Goal
  <2>1. UNCHANGED <<root, path, store, untidy>> /\ move.pc = "lock"
    BY <1>12 DEF Lock
  <2>2. CASE lease[move.from][d] = Free
    <3>1. PICK pc \in {"lock", "copy"} : move' = [move EXCEPT !.locked = move.locked \cup {d}, !.pc = pc]
      BY <1>12, <2>1, <2>2 DEF Lock
    <3>2. QED
      BY <1>0, <1>3, <2>1, <3>1, MoveParts
  <2>3. CASE lease[move.from][d] # Free
    <3>1. move' = [move EXCEPT !.pc = "rollback"]
      BY <1>12, <2>3 DEF Lock, Goes
    <3>2. QED
      BY <1>0, <1>3, <2>1, <3>1, MoveParts
  <2>4. QED
    BY <2>2, <2>3
<1>13. CASE NothingToLock
  <2>1. UNCHANGED <<root, path, store, untidy>> /\ move.pc = "lock" /\ move' = [move EXCEPT !.pc = "copy"]
    BY <1>13 DEF NothingToLock, Goes
  <2>2. QED
    BY <1>0, <1>3, <2>1, MoveParts
<1>14. ASSUME NEW d \in Docs, CopyBegins(d) PROVE Goal
  <2>1. UNCHANGED <<root, path, untidy>> /\ move.pc = "copy" /\ root = move.from
    BY <1>14 DEF CopyBegins, Shape
  <2>2. CASE store' = store
    <3>1. Raises \/ move' = [move EXCEPT !.pc = "rollback"]
          \/ move' = [move EXCEPT !.copied = move.copied \cup {d}]
      BY <1>14 DEF CopyBegins, Goes
    <3>2. /\ move'.from = move.from /\ move'.to = move.to /\ move.copied \subseteq move'.copied
          /\ move'.live = move.live /\ move'.removed = move.removed
      <4>1. CASE Raises
        BY <1>4, <4>1
      <4>2. CASE move' = [move EXCEPT !.pc = "rollback"]
        BY <1>0, <4>2, MoveParts
      <4>3. CASE move' = [move EXCEPT !.copied = move.copied \cup {d}]
        BY <1>0, <4>3, MoveParts
      <4>4. QED
        BY <3>1, <4>1, <4>2, <4>3
    <3>3. e \in Known /\ (g = path[e] \/ CopyAt(g, e))
      BY <1>1, <2>1, <2>2
    <3>4. QED
      BY <2>1, <3>2, <3>3 DEF CopyAt, Known
  <2>3. CASE store' # store
    <3>1. /\ store' = [store EXCEPT ![move.from][d] = Folded(@), ![move.to][d].kind = "partial"]
          /\ move' = [move EXCEPT !.copied = move.copied \cup {d}]
          /\ d \in move.live
      BY <1>14, <2>3 DEF CopyBegins
    <3>2. /\ move'.from = move.from /\ move'.to = move.to /\ move'.copied = move.copied \cup {d}
          /\ move'.live = move.live /\ move'.removed = move.removed
      BY <1>0, <3>1, MoveParts
    <3>3. CASE g = move.to /\ e = d
      <4>1. d \in Known
        BY <3>1 DEF Shape
      <4>2. QED
        BY <2>1, <3>2, <3>3, <4>1 DEF CopyAt, Known
    <3>4. CASE ~(g = move.to /\ e = d)
      <4>1. store'[g][e] = store[g][e] \/ store'[g][e] = Folded(store[g][e])
        BY <1>0, <2>1, <3>1, <3>4 DEF Shape
      <4>2. store'[g][e].kind = store[g][e].kind
        BY <1>0, <4>1, FoldedType
      <4>3. e \in Known /\ (g = path[e] \/ CopyAt(g, e))
        BY <1>1, <2>1, <4>2
      <4>4. QED
        BY <2>1, <3>2, <4>3 DEF CopyAt, Known
    <3>5. QED
      BY <3>3, <3>4
  <2>4. QED
    BY <2>2, <2>3
<1>15. ASSUME NEW d \in Docs, CopyEnds(d) PROVE Goal
  <2>1. /\ UNCHANGED <<root, path, untidy>> /\ move.pc = "copy" /\ root = move.from
        /\ d \in move.copied /\ d \in Known
    BY <1>15 DEF CopyEnds, Shape
  <2>2. CASE store' = store
    <3>1. move' = move \/ Raises
      BY <1>15 DEF CopyEnds
    <3>2. QED
      BY <1>0, <1>3, <1>4, <2>1, <2>2, <3>1
  <2>3. CASE store' # store
    <3>1. /\ store' = [store EXCEPT ![move.to][d] =
                           [kind |-> "whole", main |-> store[move.from][d].main, log |-> 0]]
          /\ move' = move
      BY <1>15, <2>3 DEF CopyEnds
    <3>2. CASE g = move.to /\ e = d
      BY <2>1, <3>1, <3>2 DEF CopyAt, Known
    <3>3. CASE ~(g = move.to /\ e = d)
      <4>1. store'[g][e] = store[g][e]
        BY <1>0, <3>1, <3>3
      <4>2. QED
        BY <1>2, <2>1, <3>1, <4>1
    <3>4. QED
      BY <3>2, <3>3
  <2>4. QED
    BY <2>2, <2>3
<1>16. ASSUME NEW d \in Docs, Verify(d) PROVE Goal
  <2>1. UNCHANGED <<root, path, store, untidy>> /\ move.pc = "copy"
    BY <1>16 DEF Verify
  <2>2. Raises \/ move' = [move EXCEPT !.mapping = move.mapping \cup {d}]
    BY <1>16 DEF Verify
  <2>3. move'.from = move.from /\ move'.to = move.to /\ move'.copied = move.copied
    <3>1. CASE Raises
      BY <1>4, <3>1
    <3>2. CASE move' = [move EXCEPT !.mapping = move.mapping \cup {d}]
      BY <1>0, <3>2, MoveParts
    <3>3. QED
      BY <2>2, <3>1, <3>2
  <2>4. QED
    BY <1>0, <1>3, <2>1, <2>3
<1>17. CASE Switch
  <2>1. /\ UNCHANGED <<store, untidy>> /\ move.pc = "copy" /\ root = move.from /\ move.mapping = move.live
        /\ move.removed = {} /\ move.copied \subseteq move.live /\ move.live \subseteq Known
        /\ \A d \in move.live : path[d] = move.from
    BY <1>17 DEF Switch, Shape
  <2>2. PICK pc \in {"remove", "rollback"} : move' = [move EXCEPT !.pc = pc]
    BY <1>17, Raising DEF Switch, Goes
  <2>3. /\ move'.from = move.from /\ move'.to = move.to /\ move'.copied = move.copied
        /\ move'.live = move.live /\ move'.removed = {}
    BY <1>0, <2>1, <2>2, MoveParts
  <2>4. e \in Known /\ (g = path[e] \/ CopyAt(g, e))
    BY <1>1, <2>1
  <2>5. CASE UNCHANGED <<root, path>>
    BY <1>0, <1>3, <2>1, <2>3, <2>5
  <2>6. CASE ~UNCHANGED <<root, path>>
    <3>1. root' = move.to /\ path' = [d \in Known |-> IF d \in move.live THEN move.to ELSE path[d]]
      BY <1>17, <2>1, <2>6 DEF Switch
    <3>2. e \in Known' /\ path'[e] = IF e \in move.live THEN move.to ELSE path[e]
      BY <2>4, <3>1 DEF Known
    <3>3. CASE g = path[e]
      BY <2>1, <2>3, <3>1, <3>2, <3>3 DEF CopyAt
    <3>4. CASE CopyAt(g, e)
      BY <2>1, <2>3, <3>1, <3>2, <3>4 DEF CopyAt, Shape
    <3>5. QED
      BY <2>4, <3>3, <3>4
  <2>7. QED
    BY <2>5, <2>6
<1>18. ASSUME NEW d \in Docs, Remove(d) PROVE Goal
  <2>1. /\ UNCHANGED <<root, path, untidy>> /\ move.pc = "remove" /\ root = move.to
        /\ store' = [store EXCEPT ![move.from][d] = [NoStore EXCEPT !.kind = "shell"]]
        /\ move' = [move EXCEPT !.removed = move.removed \cup {d}]
    BY <1>18 DEF Remove, Shape
  <2>2. ~(g = move.from /\ e = d)
    BY <1>0, <2>1 DEF NoStore
  <2>3. store'[g][e] = store[g][e]
    BY <1>0, <2>1, <2>2
  <2>4. e \in Known /\ (g = path[e] \/ CopyAt(g, e))
    BY <1>1, <2>1, <2>3
  <2>5. /\ move'.from = move.from /\ move'.to = move.to /\ move'.copied = move.copied
        /\ move'.live = move.live /\ move'.removed = move.removed \cup {d}
    BY <1>0, <2>1, MoveParts
  <2>6. QED
    BY <2>1, <2>2, <2>4, <2>5 DEF CopyAt, Known, Shape
<1>19. CASE Finish
  <2>1. UNCHANGED <<root, path, untidy>> /\ move.pc = "remove" /\ root = move.to /\ move.removed = move.live
    BY <1>19 DEF Finish, Shape
  <2>2. store' = [store EXCEPT ![move.from] =
                   [d \in Docs |-> IF d \in move.removed THEN NoStore ELSE store[move.from][d]]]
    BY <1>19 DEF Finish, Tidy
  <2>3. store'[g][e] = store[g][e] \/ store'[g][e] = NoStore
    BY <1>0, <2>2
  <2>4. store'[g][e] = store[g][e]
    BY <2>3 DEF NoStore
  <2>5. e \in Known /\ (g = path[e] \/ CopyAt(g, e))
    BY <1>1, <2>1, <2>4
  <2>6. ~CopyAt(g, e)
    BY <2>1 DEF CopyAt, Shape
  <2>7. QED
    BY <2>1, <2>5, <2>6 DEF Known
<1>20. CASE Rollback
  <2>1. /\ UNCHANGED <<root, path, untidy>> /\ move.pc = "rollback" /\ root # move.to /\ root = move.from
        /\ store' = [store EXCEPT ![move.to] =
                   [d \in Docs |-> IF d \in move.copied THEN NoStore ELSE store[move.to][d]]]
    BY <1>20 DEF Rollback, Switched, Copies, Shape
  <2>2. ~(g = move.to /\ e \in move.copied)
    BY <1>0, <2>1 DEF NoStore
  <2>3. store'[g][e] = store[g][e]
    BY <1>0, <2>1, <2>2
  <2>4. e \in Known /\ (g = path[e] \/ CopyAt(g, e))
    BY <1>1, <2>1, <2>3
  <2>5. QED
    BY <2>1, <2>2, <2>4 DEF CopyAt, Known
<1>21. CASE Crash
  <2>1. UNCHANGED <<root, path, store>> /\ ~untidy /\ move.pc \in {"idle", "hold", "lock"}
    BY <1>0, <1>21 DEF Crash, Move
  <2>2. e \in Known /\ (g = path[e] \/ CopyAt(g, e))
    BY <1>1, <2>1
  <2>3. ~CopyAt(g, e)
    BY <2>1 DEF CopyAt, Shape
  <2>4. QED
    BY <2>1, <2>2, <2>3 DEF Known
<1>22. QED
  BY <1>5, <1>6, <1>7, <1>8, <1>9, <1>10, <1>11, <1>12, <1>13, <1>14, <1>15, <1>16, <1>17, <1>18,
     <1>19, <1>20, <1>21 DEF Next, WriterStep, MoveStep

---------------------------------------------------------------------------
(* What was copied stays true.                                             *)

\* What a write adds is acknowledged, or it is astray.
LEMMA CommitCounts ==
  ASSUME TypeOK, NEW w \in Writers, Commit(w), NEW e \in Docs
  PROVE  /\ e # writer[w].doc => written'[e] = written[e] /\ astray'[e] = astray[e]
         /\ e = writer[w].doc /\ writer[w].at = path[e] =>
              written'[e] = written[e] + 1 /\ astray'[e] = astray[e]
         /\ e = writer[w].doc /\ writer[w].at # path[e] =>
              written'[e] = written[e] /\ astray'[e] = astray[e] + 1
<1>1. written \in [Docs -> Nat] /\ astray \in [Docs -> Nat] /\ writer[w].doc \in Docs
  BY DEF TypeOK
<1>2. CASE writer[w].at = path[writer[w].doc]
  <2>1. written' = [written EXCEPT ![writer[w].doc] = @ + 1] /\ astray' = astray
    BY <1>2 DEF Commit
  <2>2. QED
    BY <1>1, <1>2, <2>1
<1>3. CASE writer[w].at # path[writer[w].doc]
  <2>1. astray' = [astray EXCEPT ![writer[w].doc] = @ + 1] /\ written' = written
    BY <1>3 DEF Commit
  <2>2. QED
    BY <1>1, <1>3, <2>1
<1>4. QED
  BY <1>2, <1>3

\* The part of Verified about one history.
CopyTrue(d) ==
    /\ store[move.from][d].log = 0
    /\ LET s == store[move.to][d] IN
       /\ s.kind = "whole" /\ astray[d] = 0 => s.log = 0
       /\ d \in move.mapping => s.kind = "whole" /\ Agrees(s, d)

LEMMA VerifiedStep ==
  TypeOK /\ Shape /\ Verified /\ Writing /\ HistoryWhole /\ [Next]_vars => Verified'
<1> SUFFICES ASSUME TypeOK, Shape, Verified, Writing, HistoryWhole, [Next]_vars,
                    move'.pc = "copy", NEW d \in move'.copied
             PROVE  CopyTrue(d)'
  BY DEF Verified, CopyTrue
<1> USE DEF catalogVars, diskVars, lockVars, ghosts, vars, WriterOnly, MoverOnly, Unmoved, InMove
<1>0. /\ move \in Move /\ move.from \in Folders /\ move.to \in Folders
      /\ store \in [Folders -> [Docs -> Store]] /\ d \in Docs
      /\ store[move.from][d] \in Store /\ store[move.to][d] \in Store
      /\ written[d] \in Nat /\ astray[d] \in Nat
  <2>1. move' \in Move
    BY TypeStep DEF TypeOK
  <2>2. d \in Docs
    BY <2>1 DEF Move
  <2>3. QED
    BY <2>2 DEF TypeOK, Move
<1>1. ASSUME move.pc = "copy", d \in move.copied
      PROVE  /\ CopyTrue(d) /\ path[d] = move.from /\ lease[move.from][d] = Mover /\ d \in Known
             /\ move.from # move.to /\ labels
  BY <1>1 DEF Verified, CopyTrue, Shape
<1>2. ASSUME move' = move, UNCHANGED <<store, written, astray>> PROVE CopyTrue(d)'
  BY <1>1, <1>2 DEF CopyTrue, Agrees
<1>3. CASE \/ UNCHANGED vars
           \/ \E f \in Folders : RequestMove(f)
           \/ \E w \in Writers : (\E e \in Docs : LookUp(w, e)) \/ OpenStore(w)
  BY <1>2, <1>3 DEF RequestMove, LookUp, OpenStore
<1>4. ASSUME NEW w \in Writers, Acquire(w) \/ Commit(w) \/ CloseStore(w) PROVE CopyTrue(d)'
  <2> DEFINE s == store[move.to][d]
             t == store'[move.to][d]
  <2>1. move' = move
    BY <1>4 DEF Acquire, Commit, CloseStore
  <2>2. CopyTrue(d) /\ path[d] = move.from /\ lease[move.from][d] = Mover /\ w # Mover
    BY <1>1, <2>1, Parties
  <2>3. Commit(w) => ~(writer[w].at = move.from /\ writer[w].doc = d)
    BY <2>2 DEF Commit, Writing
  <2>4. store'[move.from][d].log = 0
    BY <1>0, <1>4, <2>2, <2>3, WriterStores DEF CopyTrue
  <2>5. /\ t.kind = s.kind \/ (s.kind = "none" /\ t.kind = "shell")
        /\ Versions(t) >= Versions(s)
        /\ ~(Commit(w) /\ writer[w].at = move.to /\ writer[w].doc = d) =>
              Versions(t) = Versions(s) /\ (s.log = 0 => t.log = 0)
    <3>1. Versions(s) \in Nat
      BY <1>0 DEF Versions, Store
    <3>2. CASE Commit(w) /\ writer[w].at = move.to /\ writer[w].doc = d
      BY <1>0, <1>4, <3>1, <3>2, WriterStores
    <3>3. CASE ~(Commit(w) /\ writer[w].at = move.to /\ writer[w].doc = d)
      <4>1. Versions(t) = Versions(s)
        BY <1>0, <1>4, <3>3, WriterStores
      <4>2. s.log = 0 => t.log = 0
        BY <1>0, <1>4, <3>3, WriterStores
      <4>3. t.kind = s.kind \/ (s.kind = "none" /\ t.kind = "shell")
        BY <1>0, <1>4, WriterStores
      <4>4. QED
        BY <3>1, <3>3, <4>1, <4>2, <4>3
    <3>4. QED
      BY <3>2, <3>3
  <2>6. /\ written'[d] = written[d] /\ astray'[d] >= astray[d] /\ astray'[d] \in Nat
        /\ Commit(w) /\ writer[w].at = move.to /\ writer[w].doc = d => astray'[d] # 0
    <3>1. CASE Commit(w)
      BY <1>0, <1>1, <2>1, <2>2, <2>3, <3>1, CommitCounts
    <3>2. CASE ~Commit(w)
      <4>1. UNCHANGED <<written, astray>>
        BY <1>4, <3>2 DEF Acquire, CloseStore
      <4>2. QED
        BY <1>0, <3>2, <4>1
    <3>3. QED
      BY <3>1, <3>2
  <2> HIDE DEF s, t
  <2>7. t.kind = "whole" /\ astray'[d] = 0 => t.log = 0
    BY <1>0, <2>2, <2>5, <2>6 DEF CopyTrue, s
  <2>8. ASSUME d \in move.mapping PROVE  t.kind = "whole" /\ Versions(t) >= written'[d] /\ (astray'[d] = 0 => Versions(t) = written'[d])
    <3>1. /\ s.kind = "whole" /\ Versions(s) >= written[d]
          /\ astray[d] = 0 => Versions(s) = written[d]
      BY <2>2, <2>8 DEF CopyTrue, Agrees, Versions, s
    <3>2. Versions(s) \in Nat
      BY <1>0 DEF Versions, Store, s
    <3>3. /\ t.kind = "whole" /\ Versions(t) >= written'[d]
          /\ astray'[d] = 0 => Versions(t) = written'[d]
      <4>1. CASE Commit(w) /\ writer[w].at = move.to /\ writer[w].doc = d
        <5>1. t.kind = "whole"
          BY <2>5, <3>1
        <5>2. Versions(t) \in Nat
          BY <1>0, <1>4, <3>2, <4>1, WriterStores DEF s, t
        <5>3. QED
          BY <1>0, <2>5, <2>6, <3>1, <3>2, <4>1, <5>1, <5>2
      <4>2. CASE ~(Commit(w) /\ writer[w].at = move.to /\ writer[w].doc = d)
        BY <1>0, <2>5, <2>6, <3>1, <3>2, <4>2
      <4>3. QED
        BY <4>1, <4>2
    <3>4. QED
      BY <3>3
  <2>9. QED
    BY <2>1, <2>4, <2>7, <2>8 DEF CopyTrue, Agrees, Versions, t
<1>5. ASSUME NEW e \in Docs, AddDocument(e) PROVE CopyTrue(d)'
  <2>1. /\ move' = move /\ e \notin Known /\ UNCHANGED <<written, astray>>
        /\ store' = [store EXCEPT ![root][e] = [NoStore EXCEPT !.kind = "whole"]]
    BY <1>5 DEF AddDocument
  <2>2. CopyTrue(d) /\ d # e
    BY <1>1, <2>1
  <2>3. root \in Folders
    BY DEF TypeOK
  <2>4. store'[move.from][d] = store[move.from][d] /\ store'[move.to][d] = store[move.to][d]
    BY <1>0, <2>1, <2>2, <2>3
  <2>5. QED
    BY <2>1, <2>2, <2>4 DEF CopyTrue, Agrees
<1>6. ASSUME NEW e \in Docs, Rename(e) PROVE CopyTrue(d)'
  BY <1>1, <1>6 DEF Rename
<1>7. ASSUME move.pc \in {"idle", "hold", "lock"}, MoveStep PROVE FALSE
  <2>1. move.copied = {}
    BY <1>7 DEF Shape
  <2>2. CASE Begin \/ \E w \in Writers : Hold(w)
    <3>1. CASE move' = move
      BY <1>7, <3>1
    <3>2. CASE move' # move
      <4>1. \/ move' = [NoMove EXCEPT !.pc = "hold", !.from = root, !.to = Head(asked)[2]]
            \/ move' = [move EXCEPT !.pc = "rollback"]
        BY <2>2, <3>2, Raising DEF Begin, Hold
      <4>2. move'.pc # "copy"
        BY <1>0, <4>1 DEF Move, NoMove
      <4>3. QED
        BY <4>2
    <3>3. QED
      BY <3>1, <3>2
  <2>3. CASE Survey
    <3>1. \/ move' = [move EXCEPT !.pc = "lock", !.live = {x \in Known : path[x] = move.from}]
          \/ move' = [move EXCEPT !.pc = "rollback"]
      BY <2>3, Raising DEF Survey
    <3>2. move'.pc # "copy"
      BY <1>0, <3>1 DEF Move
    <3>3. QED
      BY <3>2
  <2>4. ASSUME NEW e \in Docs, Lock(e) PROVE FALSE
    <3>1. CASE lease[move.from][e] = Free
      <4>1. PICK pc : move' = [move EXCEPT !.locked = move.locked \cup {e}, !.pc = pc]
        BY <2>4, <3>1 DEF Lock
      <4>2. move'.copied = move.copied
        BY <1>0, <4>1, MoveParts
      <4>3. QED
        BY <2>1, <4>2
    <3>2. CASE lease[move.from][e] # Free
      <4>1. move' = [move EXCEPT !.pc = "rollback"]
        BY <2>4, <3>2 DEF Lock, Goes
      <4>2. QED
        BY <1>0, <4>1 DEF Move
    <3>3. QED
      BY <3>1, <3>2
  <2>5. CASE NothingToLock
    <3>1. move' = [move EXCEPT !.pc = "copy"]
      BY <2>5 DEF NothingToLock, Goes
    <3>2. move'.copied = move.copied
      BY <1>0, <3>1, MoveParts
    <3>3. QED
      BY <2>1, <3>2
  <2>6. QED
    BY <1>7, <2>2, <2>3, <2>4, <2>5 DEF MoveStep, CopyBegins, CopyEnds, Verify, Switch, Remove, Finish, Rollback
<1>8. ASSUME Raises PROVE FALSE
  <2>1. move' = [move EXCEPT !.pc = "rollback"]
    BY <1>8 DEF Raises, Goes
  <2>2. QED
    BY <1>0, <2>1, MoveParts
<1>9. ASSUME NEW e \in Docs, CopyBegins(e) PROVE CopyTrue(d)'
  <2>1. move' # [move EXCEPT !.pc = "rollback"]
    BY <1>0 DEF Move
  <2>2. /\ store' = [store EXCEPT ![move.from][e] = Folded(@), ![move.to][e].kind = "partial"]
        /\ move' = [move EXCEPT !.copied = move.copied \cup {e}]
        /\ UNCHANGED <<written, astray>> /\ e \notin move.copied /\ move.pc = "copy" /\ e \in move.live
    BY <1>8, <1>9, <2>1 DEF CopyBegins, Goes
  <2>3. move'.from = move.from /\ move'.to = move.to /\ move'.copied = move.copied \cup {e}
        /\ move'.mapping = move.mapping
    BY <1>0, <2>2, MoveParts
  <2>4. move.from # move.to
    BY <2>2 DEF Shape
  <2>5. CASE d = e
    <3>1. /\ store'[move.from][d] = Folded(store[move.from][d])
          /\ store'[move.to][d] = [store[move.to][d] EXCEPT !.kind = "partial"]
      BY <1>0, <2>2, <2>4, <2>5
    <3>2. store'[move.from][d].log = 0
      BY <1>0, <3>1, FoldedType
    <3>3. store'[move.to][d].kind = "partial"
      BY <1>0, <3>1 DEF Store
    <3>4. d \notin move.mapping
      BY <2>2, <2>5 DEF Shape
    <3>5. QED
      BY <2>3, <3>2, <3>3, <3>4 DEF CopyTrue
  <2>6. CASE d # e
    <3>1. store'[move.from][d] = store[move.from][d] /\ store'[move.to][d] = store[move.to][d]
      BY <1>0, <2>2, <2>6
    <3>2. CopyTrue(d)
      BY <1>1, <2>2, <2>3, <2>6
    <3>3. QED
      BY <2>2, <2>3, <3>1, <3>2 DEF CopyTrue, Agrees
  <2>7. QED
    BY <2>5, <2>6
<1>10. ASSUME NEW e \in Docs, CopyEnds(e) PROVE CopyTrue(d)'
  <2>1. /\ store' = [store EXCEPT ![move.to][e] =
                         [kind |-> "whole", main |-> store[move.from][e].main, log |-> 0]]
        /\ move' = move /\ UNCHANGED <<written, astray>> /\ e \notin move.mapping
    BY <1>8, <1>10 DEF CopyEnds
  <2>2. CopyTrue(d) /\ move.from # move.to
    BY <1>1, <2>1
  <2>3. store'[move.from][d] = store[move.from][d]
    BY <1>0, <2>1, <2>2
  <2>4. CASE d = e
    <3>1. store'[move.to][d].log = 0
      BY <1>0, <2>1, <2>4
    <3>2. QED
      BY <2>1, <2>2, <2>3, <2>4, <3>1 DEF CopyTrue
  <2>5. CASE d # e
    <3>1. store'[move.to][d] = store[move.to][d]
      BY <1>0, <2>1, <2>5
    <3>2. QED
      BY <2>1, <2>2, <2>3, <3>1 DEF CopyTrue, Agrees
  <2>6. QED
    BY <2>4, <2>5
<1>11. ASSUME NEW e \in Docs, Verify(e) PROVE CopyTrue(d)'
  <2>1. /\ store[move.to][e].main = store[move.from][e].main /\ store[move.to][e].kind = "whole"
        /\ move' = [move EXCEPT !.mapping = move.mapping \cup {e}]
        /\ UNCHANGED <<store, written, astray>> /\ move.pc = "copy"
    BY <1>8, <1>11 DEF Verify
  <2>2. move'.from = move.from /\ move'.to = move.to /\ move'.copied = move.copied
        /\ move'.mapping = move.mapping \cup {e}
    BY <1>0, <2>1, MoveParts
  <2>3. CopyTrue(d) /\ path[d] = move.from /\ d \in Known
    BY <1>1, <2>1, <2>2
  <2>4. CASE d = e
    <3> DEFINE s == store[move.from][d]
               t == store[move.to][d]
    <3>1. /\ s.main + s.log >= written[d] /\ (astray[d] = 0 => s.main + s.log = written[d]) /\ s.log = 0
      BY <2>3 DEF HistoryWhole, CopyTrue
    <3>2. /\ s.main \in Nat /\ s.log \in Nat /\ t.main \in Nat /\ t.log \in Nat /\ t.main = s.main
          /\ t.kind = "whole"
      BY <1>0, <2>1, <2>4 DEF Store
    <3>3. astray[d] = 0 => t.log = 0
      BY <2>1, <2>3, <2>4 DEF CopyTrue
    <3> HIDE DEF s, t
    <3>4. t.main + t.log >= written[d] /\ (astray[d] = 0 => t.main + t.log = written[d])
      BY <1>0, <3>1, <3>2, <3>3
    <3>5. Agrees(t, d)
      BY <3>4 DEF Agrees
    <3>6. QED
      BY <2>1, <2>2, <2>3, <3>2, <3>5 DEF CopyTrue, Agrees, t
  <2>5. CASE d # e
    BY <2>1, <2>2, <2>3, <2>5 DEF CopyTrue, Agrees
  <2>6. QED
    BY <2>4, <2>5
<1>12. ASSUME Switch \/ Finish \/ Rollback \/ Crash \/ \E e \in Docs : Remove(e) PROVE FALSE
  <2>1. ASSUME NEW pc \in {"remove", "rollback"}, move' = [move EXCEPT !.pc = pc] PROVE FALSE
    BY <1>0, <2>1, MoveParts
  <2>2. CASE Switch
    BY <1>8, <2>1, <2>2 DEF Switch, Goes
  <2>3. CASE Finish \/ Rollback \/ Crash
    BY <2>3, NobodyMoves DEF Finish, Rollback, Crash, Released
  <2>4. ASSUME NEW e \in Docs, Remove(e) PROVE FALSE
    <3>1. move' = [move EXCEPT !.removed = move.removed \cup {e}] /\ move.pc = "remove"
      BY <1>8, <2>4 DEF Remove
    <3>2. QED
      BY <1>0, <3>1, MoveParts
  <2>5. QED
    BY <1>12, <2>2, <2>3, <2>4
<1>13. CASE MoveStep
  <2>1. CASE Begin \/ Survey \/ NothingToLock \/ (\E w \in Writers : Hold(w)) \/ \E e \in Docs : Lock(e)
    BY <1>7, <1>13, <2>1 DEF Begin, Survey, NothingToLock, Hold, Lock
  <2>2. QED
    BY <1>9, <1>10, <1>11, <1>12, <1>13, <2>1 DEF MoveStep
<1>14. QED
  BY <1>3, <1>4, <1>5, <1>6, <1>12, <1>13 DEF Next, WriterStep

---------------------------------------------------------------------------
(* The histories.                                                          *)

\* What the catalog names of one history.
WholeAt(d) == store[path[d]][d].kind = "whole" /\ Agrees(store[path[d]][d], d)

LEMMA WholeStep ==
  TypeOK /\ Shape /\ Verified /\ Writing /\ Unwritten /\ HistoryWhole /\ [Next]_vars => HistoryWhole'
<1> SUFFICES ASSUME TypeOK, Shape, Verified, Writing, Unwritten, HistoryWhole, [Next]_vars,
                    NEW d \in Known'
             PROVE  WholeAt(d)'
  BY DEF HistoryWhole, WholeAt, Agrees
<1> USE DEF catalogVars, diskVars, lockVars, ghosts, vars, WriterOnly, MoverOnly, Unmoved, InMove
<1>0. /\ move \in Move /\ move.from \in Folders /\ move.to \in Folders /\ root \in Folders
      /\ store \in [Folders -> [Docs -> Store]] /\ d \in Docs
      /\ written[d] \in Nat /\ astray[d] \in Nat
  <2>1. d \in Docs
    BY TypeStep DEF TypeOK
  <2>2. QED
    BY <2>1 DEF TypeOK, Move
<1>1. ASSUME d \in Known
      PROVE  WholeAt(d) /\ path[d] \in Folders /\ store[path[d]][d] \in Store
             /\ Versions(store[path[d]][d]) \in Nat
  <2>1. path[d] \in Folders
    BY <1>1 DEF TypeOK
  <2>2. store[path[d]][d] \in Store
    BY <1>0, <2>1
  <2>3. QED
    BY <1>1, <2>1, <2>2 DEF HistoryWhole, WholeAt, Agrees, Versions, Store
<1>2. ASSUME UNCHANGED <<path, written, astray>>,
             d \in Known => /\ store'[path[d]][d].kind = store[path[d]][d].kind
                            /\ Versions(store'[path[d]][d]) = Versions(store[path[d]][d])
      PROVE  WholeAt(d)'
  BY <1>1, <1>2 DEF WholeAt, Agrees, Versions, Known
<1>3. CASE \/ UNCHANGED vars
           \/ \E f \in Folders : RequestMove(f)
           \/ \E w \in Writers : (\E e \in Docs : LookUp(w, e)) \/ OpenStore(w)
           \/ Crash
  <2>1. UNCHANGED <<path, written, astray, store>>
    BY <1>3 DEF RequestMove, LookUp, OpenStore, Crash
  <2>2. QED
    BY <1>2, <2>1
<1>4. ASSUME NEW w \in Writers, Acquire(w) \/ CloseStore(w) PROVE WholeAt(d)'
  <2>1. UNCHANGED <<path, written, astray>> /\ ~Commit(w)
    <3>1. writer' # writer
      <4>1. writer[w].pc # "idle" /\ (writer' = [writer EXCEPT ![w] = Idle]
                                       \/ (writer[w].pc = "open" /\ writer' = [writer EXCEPT ![w].pc = "writing"]))
        BY <1>4 DEF Acquire, CloseStore
      <4>2. writer'[w] # writer[w]
        BY <4>1 DEF TypeOK, Idle
      <4>3. QED
        BY <4>2
    <3>2. QED
      BY <1>4, <3>1 DEF Acquire, CloseStore, Commit
  <2>2. ASSUME d \in Known
        PROVE  /\ store'[path[d]][d].kind = store[path[d]][d].kind
               /\ Versions(store'[path[d]][d]) = Versions(store[path[d]][d])
    <3>1. store[path[d]][d].kind = "whole" /\ path[d] \in Folders
      BY <1>1, <2>2 DEF WholeAt
    <3>2. QED
      BY <1>0, <1>4, <2>1, <3>1, WriterStores
  <2>3. QED
    BY <1>2, <2>1, <2>2
<1>5. ASSUME NEW w \in Writers, Commit(w) PROVE WholeAt(d)'
  <2>1. path' = path /\ d \in Known
    BY <1>5 DEF Commit, Known
  <2> DEFINE s == store[path[d]][d]
             t == store'[path[d]][d]
  <2>2. s.kind = "whole" /\ Versions(s) >= written[d] /\ (astray[d] = 0 => Versions(s) = written[d])
        /\ Versions(s) \in Nat /\ path[d] \in Folders
    BY <1>1, <2>1 DEF WholeAt, Agrees, Versions
  <2>3. t.kind = "whole"
    BY <1>0, <1>5, <2>2, WriterStores
  <2>4. /\ t = s \/ (path[d] = writer[w].at /\ d = writer[w].doc)
        /\ path[d] = writer[w].at /\ d = writer[w].doc => Versions(t) = Versions(s) + 1
    BY <1>0, <1>5, <2>2, WriterStores
  <2> HIDE DEF s, t
  <2>5. Versions(t) >= written'[d] /\ (astray'[d] = 0 => Versions(t) = written'[d])
    <3>1. CASE d = writer[w].doc /\ writer[w].at = path[d]
      BY <1>0, <1>5, <2>2, <2>4, <3>1, CommitCounts
    <3>2. CASE d = writer[w].doc /\ writer[w].at # path[d]
      <4>1. t = s /\ written'[d] = written[d] /\ astray'[d] = astray[d] + 1
        BY <1>0, <1>5, <2>4, <3>2, CommitCounts
      <4>2. QED
        BY <1>0, <2>2, <4>1
    <3>3. CASE d # writer[w].doc
      <4>1. t = s /\ written'[d] = written[d] /\ astray'[d] = astray[d]
        BY <1>0, <1>5, <2>4, <3>3, CommitCounts
      <4>2. QED
        BY <2>2, <4>1
    <3>4. QED
      BY <3>1, <3>2, <3>3
  <2>6. QED
    BY <2>1, <2>3, <2>5 DEF WholeAt, Agrees, Versions, t
<1>6. ASSUME NEW e \in Docs, AddDocument(e) PROVE WholeAt(d)'
  <2>1. /\ store' = [store EXCEPT ![root][e] = [NoStore EXCEPT !.kind = "whole"]]
        /\ path' = [x \in Known \cup {e} |-> IF x = e THEN root ELSE path[x]]
        /\ UNCHANGED <<written, astray>> /\ e \notin Known
    BY <1>6 DEF AddDocument
  <2>2. Known' = Known \cup {e}
    BY <2>1 DEF Known
  <2>3. CASE d = e
    <3>1. path'[d] = root /\ store'[root][d] = [NoStore EXCEPT !.kind = "whole"]
      BY <1>0, <2>1, <2>3
    <3>2. written[d] = 0
      BY <2>1, <2>3 DEF Unwritten
    <3>3. QED
      BY <2>1, <3>1, <3>2 DEF WholeAt, Agrees, NoStore
  <2>4. CASE d # e
    <3>1. d \in Known /\ path'[d] = path[d]
      BY <2>1, <2>2, <2>4
    <3>2. store'[path[d]][d] = store[path[d]][d]
      BY <1>0, <1>1, <2>1, <2>4, <3>1
    <3>3. QED
      BY <1>1, <2>1, <3>1, <3>2 DEF WholeAt, Agrees
  <2>5. QED
    BY <2>3, <2>4
<1>7. ASSUME NEW e \in Docs, Rename(e) PROVE WholeAt(d)'
  <2>1. e \in Known /\ d \in Known /\ path' = path /\ astray' = astray
        /\ written' = [written EXCEPT ![e] = written[e] + 1]
    BY <1>7 DEF Rename, Known
  <2>2. path[e] \in Folders /\ store[path[e]][e] \in Store
    BY <1>0, <2>1 DEF TypeOK
  <2> DEFINE s == [store[path[e]][e] EXCEPT !.main = store[path[e]][e].main + 1]
  <2>3. s \in Store /\ s.kind = store[path[e]][e].kind /\ s.main = store[path[e]][e].main + 1
        /\ s.log = store[path[e]][e].log /\ store[path[e]][e].main \in Nat /\ store[path[e]][e].log \in Nat
    BY <2>2 DEF Store
  <2>4. store' = [store EXCEPT ![path[e]][e] = s]
    BY <1>7 DEF Rename
  <2> HIDE DEF s
  <2>5. store'[path[d]][d] = IF d = e THEN s ELSE store[path[d]][d]
    BY <1>0, <1>1, <2>1, <2>2, <2>3, <2>4, At
  <2>6. CASE d = e
    <3>1. written'[d] = written[d] + 1 /\ store'[path[d]][d] = s /\ WholeAt(d)
      BY <1>0, <1>1, <2>1, <2>5, <2>6 DEF TypeOK
    <3>2. /\ s.kind = "whole" /\ s.main + s.log >= written[d] + 1
          /\ astray[d] = 0 => s.main + s.log = written[d] + 1
      <4> DEFINE m == store[path[e]][e].main
                 l == store[path[e]][e].log
      <4>1. /\ store[path[e]][e].kind = "whole" /\ m + l >= written[d]
            /\ astray[d] = 0 => m + l = written[d]
        BY <2>6, <3>1 DEF WholeAt, Agrees
      <4>2. m \in Nat /\ l \in Nat /\ s.main = m + 1 /\ s.log = l /\ s.kind = store[path[e]][e].kind
        BY <2>3
      <4> HIDE DEF m, l
      <4>3. QED
        BY <1>0, <4>1, <4>2
    <3>3. QED
      BY <2>1, <3>1, <3>2 DEF WholeAt, Agrees
  <2>7. CASE d # e
    <3>1. written'[d] = written[d] /\ store'[path[d]][d] = store[path[d]][d] /\ WholeAt(d)
      BY <1>0, <1>1, <2>1, <2>5, <2>7 DEF TypeOK
    <3>2. QED
      BY <2>1, <3>1 DEF WholeAt, Agrees
  <2>8. QED
    BY <2>6, <2>7
<1>8. CASE MoveStep
  <2>1. UNCHANGED <<written, astray>>
    BY <1>8 DEF MoveStep, Begin, Survey, NothingToLock, Switch, Finish, Rollback, Hold, Lock,
       CopyBegins, CopyEnds, Verify, Remove
  <2>2. CASE path' = path
    <3>1. ASSUME d \in Known
          PROVE  /\ store'[path[d]][d].kind = store[path[d]][d].kind
                 /\ Versions(store'[path[d]][d]) = Versions(store[path[d]][d])
      BY <1>0, <1>1, <1>8, <3>1, MoveStores
    <3>2. QED
      BY <1>2, <2>1, <2>2, <3>1
  <2>3. CASE path' # path
    <3>1. Switch
      BY <1>8, <2>3 DEF MoveStep, Begin, Survey, NothingToLock, Finish, Rollback, Hold, Lock,
         CopyBegins, CopyEnds, Verify, Remove
    <3>2. /\ path' = [x \in Known |-> IF x \in move.mapping THEN move.to ELSE path[x]]
          /\ store' = store /\ move.pc = "copy" /\ move.mapping \subseteq move.copied
      BY <2>3, <3>1 DEF Switch, Shape
    <3>3. d \in Known
      BY <3>2 DEF Known
    <3>4. CASE d \in move.mapping
      <4>1. store[move.to][d].kind = "whole" /\ Agrees(store[move.to][d], d)
        BY <3>2, <3>4 DEF Verified
      <4>2. path'[d] = move.to
        BY <3>2, <3>3, <3>4
      <4>3. QED
        BY <2>1, <3>2, <4>1, <4>2 DEF WholeAt, Agrees
    <3>5. CASE d \notin move.mapping
      <4>1. path'[d] = path[d]
        BY <3>2, <3>3, <3>5
      <4>2. QED
        BY <1>1, <2>1, <3>2, <3>3, <4>1 DEF WholeAt, Agrees
    <3>6. QED
      BY <3>4, <3>5
  <2>4. QED
    BY <2>2, <2>3
<1>9. QED
  BY <1>3, <1>4, <1>5, <1>6, <1>7, <1>8 DEF Next, WriterStep

LEMMA CountsStep ==
  TypeOK /\ Writing /\ Unwritten /\ Strays /\ [Next]_vars => Unwritten' /\ Strays'
<1> SUFFICES ASSUME TypeOK, Writing, Unwritten, Strays, [Next]_vars PROVE Unwritten' /\ Strays'
  OBVIOUS
<1> USE DEF catalogVars, diskVars, lockVars, ghosts, vars, WriterOnly, MoverOnly, Unmoved, InMove
<1>0. Excused => Excused'
  BY ExcusedStays
<1>1. ASSUME Known \subseteq Known', UNCHANGED <<written, astray>> PROVE Unwritten' /\ Strays'
  BY <1>0, <1>1 DEF Unwritten, Strays
<1>2. ASSUME NEW e \in Docs, AddDocument(e) PROVE Unwritten' /\ Strays'
  BY <1>1, <1>2 DEF AddDocument, Known
<1>3. CASE Switch
  BY <1>1, <1>3 DEF Switch, Known
<1>4. CASE WriterStep \/ MoveStep \/ Crash \/ \E f \in Folders : RequestMove(f)
  <2>1. ASSUME UNCHANGED <<path, written, astray>> PROVE Unwritten' /\ Strays'
    BY <1>1, <2>1 DEF Known
  <2>2. ASSUME NEW w \in Writers, Commit(w) PROVE Unwritten' /\ Strays'
    <3>1. writer[w].doc \in Known /\ path' = path
          /\ (writer[w].at = path[writer[w].doc] \/ Excused)
      BY <2>2 DEF Commit, Writing
    <3>2. Unwritten'
      BY <2>2, <3>1, CommitCounts DEF Unwritten, Known
    <3>3. Strays'
      <4>1. CASE Excused
        BY <1>0, <4>1 DEF Strays
      <4>2. CASE writer[w].at = path[writer[w].doc]
        <5>1. astray' = astray
          BY <2>2, <4>2 DEF Commit
        <5>2. QED
          BY <1>0, <5>1 DEF Strays
      <4>3. QED
        BY <3>1, <4>1, <4>2
    <3>4. QED
      BY <3>2, <3>3
  <2>3. ASSUME NEW e \in Docs, Rename(e) PROVE Unwritten' /\ Strays'
    <3>1. UNCHANGED <<path, astray>> /\ e \in Known /\ written' = [written EXCEPT ![e] = @ + 1]
      BY <2>3 DEF Rename
    <3>2. Unwritten'
      BY <3>1 DEF Unwritten, Known, TypeOK
    <3>3. QED
      BY <1>0, <3>1, <3>2 DEF Strays
  <2>4. CASE WriterStep
    <3>1. CASE \E w \in Writers : (\E d \in Docs : LookUp(w, d)) \/ OpenStore(w) \/ Acquire(w) \/ CloseStore(w)
      BY <2>1, <3>1 DEF LookUp, OpenStore, Acquire, CloseStore
    <3>2. QED
      BY <1>2, <2>2, <2>3, <2>4, <3>1 DEF WriterStep
  <2>5. CASE MoveStep
    <3>1. Switch \/ UNCHANGED <<path, written, astray>>
      BY <2>5 DEF MoveStep, Begin, Survey, NothingToLock, Finish, Rollback, Hold, Lock,
         CopyBegins, CopyEnds, Verify, Remove
    <3>2. QED
      BY <1>3, <2>1, <3>1
  <2>6. QED
    BY <1>4, <2>1, <2>4, <2>5 DEF Crash, RequestMove
<1>5. CASE UNCHANGED vars
  BY <1>1, <1>5 DEF Known
<1>6. QED
  BY <1>4, <1>5 DEF Next

LEMMA InitInv == Init => IInv
<1> SUFFICES ASSUME Init PROVE IInv
  OBVIOUS
<1>1. TypeOK
  BY InitType
<1>2. move.pc = "idle" /\ move.live = {} /\ move.locked = {} /\ move.copied = {} /\ move.mapping = {}
      /\ move.removed = {}
  BY NobodyMoves DEF Init
<1>3. Known \subseteq Docs /\ path = [d \in Known |-> Start]
  BY <1>1 DEF Init, TypeOK, Known
<1>4. Shape /\ Verified
  BY <1>2 DEF Shape, Verified
<1>5. Writing
  BY DEF Init, Writing, Idle
<1>6. \A f \in Folders, d \in Docs :
        store[f][d] = IF f = Start /\ d \in Known THEN [NoStore EXCEPT !.kind = "whole"] ELSE NoStore
  BY DEF Init
<1>7. Elsewhere
  BY <1>3, <1>6 DEF Elsewhere, NoStore
<1>8. Unwritten /\ Strays
  BY DEF Init, Unwritten, Strays
<1>9. HistoryWhole
  BY <1>3, <1>6, RelocationAssumption DEF HistoryWhole, NoStore, Init, RelocationAssumption
<1>10. QED
  BY <1>1, <1>4, <1>5, <1>7, <1>8, <1>9 DEF IInv

LEMMA NextInv == IInv /\ [Next]_vars => IInv'
  BY TypeStep, ShapeStep, VerifiedStep, WritingStep, ElsewhereStep, WholeStep, CountsStep DEF IInv

---------------------------------------------------------------------------
(* The theorems.                                                           *)

\* The inductive invariant holds in every state of the service.
THEOREM Inductive == Spec => []IInv
<1>1. QED
  BY InitInv, NextInv, PTL DEF Spec

\* The state keeps its types.
THEOREM TypeCorrect == Spec => []TypeOK
<1>1. IInv => TypeOK
  BY DEF IInv
<1>2. QED
  BY Inductive, <1>1, PTL

\* At every moment of a move, whatever step fails and wherever the service
\* dies, the folder the catalog names has every version and label of a history
\* that was acknowledged; who writes elsewhere came back to a folder the project
\* had left, or to what a removal that failed left behind (relocate_history).
THEOREM NothingIsLost == Spec => []NothingLost
<1>1. IInv => NothingLost
  BY DEF IInv, NothingLost, Strays, Excused
<1>2. QED
  BY Inductive, <1>1, PTL

\* A move that failed or succeeded leaves one copy of each history, unless a
\* removal failed or the service died in the middle (_rollback, _remove_source).
THEOREM OneCopyRemains == Spec => []OneCopy
<1>1. IInv => OneCopy
  <2> SUFFICES ASSUME IInv, move.pc = "idle", ~untidy, NEW f \in Folders, NEW d \in Known,
                      store[f][d].kind \in {"partial", "whole"}
               PROVE  f = path[d]
    BY DEF OneCopy
  <2>1. d \in Docs
    BY DEF IInv, TypeOK
  <2>2. f = path[d] \/ CopyAt(f, d)
    BY <2>1 DEF IInv, Elsewhere
  <2>3. ~CopyAt(f, d)
    BY DEF IInv, Shape, CopyAt
  <2>4. QED
    BY <2>2, <2>3
<1>2. QED
  BY Inductive, <1>1, PTL
=============================================================================
