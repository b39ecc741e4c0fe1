------------------------ MODULE DocumentClaimsProofs ------------------------
(***************************************************************************)
(* What TLAPS proves of DocumentClaims for every set of projects, windows  *)
(* and documents and for every value of the bounds.                        *)
(*                                                                         *)
(* The lease alone keeps a history with one writer.  The claim keeps a     *)
(* document with one recorder as long as no window comes back to the       *)
(* registry while a coordinator made for it before is still at work,       *)
(* because the two share one owner; and nothing is left behind as long as  *)
(* the last drain of a coordinator ends in time.                           *)
(***************************************************************************)
EXTENDS DocumentClaims, TLAPS

Used(c) == coord[c].pc # "unused"
Busy == {"probed"} \cup HoldsClaim

\* The shape of a coordinator: what its fields say of one another.
ShapeInv ==
    \A c \in Coordinators :
        /\ Used(c) => coord[c].project \in Projects /\ coord[c].window \in Windows
        /\ ~Used(c) => ~coord[c].listed
        /\ coord[c].pc \in Busy => coord[c].key \in Keys
        /\ Recording(c) => /\ coord[c].pc \in {"recording", "draining", "closing", "dead"}
                           /\ coord[c].key \in Keys

\* Whoever has a recorder, or is about to start or has just lost one, has the
\* lease of its history.
LeaseInv ==
    \A c \in Coordinators :
        coord[c].pc \in HoldsLease \/ Recording(c) => leases[History(c)] = c

IInv == TypeOK /\ ShapeInv /\ LeaseInv

----------------------------------------------------------------------------
(* The initial states and the steps. *)

LEMMA Start == Init => IInv
<1> SUFFICES ASSUME Init PROVE IInv
  OBVIOUS
<1> USE DEF Init
<1>1. TypeOK
  BY BoundsAssumption DEF TypeOK, Unused, Coordinator, PCs
<1>2. ShapeInv
  BY DEF ShapeInv, Used, Busy, HoldsClaim, Recording, Unused
<1>3. LeaseInv
  BY DEF LeaseInv, HoldsLease, Recording, Unused
<1>4. QED
  BY <1>1, <1>2, <1>3 DEF IInv

\* What a step that leaves the coordinators and the leases alone preserves.
LEMMA Quiet ==
  ASSUME IInv, TypeOK', coord' = coord, leases' = leases
  PROVE  IInv'
BY DEF IInv, ShapeInv, LeaseInv, Used, Busy, Recording, History

\* A coordinator's record stays one.
LEMMA Typed ==
  ASSUME TypeOK, NEW c \in Coordinators
  PROVE  coord[c] \in Coordinator
BY DEF TypeOK

\* The editors and their users touch neither coordinators nor leases.
LEMMA EnvironmentStep == IInv /\ Environment => IInv'
<1> SUFFICES ASSUME IInv, Environment PROVE IInv'
  OBVIOUS
<1> USE BoundsAssumption DEF IInv
<1>1. ASSUME NEW w \in Windows, Open(w) PROVE TypeOK' /\ coord' = coord /\ leases' = leases
  BY <1>1 DEF Open, TypeOK, budgets
<1>2. ASSUME NEW w \in Windows, Leave(w) PROVE TypeOK' /\ coord' = coord /\ leases' = leases
  BY <1>2 DEF Leave, TypeOK, budgets
<1>3. ASSUME NEW w \in Windows, Return(w) PROVE TypeOK' /\ coord' = coord /\ leases' = leases
  BY <1>3 DEF Return, TypeOK
<1>4. ASSUME NEW w \in Windows, NEW d \in Documents, Switch(w, d)
      PROVE  TypeOK' /\ coord' = coord /\ leases' = leases
  BY <1>4 DEF Switch, TypeOK
<1>5. ASSUME NEW p \in Projects, NEW w \in Windows, Toggle(p, w)
      PROVE  TypeOK' /\ coord' = coord /\ leases' = leases
  BY <1>5 DEF Toggle, TypeOK
<1>6. QED
  BY <1>1, <1>2, <1>3, <1>4, <1>5, Quiet DEF Environment

LEMMA JoinStep ==
  ASSUME IInv, NEW p \in Projects, NEW w \in Windows, Join(p, w)
  PROVE  IInv'
<1>1. PICK c \in Coordinators :
        /\ coord[c].pc = "unused"
        /\ coord' = [coord EXCEPT ![c] =
               [Unused EXCEPT !.project = p, !.window = w, !.pc = "idle", !.listed = TRUE]]
  BY DEF Join
<1> DEFINE new == [Unused EXCEPT !.project = p, !.window = w, !.pc = "idle", !.listed = TRUE]
<1>2. /\ new \in Coordinator
      /\ new.pc = "idle" /\ new.recorder = "none" /\ new.project = p /\ new.window = w
  BY DEF Unused, Coordinator, PCs
<1> HIDE DEF new
<1>3. /\ coord'[c] = new
      /\ \A b \in Coordinators \ {c} : coord'[b] = coord[b]
  BY <1>1 DEF new, IInv, TypeOK
<1>4. TypeOK'
  BY <1>1, <1>2 DEF Join, IInv, TypeOK, budgets, new
<1>5. ShapeInv'
  BY <1>2, <1>3 DEF IInv, ShapeInv, Used, Busy, HoldsClaim, Recording
<1>6. LeaseInv'
  BY <1>2, <1>3 DEF Join, IInv, LeaseInv, HoldsLease, Recording, History
<1>7. QED
  BY <1>4, <1>5, <1>6 DEF IInv

\* Every step of a coordinator, its recorder or a failure changes the record of
\* that coordinator only.
LEMMA CoordinatorSteps ==
  ASSUME IInv, NEW c \in Coordinators,
         SessionGone(c) \/ CoordinatorStep(c) \/ RecorderStep(c) \/ Failure(c)
  PROVE  IInv'
<1> USE BoundsAssumption DEF IInv
<1>1. coord[c] \in Coordinator
  BY Typed
<1>2. CASE SessionGone(c)
  <2>1. TypeOK'
    BY <1>2, <1>1 DEF SessionGone, TypeOK, ShapeInv, Used, Busy, HoldsClaim, Recording, Coordinator,
      Goto, Fault, RecorderEnds, Owner, Identity, Documents, Keys, Histories, History, PCs, budgets
  <2>2. ShapeInv'
    BY <1>2, <1>1, <2>1 DEF SessionGone, TypeOK, ShapeInv, Used, Busy, HoldsClaim, Recording, Coordinator,
      Goto, RecorderEnds, Identity, Documents, Keys
  <2>3. LeaseInv'
    BY <1>2, <1>1, <2>1 DEF SessionGone, TypeOK, ShapeInv, LeaseInv, HoldsLease, Recording, Coordinator,
      Goto, RecorderEnds, History, Used, Busy, HoldsClaim, Histories
  <2>4. QED
    BY <2>1, <2>2, <2>3
<1>3. CASE Probe(c)
  <2>1. TypeOK'
    <3>1. Identity(coord[c].window, shows[coord[c].window]) \in Keys
      BY <1>3, <1>1 DEF Probe, TypeOK, ShapeInv, Used, Identity, Documents, Keys
    <3>2. coord' \in [Coordinators -> Coordinator]
      BY <1>3, <1>1, <3>1 DEF Probe, TypeOK, Coordinator, PCs
    <3>3. QED
      BY <1>3, <3>2 DEF Probe, TypeOK, budgets
  <2>2. ShapeInv'
    BY <1>3, <1>1, <2>1 DEF Probe, TypeOK, ShapeInv, Used, Busy, HoldsClaim, Recording, Coordinator,
      Goto, RecorderEnds, Identity, Documents, Keys
  <2>3. LeaseInv'
    BY <1>3, <1>1, <2>1 DEF Probe, TypeOK, ShapeInv, LeaseInv, HoldsLease, Recording, Coordinator,
      Goto, RecorderEnds, History, Used, Busy, HoldsClaim, Histories
  <2>4. QED
    BY <2>1, <2>2, <2>3
<1>4. CASE Claim(c)
  <2>1. TypeOK'
    <3>1. /\ Owner(c) \in Projects \X Windows
          /\ coord[c].key \in Keys
      BY <1>4, <1>1 DEF Claim, ShapeInv, Used, Busy, Owner
    <3>2. coord' \in [Coordinators -> Coordinator]
      BY <1>4, <1>1 DEF Claim, Goto, TypeOK, Coordinator, PCs
    <3>3. claims' \in [Keys -> (Projects \X Windows) \cup {None}]
      BY <1>4, <3>1 DEF Claim, TypeOK
    <3>4. QED
      BY <1>4, <3>2, <3>3 DEF Claim, TypeOK, budgets
  <2>2. ShapeInv'
    BY <1>4, <1>1, <2>1 DEF Claim, TypeOK, ShapeInv, Used, Busy, HoldsClaim, Recording, Coordinator,
      Goto, RecorderEnds, Identity, Documents, Keys
  <2>3. LeaseInv'
    BY <1>4, <1>1, <2>1 DEF Claim, TypeOK, ShapeInv, LeaseInv, HoldsLease, Recording, Coordinator,
      Goto, RecorderEnds, History, Used, Busy, HoldsClaim, Histories
  <2>4. QED
    BY <2>1, <2>2, <2>3
<1>5. CASE CatalogFails(c)
  <2>1. TypeOK'
    <3>1. coord' \in [Coordinators -> Coordinator]
      BY <1>5, <1>1 DEF CatalogFails, Goto, TypeOK, Coordinator, PCs
    <3>2. QED
      BY <1>5, <3>1 DEF CatalogFails, Fault, TypeOK, budgets
  <2>2. ShapeInv'
    BY <1>5, <1>1, <2>1 DEF CatalogFails, TypeOK, ShapeInv, Used, Busy, HoldsClaim, Recording, Coordinator,
      Goto, RecorderEnds, Identity, Documents, Keys
  <2>3. LeaseInv'
    BY <1>5, <1>1, <2>1 DEF CatalogFails, TypeOK, ShapeInv, LeaseInv, HoldsLease, Recording, Coordinator,
      Goto, RecorderEnds, History, Used, Busy, HoldsClaim, Histories
  <2>4. QED
    BY <2>1, <2>2, <2>3
<1>6. CASE AcquireWriter(c)
  <2>1. TypeOK'
    <3>1. History(c) \in Histories
      BY <1>6, <1>1 DEF AcquireWriter, TypeOK, ShapeInv, Used, Busy, HoldsClaim, History, Histories, Coordinator
    <3>2. /\ coord' \in [Coordinators -> Coordinator]
          /\ leases' \in [Histories -> Coordinators \cup {None}]
      BY <1>6, <1>1, <3>1 DEF AcquireWriter, Goto, TypeOK, Coordinator, PCs
    <3>3. QED
      BY <1>6, <3>2 DEF AcquireWriter, TypeOK, budgets
  <2>2. ShapeInv'
    <3>1. \E pc \in {"leased", "unclaiming"} : coord' = [coord EXCEPT ![c].pc = pc]
      BY <1>6 DEF AcquireWriter, Goto
    <3>2. coord[c].pc = "claimed"
      BY <1>6 DEF AcquireWriter
    <3>3. QED
      BY <1>1, <3>1, <3>2 DEF TypeOK, ShapeInv, Used, Busy, HoldsClaim, Recording, Coordinator
  <2>3. LeaseInv'
    <3>1. /\ History(c) \in Histories
          /\ History(c)' = History(c)
          /\ \A b \in Coordinators \ {c} : coord'[b] = coord[b]
          /\ ~Recording(c) /\ ~Recording(c)'
      BY <1>6, <1>1 DEF AcquireWriter, LeaseFree, Goto, TypeOK, ShapeInv, Used, Busy, HoldsClaim,
        Recording, History, Histories, Coordinator
    <3>2. \A b \in Coordinators \ {c} :
            coord[b].pc \in HoldsLease \/ Recording(b) => /\ History(b) \in Histories
                                                        /\ leases[History(b)] = b
      BY Typed DEF ShapeInv, LeaseInv, Used, Busy, HoldsLease, HoldsClaim, Recording, History, Histories
    <3>3. CASE leases[History(c)] = None
      <4>1. /\ leases' = [leases EXCEPT ![History(c)] = c]
            /\ coord'[c].pc = "leased"
        BY <1>6, <1>1, <3>3 DEF AcquireWriter, LeaseFree, Goto, TypeOK, Coordinator
      <4>2. ASSUME NEW b \in Coordinators \ {c}, coord'[b].pc \in HoldsLease \/ Recording(b)'
            PROVE  leases'[History(b)'] = b
        <5>1. /\ History(b)' = History(b)
              /\ History(b) \in Histories
              /\ leases[History(b)] = b
          BY <3>1, <3>2, <4>2 DEF Recording, History
        <5>2. History(b) # History(c)
          BY <5>1, <3>3, NoneAssumption
        <5>3. QED
          BY <5>1, <5>2, <4>1 DEF TypeOK
      <4>3. leases'[History(c)'] = c
        BY <3>1, <4>1 DEF TypeOK
      <4>4. QED
        BY <4>2, <4>3 DEF LeaseInv
    <3>4. CASE leases[History(c)] # None
      <4>1. leases' = leases /\ coord'[c].pc = "unclaiming"
        BY <1>6, <1>1, <3>4 DEF AcquireWriter, LeaseFree, Goto, TypeOK, Coordinator
      <4>2. ASSUME NEW b \in Coordinators \ {c}, coord'[b].pc \in HoldsLease \/ Recording(b)'
            PROVE  leases'[History(b)'] = b
        BY <3>1, <3>2, <4>1, <4>2 DEF Recording, History
      <4>3. ~(coord'[c].pc \in HoldsLease \/ Recording(c)')
        BY <3>1, <4>1 DEF HoldsLease
      <4>4. QED
        BY <4>2, <4>3 DEF LeaseInv
    <3>5. QED
      BY <3>3, <3>4
  <2>4. QED
    BY <2>1, <2>2, <2>3
<1>7. CASE Refuse(c)
  <2>1. TypeOK'
    BY <1>7, <1>1 DEF Refuse, TypeOK, ShapeInv, Used, Busy, HoldsClaim, Recording, Coordinator,
      Goto, Fault, RecorderEnds, Owner, Identity, Documents, Keys, Histories, History, PCs, budgets
  <2>2. ShapeInv'
    BY <1>7, <1>1, <2>1 DEF Refuse, TypeOK, ShapeInv, Used, Busy, HoldsClaim, Recording, Coordinator,
      Goto, RecorderEnds, Identity, Documents, Keys
  <2>3. LeaseInv'
    BY <1>7, <1>1, <2>1 DEF Refuse, TypeOK, ShapeInv, LeaseInv, HoldsLease, Recording, Coordinator,
      Goto, RecorderEnds, History, Used, Busy, HoldsClaim, Histories
  <2>4. QED
    BY <2>1, <2>2, <2>3
<1>8. CASE StartRecorder(c)
  <2>1. TypeOK'
    BY <1>8, <1>1 DEF StartRecorder, TypeOK, ShapeInv, Used, Busy, HoldsClaim, Recording, Coordinator,
      Goto, Fault, RecorderEnds, Owner, Identity, Documents, Keys, Histories, History, PCs, budgets
  <2>2. ShapeInv'
    BY <1>8, <1>1, <2>1 DEF StartRecorder, TypeOK, ShapeInv, Used, Busy, HoldsClaim, Recording, Coordinator,
      Goto, RecorderEnds, Identity, Documents, Keys
  <2>3. LeaseInv'
    BY <1>8, <1>1, <2>1 DEF StartRecorder, TypeOK, ShapeInv, LeaseInv, HoldsLease, Recording, Coordinator,
      Goto, RecorderEnds, History, Used, Busy, HoldsClaim, Histories
  <2>4. QED
    BY <2>1, <2>2, <2>3
<1>9. CASE RecorderStops(c)
  <2>1. TypeOK'
    BY <1>9, <1>1 DEF RecorderStops, TypeOK, ShapeInv, Used, Busy, HoldsClaim, Recording, Coordinator,
      Goto, Fault, RecorderEnds, Owner, Identity, Documents, Keys, Histories, History, PCs, budgets
  <2>2. ShapeInv'
    BY <1>9, <1>1, <2>1 DEF RecorderStops, TypeOK, ShapeInv, Used, Busy, HoldsClaim, Recording, Coordinator,
      Goto, RecorderEnds, Identity, Documents, Keys
  <2>3. LeaseInv'
    BY <1>9, <1>1, <2>1 DEF RecorderStops, TypeOK, ShapeInv, LeaseInv, HoldsLease, Recording, Coordinator,
      Goto, RecorderEnds, History, Used, Busy, HoldsClaim, Histories
  <2>4. QED
    BY <2>1, <2>2, <2>3
<1>10. CASE DocumentChanged(c)
  <2>1. TypeOK'
    BY <1>10, <1>1 DEF DocumentChanged, TypeOK, ShapeInv, Used, Busy, HoldsClaim, Recording, Coordinator,
      Goto, Fault, RecorderEnds, Owner, Identity, Documents, Keys, Histories, History, PCs, budgets
  <2>2. ShapeInv'
    BY <1>10, <1>1, <2>1 DEF DocumentChanged, TypeOK, ShapeInv, Used, Busy, HoldsClaim, Recording, Coordinator,
      Goto, RecorderEnds, Identity, Documents, Keys
  <2>3. LeaseInv'
    BY <1>10, <1>1, <2>1 DEF DocumentChanged, TypeOK, ShapeInv, LeaseInv, HoldsLease, Recording, Coordinator,
      Goto, RecorderEnds, History, Used, Busy, HoldsClaim, Histories
  <2>4. QED
    BY <2>1, <2>2, <2>3
<1>11. CASE RecorderFails(c)
  <2>1. TypeOK'
    BY <1>11, <1>1 DEF RecorderFails, TypeOK, ShapeInv, Used, Busy, HoldsClaim, Recording, Coordinator,
      Goto, Fault, RecorderEnds, Owner, Identity, Documents, Keys, Histories, History, PCs, budgets
  <2>2. ShapeInv'
    BY <1>11, <1>1, <2>1 DEF RecorderFails, TypeOK, ShapeInv, Used, Busy, HoldsClaim, Recording, Coordinator,
      Goto, RecorderEnds, Identity, Documents, Keys
  <2>3. LeaseInv'
    BY <1>11, <1>1, <2>1 DEF RecorderFails, TypeOK, ShapeInv, LeaseInv, HoldsLease, Recording, Coordinator,
      Goto, RecorderEnds, History, Used, Busy, HoldsClaim, Histories
  <2>4. QED
    BY <2>1, <2>2, <2>3
<1>12. CASE StopRecorder(c)
  <2>1. TypeOK'
    BY <1>12, <1>1 DEF StopRecorder, TypeOK, ShapeInv, Used, Busy, HoldsClaim, Recording, Coordinator,
      Goto, Fault, RecorderEnds, Owner, Identity, Documents, Keys, Histories, History, PCs, budgets
  <2>2. ShapeInv'
    BY <1>12, <1>1, <2>1 DEF StopRecorder, TypeOK, ShapeInv, Used, Busy, HoldsClaim, Recording, Coordinator,
      Goto, RecorderEnds, Identity, Documents, Keys
  <2>3. LeaseInv'
    BY <1>12, <1>1, <2>1 DEF StopRecorder, TypeOK, ShapeInv, LeaseInv, HoldsLease, Recording, Coordinator,
      Goto, RecorderEnds, History, Used, Busy, HoldsClaim, Histories
  <2>4. QED
    BY <2>1, <2>2, <2>3
<1>13. CASE DrainTimesOut(c)
  <2>1. TypeOK'
    BY <1>13, <1>1 DEF DrainTimesOut, TypeOK, ShapeInv, Used, Busy, HoldsClaim, Recording, Coordinator,
      Goto, Fault, RecorderEnds, Owner, Identity, Documents, Keys, Histories, History, PCs, budgets
  <2>2. ShapeInv'
    BY <1>13, <1>1, <2>1 DEF DrainTimesOut, TypeOK, ShapeInv, Used, Busy, HoldsClaim, Recording, Coordinator,
      Goto, RecorderEnds, Identity, Documents, Keys
  <2>3. LeaseInv'
    BY <1>13, <1>1, <2>1 DEF DrainTimesOut, TypeOK, ShapeInv, LeaseInv, HoldsLease, Recording, Coordinator,
      Goto, RecorderEnds, History, Used, Busy, HoldsClaim, Histories
  <2>4. QED
    BY <2>1, <2>2, <2>3
<1>14. CASE Close(c)
  <2>1. TypeOK'
    <3>1. coord' \in [Coordinators -> Coordinator]
      BY <1>14, <1>1 DEF Close, Goto, TypeOK, Coordinator, PCs
    <3>2. QED
      BY <1>14, <3>1 DEF Close, Fault, TypeOK, budgets
  <2>2. ShapeInv'
    BY <1>14, <1>1, <2>1 DEF Close, TypeOK, ShapeInv, Used, Busy, HoldsClaim, Recording, Coordinator,
      Goto, RecorderEnds, Identity, Documents, Keys
  <2>3. LeaseInv'
    BY <1>14, <1>1, <2>1 DEF Close, TypeOK, ShapeInv, LeaseInv, HoldsLease, Recording, Coordinator,
      Goto, RecorderEnds, History, Used, Busy, HoldsClaim, Histories
  <2>4. QED
    BY <2>1, <2>2, <2>3
<1>15. CASE CloseTimesOut(c)
  <2>1. TypeOK'
    BY <1>15, <1>1 DEF CloseTimesOut, TypeOK, ShapeInv, Used, Busy, HoldsClaim, Recording, Coordinator,
      Goto, Fault, RecorderEnds, Owner, Identity, Documents, Keys, Histories, History, PCs, budgets
  <2>2. ShapeInv'
    BY <1>15, <1>1, <2>1 DEF CloseTimesOut, TypeOK, ShapeInv, Used, Busy, HoldsClaim, Recording, Coordinator,
      Goto, RecorderEnds, Identity, Documents, Keys
  <2>3. LeaseInv'
    BY <1>15, <1>1, <2>1 DEF CloseTimesOut, TypeOK, ShapeInv, LeaseInv, HoldsLease, Recording, Coordinator,
      Goto, RecorderEnds, History, Used, Busy, HoldsClaim, Histories
  <2>4. QED
    BY <2>1, <2>2, <2>3
<1>16. CASE RecorderEnded(c)
  <2>1. TypeOK'
    BY <1>16, <1>1 DEF RecorderEnded, TypeOK, ShapeInv, Used, Busy, HoldsClaim, Recording, Coordinator,
      Goto, Fault, RecorderEnds, Owner, Identity, Documents, Keys, Histories, History, PCs, budgets
  <2>2. ShapeInv'
    BY <1>16, <1>1, <2>1 DEF RecorderEnded, TypeOK, ShapeInv, Used, Busy, HoldsClaim, Recording, Coordinator,
      Goto, RecorderEnds, Identity, Documents, Keys
  <2>3. LeaseInv'
    BY <1>16, <1>1, <2>1 DEF RecorderEnded, TypeOK, ShapeInv, LeaseInv, HoldsLease, Recording, Coordinator,
      Goto, RecorderEnds, History, Used, Busy, HoldsClaim, Histories
  <2>4. QED
    BY <2>1, <2>2, <2>3
<1>17. CASE ReleaseWriter(c)
  <2>1. TypeOK'
    BY <1>17, <1>1 DEF ReleaseWriter, TypeOK, ShapeInv, Used, Busy, HoldsClaim, Recording, Coordinator,
      Goto, Fault, RecorderEnds, Owner, Identity, Documents, Keys, Histories, History, PCs, budgets
  <2>2. ShapeInv'
    BY <1>17, <1>1, <2>1 DEF ReleaseWriter, TypeOK, ShapeInv, Used, Busy, HoldsClaim, Recording, Coordinator,
      Goto, RecorderEnds, Identity, Documents, Keys
  <2>3. LeaseInv'
    BY <1>17, <1>1, <2>1 DEF ReleaseWriter, TypeOK, ShapeInv, LeaseInv, HoldsLease, Recording, Coordinator,
      Goto, RecorderEnds, History, Used, Busy, HoldsClaim, Histories
  <2>4. QED
    BY <2>1, <2>2, <2>3
<1>18. CASE ReleaseClaim(c)
  <2>1. TypeOK'
    BY <1>18, <1>1 DEF ReleaseClaim, TypeOK, ShapeInv, Used, Busy, HoldsClaim, Recording, Coordinator,
      Goto, Fault, RecorderEnds, Owner, Identity, Documents, Keys, Histories, History, PCs, budgets
  <2>2. ShapeInv'
    BY <1>18, <1>1, <2>1 DEF ReleaseClaim, TypeOK, ShapeInv, Used, Busy, HoldsClaim, Recording, Coordinator,
      Goto, RecorderEnds, Identity, Documents, Keys
  <2>3. LeaseInv'
    BY <1>18, <1>1, <2>1 DEF ReleaseClaim, TypeOK, ShapeInv, LeaseInv, HoldsLease, Recording, Coordinator,
      Goto, RecorderEnds, History, Used, Busy, HoldsClaim, Histories
  <2>4. QED
    BY <2>1, <2>2, <2>3
<1>19. QED
  BY <1>2, <1>3, <1>4, <1>5, <1>6, <1>7, <1>8, <1>9, <1>10, <1>11, <1>12, <1>13, <1>14, <1>15, <1>16, <1>17, <1>18
  DEF CoordinatorStep, RecorderStep, Failure

LEMMA Steps == IInv /\ [Next]_vars => IInv'
<1> SUFFICES ASSUME IInv, [Next]_vars PROVE IInv'
  OBVIOUS
<1>1. CASE Environment
  BY <1>1, EnvironmentStep
<1>2. CASE Supervise
  BY <1>2, JoinStep DEF Supervise
<1>3. ASSUME NEW c \in Coordinators,
             SessionGone(c) \/ CoordinatorStep(c) \/ RecorderStep(c) \/ Failure(c)
      PROVE  IInv'
  BY <1>3, CoordinatorSteps
<1>4. CASE UNCHANGED vars
  <2>1. TypeOK'
    BY <1>4 DEF IInv, TypeOK, vars, budgets
  <2>2. QED
    BY <1>4, <2>1, Quiet DEF vars
<1>5. QED
  BY <1>1, <1>2, <1>3, <1>4 DEF Next

\* IInv is an inductive invariant of the specification.
THEOREM Inductive == Spec => []IInv
BY Start, Steps, PTL DEF Spec

\* The state always has its type, in any instance.
THEOREM TypeCorrect == Spec => []TypeOK
<1>1. IInv => TypeOK
  BY DEF IInv
<1>2. QED
  BY <1>1, Inductive, PTL

\* However many windows show a document, whatever becomes of the claims and
\* whatever hangs, a history has one recorder at most.
THEOREM OneWriter == Spec => []OneWriterPerHistory
<1>1. IInv => OneWriterPerHistory
  BY DEF IInv, LeaseInv, OneWriterPerHistory, Recording
<1>2. QED
  BY <1>1, Inductive, PTL

----------------------------------------------------------------------------
(* Until a window comes back, a pair of a project and a window has one     *)
(* coordinator, so that an owner is one thread.                            *)

\* A coordinator that is not in the table any more belongs to a window that
\* is gone for good.
TableInv ==
    \A c \in Coordinators : Used(c) =>
        /\ session[coord[c].window] # "new"
        /\ ~coord[c].listed => session[coord[c].window] = "offline"

OwnersDiffer ==
    \A b, c \in Coordinators : Used(b) /\ Used(c) /\ Owner(b) = Owner(c) => b = c

\* Whoever has claimed the document that it is busy with still has the claim.
ClaimInv ==
    \A c \in Coordinators :
        coord[c].pc \in HoldsClaim \/ Recording(c) => claims[coord[c].key] = Owner(c)

CInv == TableInv /\ OwnersDiffer /\ ClaimInv

\* A coordinator stays what it is: a step changes where it is, not whose it is.
Stays(c) ==
    /\ session' = session
    /\ \A b \in Coordinators \ {c} : coord'[b] = coord[b]
    /\ Used(c) /\ Used(c)'
    /\ coord'[c].project = coord[c].project
    /\ coord'[c].window = coord[c].window
    /\ coord'[c].listed = coord[c].listed \/ session[coord[c].window] # "online"

LEMMA Frame ==
  ASSUME IInv, NEW c \in Coordinators,
         SessionGone(c) \/ CoordinatorStep(c) \/ RecorderStep(c) \/ Failure(c)
  PROVE  Stays(c)
<1>1. coord[c] \in Coordinator /\ coord \in [Coordinators -> Coordinator]
  BY Typed DEF IInv, TypeOK
<1>2. (coord[c].listed \/ Recording(c)) => Used(c)
  BY DEF IInv, ShapeInv, Used
<1> USE DEF Stays, Used, Coordinator, Goto, RecorderEnds, Recording
<1>3. CASE SessionGone(c)
  BY <1>3, <1>1, <1>2 DEF SessionGone
<1>4. CASE Probe(c)
  BY <1>4, <1>1, <1>2 DEF Probe
<1>5. CASE Claim(c)
  BY <1>5, <1>1, <1>2 DEF Claim
<1>6. CASE CatalogFails(c)
  BY <1>6, <1>1, <1>2 DEF CatalogFails
<1>7. CASE AcquireWriter(c)
  BY <1>7, <1>1, <1>2 DEF AcquireWriter
<1>8. CASE Refuse(c)
  BY <1>8, <1>1, <1>2 DEF Refuse
<1>9. CASE StartRecorder(c)
  BY <1>9, <1>1, <1>2 DEF StartRecorder
<1>10. CASE RecorderStops(c)
  BY <1>10, <1>1, <1>2 DEF RecorderStops
<1>11. CASE DocumentChanged(c)
  BY <1>11, <1>1, <1>2 DEF DocumentChanged
<1>12. CASE RecorderFails(c)
  BY <1>12, <1>1, <1>2 DEF RecorderFails
<1>13. CASE StopRecorder(c)
  BY <1>13, <1>1, <1>2 DEF StopRecorder
<1>14. CASE DrainTimesOut(c)
  BY <1>14, <1>1, <1>2 DEF DrainTimesOut
<1>15. CASE Close(c)
  BY <1>15, <1>1, <1>2 DEF Close
<1>16. CASE CloseTimesOut(c)
  BY <1>16, <1>1, <1>2 DEF CloseTimesOut
<1>17. CASE RecorderEnded(c)
  BY <1>17, <1>1, <1>2 DEF RecorderEnded
<1>18. CASE ReleaseWriter(c)
  BY <1>18, <1>1, <1>2 DEF ReleaseWriter
<1>19. CASE ReleaseClaim(c)
  BY <1>19, <1>1, <1>2 DEF ReleaseClaim
<1>20. QED
  BY <1>3, <1>4, <1>5, <1>6, <1>7, <1>8, <1>9, <1>10, <1>11, <1>12, <1>13, <1>14, <1>15, <1>16, <1>17, <1>18, <1>19 DEF CoordinatorStep, RecorderStep, Failure

\* What has happened is not taken back.
LEMMA Monotone ==
  ASSUME IInv, [Next]_vars
  PROVE  (returns' = 0 => returns = 0) /\ (hangs' = 0 => hangs = 0)
<1>1. returns \in Nat /\ hangs \in Nat
  BY BoundsAssumption DEF IInv, TypeOK
<1>2. CASE Environment
  <2>1. hangs' = hangs /\ (returns' = returns \/ returns' = returns + 1)
    BY <1>2 DEF Environment, Open, Leave, Return, Switch, Toggle, budgets
  <2>2. QED
    BY <1>1, <2>1
<1>3. CASE Supervise
  BY <1>3 DEF Supervise, Join, budgets
<1>4. ASSUME NEW c \in Coordinators,
             SessionGone(c) \/ CoordinatorStep(c) \/ RecorderStep(c)
      PROVE  returns' = returns /\ hangs' = hangs
  BY <1>4 DEF SessionGone, CoordinatorStep, RecorderStep, Probe, Claim, AcquireWriter,
     StartRecorder, RecorderStops, DocumentChanged, StopRecorder, Close, RecorderEnded,
     ReleaseWriter, ReleaseClaim, budgets
<1>5. ASSUME NEW c \in Coordinators, Failure(c)
      PROVE  returns' = returns /\ (hangs' = hangs \/ hangs' = hangs + 1)
  BY <1>5 DEF Failure, CatalogFails, Refuse, RecorderFails, DrainTimesOut, CloseTimesOut
<1>6. CASE UNCHANGED vars
  BY <1>6 DEF vars, budgets
<1>7. QED
  BY <1>1, <1>2, <1>3, <1>4, <1>5, <1>6 DEF Next

LEMMA TableSteps ==
  ASSUME returns' = 0, IInv, TableInv, OwnersDiffer, [Next]_vars
  PROVE  TableInv' /\ OwnersDiffer'
<1> USE DEF TableInv, OwnersDiffer, Used, Owner
<1>1. ASSUME NEW w \in Windows, Open(w) \/ Leave(w) \/ Return(w) \/ \E d \in Documents : Switch(w, d)
      PROVE  TableInv' /\ OwnersDiffer'
  <2>1. /\ coord' = coord
        /\ \/ session' = session
           \/ session' = [session EXCEPT ![w] = "online"] /\ session[w] = "new"
           \/ session' = [session EXCEPT ![w] = "offline"]
    <3>1. ~Return(w)
      BY BoundsAssumption DEF Return, IInv, TypeOK
    <3>2. QED
      BY <1>1, <3>1 DEF Open, Leave, Switch
  <2>2. QED
    BY <2>1 DEF IInv, TypeOK, ShapeInv
<1>2. ASSUME NEW p \in Projects, NEW w \in Windows, Toggle(p, w) PROVE TableInv' /\ OwnersDiffer'
  BY <1>2 DEF Toggle
<1>3. ASSUME NEW p \in Projects, NEW w \in Windows, Join(p, w) PROVE TableInv' /\ OwnersDiffer'
  <2>1. PICK c \in Coordinators :
          /\ coord[c].pc = "unused"
          /\ coord' = [coord EXCEPT ![c] =
                 [Unused EXCEPT !.project = p, !.window = w, !.pc = "idle", !.listed = TRUE]]
    BY <1>3 DEF Join
  <2>2. /\ coord'[c].project = p /\ coord'[c].window = w /\ coord'[c].listed
        /\ \A b \in Coordinators \ {c} : coord'[b] = coord[b]
        /\ session' = session /\ session[w] = "online"
    BY <1>3, <2>1 DEF Join, IInv, TypeOK, Unused
  <2>3. \A b \in Coordinators : Used(b) => Owner(b) # <<p, w>>
    BY <1>3, <2>2 DEF Join
  <2>4. QED
    BY <2>1, <2>2, <2>3
<1>4. ASSUME NEW c \in Coordinators,
             SessionGone(c) \/ CoordinatorStep(c) \/ RecorderStep(c) \/ Failure(c)
      PROVE  TableInv' /\ OwnersDiffer'
  <2>1. Stays(c)
    BY <1>4, Frame
  <2>2. coord[c].window \in Windows
    BY <2>1 DEF Stays, IInv, ShapeInv
  <2>3. session[coord[c].window] \in {"new", "online", "offline"}
    BY <2>2 DEF IInv, TypeOK
  <2>4. QED
    BY <2>1, <2>3 DEF Stays
<1>5. CASE UNCHANGED vars
  BY <1>5 DEF vars
<1>6. QED
  BY <1>1, <1>2, <1>3, <1>4, <1>5 DEF Next, Environment, Supervise

\* A coordinator whose claim and whose reasons to hold it do not change.
LEMMA ClaimsQuiet ==
  ASSUME ClaimInv, NEW c \in Coordinators, Stays(c), claims' = claims,
         coord'[c].key = coord[c].key,
         coord'[c].pc \in HoldsClaim \/ Recording(c)' => coord[c].pc \in HoldsClaim \/ Recording(c)
  PROVE  ClaimInv'
BY DEF ClaimInv, Stays, Owner, Recording

LEMMA ClaimSteps ==
  ASSUME IInv, OwnersDiffer, ClaimInv, [Next]_vars
  PROVE  ClaimInv'
<1> USE DEF IInv
<1>1. CASE Environment
  BY <1>1 DEF Environment, Open, Leave, Return, Switch, Toggle, ClaimInv, Owner, Recording
<1>2. ASSUME NEW p \in Projects, NEW w \in Windows, Join(p, w) PROVE ClaimInv'
  <2>1. PICK c \in Coordinators :
          /\ coord[c].pc = "unused"
          /\ coord' = [coord EXCEPT ![c] =
                 [Unused EXCEPT !.project = p, !.window = w, !.pc = "idle", !.listed = TRUE]]
    BY <1>2 DEF Join
  <2>2. /\ coord'[c].pc = "idle" /\ coord'[c].recorder = "none"
        /\ \A b \in Coordinators \ {c} : coord'[b] = coord[b]
        /\ claims' = claims
    BY <1>2, <2>1 DEF Join, TypeOK, Unused
  <2>3. QED
    BY <2>2 DEF ClaimInv, HoldsClaim, Recording, Owner
<1>3. ASSUME NEW c \in Coordinators,
             SessionGone(c) \/ CoordinatorStep(c) \/ RecorderStep(c) \/ Failure(c)
      PROVE  ClaimInv'
  <2>1. Stays(c) /\ coord[c] \in Coordinator /\ coord \in [Coordinators -> Coordinator]
    BY <1>3, Frame, Typed DEF TypeOK
  <2>2. \A b \in Coordinators \ {c} :
           coord[b].pc \in HoldsClaim \/ Recording(b) =>
             /\ coord[b].key \in Keys /\ Owner(b) # Owner(c) /\ Owner(b) # None
             /\ claims[coord[b].key] = Owner(b)
    <3> SUFFICES ASSUME NEW b \in Coordinators \ {c}, coord[b].pc \in HoldsClaim \/ Recording(b)
                 PROVE  /\ coord[b].key \in Keys /\ Owner(b) # Owner(c) /\ Owner(b) # None
                        /\ claims[coord[b].key] = Owner(b)
      OBVIOUS
    <3>1. Used(b) /\ coord[b].key \in Keys
      BY DEF ShapeInv, Used, Busy, HoldsClaim
    <3>2. Owner(b) # Owner(c)
      BY <2>1, <3>1 DEF OwnersDiffer, Stays
    <3>3. Owner(b) # None
      BY <3>1, NoneAssumption DEF ShapeInv, Owner
    <3>4. QED
      BY <3>1, <3>2, <3>3 DEF ClaimInv
  <2>3. ASSUME \A b \in Coordinators \ {c} :
                 (coord[b].pc \in HoldsClaim \/ Recording(b)) => claims'[coord[b].key] = Owner(b),
               coord'[c].pc \in HoldsClaim \/ Recording(c)' => claims'[coord'[c].key] = Owner(c)
        PROVE  ClaimInv'
    BY <2>1, <2>3 DEF ClaimInv, Stays, Owner, Recording
  <2>4. CASE SessionGone(c)
    BY <2>4, <2>1, ClaimsQuiet DEF SessionGone, Goto, RecorderEnds, Recording, HoldsClaim, Coordinator
  <2>5. CASE CatalogFails(c)
    BY <2>5, <2>1, ClaimsQuiet DEF CatalogFails, Goto, RecorderEnds, Recording, HoldsClaim, Coordinator
  <2>6. CASE AcquireWriter(c)
    BY <2>6, <2>1, ClaimsQuiet DEF AcquireWriter, LeaseFree, Goto, RecorderEnds, Recording, HoldsClaim, Coordinator
  <2>7. CASE Refuse(c)
    BY <2>7, <2>1, ClaimsQuiet DEF Refuse, Goto, RecorderEnds, Recording, HoldsClaim, Coordinator
  <2>8. CASE StartRecorder(c)
    BY <2>8, <2>1, ClaimsQuiet DEF StartRecorder, Goto, RecorderEnds, Recording, HoldsClaim, Coordinator
  <2>9. CASE RecorderStops(c)
    BY <2>9, <2>1, ClaimsQuiet DEF RecorderStops, Goto, RecorderEnds, Recording, HoldsClaim, Coordinator
  <2>10. CASE DocumentChanged(c)
    BY <2>10, <2>1, ClaimsQuiet DEF DocumentChanged, Goto, RecorderEnds, Recording, HoldsClaim, Coordinator
  <2>11. CASE RecorderFails(c)
    BY <2>11, <2>1, ClaimsQuiet DEF RecorderFails, Goto, RecorderEnds, Recording, HoldsClaim, Coordinator
  <2>12. CASE StopRecorder(c)
    BY <2>12, <2>1, ClaimsQuiet DEF StopRecorder, Goto, RecorderEnds, Recording, HoldsClaim, Coordinator
  <2>13. CASE DrainTimesOut(c)
    BY <2>13, <2>1, ClaimsQuiet DEF DrainTimesOut, Goto, RecorderEnds, Recording, HoldsClaim, Coordinator
  <2>14. CASE Close(c)
    BY <2>14, <2>1, ClaimsQuiet DEF Close, Goto, RecorderEnds, Recording, HoldsClaim, Coordinator
  <2>15. CASE CloseTimesOut(c)
    BY <2>15, <2>1, ClaimsQuiet DEF CloseTimesOut, Goto, RecorderEnds, Recording, HoldsClaim, Coordinator
  <2>16. CASE RecorderEnded(c)
    BY <2>16, <2>1, ClaimsQuiet DEF RecorderEnded, Goto, RecorderEnds, Recording, HoldsClaim, Coordinator
  <2>17. CASE ReleaseWriter(c)
    BY <2>17, <2>1, ClaimsQuiet DEF ReleaseWriter, Goto, RecorderEnds, Recording, HoldsClaim, Coordinator
  <2>18. CASE Probe(c)
    <3>1. claims' = claims /\ coord'[c].pc = "probed" /\ ~Recording(c)'
      BY <2>18, <2>1 DEF Probe, Recording, Coordinator, ShapeInv
    <3>2. QED
      BY <2>2, <2>3, <3>1 DEF HoldsClaim
  <2>19. CASE Claim(c)
    <3>1. /\ coord[c].key \in Keys
          /\ ~Recording(c) /\ ~Recording(c)'
      BY <2>19, <2>1 DEF Claim, Goto, Recording, Coordinator, ShapeInv, Busy
    <3>2. CASE Claimable(c)
      <4>1. /\ claims' = [claims EXCEPT ![coord[c].key] = Owner(c)]
            /\ coord'[c].key = coord[c].key
        BY <2>19, <2>1, <3>2 DEF Claim, Goto, Coordinator
      <4>2. \A b \in Coordinators \ {c} :
              (coord[b].pc \in HoldsClaim \/ Recording(b)) => coord[b].key # coord[c].key
        BY <2>2, <3>2 DEF Claimable
      <4>3. QED
        BY <2>2, <2>3, <3>1, <4>1, <4>2 DEF TypeOK
    <3>3. CASE ~Claimable(c)
      <4>1. claims' = claims /\ coord'[c].pc = "idle"
        BY <2>19, <2>1, <3>3 DEF Claim, Coordinator
      <4>2. QED
        BY <2>2, <2>3, <3>1, <4>1 DEF HoldsClaim
    <3>4. QED
      BY <3>2, <3>3
  <2>20. CASE ReleaseClaim(c)
    <3>1. /\ coord'[c].pc = "idle" /\ ~Recording(c)'
          /\ \/ claims' = claims
             \/ claims' = [claims EXCEPT ![coord[c].key] = None] /\ claims[coord[c].key] = Owner(c)
      BY <2>20, <2>1 DEF ReleaseClaim, Recording, Coordinator, ShapeInv
    <3>2. QED
      BY <2>2, <2>3, <3>1 DEF HoldsClaim, TypeOK
  <2>21. QED
    BY <1>3, <2>4, <2>5, <2>6, <2>7, <2>8, <2>9, <2>10, <2>11, <2>12, <2>13, <2>14, <2>15, <2>16, <2>17, <2>18, <2>19, <2>20 DEF CoordinatorStep, RecorderStep, Failure
<1>4. CASE UNCHANGED vars
  BY <1>4 DEF vars, ClaimInv, Recording, Owner
<1>5. QED
  BY <1>1, <1>2, <1>3, <1>4 DEF Next, Supervise

\* A document has one recorder at most, in all projects and all windows, until
\* a window comes back after the registry has called it offline.
THEOREM OneRecorderEach == Spec => []OneRecorderUntilReturn
<1> DEFINE J == returns = 0 => CInv
<1>1. Init => J
  BY DEF Init, CInv, TableInv, OwnersDiffer, ClaimInv, Used, Unused, HoldsClaim, Recording
<1>2. IInv /\ J /\ [Next]_vars => J'
  BY Monotone, TableSteps, ClaimSteps DEF CInv
<1>3. IInv /\ CInv => OneRecorder
  <2> SUFFICES ASSUME IInv, CInv, NEW b \in Coordinators, NEW c \in Coordinators,
                      Recording(b), Recording(c), coord[b].key = coord[c].key
               PROVE  b = c
    BY DEF OneRecorder
  <2>1. Owner(b) = Owner(c)
    BY DEF CInv, ClaimInv
  <2>2. Used(b) /\ Used(c)
    BY DEF IInv, ShapeInv, Used
  <2>3. QED
    BY <2>1, <2>2 DEF CInv, OwnersDiffer
<1>4. IInv /\ J => OneRecorderUntilReturn
  BY <1>3 DEF OneRecorderUntilReturn
<1> HIDE DEF J
<1>5. QED
  BY <1>1, <1>2, <1>4, Inductive, PTL DEF Spec

\* One writer each history, one recorder each document (Coordinator._recording).
THEOREM OneOfEach == Spec => []OneEach
<1>1. OneWriterPerHistory /\ OneRecorderUntilReturn => OneEach
  BY DEF OneEach
<1>2. QED
  BY <1>1, OneWriter, OneRecorderEach, PTL

----------------------------------------------------------------------------
(* While every drain ends in time, whatever was taken is given back.       *)

HoldingClaim(c) == coord[c].pc \in HoldsClaim \/ Recording(c)
HoldingLease(c) == coord[c].pc \in HoldsLease \/ Recording(c)

\* No recorder outlives the thread of its coordinator.
NoOrphan == \A c \in Coordinators : coord[c].pc = "dead" => ~Recording(c)

LEMMA OrphanSteps ==
  ASSUME hangs' = 0, IInv, NoOrphan, [Next]_vars
  PROVE  NoOrphan'
<1>1. CASE Environment
  BY <1>1 DEF Environment, Open, Leave, Return, Switch, Toggle, NoOrphan, Recording
<1>2. ASSUME NEW p \in Projects, NEW w \in Windows, Join(p, w) PROVE NoOrphan'
  BY <1>2 DEF Join, NoOrphan, Recording, Unused, IInv, TypeOK
<1>3. ASSUME NEW c \in Coordinators,
             SessionGone(c) \/ CoordinatorStep(c) \/ RecorderStep(c) \/ Failure(c)
      PROVE  NoOrphan'
  <2>1. /\ \A b \in Coordinators \ {c} : coord'[b] = coord[b]
        /\ coord[c] \in Coordinator
        /\ coord \in [Coordinators -> Coordinator]
    BY <1>3, Frame, Typed DEF IInv, TypeOK, Stays
  <2>2. ~CloseTimesOut(c)
    BY BoundsAssumption DEF CloseTimesOut, IInv, TypeOK
  <2>3. coord'[c].pc = "dead" => ~Recording(c)'
    <3>1. coord[c].pc = "idle" => ~Recording(c)
      BY DEF IInv, ShapeInv
    <3>2. QED
      BY <1>3, <2>1, <2>2, <3>1 DEF SessionGone, CoordinatorStep, RecorderStep, Failure, Probe,
        Claim, CatalogFails, AcquireWriter, LeaseFree, Refuse, StartRecorder, RecorderStops, DocumentChanged,
        RecorderFails, StopRecorder, DrainTimesOut, Close, RecorderEnded, ReleaseWriter,
        ReleaseClaim, NoOrphan, Recording, Coordinator, Goto, RecorderEnds
  <2>4. QED
    BY <2>1, <2>3 DEF NoOrphan, Recording
<1>4. CASE UNCHANGED vars
  BY <1>4 DEF vars, NoOrphan, Recording
<1>5. QED
  BY <1>1, <1>2, <1>3, <1>4 DEF Next, Supervise

\* A step of a coordinator that goes on holding what it holds.
LEMMA HoldsOn ==
  ASSUME NothingLeftBehind, NEW c \in Coordinators, Stays(c),
         claims' = claims, leases' = leases,
         HoldingClaim(c) => HoldingClaim(c)' /\ coord'[c].key = coord[c].key,
         HoldingLease(c) => HoldingLease(c)' /\ coord'[c].key = coord[c].key
  PROVE  NothingLeftBehind'
<1> USE DEF NothingLeftBehind, HoldingClaim, HoldingLease, Stays, Owner, History, Recording
<1>1. ASSUME NEW k \in Keys, claims'[k] # None
      PROVE  \E b \in Coordinators : HoldingClaim(b)' /\ coord'[b].key = k /\ Owner(b)' = claims'[k]
  BY <1>1
<1>2. ASSUME NEW h \in Histories, leases'[h] # None
      PROVE  \E b \in Coordinators : HoldingLease(b)' /\ leases'[h] = b /\ History(b)' = h
  BY <1>2
<1>3. QED
  BY <1>1, <1>2

LEMMA LeftSteps ==
  ASSUME IInv, NoOrphan, NothingLeftBehind, NEW c \in Coordinators,
         SessionGone(c) \/ CoordinatorStep(c) \/ RecorderStep(c) \/ Failure(c),
         ~CloseTimesOut(c)
  PROVE  NothingLeftBehind'
<1>1. /\ Stays(c)
      /\ coord[c] \in Coordinator
      /\ coord \in [Coordinators -> Coordinator]
  BY Frame, Typed DEF IInv, TypeOK
<1>2. Recording(c) => coord[c].pc \in {"recording", "draining", "closing"}
  BY DEF IInv, ShapeInv, NoOrphan
<1>3. coord[c].pc \in Busy => coord[c].key \in Keys /\ History(c) \in Histories /\ Owner(c) # None
  BY <1>1, NoneAssumption DEF IInv, ShapeInv, Stays, Used, History, Histories, Owner
<1> DEFINE ClaimPart == \A k \in Keys : claims'[k] # None =>
             \E b \in Coordinators : HoldingClaim(b)' /\ coord'[b].key = k /\ Owner(b)' = claims'[k]
           LeasePart == \A h \in Histories : leases'[h] # None =>
             \E b \in Coordinators : HoldingLease(b)' /\ leases'[h] = b /\ History(b)' = h
<1>4. ASSUME ClaimPart, LeasePart PROVE NothingLeftBehind'
  BY <1>4 DEF NothingLeftBehind, HoldingClaim, HoldingLease, Recording
<1>5. /\ \A k \in Keys : claims[k] # None =>
             \E b \in Coordinators : HoldingClaim(b) /\ coord[b].key = k /\ Owner(b) = claims[k]
      /\ \A h \in Histories : leases[h] # None =>
             \E b \in Coordinators : HoldingLease(b) /\ leases[h] = b /\ History(b) = h
  BY DEF NothingLeftBehind, HoldingClaim, HoldingLease
<1>6. \A b \in Coordinators \ {c} : /\ HoldingClaim(b)' <=> HoldingClaim(b)
                                    /\ HoldingLease(b)' <=> HoldingLease(b)
                                    /\ coord'[b].key = coord[b].key
                                    /\ Owner(b)' = Owner(b) /\ History(b)' = History(b)
  BY <1>1 DEF HoldingClaim, HoldingLease, Stays, Owner, History, Recording
<1>7. Owner(c)' = Owner(c)
  BY <1>1 DEF Stays, Owner
<1>8. CASE SessionGone(c)
  BY <1>8, <1>1, <1>2, HoldsOn DEF SessionGone, Goto, RecorderEnds, HoldingClaim, HoldingLease, Recording,
    HoldsClaim, HoldsLease, Coordinator
<1>9. CASE CatalogFails(c)
  BY <1>9, <1>1, <1>2, HoldsOn DEF CatalogFails, Goto, RecorderEnds, HoldingClaim, HoldingLease, Recording,
    HoldsClaim, HoldsLease, Coordinator
<1>10. CASE Refuse(c)
  BY <1>10, <1>1, <1>2, HoldsOn DEF Refuse, Goto, RecorderEnds, HoldingClaim, HoldingLease, Recording,
    HoldsClaim, HoldsLease, Coordinator
<1>11. CASE StartRecorder(c)
  BY <1>11, <1>1, <1>2, HoldsOn DEF StartRecorder, Goto, RecorderEnds, HoldingClaim, HoldingLease, Recording,
    HoldsClaim, HoldsLease, Coordinator
<1>12. CASE RecorderStops(c)
  BY <1>12, <1>1, <1>2, HoldsOn DEF RecorderStops, Goto, RecorderEnds, HoldingClaim, HoldingLease, Recording,
    HoldsClaim, HoldsLease, Coordinator
<1>13. CASE DocumentChanged(c)
  BY <1>13, <1>1, <1>2, HoldsOn DEF DocumentChanged, Goto, RecorderEnds, HoldingClaim, HoldingLease, Recording,
    HoldsClaim, HoldsLease, Coordinator
<1>14. CASE RecorderFails(c)
  BY <1>14, <1>1, <1>2, HoldsOn DEF RecorderFails, Goto, RecorderEnds, HoldingClaim, HoldingLease, Recording,
    HoldsClaim, HoldsLease, Coordinator
<1>15. CASE StopRecorder(c)
  BY <1>15, <1>1, <1>2, HoldsOn DEF StopRecorder, Goto, RecorderEnds, HoldingClaim, HoldingLease, Recording,
    HoldsClaim, HoldsLease, Coordinator
<1>16. CASE DrainTimesOut(c)
  BY <1>16, <1>1, <1>2, HoldsOn DEF DrainTimesOut, Goto, RecorderEnds, HoldingClaim, HoldingLease, Recording,
    HoldsClaim, HoldsLease, Coordinator
<1>17. CASE Close(c)
  BY <1>17, <1>1, <1>2, HoldsOn DEF Close, Goto, RecorderEnds, HoldingClaim, HoldingLease, Recording,
    HoldsClaim, HoldsLease, Coordinator
<1>18. CASE RecorderEnded(c)
  BY <1>18, <1>1, <1>2, HoldsOn DEF RecorderEnded, Goto, RecorderEnds, HoldingClaim, HoldingLease, Recording,
    HoldsClaim, HoldsLease, Coordinator
<1>19. CASE Probe(c)
  BY <1>19, <1>1, <1>2, HoldsOn DEF Probe, HoldingClaim, HoldingLease, Recording, HoldsClaim,
    HoldsLease, Coordinator
<1>20. CASE Claim(c)
  <2>1. /\ leases' = leases
        /\ ~HoldingClaim(c) /\ ~HoldingLease(c)
        /\ coord[c].key \in Keys
    BY <1>20, <1>2, <1>3 DEF Claim, HoldingClaim, HoldingLease, HoldsClaim, HoldsLease, Busy
  <2>2. LeasePart
    BY <2>1, <1>5, <1>6
  <2>3. CASE Claimable(c)
    <3>1. /\ claims' = [claims EXCEPT ![coord[c].key] = Owner(c)]
          /\ HoldingClaim(c)' /\ coord'[c].key = coord[c].key
      BY <1>20, <1>1, <2>3 DEF Claim, Goto, Coordinator, HoldingClaim, HoldsClaim
    <3>2. ClaimPart
      BY <2>1, <3>1, <1>5, <1>6, <1>7 DEF IInv, TypeOK
    <3>3. QED
      BY <2>2, <3>2, <1>4
  <2>4. CASE ~Claimable(c)
    <3>1. claims' = claims
      BY <1>20, <2>4 DEF Claim
    <3>2. ClaimPart
      BY <2>1, <3>1, <1>5, <1>6
    <3>3. QED
      BY <2>2, <3>2, <1>4
  <2>5. QED
    BY <2>3, <2>4
<1>21. CASE AcquireWriter(c)
  <2>1. /\ claims' = claims
        /\ ~HoldingLease(c) /\ HoldingClaim(c)'
        /\ coord'[c].key = coord[c].key
        /\ History(c) \in Histories /\ History(c)' = History(c)
    BY <1>21, <1>1, <1>2, <1>3 DEF AcquireWriter, LeaseFree, Goto, Coordinator, HoldingClaim, HoldingLease,
      HoldsClaim, HoldsLease, Busy, History
  <2>2. ClaimPart
    BY <2>1, <1>5, <1>6, <1>7
  <2>3. CASE leases[History(c)] = None
    <3>1. leases' = [leases EXCEPT ![History(c)] = c] /\ HoldingLease(c)'
      BY <1>21, <1>1, <2>3 DEF AcquireWriter, LeaseFree, Goto, Coordinator, HoldingLease, HoldsLease
    <3>2. LeasePart
      BY <2>1, <3>1, <1>5, <1>6 DEF IInv, TypeOK
    <3>3. QED
      BY <2>2, <3>2, <1>4
  <2>4. CASE leases[History(c)] # None
    <3>1. leases' = leases
      BY <1>21, <2>4 DEF AcquireWriter, LeaseFree
    <3>2. LeasePart
      BY <2>1, <3>1, <1>5, <1>6
    <3>3. QED
      BY <2>2, <3>2, <1>4
  <2>5. QED
    BY <2>3, <2>4
<1>22. CASE ReleaseWriter(c)
  <2>1. /\ claims' = claims /\ leases' = [leases EXCEPT ![History(c)] = None]
        /\ HoldingClaim(c)' /\ coord'[c].key = coord[c].key
    BY <1>22, <1>1 DEF ReleaseWriter, Goto, Coordinator, HoldingClaim, HoldsClaim
  <2>2. ClaimPart
    BY <2>1, <1>5, <1>6, <1>7
  <2>3. LeasePart
    BY <2>1, <1>5, <1>6 DEF IInv, TypeOK
  <2>4. QED
    BY <2>2, <2>3, <1>4
<1>23. CASE ReleaseClaim(c)
  <2>1. /\ leases' = leases /\ ~HoldingLease(c)
        /\ coord[c].key \in Keys
        /\ claims' = IF claims[coord[c].key] = Owner(c)
                     THEN [claims EXCEPT ![coord[c].key] = None] ELSE claims
    BY <1>23, <1>2, <1>3 DEF ReleaseClaim, HoldingLease, HoldsLease, HoldsClaim, Busy
  <2>2. LeasePart
    BY <2>1, <1>5, <1>6
  <2>3. ASSUME NEW k \in Keys, claims'[k] # None
        PROVE  \E b \in Coordinators : HoldingClaim(b)' /\ coord'[b].key = k /\ Owner(b)' = claims'[k]
    <3>1. claims'[k] = claims[k] /\ ~(k = coord[c].key /\ claims[k] = Owner(c))
      BY <2>1, <2>3 DEF IInv, TypeOK
    <3>2. PICK b \in Coordinators : HoldingClaim(b) /\ coord[b].key = k /\ Owner(b) = claims[k]
      BY <2>3, <3>1, <1>5
    <3>3. b # c
      BY <3>1, <3>2
    <3>4. QED
      BY <3>1, <3>2, <3>3, <1>6
  <2>4. QED
    BY <2>2, <2>3, <1>4
<1>24. QED
  BY <1>8, <1>9, <1>10, <1>11, <1>12, <1>13, <1>14, <1>15, <1>16, <1>17, <1>18, <1>19, <1>20, <1>21, <1>22, <1>23 DEF CoordinatorStep, RecorderStep, Failure

\* Until a drain reaches its time limit, every claim and every lease has a
\* coordinator that will release it, whatever else fails and however often
\* windows come and go.
THEOREM GivenBack == Spec => []NothingLeftUntilHang
<1> DEFINE J == NoOrphan /\ NothingLeftBehind
<1>1. Init => J
  BY DEF Init, NoOrphan, NothingLeftBehind, Recording, Unused
<1>2. IInv /\ J /\ [Next]_vars /\ hangs' = 0 => J'
  <2> SUFFICES ASSUME IInv, J, [Next]_vars, hangs' = 0 PROVE J'
    OBVIOUS
  <2>1. NoOrphan'
    BY OrphanSteps
  <2>2. CASE Environment \/ UNCHANGED vars
    <3>1. claims' = claims /\ leases' = leases /\ coord' = coord
      BY <2>2 DEF Environment, Open, Leave, Return, Switch, Toggle, vars
    <3>2. QED
      BY <2>1, <3>1 DEF NothingLeftBehind, Recording, Owner, History
  <2>3. ASSUME NEW p \in Projects, NEW w \in Windows, Join(p, w) PROVE J'
    <3>1. PICK c \in Coordinators :
            /\ coord[c].pc = "unused"
            /\ coord' = [coord EXCEPT ![c] =
                   [Unused EXCEPT !.project = p, !.window = w, !.pc = "idle", !.listed = TRUE]]
      BY <2>3 DEF Join
    <3>2. /\ ~(coord[c].pc \in HoldsClaim \/ Recording(c))
          /\ ~(coord[c].pc \in HoldsLease \/ Recording(c))
          /\ \A b \in Coordinators \ {c} : coord'[b] = coord[b]
          /\ claims' = claims /\ leases' = leases
      BY <2>3, <3>1 DEF Join, IInv, TypeOK, ShapeInv, HoldsClaim, HoldsLease
    <3>3. QED
      BY <2>1, <3>2 DEF NothingLeftBehind, Recording, Owner, History
  <2>4. ASSUME NEW c \in Coordinators,
               SessionGone(c) \/ CoordinatorStep(c) \/ RecorderStep(c) \/ Failure(c)
        PROVE  J'
    <3>1. ~CloseTimesOut(c)
      BY BoundsAssumption DEF CloseTimesOut, IInv, TypeOK
    <3>2. QED
      BY <2>1, <2>4, <3>1, LeftSteps
  <2>5. QED
    BY <2>2, <2>3, <2>4 DEF Next, Supervise
<1> DEFINE K == hangs = 0 => J
<1>3. Init => K
  BY <1>1
<1>4. IInv /\ K /\ [Next]_vars => K'
  BY <1>2, Monotone
<1>5. K => NothingLeftUntilHang
  BY DEF NothingLeftUntilHang
<1> HIDE DEF J, K
<1>6. QED
  BY <1>3, <1>4, <1>5, Inductive, PTL DEF Spec
=============================================================================
