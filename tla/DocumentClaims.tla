--------------------------- MODULE DocumentClaims ---------------------------
(***************************************************************************)
(* Who records which document.                                             *)
(*                                                                         *)
(* The supervisor keeps one coordinator, a thread, for every project and   *)
(* every editor window that the registry reports online.  A coordinator    *)
(* looks at the current document of its window and, when the project may   *)
(* record it, claims the document, takes the writer lease of its history   *)
(* and starts a recorder, a thread of its own.  A claim is by document and *)
(* is kept in memory; a lease is by history, and a history belongs to one  *)
(* project and one document.  When the recorder ends, whatever the reason, *)
(* the coordinator gives the lease and then the claim back.                *)
(*                                                                         *)
(* Not here: what the recorder saves (CapturePipeline), requests of users  *)
(* beyond their effect that a window may not record for a while, the rows  *)
(* of the capture runs, and the restart of the service, which starts with  *)
(* no coordinator, no claim and no lease, as Init does.                    *)
(***************************************************************************)
EXTENDS Naturals, FiniteSets

CONSTANTS
    Projects,         \* the registered projects
    Windows,          \* instances of the editor; a restarted editor is another one
    Saved,            \* documents with a file; several windows may show the same
    Untitled,         \* stands for the document without a file of a window
    Eligible,         \* the pairs <<project, document>> that may be recorded
    None,             \* no owner, no document
    MaxCoordinators,  \* bound: coordinators made
    MaxReturns,       \* bound: windows that go offline and come back
    MaxHangs,         \* bound: drains that reach their time limit
    MaxFaults,        \* bound: failures of the catalog, the disk or a recorder
    MaxSwitches,      \* bound: changes of a window's current document
    MaxToggles,       \* bound: pauses, holds and policy changes
    MaxTogether       \* bound: all of these but toggles in one behaviour

Coordinators == 1..MaxCoordinators
Documents == Saved \cup {Untitled}
Keys == Windows \cup Saved
Histories == Projects \X Keys

ASSUME EligibleAssumption == Eligible \subseteq Projects \X Documents
ASSUME BoundsAssumption ==
    {MaxCoordinators, MaxReturns, MaxHangs, MaxFaults, MaxSwitches, MaxToggles, MaxTogether} \subseteq Nat
ASSUME NoneAssumption ==
    /\ None \notin Projects \X Windows
    /\ None \notin Coordinators
    /\ None \notin Keys

VARIABLES
    session,   \* [Windows -> {"new", "online", "offline"}]: what the registry reports
    shows,     \* [Windows -> Documents]: the current document of every window
    paused,    \* pairs <<project, window>> that may not record now
    coord,     \* [Coordinators -> Coordinator]
    claims,    \* [Keys -> owner or None]: ClaimRegistry
    leases,    \* [Histories -> coordinator or None]: the writer leases
    returns, hangs, faults, switches, toggles   \* how much of each bound is used

budgets == <<returns, hangs, faults, switches, toggles>>
vars == <<session, shows, paused, coord, claims, leases, budgets>>

\* Where the thread of a coordinator is.
PCs == {"unused", "idle", "probed", "claimed", "leased", "recording", "draining",
        "closing", "releasing", "unclaiming", "dead"}

Coordinator ==
    [project: Projects \cup {None}, window: Windows \cup {None}, pc: PCs,
     key: Keys \cup {None},                    \* the document it is busy with
     recorder: {"none", "alive", "ended"},     \* its recorder thread
     told: BOOLEAN,                            \* run_stop is set
     listed: BOOLEAN,                          \* in the supervisor's table
     stopping: BOOLEAN]                        \* stop() was called

Unused == [project |-> None, window |-> None, pc |-> "unused", key |-> None,
           recorder |-> "none", told |-> FALSE, listed |-> FALSE, stopping |-> FALSE]

\* A saved document is the same in every window, an untitled one in none other.
Identity(w, d) == IF d = Untitled THEN w ELSE d

\* The owner string names project, backend and editor instance: a coordinator
\* made later for the same pair has the same one.
Owner(c) == <<coord[c].project, coord[c].window>>
History(c) == <<coord[c].project, coord[c].key>>

TypeOK ==
    /\ session \in [Windows -> {"new", "online", "offline"}]
    /\ shows \in [Windows -> Documents]
    /\ paused \subseteq Projects \X Windows
    /\ coord \in [Coordinators -> Coordinator]
    /\ claims \in [Keys -> (Projects \X Windows) \cup {None}]
    /\ leases \in [Histories -> Coordinators \cup {None}]
    /\ returns \in 0..MaxReturns
    /\ hangs \in 0..MaxHangs
    /\ faults \in 0..MaxFaults
    /\ switches \in 0..MaxSwitches
    /\ toggles \in 0..MaxToggles

Init ==
    /\ session = [w \in Windows |-> "new"]
    /\ shows \in [Windows -> Documents]
    /\ paused = {}
    /\ coord = [c \in Coordinators |-> Unused]
    /\ claims = [k \in Keys |-> None]
    /\ leases = [h \in Histories |-> None]
    /\ returns = 0 /\ hangs = 0 /\ faults = 0 /\ switches = 0 /\ toggles = 0

Goto(c, pc) == coord' = [coord EXCEPT ![c].pc = pc]

Spare == returns + hangs + faults + switches < MaxTogether

Fault == Spare /\ faults < MaxFaults /\ faults' = faults + 1

----------------------------------------------------------------------------
(* The editors and their users. *)

Open(w) ==
    /\ session[w] = "new"
    /\ session' = [session EXCEPT ![w] = "online"]
    /\ UNCHANGED <<shows, paused, coord, claims, leases, budgets>>

\* The window is closed, or its record in the registry has gone stale.
Leave(w) ==
    /\ session[w] = "online"
    /\ session' = [session EXCEPT ![w] = "offline"]
    /\ UNCHANGED <<shows, paused, coord, claims, leases, budgets>>

\* A stale record is fresh again: the same instance is back.
Return(w) ==
    /\ session[w] = "offline"
    /\ Spare /\ returns < MaxReturns
    /\ returns' = returns + 1
    /\ session' = [session EXCEPT ![w] = "online"]
    /\ UNCHANGED <<shows, paused, coord, claims, leases, hangs, faults, switches, toggles>>

Switch(w, d) ==
    /\ d # shows[w]
    /\ Spare /\ switches < MaxSwitches
    /\ switches' = switches + 1
    /\ shows' = [shows EXCEPT ![w] = d]
    /\ UNCHANGED <<session, paused, coord, claims, leases, returns, hangs, faults, toggles>>

\* A pause, a navigation hold or a policy begins or ends: for some windows the
\* conditions of the first two branches of _step change.
Toggle(p, w) ==
    /\ toggles < MaxToggles
    /\ toggles' = toggles + 1
    /\ paused' = IF <<p, w>> \in paused THEN paused \ {<<p, w>>} ELSE paused \cup {<<p, w>>}
    /\ UNCHANGED <<session, shows, coord, claims, leases, returns, hangs, faults, switches>>

----------------------------------------------------------------------------
(* The supervisor: rescan.  It waits 30 seconds for a coordinator that it  *)
(* stops, less than a drain may take, and other threads may rescan too.    *)

Join(p, w) ==
    /\ session[w] = "online"
    /\ \A c \in Coordinators : coord[c].listed => Owner(c) # <<p, w>>
    /\ \E c \in Coordinators :
          /\ coord[c].pc = "unused"
          /\ \A b \in Coordinators : coord[b].pc = "unused" => c <= b
          /\ coord' = [coord EXCEPT ![c] =
                 [Unused EXCEPT !.project = p, !.window = w, !.pc = "idle", !.listed = TRUE]]
    /\ UNCHANGED <<session, shows, paused, claims, leases, budgets>>

SessionGone(c) ==
    /\ coord[c].listed
    /\ session[coord[c].window] # "online"
    /\ coord' = [coord EXCEPT ![c].listed = FALSE, ![c].stopping = TRUE]
    /\ UNCHANGED <<session, shows, paused, claims, leases, budgets>>

----------------------------------------------------------------------------
(* A coordinator's thread: _loop, _step, _start_recorder. *)

\* _step finds no recorder and looks at the window.  The check of stopping is
\* at the top of the loop: a step that has begun is finished.
Probe(c) ==
    LET d == shows[coord[c].window] IN
    /\ coord[c].pc = "idle"
    /\ ~coord[c].stopping
    /\ Owner(c) \notin paused
    /\ <<coord[c].project, d>> \in Eligible
    /\ coord' = [coord EXCEPT ![c].pc = "probed", ![c].key = Identity(coord[c].window, d)]
    /\ UNCHANGED <<session, shows, paused, claims, leases, budgets>>

\* Faulty: the owners of one window are taken for one.
ClaimableInWindow(c) ==
    LET owner == claims[coord[c].key] IN owner = None \/ owner[2] = coord[c].window

\* ClaimRegistry.claim: the owner itself may claim again.
Claimable(c) == claims[coord[c].key] \in {None, Owner(c)}

Claim(c) ==
    /\ coord[c].pc = "probed"
    /\ IF Claimable(c)
       THEN /\ claims' = [claims EXCEPT ![coord[c].key] = Owner(c)]
            /\ Goto(c, "claimed")
       ELSE /\ coord' = [coord EXCEPT ![c].pc = "idle", ![c].key = None]
            /\ UNCHANGED claims
    /\ UNCHANGED <<session, shows, paused, leases, budgets>>

\* Faulty: the failure returns without giving the claim back.
CatalogFailsClaimed(c) ==
    /\ coord[c].pc = "claimed"
    /\ Fault
    /\ coord' = [coord EXCEPT ![c].pc = "idle", ![c].key = None]
    /\ UNCHANGED <<session, shows, paused, claims, leases, returns, hangs, switches, toggles>>

\* The catalog does not find or cannot add the document.
CatalogFails(c) ==
    /\ coord[c].pc = "claimed"
    /\ Fault
    /\ Goto(c, "unclaiming")
    /\ UNCHANGED <<session, shows, paused, claims, leases, returns, hangs, switches, toggles>>

\* Faulty: whoever has claimed the document is taken for its writer.
LeaseFreeToOwner(c) == leases[History(c)] = None \/ claims[coord[c].key] = Owner(c)

LeaseFree(c) == leases[History(c)] = None

\* Repository.acquire_writer; it raises when another handle holds the lease.
AcquireWriter(c) ==
    /\ coord[c].pc = "claimed"
    /\ IF LeaseFree(c)
       THEN /\ leases' = [leases EXCEPT ![History(c)] = c]
            /\ Goto(c, "leased")
       ELSE /\ Goto(c, "unclaiming")
            /\ UNCHANGED leases
    /\ UNCHANGED <<session, shows, paused, claims, budgets>>

\* Faulty: an early return that gives nothing back.
RefuseHolding(c) ==
    /\ coord[c].pc = "leased"
    /\ Fault
    /\ coord' = [coord EXCEPT ![c].pc = "idle", ![c].key = None]
    /\ UNCHANGED <<session, shows, paused, claims, leases, returns, hangs, switches, toggles>>

\* Little free disk, a blocked copy at the head of the queue, a failing
\* pre-flight or a failing start_run: nothing is started.
Refuse(c) ==
    /\ coord[c].pc = "leased"
    /\ Fault
    /\ Goto(c, "releasing")
    /\ UNCHANGED <<session, shows, paused, claims, leases, returns, hangs, switches, toggles>>

StartRecorder(c) ==
    /\ coord[c].pc = "leased"
    /\ coord' = [coord EXCEPT ![c].pc = "recording", ![c].recorder = "alive", ![c].told = FALSE]
    /\ UNCHANGED <<session, shows, paused, claims, leases, budgets>>

----------------------------------------------------------------------------
(* The recorder's thread. *)

RecorderEnds(c) == coord' = [coord EXCEPT ![c].recorder = "ended"]

\* It saves the tail and ends, or fails while it does.
RecorderStops(c) ==
    /\ coord[c].recorder = "alive"
    /\ coord[c].told
    /\ RecorderEnds(c)
    /\ UNCHANGED <<session, shows, paused, claims, leases, budgets>>

\* check_document: the window shows another document now.
DocumentChanged(c) ==
    /\ coord[c].recorder = "alive"
    /\ Identity(coord[c].window, shows[coord[c].window]) # coord[c].key
    /\ RecorderEnds(c)
    /\ UNCHANGED <<session, shows, paused, claims, leases, budgets>>

RecorderFails(c) ==
    /\ coord[c].recorder = "alive"
    /\ Fault
    /\ RecorderEnds(c)
    /\ UNCHANGED <<session, shows, paused, claims, leases, returns, hangs, switches, toggles>>

----------------------------------------------------------------------------
(* Its end: _stop_recorder, _recorder_ended and the end of _loop. *)

\* A pause, a hold or the policy: set run_stop and wait.
StopRecorder(c) ==
    /\ coord[c].pc = "recording"
    /\ Owner(c) \in paused
    /\ ~coord[c].stopping
    /\ coord' = [coord EXCEPT ![c].pc = "draining", ![c].told = TRUE]
    /\ UNCHANGED <<session, shows, paused, claims, leases, budgets>>

\* The export hangs: the coordinator reports it and leaves the recorder alone.
DrainTimesOut(c) ==
    /\ coord[c].pc = "draining"
    /\ coord[c].recorder = "alive"
    /\ Spare /\ hangs < MaxHangs
    /\ hangs' = hangs + 1
    /\ Goto(c, "recording")
    /\ UNCHANGED <<session, shows, paused, claims, leases, returns, faults, switches, toggles>>

\* The loop ends: drain what is being recorded.
Close(c) ==
    /\ coord[c].stopping
    /\ \/ coord[c].pc = "idle" /\ Goto(c, "dead")
       \/ /\ coord[c].pc = "recording"
          /\ coord' = [coord EXCEPT ![c].pc = "closing", ![c].told = TRUE]
    /\ UNCHANGED <<session, shows, paused, claims, leases, budgets>>

\* The last drain reaches its limit: the thread ends and the recorder does not.
CloseTimesOut(c) ==
    /\ coord[c].pc = "closing"
    /\ coord[c].recorder = "alive"
    /\ Spare /\ hangs < MaxHangs
    /\ hangs' = hangs + 1
    /\ Goto(c, "dead")
    /\ UNCHANGED <<session, shows, paused, claims, leases, returns, faults, switches, toggles>>

RecorderEnded(c) ==
    /\ coord[c].pc \in {"recording", "draining", "closing"}
    /\ coord[c].recorder = "ended"
    /\ coord' = [coord EXCEPT ![c].pc = "releasing", ![c].recorder = "none", ![c].told = FALSE]
    /\ UNCHANGED <<session, shows, paused, claims, leases, budgets>>

ReleaseWriter(c) ==
    /\ coord[c].pc = "releasing"
    /\ leases' = [leases EXCEPT ![History(c)] = None]
    /\ Goto(c, "unclaiming")
    /\ UNCHANGED <<session, shows, paused, claims, budgets>>

\* ClaimRegistry.release: only the owner's claim is removed.
ReleaseClaim(c) ==
    /\ coord[c].pc = "unclaiming"
    /\ claims' = IF claims[coord[c].key] = Owner(c)
                 THEN [claims EXCEPT ![coord[c].key] = None] ELSE claims
    /\ coord' = [coord EXCEPT ![c].pc = "idle", ![c].key = None]
    /\ UNCHANGED <<session, shows, paused, leases, budgets>>

----------------------------------------------------------------------------
CoordinatorStep(c) ==
    \/ Probe(c) \/ Claim(c) \/ AcquireWriter(c) \/ StartRecorder(c)
    \/ StopRecorder(c) \/ Close(c) \/ RecorderEnded(c) \/ ReleaseWriter(c) \/ ReleaseClaim(c)

RecorderStep(c) == RecorderStops(c) \/ DocumentChanged(c)

Failure(c) ==
    \/ CatalogFails(c) \/ Refuse(c) \/ RecorderFails(c) \/ DrainTimesOut(c) \/ CloseTimesOut(c)

Supervise == \E p \in Projects, w \in Windows : Join(p, w)

Environment ==
    \/ \E w \in Windows : Open(w) \/ Leave(w) \/ Return(w) \/ \E d \in Documents : Switch(w, d)
    \/ \E p \in Projects, w \in Windows : Toggle(p, w)

Next ==
    \/ Environment
    \/ Supervise
    \/ \E c \in Coordinators :
          SessionGone(c) \/ CoordinatorStep(c) \/ RecorderStep(c) \/ Failure(c)

Spec == Init /\ [][Next]_vars

\* The threads run on and the supervisor polls; nothing makes a user act or a
\* fault happen.
Fairness ==
    /\ \A p \in Projects, w \in Windows : WF_vars(Join(p, w))
    /\ \A c \in Coordinators :
          /\ WF_vars(SessionGone(c))
          /\ WF_vars(CoordinatorStep(c))
          /\ WF_vars(RecorderStep(c))

LiveSpec == Spec /\ Fairness

----------------------------------------------------------------------------
Recording(c) == coord[c].recorder = "alive"

\* A history has one writer at most: whatever happens to the claims, two
\* recorders never write the history of one document in one project
\* (coordinator.py:437 acquires the lease before the recorder starts,
\* coordinator.py:673 releases it after it has ended).
OneWriterPerHistory ==
    \A b, c \in Coordinators :
        Recording(b) /\ Recording(c) /\ History(b) = History(c) => b = c

\* "One document has ONE recorder at a time across all projects and all
\* windows" (coordinator.py:403).
OneRecorder ==
    \A b, c \in Coordinators :
        Recording(b) /\ Recording(c) /\ coord[b].key = coord[c].key => b = c

\* So it is until a window comes back: a coordinator made for it then has the
\* owner of one that may still drain, and either may release the other's claim
\* (coordinator.py:41-52).
OneRecorderUntilReturn == returns = 0 => OneRecorder

\* Histories and documents are not shared, for as long as each can be kept.
OneEach == OneWriterPerHistory /\ OneRecorderUntilReturn

\* What a coordinator that will give its claim and its lease back is doing.
HoldsClaim == {"claimed", "leased", "recording", "draining", "closing", "releasing", "unclaiming"}
HoldsLease == {"leased", "recording", "draining", "closing", "releasing"}

\* Nothing is left behind: every claim and every lease belongs to a
\* coordinator that will still release it, or to a recorder that still runs.
\* "A claim left behind makes this document unrecordable by any window for the
\* life of the process, and a leaked lease keeps its history read-only"
\* (coordinator.py:422-423).
NothingLeftBehind ==
    /\ \A k \in Keys : claims[k] # None =>
          \E c \in Coordinators :
              /\ coord[c].key = k
              /\ Owner(c) = claims[k]
              /\ coord[c].pc \in HoldsClaim \/ Recording(c)
    /\ \A h \in Histories : leases[h] # None =>
          \E c \in Coordinators :
              /\ leases[h] = c
              /\ History(c) = h
              /\ coord[c].pc \in HoldsLease \/ Recording(c)

\* So it is until a drain reaches its limit: whatever fails, and wherever a
\* start is abandoned, both are given back (_start_recorder, _recorder_ended).
NothingLeftUntilHang == hangs = 0 => NothingLeftBehind

\* Some window shows the document to a project that may record it now.
Wanted(k) ==
    \E p \in Projects, w \in Windows :
        /\ session[w] = "online"
        /\ Identity(w, shows[w]) = k
        /\ <<p, shows[w]>> \in Eligible
        /\ <<p, w>> \notin paused

\* "The other takes over when that one lets go" (coordinator.py:405): unless a
\* drain reaches its limit, a document that some window goes on showing to a
\* project that may record it is recorded in the end and for good.
TakesOver ==
    \A k \in Keys :
        <>[](Wanted(k) /\ hangs = 0) => <>[](\E c \in Coordinators : Recording(c) /\ coord[c].key = k)
=============================================================================
