----------------------------- MODULE Relocation -----------------------------
(***************************************************************************)
(* Moving the histories of a project to another folder while the service   *)
(* runs: hold the recorders, lock, copy, verify, switch the catalog, and   *)
(* only then remove the old folders.                                       *)
(*                                                                         *)
(* A history is a folder of files and databases, some of whose last        *)
(* commits may still be in a write-ahead log, which is not copied.  Its    *)
(* readers and writers find the folder in the catalog; a writer looks it   *)
(* up, opens it and takes the lease of the folder in three steps.  Windows *)
(* that appear while a move runs have recorders it does not hold.          *)
(*                                                                         *)
(* Not here: where a move may go (checks of paths), imported histories,    *)
(* which are left where they are, the bytes of the files, of which the     *)
(* number of versions stands for all, and how recorders are held           *)
(* (WindowRequests).                                                       *)
(***************************************************************************)
EXTENDS Naturals, Sequences, FiniteSets

CONSTANTS
    Docs, Folders,
    Start,        \* the folder the project begins with
    Writers,      \* recorders, and others that write a history
    Late,         \* writers that a move does not hold
    MaxWrites,    \* bound: versions and labels of a history
    MaxMoves,     \* bound: moves asked for
    MaxFaults     \* bound: steps that fail, crashes

ASSUME RelocationAssumption ==
    /\ Docs # {} /\ Start \in Folders /\ Late \subseteq Writers
    /\ "free" \notin Writers /\ "mover" \notin Writers
    /\ {MaxWrites, MaxMoves, MaxFaults} \subseteq Nat

\* What a folder has of a history: "shell" is a folder without its database.
Kinds == {"none", "shell", "partial", "whole"}
Store == [kind: Kinds, main: Nat, log: Nat]
NoStore == [kind |-> "none", main |-> 0, log |-> 0]
Free == "free"
Mover == "mover"

VARIABLES
    root,      \* projects.history_root
    path,      \* documents.store_path: a function from the documents there are
    store,     \* [Folders -> [Docs -> Store]]
    lease,     \* [Folders -> [Docs -> who holds writer.lock]]
    topology,  \* Catalog.history_topology_lock is held by the mover
    labels,    \* Application._presentation_lock is held by the mover
    writer,    \* [Writers -> [pc, doc, at]]
    held,      \* writers that the mover holds still
    asked,     \* the moves asked for and not begun
    move,      \* the move that runs
    moves, faults,   \* how much of each bound is used
    written,   \* [Docs -> Nat]: versions and labels that were acknowledged
    astray,    \* [Docs -> Nat]: those written where the catalog no longer points
    untidy,    \* a crash or a cleanup that failed may have left copies
    former, returned   \* folders the project left; it was to return to one

catalogVars == <<root, path>>
diskVars == <<store, lease>>
lockVars == <<topology, labels, held>>
ghosts == <<written, astray, former, returned>>
vars == <<catalogVars, diskVars, lockVars, writer, asked, move, moves, faults, ghosts, untidy>>

NoMove == [pc |-> "idle", from |-> Start, to |-> Start, live |-> {}, locked |-> {},
           copied |-> {}, mapping |-> {}, removed |-> {}]
Idle == [pc |-> "idle", doc |-> CHOOSE d \in Docs : TRUE, at |-> Start]
Known == DOMAIN path
Moves == {fromTo \in Folders \X Folders : fromTo[1] # fromTo[2]}
Move == [pc: {"idle", "hold", "lock", "copy", "remove", "rollback"}, from: Folders, to: Folders,
         live: SUBSET Docs, locked: SUBSET Docs, copied: SUBSET Docs, mapping: SUBSET Docs,
         removed: SUBSET Docs]

TypeOK ==
    /\ root \in Folders
    /\ Known \subseteq Docs /\ path \in [Known -> Folders]
    /\ store \in [Folders -> [Docs -> Store]]
    /\ lease \in [Folders -> [Docs -> Writers \cup {Free, Mover}]]
    /\ topology \in BOOLEAN /\ labels \in BOOLEAN /\ held \subseteq Writers
    /\ writer \in [Writers -> [pc: {"idle", "found", "open", "writing"}, doc: Docs, at: Folders]]
    /\ asked \in Seq(Moves) /\ move \in Move
    /\ moves \in Nat /\ faults \in Nat
    /\ written \in [Docs -> Nat] /\ astray \in [Docs -> Nat]
    /\ untidy \in BOOLEAN /\ returned \in BOOLEAN /\ former \subseteq Folders

Init ==
    /\ root = Start
    /\ \E known \in {{}, {CHOOSE d \in Docs : TRUE}} : path = [d \in known |-> Start]
    /\ store = [f \in Folders |-> [d \in Docs |->
                  IF f = Start /\ d \in Known THEN [NoStore EXCEPT !.kind = "whole"]
                  ELSE NoStore]]
    /\ lease = [f \in Folders |-> [d \in Docs |-> Free]]
    /\ topology = FALSE /\ labels = FALSE /\ held = {}
    /\ writer = [w \in Writers |-> Idle]
    /\ asked = <<>> /\ move = NoMove /\ moves = 0 /\ faults = 0
    /\ written = [d \in Docs |-> 0] /\ astray = [d \in Docs |-> 0]
    /\ untidy = FALSE /\ former = {} /\ returned = FALSE

Fault == faults < MaxFaults /\ faults' = faults + 1

---------------------------------------------------------------------------
(* Writers.  A recorder looks its document up in the catalog, or adds it.  *)

WriterOnly == UNCHANGED <<lockVars, asked, move, moves, faults, untidy>>

\* add_live_document: a new history under the root, in one step of the topology.
AddDocument(d) ==
    /\ d \notin Known /\ ~topology
    /\ \E w \in Writers : w \notin held /\ writer[w].pc = "idle"
    /\ path' = [e \in Known \cup {d} |-> IF e = d THEN root ELSE path[e]]
    /\ store' = [store EXCEPT ![root][d] = [NoStore EXCEPT !.kind = "whole"]]
    /\ WriterOnly /\ UNCHANGED <<root, lease, writer, ghosts>>

LookUp(w, d) ==
    /\ writer[w].pc = "idle" /\ w \notin held /\ d \in Known
    /\ writer' = [writer EXCEPT ![w] = [pc |-> "found", doc |-> d, at |-> path[d]]]
    /\ WriterOnly /\ UNCHANGED <<catalogVars, diskVars, ghosts>>

\* Repository(): there is a database.
OpenStore(w) ==
    LET s == store[writer[w].at][writer[w].doc] IN
    /\ writer[w].pc = "found"
    /\ \/ s.kind \in {"whole", "partial"} /\ writer' = [writer EXCEPT ![w].pc = "open"]
       \/ s.kind # "whole" /\ writer' = [writer EXCEPT ![w] = Idle]
    /\ WriterOnly /\ UNCHANGED <<catalogVars, diskVars, ghosts>>

\* acquire_writer: the lock file and its folder are made when they are not
\* there; _check_writer_target refuses a folder whose database is gone.
Acquire(w) ==
    LET f == writer[w].at
        d == writer[w].doc
    IN
    /\ writer[w].pc = "open"
    /\ \/ /\ lease[f][d] = Free /\ store[f][d].kind = "whole"
          /\ lease' = [lease EXCEPT ![f][d] = w]
          /\ writer' = [writer EXCEPT ![w].pc = "writing"]
          /\ UNCHANGED store
       \/ /\ lease[f][d] = Free /\ store[f][d].kind # "whole"
          /\ store' = IF store[f][d].kind # "none" THEN store
                      ELSE [store EXCEPT ![f][d].kind = "shell"]
          /\ writer' = [writer EXCEPT ![w] = Idle] /\ UNCHANGED lease
       \/ lease[f][d] # Free /\ writer' = [writer EXCEPT ![w] = Idle] /\ UNCHANGED diskVars
    /\ WriterOnly /\ UNCHANGED <<catalogVars, ghosts>>

\* A commit goes to the log of the database.
Commit(w) ==
    LET f == writer[w].at
        d == writer[w].doc
    IN
    /\ writer[w].pc = "writing" /\ written[d] + astray[d] < MaxWrites
    /\ store' = [store EXCEPT ![f][d].log = @ + 1]
    /\ IF f = path[d] THEN written' = [written EXCEPT ![d] = @ + 1] /\ UNCHANGED astray
                      ELSE astray' = [astray EXCEPT ![d] = @ + 1] /\ UNCHANGED written
    /\ WriterOnly /\ UNCHANGED <<catalogVars, lease, writer, former, returned>>

\* The last connection that closes folds the log, unless a reader is there.
Folded(s) == [s EXCEPT !.main = s.main + s.log, !.log = 0]
CloseStore(w) ==
    LET f == writer[w].at
        d == writer[w].doc
    IN
    /\ writer[w].pc = "writing"
    /\ store' \in {store, [store EXCEPT ![f][d] = Folded(@)]}
    /\ lease' = [lease EXCEPT ![f][d] = Free]
    /\ writer' = [writer EXCEPT ![w] = Idle]
    /\ WriterOnly /\ UNCHANGED <<catalogVars, ghosts>>

\* rename_checkpoint: found and written under the lock of the labels, without
\* a lease and without a log that outlives the connection.
Rename(d) ==
    /\ ~labels /\ d \in Known /\ written[d] + astray[d] < MaxWrites
    /\ store' = [store EXCEPT ![path[d]][d].main = @ + 1]
    /\ written' = [written EXCEPT ![d] = @ + 1]
    /\ WriterOnly /\ UNCHANGED <<catalogVars, lease, writer, astray, former, returned>>

WriterStep ==
    \/ \E d \in Docs : AddDocument(d) \/ Rename(d)
    \/ \E w \in Writers : \/ \E d \in Docs : LookUp(w, d)
                          \/ OpenStore(w) \/ Acquire(w) \/ Commit(w) \/ CloseStore(w)

---------------------------------------------------------------------------
(* The move, a job of the lane that runs one at a time.                    *)

Goes(pc) == move' = [move EXCEPT !.pc = pc]
Unmoved == UNCHANGED <<writer, asked, moves, written, astray, returned>>
MoverOnly == Unmoved /\ UNCHANGED former
InMove == UNCHANGED <<catalogVars, lockVars, untidy>> /\ MoverOnly
\* What raises after the recorders were asked to hold goes to the rollback.
Raises == Fault /\ Goes("rollback")

RequestMove(to) ==
    /\ moves < MaxMoves /\ moves' = moves + 1
    /\ to # root
    /\ asked' = Append(asked, <<root, to>>)
    /\ UNCHANGED <<catalogVars, diskVars, lockVars, writer, move, faults, ghosts, untidy>>

\* A move that was asked for before another one changed the root is stale.
Begin ==
    /\ move.pc = "idle" /\ asked # <<>>
    /\ asked' = Tail(asked)
    /\ IF Head(asked)[1] = root
       THEN /\ move' = [NoMove EXCEPT !.pc = "hold", !.from = root, !.to = Head(asked)[2]]
            /\ labels' = TRUE
            /\ returned' = (returned \/ Head(asked)[2] \in former)
       ELSE UNCHANGED <<move, labels, returned>>
    /\ UNCHANGED <<catalogVars, diskVars, topology, held, writer, moves, faults,
                   written, astray, former, untidy>>

\* navigation_hold, window after window; a tail that is not saved ends the move.
Hold(w) ==
    /\ move.pc = "hold" /\ w \notin Late \cup held
    /\ \/ writer[w].pc = "idle" /\ held' = held \cup {w} /\ UNCHANGED <<move, faults>>
       \/ Raises /\ UNCHANGED held
    /\ UNCHANGED <<catalogVars, diskVars, topology, labels, untidy>> /\ MoverOnly

\* From here no history joins the project or leaves it.
Survey ==
    /\ move.pc = "hold" /\ Writers \ Late \subseteq held
    /\ \/ /\ topology' = TRUE /\ UNCHANGED faults
          /\ move' = [move EXCEPT !.pc = "lock",
                                  !.live = {d \in Known : path[d] = move.from}]
       \/ Raises /\ topology' = TRUE
    /\ UNCHANGED <<catalogVars, diskVars, labels, held, untidy>> /\ MoverOnly

\* Every history is leased before the first is copied.
Lock(d) ==
    /\ move.pc = "lock" /\ d \in move.live \ move.locked
    /\ IF lease[move.from][d] = Free
       THEN /\ lease' = [lease EXCEPT ![move.from][d] = Mover]
            /\ move' = [move EXCEPT !.locked = @ \cup {d},
                           !.pc = IF move.live = move.locked \cup {d} THEN "copy" ELSE @]
       ELSE Goes("rollback") /\ UNCHANGED lease
    /\ InMove /\ UNCHANGED <<store, faults>>

\* A folder of that name at the destination is nobody's to overwrite.  The log
\* is folded first (_settle_wal), or the move refused.
CopyBegins(d) ==
    /\ move.pc = "copy" /\ d \in move.live \ move.copied
    /\ move.copied = move.mapping
    /\ IF store[move.to][d].kind # "none"
       THEN Goes("rollback") /\ UNCHANGED <<store, faults>>
       ELSE \/ /\ store' = [store EXCEPT ![move.from][d] = Folded(@),
                                      ![move.to][d].kind = "partial"]
               /\ move' = [move EXCEPT !.copied = @ \cup {d}]
               /\ UNCHANGED faults
            \/ Raises /\ UNCHANGED store
    /\ InMove /\ UNCHANGED lease

\* copytree, without logs and locks.
CopyEnds(d) ==
    /\ move.pc = "copy" /\ d \in move.copied \ move.mapping
    /\ store[move.to][d].kind = "partial"
    /\ \/ /\ store' = [store EXCEPT ![move.to][d] =
                         [kind |-> "whole", main |-> store[move.from][d].main, log |-> 0]]
          /\ UNCHANGED <<move, faults>>
       \/ Raises /\ UNCHANGED store
    /\ InMove /\ UNCHANGED lease

\* The hashes of both, of all but logs and locks.
Verify(d) ==
    /\ move.pc = "copy" /\ d \in move.copied \ move.mapping
    /\ store[move.to][d].kind = "whole"
    /\ \/ /\ store[move.to][d].main = store[move.from][d].main
          /\ move' = [move EXCEPT !.mapping = @ \cup {d}] /\ UNCHANGED faults
       \/ Raises
    /\ InMove /\ UNCHANGED diskVars

\* set_history_root is one transaction; its answer may fail though it committed.
Switch ==
    /\ move.pc = "copy" /\ move.mapping = move.live
    /\ \/ /\ root' = move.to /\ former' = former \cup {move.from}
          /\ path' = [d \in Known |-> IF d \in move.mapping THEN move.to ELSE path[d]]
          /\ \/ Goes("remove") /\ UNCHANGED faults
             \/ Raises
       \/ Raises /\ UNCHANGED <<catalogVars, former>>
    /\ UNCHANGED <<diskVars, lockVars, untidy>> /\ Unmoved

\* An empty project has nothing to lock; only the root changes.
NothingToLock ==
    /\ move.pc = "lock" /\ move.live = {}
    /\ Goes("copy")
    /\ InMove /\ UNCHANGED <<diskVars, faults>>

\* All but the lock file goes; what cannot be removed is left for the user.
Remove(d) ==
    /\ move.pc = "remove" /\ d \in move.live \ move.removed
    /\ \/ /\ store' = [store EXCEPT ![move.from][d] = [NoStore EXCEPT !.kind = "shell"]]
          /\ move' = [move EXCEPT !.removed = @ \cup {d}] /\ UNCHANGED <<faults, untidy>>
       \/ /\ store' \in {store, [store EXCEPT ![move.from][d].kind = "partial"]}
          /\ Raises /\ untidy' = TRUE
    /\ UNCHANGED <<catalogVars, lease, lockVars>> /\ MoverOnly

\* The empty folders go with their locks, if nobody has locked them again.
Unlocked(l) == [f \in Folders |-> [d \in Docs |-> IF l[f][d] = Mover THEN Free ELSE l[f][d]]]
Tidy(removed) ==
    [store EXCEPT ![move.from] = [d \in Docs |-> IF d \in removed THEN NoStore ELSE @[d]]]
Released ==
    /\ lease' = Unlocked(lease)
    /\ topology' = FALSE /\ labels' = FALSE /\ held' = {}
    /\ move' = NoMove

Finish ==
    /\ move.pc = "remove" /\ move.removed = move.live
    /\ store' = Tidy(move.removed)
    /\ Released
    /\ UNCHANGED <<catalogVars, faults, untidy>> /\ MoverOnly

\* Faulty: what the job remembers decides, and it saw no answer.
SwitchedRemembered == FALSE
\* The catalog is read again: it may have switched though the answer failed.
Switched == root = move.to

\* Faulty: only verified copies are known to the rollback.
CopiesVerified == move.mapping
Copies == move.copied

\* Copies go when nothing was switched; a copy that cannot be removed stays.
Rollback ==
    /\ move.pc = "rollback"
    /\ IF Switched THEN untidy' = TRUE /\ UNCHANGED <<store, faults>>
       ELSE \/ /\ store' = [store EXCEPT ![move.to] =
                               [d \in Docs |-> IF d \in Copies THEN NoStore ELSE @[d]]]
               /\ UNCHANGED <<faults, untidy>>
            \/ /\ Copies # {} /\ Fault /\ untidy' = TRUE /\ UNCHANGED store
    /\ Released
    /\ UNCHANGED catalogVars /\ MoverOnly

\* The service dies: locks are freed, jobs that wait are settled as interrupted.
Crash ==
    /\ Fault
    /\ lease' = [f \in Folders |-> [d \in Docs |-> Free]]
    /\ topology' = FALSE /\ labels' = FALSE /\ held' = {}
    /\ writer' = [w \in Writers |-> Idle]
    /\ asked' = <<>> /\ move' = NoMove
    /\ untidy' = (untidy \/ move.pc \notin {"idle", "hold", "lock"})
    /\ UNCHANGED <<catalogVars, store, moves, ghosts>>

MoveStep ==
    \/ Begin \/ Survey \/ NothingToLock \/ Switch \/ Finish \/ Rollback
    \/ \E w \in Writers : Hold(w)
    \/ \E d \in Docs : Lock(d) \/ CopyBegins(d) \/ CopyEnds(d) \/ Verify(d) \/ Remove(d)

Next == WriterStep \/ (\E f \in Folders : RequestMove(f)) \/ MoveStep \/ Crash
Spec == Init /\ [][Next]_vars

---------------------------------------------------------------------------
(* Properties.                                                             *)

\* The folder the catalog names has every version and label of a history that
\* was acknowledged, at every moment of a move, whatever fails and wherever the
\* service dies.  A handle opened before a move writes elsewhere only where
\* _check_writer_target finds a database again: the removal failed, or the
\* project returns to a folder it left.
HistoryWhole ==
    \A d \in Known :
        LET s == store[path[d]][d] IN
        /\ s.kind = "whole" /\ s.main + s.log >= written[d]
        /\ astray[d] = 0 => s.main + s.log = written[d]
NothingLost ==
    /\ HistoryWhole
    /\ (\E d \in Docs : astray[d] > 0) => untidy \/ returned

\* A move that failed or succeeded leaves one copy of each history, so that
\* what the user is told to do next, to retry, is not refused by its remains.
OneCopy ==
    move.pc = "idle" /\ ~untidy =>
        \A f \in Folders, d \in Known :
            store[f][d].kind \in {"partial", "whole"} => f = path[d]
=============================================================================
