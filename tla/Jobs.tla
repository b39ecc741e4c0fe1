-------------------------------- MODULE Jobs --------------------------------
(***************************************************************************)
(* Background jobs of the service.                                         *)
(*                                                                         *)
(* A request becomes a row of the catalog and an entry of the queue of its *)
(* lane; a few worker threads per lane run the entries.  Rows and request  *)
(* keys survive a restart; queues, counters and outcomes that could not be *)
(* written yet do not.  A job acts on the world (an editor opens a file, a *)
(* working file is replaced) between two writes of its row.                *)
(*                                                                         *)
(* Not here: what the handlers do beyond acting once and ending in one of  *)
(* the ways the runner tells apart, results, progress, and requests that   *)
(* bring no key, each of which is as good as one with a key of its own.    *)
(***************************************************************************)
EXTENDS Integers, Sequences, FiniteSets

CONSTANTS
    MaxKeys,     \* bound: request keys; a client repeats a request under its key
    Requests,    \* what can be asked for: kind, target and payload
    External,    \* the requests that act on an editor: EXTERNAL_KINDS
    Restores,    \* those that restore the working file as well
    Lanes, LaneOf,        \* LaneOf[r]: the lane of request r
    Workers, WorkerLane,  \* WorkerLane[w]: the lane of worker w
    QueueLimit,
    MaxJobs,     \* bound: rows
    MaxRuns,     \* bound: runs of the service; the last is not ended
    MaxFaults    \* bound: writes of the catalog that raise

ASSUME JobsAssumption ==
    /\ Restores \subseteq External /\ External \subseteq Requests
    /\ IsFiniteSet(Workers)
    /\ LaneOf \in [Requests -> Lanes] /\ WorkerLane \in [Workers -> Lanes]
    /\ {MaxKeys, QueueLimit, MaxJobs, MaxRuns, MaxFaults} \subseteq Nat

Ids == 1..MaxJobs
Keys == 1..MaxKeys
Sentinel == 0      \* the None that stop() puts for every worker
Ends == {"succeeded", "failed", "interrupted", "unknown"}
Outcomes == {"succeeded", "failed", "unknown"}
Row == [key: Keys, request: Requests, status: {"queued", "running"} \cup Ends, run: 1..MaxRuns]
Worker == [pc: {"gone", "get", "begin", "act", "acted", "finish", "count"},
           job: Ids \cup {Sentinel}, outcome: Outcomes]

VARIABLES
    rows,      \* the table jobs: a function from the identities used so far
    run,       \* the instance of the service
    service,   \* "down", "up" or "stopping"
    queue,     \* [Lanes -> Seq(identities and sentinels)]
    worker,    \* [Workers -> Worker]
    pending,   \* JobRunner.pending
    deferred,  \* outcomes kept in memory: a function from identities
    acts,      \* how often each job acted on the world
    faults
vars == <<rows, run, service, queue, worker, pending, deferred, acts, faults>>

Gone == [pc |-> "gone", job |-> Sentinel, outcome |-> "failed"]
Nothing == [j \in {} |-> "failed"]
Made == DOMAIN rows

TypeOK ==
    /\ Made \subseteq Ids /\ rows \in [Made -> Row]
    /\ run \in 0..MaxRuns
    /\ service \in {"down", "up", "stopping"}
    /\ queue \in [Lanes -> Seq(Ids \cup {Sentinel})]
    /\ worker \in [Workers -> Worker]
    /\ pending \in Int
    /\ DOMAIN deferred \subseteq Made /\ deferred \in [DOMAIN deferred -> Outcomes]
    /\ acts \in [Made -> Nat]
    /\ faults \in 0..MaxFaults

Init ==
    /\ rows = Nothing /\ deferred = Nothing /\ acts = Nothing
    /\ run = 0 /\ service = "down" /\ pending = 0 /\ faults = 0
    /\ queue = [l \in Lanes |-> <<>>]
    /\ worker = [w \in Workers |-> Gone]

Fault == faults < MaxFaults /\ faults' = faults + 1

\* rows in which the status of the jobs in J is replaced
WithStatus(J, Status(_)) ==
    [j \in Made |-> IF j \in J THEN [rows[j] EXCEPT !.status = Status(j)] ELSE rows[j]]

\* update_job: one transaction, whatever the row was before.
Updated(j, status) == [rows EXCEPT ![j].status = status]

Goto(w, pc) == worker' = [worker EXCEPT ![w].pc = pc]

----------------------------------------------------------------------------
(* The service starts, stops and fails. *)

Orphans == {j \in Made : rows[j].status \in {"queued", "running"} /\ rows[j].run # run + 1}

\* Faulty: the row of an external job is not treated differently.
SettledAlike(j) == "interrupted"

Settled(j) ==
    IF rows[j].request \in External /\ rows[j].status = "running" THEN "unknown" ELSE "interrupted"

Start ==
    /\ service = "down" /\ run < MaxRuns
    /\ service' = "up" /\ run' = run + 1
    /\ rows' = WithStatus(Orphans, Settled)
    /\ worker' = [w \in Workers |-> [Gone EXCEPT !.pc = "get"]]
    /\ pending' = 0
    /\ UNCHANGED <<queue, deferred, acts, faults>>

\* Nothing in memory survives, whether the process exits or dies.
Down ==
    /\ service' = "down"
    /\ queue' = [l \in Lanes |-> <<>>]
    /\ worker' = [w \in Workers |-> Gone]
    /\ pending' = 0 /\ deferred' = Nothing
    /\ UNCHANGED <<rows, run, acts, faults>>

Crash == service # "down" /\ run < MaxRuns /\ Down

\* The web server no longer answers: no request arrives from here on.
Stop ==
    /\ service = "up" /\ run < MaxRuns
    /\ service' = "stopping"
    /\ queue' = [l \in Lanes |->
           queue[l] \o [i \in 1..Cardinality({w \in Workers : WorkerLane[w] = l}) |-> Sentinel]]
    /\ UNCHANGED <<rows, run, worker, pending, deferred, acts, faults>>

\* After the joins, which a long job lets expire: threads may still run.  A
\* write that raises here ends the process, as Crash does.
Drain(l) ==
    /\ service = "stopping" /\ queue[l] # <<>>
    /\ queue' = [queue EXCEPT ![l] = Tail(queue[l])]
    /\ rows' = Updated(Head(queue[l]), "interrupted")
    /\ UNCHANGED <<run, service, worker, pending, deferred, acts, faults>>

Exit == service = "stopping" /\ (\A l \in Lanes : queue[l] = <<>>) /\ Down

----------------------------------------------------------------------------
(* Requests. *)

\* Faulty: keys are remembered by the process.
UsedInThisRun(k) == {j \in Made : rows[j].key = k /\ rows[j].run = run}

Used(k) == {j \in Made : rows[j].key = k}

Full == pending >= QueueLimit

\* Clients draw keys at random: which one is drawn does not matter, so fresh
\* ones come in order.
Drawn == {k \in Keys : k = 1 \/ \E j \in Made : rows[j].key = k - 1}

\* A full queue refuses; a key that was used answers with its job, or with a
\* conflict when the request differs.  Neither changes anything.
Submit(k, r) ==
    LET j == Cardinality(Made) + 1 IN
    /\ service = "up" /\ ~Full /\ Used(k) = {} /\ j \in Ids
    /\ rows' = [i \in Made \cup {j} |-> IF i = j
                  THEN [key |-> k, request |-> r, status |-> "queued", run |-> run] ELSE rows[i]]
    /\ acts' = [i \in Made \cup {j} |-> IF i = j THEN 0 ELSE acts[i]]
    /\ pending' = pending + 1
    /\ queue' = [queue EXCEPT ![LaneOf[r]] = Append(@, j)]
    /\ UNCHANGED <<run, service, worker, deferred, faults>>

----------------------------------------------------------------------------
(* A worker. *)

\* Faulty: an outcome is written once or not at all.
FlushedNever == UNCHANGED <<rows, deferred, faults>>

\* Outcomes that could not be written are tried again.
Flushed ==
    \E stored \in SUBSET DOMAIN deferred :
      /\ IF stored = DOMAIN deferred THEN UNCHANGED faults ELSE Fault
      /\ rows' = WithStatus(stored, LAMBDA j: deferred[j])
      /\ deferred' = [j \in DOMAIN deferred \ stored |-> deferred[j]]

\* Nothing came within a second: round the loop, which ends with the runner.
Flush(w) ==
    /\ worker[w].pc = "get" /\ queue[WorkerLane[w]] = <<>>
    /\ IF service = "up" THEN Flushed /\ UNCHANGED worker
                         ELSE Goto(w, "gone") /\ UNCHANGED <<rows, deferred, faults>>
    /\ UNCHANGED <<run, service, queue, pending, acts>>

Take(w) ==
    LET l == WorkerLane[w] IN
    /\ worker[w].pc = "get" /\ queue[l] # <<>>
    /\ worker' = [worker EXCEPT ![w].job = Head(queue[l]),
                                ![w].pc = IF Head(queue[l]) = Sentinel THEN "gone" ELSE "begin"]
    /\ queue' = [queue EXCEPT ![l] = Tail(queue[l])]
    /\ UNCHANGED <<rows, run, service, pending, deferred, acts, faults>>

\* update_job may raise before or after its transaction; the handler is not
\* called then.  Only queued jobs are in a queue.
Begin(w) ==
    LET j == worker[w].job
        running == Updated(j, "running")
    IN  /\ worker[w].pc = "begin" /\ rows[j].status = "queued"
        /\ \/ rows' = running /\ Goto(w, "act") /\ UNCHANGED faults
           \/ /\ Fault /\ rows' \in {rows, running}
              /\ worker' = [worker EXCEPT ![w].pc = "finish", ![w].outcome = "failed"]
        /\ UNCHANGED <<run, service, queue, pending, deferred, acts>>

HandlerActs(w) ==
    /\ worker[w].pc = "act" /\ Goto(w, "acted")
    /\ acts' = [acts EXCEPT ![worker[w].job] = @ + 1]
    /\ UNCHANGED <<rows, run, service, queue, pending, deferred, faults>>

\* What an exception of a handler that has acted, or not, becomes.  An editor
\* that does not confirm is "unknown"; the handler that restores lets errors
\* of the editor through after it has replaced the working file.
Reports(r, acted) ==
    (IF acted THEN {"succeeded"} ELSE {"failed"})
      \cup (IF r \in External THEN {"unknown"} ELSE {})
      \cup (IF acted /\ r \notin External \ Restores THEN {"failed"} ELSE {})

HandlerEnds(w) ==
    LET r == rows[worker[w].job].request IN
    /\ worker[w].pc \in {"act", "acted"}
    /\ \E outcome \in Reports(r, worker[w].pc = "acted") :
         worker' = [worker EXCEPT ![w].pc = "finish", ![w].outcome = outcome]
    /\ UNCHANGED <<rows, run, service, queue, pending, deferred, acts, faults>>

\* _finish: the outcome is written, or kept for later.
Finish(w) ==
    LET j == worker[w].job
        ended == Updated(j, worker[w].outcome)
    IN  /\ worker[w].pc = "finish" /\ Goto(w, "count")
        /\ \/ rows' = ended /\ UNCHANGED <<deferred, faults>>
           \/ /\ Fault /\ rows' \in {rows, ended}
              /\ deferred' = [i \in DOMAIN deferred \cup {j} |->
                                IF i = j THEN worker[w].outcome ELSE deferred[i]]
        /\ UNCHANGED <<run, service, queue, pending, acts>>

\* The job is counted, and the worker goes round its loop.
Count(w) ==
    /\ worker[w].pc = "count"
    /\ pending' = pending - 1
    /\ worker' = [worker EXCEPT ![w].pc = IF service = "up" THEN "get" ELSE "gone",
                                ![w].job = Sentinel]
    /\ IF service = "up" THEN Flushed ELSE UNCHANGED <<rows, deferred, faults>>
    /\ UNCHANGED <<run, service, queue, acts>>

WorkerStep(w) ==
    \/ Flush(w) \/ Take(w) \/ Begin(w)
    \/ HandlerActs(w) \/ HandlerEnds(w) \/ Finish(w) \/ Count(w)

Next ==
    \/ Start \/ Stop \/ Exit \/ Crash
    \/ \E l \in Lanes : Drain(l)
    \/ \E k \in Drawn, r \in Requests : Submit(k, r)
    \/ \E w \in Workers : WorkerStep(w)

Spec == Init /\ [][Next]_vars

\* Threads go on, handlers end (every call of theirs has a time limit), and
\* a service that is down is started again.
FairSpec ==
    /\ Spec
    /\ WF_vars(Start) /\ WF_vars(Exit)
    /\ \A l \in Lanes : WF_vars(Drain(l))
    /\ \A w \in Workers : WF_vars(WorkerStep(w))

----------------------------------------------------------------------------
(* Properties. *)

\* A request key acts at most once, over retries of the client, restarts of
\* the service and failures of the catalog (create_job, settle_orphan_jobs).
ActsOncePerKey ==
    \A i, j \in Made : rows[i].key = rows[j].key =>
        acts[i] <= 1 /\ (i # j => acts[i] + acts[j] <= 1)

\* What a row says about the world is true: success means it happened, and a
\* job on an editor that counts as not run, interrupted or (unless it is a
\* restore) failed did not touch the editor, whatever crashed in between.
StatusTruthful ==
    \A j \in Made :
      /\ rows[j].status = "succeeded" => acts[j] = 1
      /\ rows[j].status = "queued" => acts[j] = 0
      /\ rows[j].status = "interrupted" /\ rows[j].request \in External => acts[j] = 0
      /\ rows[j].status = "failed" /\ rows[j].request \in External \ Restores => acts[j] = 0

\* Every job ends, in this run of the service or when the next one starts, and
\* stays so: when no more requests come, all have ended for good.
JobsEnd == <>[](\A j \in Made : rows[j].status \in Ends)
=============================================================================
