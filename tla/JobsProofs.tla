----------------------------- MODULE JobsProofs -----------------------------
(***************************************************************************)
(* What TLAPS proves of Jobs for every set of requests, lanes and workers  *)
(* and for every value of the bounds: a request key acts at most once, and *)
(* what the rows of the catalog say is true of the world.  And of the      *)
(* files that jobs make, in ResultCache: clients are sent what they were   *)
(* promised.                                                               *)
(*                                                                         *)
(* A job is in at most one place: once in one queue, with one worker that  *)
(* has not ended it, or among the outcomes that are still to be written.   *)
(* Only the worker that has it writes its row or acts, and what the row    *)
(* may say next depends on whether it has acted.                           *)
(***************************************************************************)
EXTENDS Jobs, ResultCache, FiniteSetTheorems, TLAPS

\* The worker has a job that it has not ended.
Busy(w) == worker[w].pc \in {"begin", "act", "acted", "finish"}

\* The place i of the queue of lane l holds job j.
At(l, i, j) == i \in DOMAIN queue[l] /\ queue[l][i] = j

\* What may be said of job j.
Honest(j, outcome) ==
    /\ outcome = "succeeded" => acts[j] = 1
    /\ outcome = "failed" /\ rows[j].request \in External \ Restores => acts[j] = 0

KeyInv ==
    /\ \E n \in Nat : Made = 1..n
    /\ \A i, j \in Made : rows[i].key = rows[j].key => i = j

RowTrue(j) ==
    /\ acts[j] \in {0, 1}
    /\ Honest(j, rows[j].status)
    /\ rows[j].status = "queued" => acts[j] = 0
    /\ rows[j].status = "interrupted" /\ rows[j].request \in External => acts[j] = 0

RowInv == \A j \in Made : RowTrue(j)

QueueInv ==
    \A l \in Lanes, i \in Nat, j \in Ids : At(l, i, j) =>
        /\ j \in Made \ DOMAIN deferred
        /\ rows[j].status = "queued"
        /\ \A m \in Lanes, k \in Nat : At(m, k, j) => m = l /\ k = i
        /\ \A w \in Workers : Busy(w) => worker[w].job # j

\* How far a worker is with its job.
Reached(w, j) ==
    /\ worker[w].pc \in {"begin", "act"} => acts[j] = 0
    /\ worker[w].pc \in {"act", "acted"} => rows[j].status = "running"
    /\ worker[w].pc = "acted" => acts[j] = 1
    /\ worker[w].pc = "finish" => Honest(j, worker[w].outcome)

WorkerInv ==
    \A w \in Workers : Busy(w) =>
        /\ worker[w].job \in Made \ DOMAIN deferred
        /\ \A v \in Workers : v # w /\ Busy(v) => worker[v].job # worker[w].job
        /\ Reached(w, worker[w].job)

DeferInv == \A j \in DOMAIN deferred : Honest(j, deferred[j])

DownInv ==
    IF service = "down"
    THEN /\ \A l \in Lanes : queue[l] = <<>>
         /\ \A w \in Workers : worker[w] = Gone
         /\ deferred = Nothing
    ELSE run > 0

IInv == TypeOK /\ KeyInv /\ RowInv /\ QueueInv /\ WorkerInv /\ DeferInv /\ DownInv

----------------------------------------------------------------------------
(* Facts of single parts of the state. *)

LEMMA RowTyped ==
  ASSUME TypeOK, NEW j \in Made
  PROVE  /\ j \in Ids /\ rows[j] \in Row
         /\ rows[j].key \in Keys /\ rows[j].request \in Requests
         /\ rows[j].status \in {"queued", "running"} \cup Ends
         /\ rows[j].run \in 1..MaxRuns
BY DEF TypeOK, Row

LEMMA WorkerTyped ==
  ASSUME TypeOK, NEW w \in Workers
  PROVE  /\ worker[w] \in Worker
         /\ worker[w].pc \in {"gone", "get", "begin", "act", "acted", "finish", "count"}
         /\ worker[w].job \in Ids \cup {Sentinel}
         /\ worker[w].outcome \in Outcomes
BY DEF TypeOK, Worker

\* No job has the identity of the sentinel.
LEMMA NoSentinel == Sentinel \notin Ids
BY JobsAssumption DEF JobsAssumption, Ids, Sentinel

\* What the rows look like after one was written.
LEMMA OneUpdated ==
  ASSUME TypeOK, NEW j, NEW status \in {"queued", "running"} \cup Ends,
         rows' = Updated(j, status)
  PROVE  /\ Made' = Made /\ rows' \in [Made -> Row]
         /\ \A i \in Made : /\ rows'[i].key = rows[i].key
                            /\ rows'[i].request = rows[i].request
                            /\ rows'[i].status = IF i = j THEN status ELSE rows[i].status
                            /\ rows'[i].run = rows[i].run
<1>1. rows \in [Made -> Row]
  BY DEF TypeOK
<1>2. \A i \in Made : [rows[i] EXCEPT !.status = status] \in Row
  BY <1>1 DEF Row
<1>3. rows' = [i \in Made |-> IF i = j THEN [rows[i] EXCEPT !.status = status] ELSE rows[i]]
  BY <1>1 DEF Updated, Made
<1>4. QED
  BY <1>1, <1>2, <1>3 DEF Made, Row

\* The same for the rows whose outcomes were kept in memory.
LEMMA FlushedRows ==
  ASSUME IInv, Flushed
  PROVE  /\ Made' = Made /\ rows' \in [Made -> Row]
         /\ \A i \in Made : /\ rows'[i].key = rows[i].key
                            /\ rows'[i].request = rows[i].request
                            /\ rows'[i].run = rows[i].run
                            /\ rows'[i].status # rows[i].status =>
                                 i \in DOMAIN deferred /\ rows'[i].status = deferred[i]
         /\ DOMAIN deferred' \subseteq DOMAIN deferred
         /\ deferred' \in [DOMAIN deferred' -> Outcomes]
         /\ \A i \in DOMAIN deferred' : deferred'[i] = deferred[i]
         /\ faults' \in 0..MaxFaults
<1>1. PICK stored \in SUBSET DOMAIN deferred :
        /\ IF stored = DOMAIN deferred THEN UNCHANGED faults ELSE Fault
        /\ rows' = WithStatus(stored, LAMBDA j: deferred[j])
        /\ deferred' = [j \in DOMAIN deferred \ stored |-> deferred[j]]
  BY DEF Flushed
<1>2. rows' = [j \in Made |-> IF j \in stored
                 THEN [rows[j] EXCEPT !.status = deferred[j]] ELSE rows[j]]
  BY <1>1 DEF WithStatus
<1>3. rows \in [Made -> Row] /\ deferred \in [DOMAIN deferred -> Outcomes]
  BY DEF IInv, TypeOK
<1>4. \A j \in Made : j \in stored => [rows[j] EXCEPT !.status = deferred[j]] \in Row
  BY <1>3 DEF Row, Outcomes, Ends
<1>5. Made' = Made /\ rows' \in [Made -> Row]
  BY <1>2, <1>3, <1>4 DEF Made
<1>6. \A i \in Made : /\ rows'[i].key = rows[i].key
                      /\ rows'[i].request = rows[i].request
                      /\ rows'[i].run = rows[i].run
                      /\ rows'[i].status # rows[i].status =>
                           i \in DOMAIN deferred /\ rows'[i].status = deferred[i]
  BY <1>2, <1>3 DEF Row
<1>7. /\ DOMAIN deferred' \subseteq DOMAIN deferred
      /\ deferred' \in [DOMAIN deferred' -> Outcomes]
      /\ \A i \in DOMAIN deferred' : deferred'[i] = deferred[i]
  BY <1>1, <1>3
<1>8. faults' \in 0..MaxFaults
  BY <1>1, JobsAssumption DEF JobsAssumption, Fault, IInv, TypeOK
<1>9. QED
  BY <1>5, <1>6, <1>7, <1>8

\* Keys and identities stay as they are when no row is added.
LEMMA KeysKept ==
  ASSUME KeyInv, Made' = Made, \A i \in Made : rows'[i].key = rows[i].key
  PROVE  KeyInv'
BY DEF KeyInv

----------------------------------------------------------------------------
(* The initial states and the steps. *)

LEMMA Initial == Init => IInv
<1> SUFFICES ASSUME Init PROVE IInv
  OBVIOUS
<1> USE DEF Init
<1>1. Made = {} /\ DOMAIN deferred = {}
  BY DEF Made, Nothing
<1>2. TypeOK
  <2>1. Gone \in Worker
    BY DEF Gone, Worker, Outcomes
  <2>2. rows \in [Made -> Row] /\ acts \in [Made -> Nat]
        /\ deferred \in [DOMAIN deferred -> Outcomes]
    BY <1>1 DEF Nothing, Made
  <2>3. queue \in [Lanes -> Seq(Ids \cup {Sentinel})]
    OBVIOUS
  <2>4. QED
    BY <1>1, <2>1, <2>2, <2>3, JobsAssumption DEF JobsAssumption, TypeOK
<1>3. KeyInv
  <2>1. Made = 1..0
    BY <1>1
  <2>2. QED
    BY <1>1, <2>1 DEF KeyInv
<1>4. RowInv /\ DeferInv
  BY <1>1 DEF RowInv, RowTrue, DeferInv
<1>5. QueueInv
  BY DEF QueueInv, At
<1>6. WorkerInv
  BY DEF WorkerInv, Reached, Busy, Gone
<1>7. DownInv
  BY DEF DownInv
<1>8. QED
  BY <1>2, <1>3, <1>4, <1>5, <1>6, <1>7 DEF IInv

LEMMA StartStep == ASSUME IInv, Start PROVE IInv'
<1> USE DEF IInv
<1>1. rows' = [j \in Made |-> IF j \in Orphans
                 THEN [rows[j] EXCEPT !.status = Settled(j)] ELSE rows[j]]
  BY DEF Start, WithStatus
<1>2. rows \in [Made -> Row]
  BY DEF TypeOK
<1>3. \A j \in Made : [rows[j] EXCEPT !.status = Settled(j)] \in Row
  BY <1>2 DEF Row, Ends, Settled
<1>4. Made' = Made /\ rows' \in [Made -> Row]
  BY <1>1, <1>2, <1>3 DEF Made
<1>5. \A i \in Made : /\ rows'[i].key = rows[i].key
                      /\ rows'[i].request = rows[i].request
                      /\ rows'[i].status =
                           IF i \in Orphans THEN Settled(i) ELSE rows[i].status
  BY <1>1, <1>2 DEF Row
<1>6. \A w \in Workers : worker'[w] = [Gone EXCEPT !.pc = "get"]
  BY DEF Start
<1>7. UNCHANGED <<queue, deferred, acts, faults>> /\ DOMAIN deferred = {}
      /\ \A l \in Lanes : queue[l] = <<>>
  BY DEF Start, DownInv, Nothing
<1>8. TypeOK'
  <2>1. [Gone EXCEPT !.pc = "get"] \in Worker
    BY DEF Gone, Worker, Outcomes
  <2>2. worker' \in [Workers -> Worker]
    BY <2>1 DEF Start
  <2>3. run' \in 0..MaxRuns
    BY JobsAssumption DEF JobsAssumption, Start, TypeOK
  <2>4. service' = "up" /\ pending' = 0
    BY DEF Start
  <2>5. acts' \in [Made' -> Nat] /\ DOMAIN deferred' \subseteq Made'
        /\ deferred' \in [DOMAIN deferred' -> Outcomes]
    BY <1>4, <1>7 DEF TypeOK
  <2>6. QED
    BY <1>4, <1>7, <2>2, <2>3, <2>4, <2>5 DEF TypeOK
<1>9. KeyInv'
  BY <1>4, <1>5, KeysKept
<1>10. RowInv'
  BY <1>4, <1>5, <1>7 DEF RowInv, RowTrue, Honest, Settled, Orphans
<1>11. QueueInv'
  BY <1>7 DEF QueueInv, At
<1>12. WorkerInv'
  BY <1>6 DEF WorkerInv, Reached, Busy, Gone
<1>13. DeferInv'
  BY <1>7 DEF DeferInv
<1>14. DownInv'
  BY DEF DownInv, Start, TypeOK
<1>15. QED
  BY <1>8, <1>9, <1>10, <1>11, <1>12, <1>13, <1>14

\* The process is gone, after an orderly stop or not.
LEMMA DownStep == ASSUME IInv, Down PROVE IInv'
<1> USE DEF IInv
<1>1. DOMAIN deferred' = {} /\ Made' = Made
  BY DEF Down, Nothing, Made
<1>2. TypeOK'
  <2>1. Gone \in Worker
    BY DEF Gone, Worker, Outcomes
  <2>2. queue' \in [Lanes -> Seq(Ids \cup {Sentinel})]
    BY DEF Down
  <2>3. worker' \in [Workers -> Worker]
    BY <2>1 DEF Down
  <2>4. deferred' \in [DOMAIN deferred' -> Outcomes]
    BY <1>1 DEF Down, Nothing
  <2>5. QED
    BY <1>1, <2>2, <2>3, <2>4 DEF TypeOK, Down
<1>3. KeyInv' /\ RowInv'
  BY <1>1 DEF KeyInv, RowInv, RowTrue, Honest, Down
<1>4. QueueInv'
  BY DEF QueueInv, At, Down
<1>5. WorkerInv'
  BY DEF WorkerInv, Reached, Busy, Down, Gone
<1>6. DeferInv' /\ DownInv'
  BY <1>1 DEF DeferInv, DownInv, Down
<1>7. QED
  BY <1>2, <1>3, <1>4, <1>5, <1>6

LEMMA StopStep == ASSUME IInv, Stop PROVE IInv'
<1> USE DEF IInv
<1> DEFINE n(l) == Cardinality({w \in Workers : WorkerLane[w] = l})
           none(l) == [i \in 1..n(l) |-> Sentinel]
<1>1. \A l \in Lanes : n(l) \in Nat
  <2> TAKE l \in Lanes
  <2>1. IsFiniteSet({w \in Workers : WorkerLane[w] = l})
    BY JobsAssumption, FS_Subset DEF JobsAssumption
  <2>2. QED
    BY <2>1, FS_CardinalityType
<1>2. \A l \in Lanes : none(l) \in Seq(Ids \cup {Sentinel}) /\ Len(none(l)) = n(l)
  BY <1>1
<1>3. \A l \in Lanes : queue[l] \in Seq(Ids \cup {Sentinel})
  BY DEF TypeOK
<1>4. \A l \in Lanes : queue'[l] = queue[l] \o none(l)
  BY DEF Stop
<1>5. queue' \in [Lanes -> Seq(Ids \cup {Sentinel})]
  <2>1. \A l \in Lanes : queue[l] \o none(l) \in Seq(Ids \cup {Sentinel})
    BY <1>2, <1>3
  <2>2. QED
    BY <2>1 DEF Stop
\* Only sentinels were added.
<1>6. \A l \in Lanes, i \in Nat, j \in Ids : At(l, i, j)' => At(l, i, j)
  <2> TAKE l \in Lanes, i \in Nat, j \in Ids
  <2> HIDE DEF n, none
  <2>1. i \in DOMAIN (queue[l] \o none(l)) /\ i \notin DOMAIN queue[l]
          => (queue[l] \o none(l))[i] = none(l)[i - Len(queue[l])]
             /\ i - Len(queue[l]) \in 1..n(l)
    BY <1>1, <1>2, <1>3
  <2>2. i \in DOMAIN queue[l] => (queue[l] \o none(l))[i] = queue[l][i]
    BY <1>2, <1>3
  <2>3. \A k \in 1..n(l) : none(l)[k] = Sentinel
    BY DEF none
  <2>4. QED
    BY <1>4, <2>1, <2>2, <2>3, NoSentinel DEF At
<1>7. TypeOK' /\ KeyInv' /\ RowInv' /\ WorkerInv' /\ DeferInv' /\ DownInv'
  BY <1>5 DEF Stop, TypeOK, KeyInv, RowInv, RowTrue, Honest, Made, WorkerInv, Reached, Busy, DeferInv, DownInv
<1>8. QueueInv'
  <2>1. UNCHANGED <<rows, worker, deferred>>
    BY DEF Stop
  <2>2. SUFFICES ASSUME NEW l \in Lanes, NEW i \in Nat, NEW j \in Ids, At(l, i, j)'
                 PROVE  /\ j \in Made \ DOMAIN deferred
                        /\ rows[j].status = "queued"
                        /\ \A m \in Lanes, k \in Nat : At(m, k, j) => m = l /\ k = i
                        /\ \A w \in Workers : Busy(w) => worker[w].job # j
    BY <1>6, <2>1 DEF QueueInv, Made, Busy
  <2>3. QED
    BY <1>6, <2>2 DEF QueueInv
<1>9. QED
  BY <1>7, <1>8

\* What is left of the queues after the first entry of one was taken.
LEMMA Popped ==
  ASSUME IInv, NEW l \in Lanes, queue[l] # <<>>,
         queue' = [queue EXCEPT ![l] = Tail(queue[l])]
  PROVE  /\ queue' \in [Lanes -> Seq(Ids \cup {Sentinel})]
         /\ Head(queue[l]) \in Ids \cup {Sentinel}
         /\ At(l, 1, Head(queue[l]))
         /\ \A m \in Lanes, k \in Nat, j \in Ids : At(m, k, j)' =>
              /\ j # Head(queue[l])
              /\ m = l => At(l, k + 1, j)
              /\ m # l => At(m, k, j)
<1> USE DEF IInv
<1>1. \A m \in Lanes : queue[m] \in Seq(Ids \cup {Sentinel})
  BY DEF TypeOK
<1>2. Head(queue[l]) \in Ids \cup {Sentinel} /\ At(l, 1, Head(queue[l]))
  BY <1>1 DEF At
<1>3. Tail(queue[l]) \in Seq(Ids \cup {Sentinel})
  BY <1>1
<1>4. queue' \in [Lanes -> Seq(Ids \cup {Sentinel})]
  BY <1>3 DEF TypeOK
<1>5. ASSUME NEW m \in Lanes, NEW k \in Nat, NEW j \in Ids, At(m, k, j)'
      PROVE  /\ m = l => k # 0 /\ At(l, k + 1, j)
             /\ m # l => At(m, k, j)
  <2>1. queue' = [queue EXCEPT ![l] = Tail(queue[l])] /\ queue \in [Lanes -> Seq(Ids \cup {Sentinel})]
    BY DEF TypeOK
  <2>2. CASE m = l
    <3>1. k \in DOMAIN Tail(queue[l]) /\ Tail(queue[l])[k] = j
      BY <1>5, <2>1, <2>2 DEF At
    <3>2. k # 0 /\ k + 1 \in DOMAIN queue[l] /\ queue[l][k + 1] = j
      BY <1>1, <3>1
    <3>3. QED
      BY <2>2, <3>2 DEF At
  <2>3. CASE m # l
    BY <1>5, <2>1, <2>3 DEF At
  <2>4. QED
    BY <2>2, <2>3
<1>6. ASSUME NEW m \in Lanes, NEW k \in Nat, NEW j \in Ids, At(m, k, j)', j = Head(queue[l])
      PROVE  FALSE
  <2>1. At(l, 1, j)
    BY <1>2, <1>6
  <2>2. CASE m = l
    <3>1. k + 1 \in Nat /\ k + 1 # 1 /\ At(l, k + 1, j)
      BY <1>5, <1>6, <2>2
    <3>2. QED
      BY <2>1, <3>1 DEF QueueInv
  <2>3. CASE m # l
    BY <1>5, <1>6, <2>1, <2>3 DEF QueueInv
  <2>4. QED
    BY <2>2, <2>3
<1>7. QED
  BY <1>2, <1>4, <1>5, <1>6

\* So a job that is still in a queue was in one, and in no other place.
LEMMA StillQueued ==
  ASSUME IInv, NEW l \in Lanes, queue[l] # <<>>,
         queue' = [queue EXCEPT ![l] = Tail(queue[l])],
         NEW m \in Lanes, NEW k \in Nat, NEW j \in Ids, At(m, k, j)'
  PROVE  /\ j # Head(queue[l])
         /\ j \in Made \ DOMAIN deferred
         /\ rows[j].status = "queued"
         /\ \A n \in Lanes, i \in Nat : At(n, i, j)' => n = m /\ i = k
         /\ \A w \in Workers : Busy(w) => worker[w].job # j
<1>1. \A n \in Lanes, i \in Nat : At(n, i, j)' =>
        /\ j # Head(queue[l])
        /\ n = l => i + 1 \in Nat /\ At(l, i + 1, j)
        /\ n # l => At(n, i, j)
  <2>1. \A n \in Lanes, i \in Nat, a \in Ids : At(n, i, a)' =>
          /\ a # Head(queue[l])
          /\ n = l => At(l, i + 1, a)
          /\ n # l => At(n, i, a)
    BY Popped
  <2>2. QED
    BY <2>1
<1>2. PICK i \in Nat : At(m, i, j)
  BY <1>1
<1>3. /\ j \in Made \ DOMAIN deferred
      /\ rows[j].status = "queued"
      /\ \A w \in Workers : Busy(w) => worker[w].job # j
  BY <1>2 DEF IInv, QueueInv
<1>4. \A n \in Lanes, h \in Nat : At(n, h, j) => n = m /\ h = i
  BY <1>2 DEF IInv, QueueInv
<1>5. ASSUME NEW n \in Lanes, NEW h \in Nat, At(n, h, j)' PROVE n = m /\ h = k
  BY <1>1, <1>4, <1>5
<1>6. QED
  BY <1>1, <1>3, <1>5

LEMMA DrainStep == ASSUME IInv, NEW l \in Lanes, Drain(l) PROVE IInv'
<1> USE DEF IInv
<1> DEFINE h == Head(queue[l])
<1>1. /\ queue[l] # <<>> /\ queue' = [queue EXCEPT ![l] = Tail(queue[l])]
      /\ rows' = Updated(h, "interrupted")
      /\ service = "stopping"
      /\ UNCHANGED <<run, service, worker, pending, deferred, acts, faults>>
  BY DEF Drain
<1>2. /\ h \in Ids \cup {Sentinel} /\ At(l, 1, h)
      /\ queue' \in [Lanes -> Seq(Ids \cup {Sentinel})]
  BY <1>1, Popped
<1>3. /\ Made' = Made /\ rows' \in [Made -> Row]
      /\ \A i \in Made : /\ rows'[i].key = rows[i].key
                         /\ rows'[i].request = rows[i].request
                         /\ rows'[i].status = IF i = h THEN "interrupted" ELSE rows[i].status
  BY <1>1, OneUpdated DEF Ends
<1>4. h \in Made => /\ h \in Ids /\ rows[h].status = "queued"
                    /\ \A w \in Workers : Busy(w) => worker[w].job # h
  <2>1. h \in Made => h \in Ids
    BY DEF TypeOK
  <2>2. QED
    BY <1>2, <2>1 DEF QueueInv
<1> HIDE DEF h
<1>5. TypeOK'
  BY <1>1, <1>2, <1>3 DEF TypeOK
<1>6. KeyInv'
  BY <1>3, KeysKept
<1>7. RowInv'
  BY <1>1, <1>3, <1>4 DEF RowInv, RowTrue, Honest
<1>8. QueueInv'
  <2>1. SUFFICES ASSUME NEW m \in Lanes, NEW k \in Nat, NEW j \in Ids, At(m, k, j)'
                 PROVE  /\ j \in Made \ DOMAIN deferred
                        /\ rows'[j].status = "queued"
                        /\ \A n \in Lanes, i \in Nat : At(n, i, j)' => n = m /\ i = k
                        /\ \A w \in Workers : Busy(w) => worker[w].job # j
    BY <1>1, <1>3 DEF QueueInv, Busy
  <2>2. QED
    BY <1>1, <1>3, <2>1, StillQueued DEF h
<1>9. WorkerInv'
  BY <1>1, <1>3, <1>4 DEF WorkerInv, Reached, Busy, Honest
<1>10. DeferInv'
  BY <1>1, <1>3 DEF DeferInv, Honest, TypeOK
<1>11. DownInv'
  BY <1>1 DEF DownInv
<1>12. QED
  BY <1>5, <1>6, <1>7, <1>8, <1>9, <1>10, <1>11

LEMMA SubmitStep ==
  ASSUME IInv, NEW k \in Keys, NEW r \in Requests, Submit(k, r)
  PROVE  IInv'
<1> USE DEF IInv
<1>1. PICK n \in Nat : Made = 1..n
  BY DEF KeyInv
<1>2. Cardinality(Made) = n
  BY <1>1, FS_Interval
<1> DEFINE j == n + 1
           l == LaneOf[r]
<1>3. /\ service = "up" /\ Used(k) = {} /\ j \in Ids
      /\ rows' = [i \in Made \cup {j} |-> IF i = j
           THEN [key |-> k, request |-> r, status |-> "queued", run |-> run] ELSE rows[i]]
      /\ acts' = [i \in Made \cup {j} |-> IF i = j THEN 0 ELSE acts[i]]
      /\ pending' = pending + 1
      /\ queue' = [queue EXCEPT ![l] = Append(@, j)]
      /\ UNCHANGED <<run, service, worker, deferred, faults>>
  BY <1>2 DEF Submit
<1>4. j \notin Made /\ Made' = Made \cup {j} /\ Made' = 1..(n + 1)
  BY <1>1, <1>3 DEF Made
<1>5. l \in Lanes
  BY JobsAssumption DEF JobsAssumption
<1>6. /\ rows'[j].status = "queued" /\ acts'[j] = 0 /\ rows'[j].key = k
      /\ \A i \in Made : rows'[i] = rows[i] /\ acts'[i] = acts[i]
  BY <1>3, <1>4
<1>7. DOMAIN deferred \subseteq Made /\ j \notin DOMAIN deferred
  BY <1>4 DEF TypeOK
<1> HIDE DEF j, l
<1>8. TypeOK'
  <2>1. [key |-> k, request |-> r, status |-> "queued", run |-> run] \in Row
    BY <1>3, JobsAssumption DEF JobsAssumption, Row, DownInv, TypeOK
  <2>2. rows' \in [Made' -> Row] /\ acts' \in [Made' -> Nat] /\ Made' \subseteq Ids
    BY <1>3, <1>4, <2>1 DEF TypeOK
  <2>3. queue[l] \in Seq(Ids \cup {Sentinel}) /\ queue \in [Lanes -> Seq(Ids \cup {Sentinel})]
    BY <1>5 DEF TypeOK
  <2>4. Append(queue[l], j) \in Seq(Ids \cup {Sentinel})
    BY <1>3, <2>3
  <2>5. queue' \in [Lanes -> Seq(Ids \cup {Sentinel})]
    BY <1>3, <2>3, <2>4
  <2>6. QED
    BY <1>3, <1>4, <2>2, <2>5 DEF TypeOK
<1>9. KeyInv'
  <2>1. \A i \in Made : rows'[i].key # k
    BY <1>3, <1>6 DEF Used
  <2>2. \A a, b \in Made' : rows'[a].key = rows'[b].key => a = b
    BY <1>4, <1>6, <2>1 DEF KeyInv
  <2>3. n + 1 \in Nat
    OBVIOUS
  <2>4. QED
    BY <1>4, <2>2, <2>3 DEF KeyInv
<1>10. RowInv'
  BY <1>4, <1>6 DEF RowInv, RowTrue, Honest
\* The new job is in one place, behind the others of its queue.
<1>11. \A m \in Lanes, i \in Nat, a \in Ids : At(m, i, a)' =>
         \/ a # j /\ At(m, i, a)
         \/ a = j /\ m = l /\ i = Len(queue[l]) + 1
  <2> TAKE m \in Lanes, i \in Nat, a \in Ids
  <2>1. \A p \in Lanes : queue[p] \in Seq(Ids \cup {Sentinel})
    BY DEF TypeOK
  <2>2. ~At(m, i, j)
    BY <1>3, <1>4 DEF QueueInv
  <2>3. ASSUME At(m, i, a)', m = l, i \in 1..Len(queue[l])
        PROVE  At(m, i, a)
    BY <1>3, <1>5, <2>1, <2>3 DEF At, TypeOK
  <2>4. ASSUME At(m, i, a)', m = l, i \notin 1..Len(queue[l])
        PROVE  a = j /\ i = Len(queue[l]) + 1
    BY <1>3, <1>5, <2>1, <2>4 DEF At, TypeOK
  <2>5. ASSUME At(m, i, a)', m # l
        PROVE  At(m, i, a)
    BY <1>3, <1>5, <2>1, <2>5 DEF At, TypeOK
  <2>6. QED
    BY <2>2, <2>3, <2>4, <2>5
<1>12. \A w \in Workers : Busy(w) => worker[w].job # j
  BY <1>4 DEF WorkerInv, Reached
<1>13. QueueInv'
  <2>1. SUFFICES ASSUME NEW m \in Lanes, NEW i \in Nat, NEW a \in Ids, At(m, i, a)'
                 PROVE  /\ a \in Made' \ DOMAIN deferred
                        /\ rows'[a].status = "queued"
                        /\ \A p \in Lanes, q \in Nat : At(p, q, a)' => p = m /\ q = i
                        /\ \A w \in Workers : Busy(w) => worker[w].job # a
    BY <1>3 DEF QueueInv, Busy
  <2>2. CASE a = j
    BY <1>4, <1>6, <1>7, <1>11, <1>12, <2>1, <2>2
  <2>3. CASE a # j
    <3>1. At(m, i, a) /\ \A p \in Lanes, q \in Nat : At(p, q, a)' => At(p, q, a)
      BY <1>11, <2>1, <2>3
    <3>2. QED
      BY <1>4, <1>6, <3>1 DEF QueueInv
  <2>4. QED
    BY <2>2, <2>3
<1>14. WorkerInv'
  BY <1>3, <1>4, <1>6 DEF WorkerInv, Reached, Busy, Honest
<1>15. DeferInv'
  BY <1>3, <1>6, <1>7 DEF DeferInv, Honest
<1>16. DownInv'
  BY <1>3 DEF DownInv
<1>17. QED
  BY <1>8, <1>9, <1>10, <1>13, <1>14, <1>15, <1>16

\* A worker writes the row of its own job, acts for it, or keeps its outcome.
LEMMA OwnJob ==
  ASSUME IInv, NEW w \in Workers, NEW j, j = worker[w].job, Busy(w),
         UNCHANGED <<queue, service, run>>,
         \A v \in Workers \ {w} : worker'[v] = worker[v],
         worker'[w].job = j,
         Made' = Made, rows'[j].key = rows[j].key,
         \A i \in Made \ {j} : rows'[i] = rows[i] /\ acts'[i] = acts[i],
         DOMAIN deferred \subseteq DOMAIN deferred',
         DOMAIN deferred' \subseteq DOMAIN deferred \cup {j},
         \A i \in DOMAIN deferred : deferred'[i] = deferred[i],
         j \in DOMAIN deferred' => ~Busy(w)' /\ Honest(j, deferred[j])',
         RowTrue(j)',
         Busy(w)' => Reached(w, j)'
  PROVE  KeyInv' /\ RowInv' /\ QueueInv' /\ WorkerInv' /\ DeferInv' /\ DownInv'
<1> USE DEF IInv
<1>1. j \in Made \ DOMAIN deferred /\ \A v \in Workers \ {w} : Busy(v) => worker[v].job # j
  BY DEF WorkerInv
<1>2. j \in Ids /\ Made \subseteq Ids /\ DOMAIN deferred \subseteq Made
  BY <1>1 DEF TypeOK
<1>3. KeyInv'
  <2>1. \A i \in Made : rows'[i].key = rows[i].key
    OBVIOUS
  <2>2. QED
    BY <2>1, KeysKept
<1>4. RowInv'
  BY DEF RowInv, RowTrue, Honest
<1>5. \A l \in Lanes, i \in Nat : ~At(l, i, j)
  BY <1>2 DEF QueueInv
<1>6. \A l \in Lanes, i \in Nat, a \in Ids : At(l, i, a)' => At(l, i, a) /\ a # j
  BY <1>5 DEF At
<1>7. \A v \in Workers : Busy(v)' => Busy(v) /\ worker'[v].job = worker[v].job
  BY DEF Busy
<1>8. QueueInv'
  <2>1. SUFFICES ASSUME NEW l \in Lanes, NEW i \in Nat, NEW a \in Ids, At(l, i, a)'
                 PROVE  /\ a \in Made \ DOMAIN deferred'
                        /\ rows'[a].status = "queued"
                        /\ \A m \in Lanes, k \in Nat : At(m, k, a)' => m = l /\ k = i
                        /\ \A v \in Workers : Busy(v)' => worker'[v].job # a
    BY DEF QueueInv
  <2>2. At(l, i, a) /\ a # j /\ \A m \in Lanes, k \in Nat : At(m, k, a)' => At(m, k, a)
    BY <1>6, <2>1
  <2>3. /\ a \in Made \ DOMAIN deferred
        /\ rows[a].status = "queued"
        /\ \A m \in Lanes, k \in Nat : At(m, k, a) => m = l /\ k = i
        /\ \A v \in Workers : Busy(v) => worker[v].job # a
    BY <2>2 DEF QueueInv
  <2>4. QED
    BY <1>7, <2>2, <2>3
<1>9. WorkerInv'
  <2>1. SUFFICES ASSUME NEW v \in Workers, Busy(v)'
                 PROVE  /\ worker'[v].job \in Made \ DOMAIN deferred'
                        /\ \A u \in Workers : u # v /\ Busy(u)' => worker'[u].job # worker'[v].job
                        /\ Reached(v, worker[v].job)'
    BY DEF WorkerInv, Reached, Honest
  <2>2. Busy(v) /\ worker'[v].job = worker[v].job
    BY <1>7, <2>1
  <2>3. \A u \in Workers : u # v /\ Busy(u)' => worker'[u].job # worker'[v].job
    BY <1>7, <2>2 DEF WorkerInv
  <2>4. CASE v = w
    BY <1>1, <2>1, <2>2, <2>3, <2>4 DEF Reached, Honest
  <2>5. CASE v # w
    <3>1. worker'[v] = worker[v] /\ worker[v].job \in Made \ DOMAIN deferred
          /\ worker[v].job # j /\ Reached(v, worker[v].job)
      BY <1>1, <2>2, <2>5 DEF WorkerInv
    <3>2. Reached(v, worker[v].job)'
      BY <3>1 DEF Reached, Honest
    <3>3. QED
      BY <2>3, <3>1, <3>2
  <2>6. QED
    BY <2>4, <2>5
<1>10. DeferInv'
  <2>1. \A i \in DOMAIN deferred : Honest(i, deferred[i])'
    BY <1>1, <1>2 DEF DeferInv, Honest
  <2>2. QED
    BY <2>1 DEF DeferInv, Honest
<1>11. DownInv'
  BY DEF DownInv, Busy, Gone
<1>12. QED
  BY <1>3, <1>4, <1>8, <1>9, <1>10, <1>11

\* A field of a worker's record changes, the others stay.
LEMMA WorkerSet ==
  ASSUME TypeOK, NEW w \in Workers,
         NEW pc \in {"gone", "get", "begin", "act", "acted", "finish", "count"},
         NEW job \in Ids \cup {Sentinel}, NEW outcome \in Outcomes,
         worker' = [worker EXCEPT ![w] = [pc |-> pc, job |-> job, outcome |-> outcome]]
  PROVE  /\ worker' \in [Workers -> Worker]
         /\ worker'[w].pc = pc /\ worker'[w].job = job /\ worker'[w].outcome = outcome
         /\ \A v \in Workers \ {w} : worker'[v] = worker[v]
BY DEF TypeOK, Worker

LEMMA Went ==
  ASSUME TypeOK, NEW w \in Workers,
         NEW pc \in {"gone", "get", "begin", "act", "acted", "finish", "count"}, Goto(w, pc)
  PROVE  /\ worker' \in [Workers -> Worker]
         /\ worker'[w].pc = pc /\ worker'[w].job = worker[w].job
         /\ worker'[w].outcome = worker[w].outcome
         /\ \A v \in Workers \ {w} : worker'[v] = worker[v]
BY DEF Goto, TypeOK, Worker

LEMMA Concludes ==
  ASSUME TypeOK, NEW w \in Workers, NEW outcome \in Outcomes,
         worker' = [worker EXCEPT ![w].pc = "finish", ![w].outcome = outcome]
  PROVE  /\ worker' \in [Workers -> Worker]
         /\ worker'[w].pc = "finish" /\ worker'[w].job = worker[w].job
         /\ worker'[w].outcome = outcome
         /\ \A v \in Workers \ {w} : worker'[v] = worker[v]
BY DEF TypeOK, Worker

LEMMA FaultTyped == TypeOK /\ Fault => faults' \in 0..MaxFaults
BY JobsAssumption DEF JobsAssumption, TypeOK, Fault

LEMMA BeginStep == ASSUME IInv, NEW w \in Workers, Begin(w) PROVE IInv'
<1> USE DEF IInv
<1>0. PICK j \in Made : j = worker[w].job
  BY DEF Begin, WorkerInv, Busy
<1> DEFINE running == Updated(j, "running")
<1>1. /\ worker[w].pc = "begin"
      /\ UNCHANGED <<run, service, queue, pending, deferred, acts>>
      /\ \/ rows' = running /\ Goto(w, "act") /\ UNCHANGED faults
         \/ /\ Fault /\ rows' \in {rows, running}
            /\ worker' = [worker EXCEPT ![w].pc = "finish", ![w].outcome = "failed"]
  BY <1>0 DEF Begin
<1>2. /\ j \in Made /\ acts[j] = 0 /\ Busy(w) /\ j \notin DOMAIN deferred
  BY <1>0, <1>1 DEF WorkerInv, Busy, Reached
<1>3. rows[j] \in Row /\ RowTrue(j)
  BY <1>2, RowTyped DEF RowInv
<1>4. rows' \in {rows, running} =>
        /\ Made' = Made /\ rows' \in [Made -> Row]
        /\ \A i \in Made : rows'[i].key = rows[i].key /\ rows'[i].request = rows[i].request
        /\ \A i \in Made \ {j} : rows'[i] = rows[i]
        /\ RowTrue(j)'
  <2>1. CASE rows' = rows
    BY <1>1, <1>3, <2>1 DEF RowTrue, Honest, TypeOK, Made
  <2>2. CASE rows' = running
    <3>1. /\ Made' = Made /\ rows' \in [Made -> Row]
          /\ \A i \in Made : /\ rows'[i].key = rows[i].key /\ rows'[i].request = rows[i].request
                             /\ rows'[i].status = IF i = j THEN "running" ELSE rows[i].status
      BY <2>2, OneUpdated
    <3>2. \A i \in Made \ {j} : rows'[i] = rows[i]
      BY <2>2 DEF Updated, TypeOK
    <3>3. RowTrue(j)'
      BY <1>1, <1>2, <3>1 DEF RowTrue, Honest
    <3>4. QED
      BY <3>1, <3>2, <3>3
  <2>3. QED
    BY <2>1, <2>2
<1>5. CASE rows' = running /\ Goto(w, "act") /\ UNCHANGED faults
  <2>1. /\ worker' \in [Workers -> Worker]
        /\ worker'[w].pc = "act" /\ worker'[w].job = j
        /\ \A v \in Workers \ {w} : worker'[v] = worker[v]
    BY <1>0, <1>5, Went
  <2>2. rows'[j].status = "running"
    BY <1>2, <1>5, OneUpdated
  <2>3. Reached(w, j)'
    BY <1>1, <1>2, <2>1, <2>2 DEF Reached
  <2>4. TypeOK'
    BY <1>1, <1>4, <1>5, <2>1 DEF TypeOK
  <2>5. KeyInv' /\ RowInv' /\ QueueInv' /\ WorkerInv' /\ DeferInv' /\ DownInv'
    BY <1>1, <1>2, <1>4, <1>5, <2>1, <2>3, <1>0, OwnJob
  <2>6. QED
    BY <2>4, <2>5
<1>6. CASE /\ Fault /\ rows' \in {rows, running}
           /\ worker' = [worker EXCEPT ![w].pc = "finish", ![w].outcome = "failed"]
  <2>1. /\ worker' \in [Workers -> Worker]
        /\ worker'[w].pc = "finish" /\ worker'[w].job = j /\ worker'[w].outcome = "failed"
        /\ \A v \in Workers \ {w} : worker'[v] = worker[v]
    BY <1>0, <1>6, Concludes DEF Outcomes
  <2>2. Reached(w, j)'
    BY <1>1, <1>2, <2>1 DEF Reached, Honest
  <2>3. faults' \in 0..MaxFaults
    BY <1>6, FaultTyped
  <2> HIDE DEF running
  <2>4. TypeOK'
    BY <1>1, <1>4, <1>6, <2>1, <2>3 DEF TypeOK
  <2>5. KeyInv' /\ RowInv' /\ QueueInv' /\ WorkerInv' /\ DeferInv' /\ DownInv'
    BY <1>1, <1>2, <1>4, <1>6, <2>1, <2>2, <1>0, OwnJob
  <2>6. QED
    BY <2>4, <2>5
<1>7. QED
  BY <1>1, <1>5, <1>6

LEMMA HandlerActsStep == ASSUME IInv, NEW w \in Workers, HandlerActs(w) PROVE IInv'
<1> USE DEF IInv
<1>0. PICK j \in Made : j = worker[w].job
  BY DEF HandlerActs, WorkerInv, Busy
<1>1. /\ worker[w].pc = "act" /\ Goto(w, "acted")
      /\ acts' = [acts EXCEPT ![j] = @ + 1]
      /\ UNCHANGED <<rows, run, service, queue, pending, deferred, faults>>
  BY <1>0 DEF HandlerActs
<1>2. j \notin DOMAIN deferred /\ acts[j] = 0 /\ rows[j].status = "running" /\ Busy(w)
  BY <1>0, <1>1 DEF WorkerInv, Reached, Busy
<1>3. /\ worker' \in [Workers -> Worker]
      /\ worker'[w].pc = "acted" /\ worker'[w].job = j
      /\ \A v \in Workers \ {w} : worker'[v] = worker[v]
  BY <1>0, <1>1, Went
<1>4. /\ acts' \in [Made -> Nat] /\ acts'[j] = 1
      /\ \A i \in Made \ {j} : acts'[i] = acts[i]
  BY <1>1, <1>2 DEF TypeOK
<1>5. RowTrue(j)' /\ Reached(w, j)'
  BY <1>1, <1>2, <1>3, <1>4 DEF RowTrue, Honest, Reached
<1>6. TypeOK'
  BY <1>1, <1>3, <1>4 DEF TypeOK, Made
<1>7. Made' = Made
  BY <1>1 DEF Made
<1>8. KeyInv' /\ RowInv' /\ QueueInv' /\ WorkerInv' /\ DeferInv' /\ DownInv'
  BY <1>0, <1>1, <1>2, <1>3, <1>4, <1>5, <1>7, OwnJob
<1>9. QED
  BY <1>6, <1>8

LEMMA HandlerEndsStep == ASSUME IInv, NEW w \in Workers, HandlerEnds(w) PROVE IInv'
<1> USE DEF IInv
<1>0. PICK j \in Made : j = worker[w].job
  BY DEF HandlerEnds, WorkerInv, Busy
<1>1. PICK outcome \in Reports(rows[j].request, worker[w].pc = "acted") :
        worker' = [worker EXCEPT ![w].pc = "finish", ![w].outcome = outcome]
  BY <1>0 DEF HandlerEnds
<1>2. /\ worker[w].pc \in {"act", "acted"} /\ Busy(w)
      /\ UNCHANGED <<rows, run, service, queue, pending, deferred, acts, faults>>
  BY DEF HandlerEnds, Busy
<1>3. outcome \in Outcomes /\ Honest(j, outcome)
  <2>1. /\ worker[w].pc = "act" => acts[j] = 0
        /\ worker[w].pc = "acted" => acts[j] = 1
    BY <1>0, <1>2 DEF WorkerInv, Reached
  <2>2. CASE worker[w].pc = "act"
    BY <1>1, <2>1, <2>2 DEF Reports, Outcomes, Honest
  <2>3. CASE worker[w].pc = "acted"
    BY <1>1, <2>1, <2>3 DEF Reports, Outcomes, Honest
  <2>4. QED
    BY <1>2, <2>2, <2>3
<1>4. /\ worker' \in [Workers -> Worker]
      /\ worker'[w].pc = "finish" /\ worker'[w].job = j /\ worker'[w].outcome = outcome
      /\ \A v \in Workers \ {w} : worker'[v] = worker[v]
  BY <1>0, <1>1, <1>3, Concludes
<1>5. RowTrue(j)' /\ Reached(w, j)' /\ j \notin DOMAIN deferred
  <2>1. RowTrue(j) /\ j \notin DOMAIN deferred
    BY <1>0, <1>2 DEF RowInv, WorkerInv
  <2>2. QED
    BY <1>2, <1>3, <1>4, <2>1 DEF RowTrue, Honest, Reached
<1>6. TypeOK'
  BY <1>2, <1>4 DEF TypeOK, Made
<1>7. Made' = Made
  BY <1>2 DEF Made
<1>8. KeyInv' /\ RowInv' /\ QueueInv' /\ WorkerInv' /\ DeferInv' /\ DownInv'
  BY <1>0, <1>2, <1>4, <1>5, <1>7, OwnJob
<1>9. QED
  BY <1>6, <1>8

LEMMA FinishStep == ASSUME IInv, NEW w \in Workers, Finish(w) PROVE IInv'
<1> USE DEF IInv
<1>0. PICK j \in Made : j = worker[w].job
  BY DEF Finish, WorkerInv, Busy
<1> DEFINE outcome == worker[w].outcome
<1>1. /\ worker[w].pc = "finish" /\ Goto(w, "count") /\ Busy(w)
      /\ UNCHANGED <<run, service, queue, pending, acts>>
      /\ \/ rows' = Updated(j, outcome) /\ UNCHANGED <<deferred, faults>>
         \/ /\ Fault /\ rows' \in {rows, Updated(j, outcome)}
            /\ deferred' = [i \in DOMAIN deferred \cup {j} |->
                              IF i = j THEN outcome ELSE deferred[i]]
  BY <1>0 DEF Finish, Busy
<1>2. outcome \in Outcomes /\ outcome \in Ends
  BY WorkerTyped DEF Outcomes, Ends
<1>3. RowTrue(j) /\ Honest(j, outcome) /\ j \notin DOMAIN deferred
  BY <1>0, <1>1 DEF RowInv, WorkerInv, Reached
<1>4. /\ worker' \in [Workers -> Worker]
      /\ worker'[w].pc = "count" /\ worker'[w].job = j
      /\ \A v \in Workers \ {w} : worker'[v] = worker[v]
  BY <1>0, <1>1, Went
<1>5. PICK told \in Outcomes : told = outcome
  BY <1>2
<1> HIDE DEF outcome
<1>6. /\ Made' = Made /\ rows' \in [Made -> Row]
      /\ \A i \in Made : rows'[i].key = rows[i].key /\ rows'[i].request = rows[i].request
      /\ \A i \in Made \ {j} : rows'[i] = rows[i]
      /\ RowTrue(j)'
  <2>1. CASE rows' = rows
    BY <1>1, <1>3, <2>1 DEF RowTrue, Honest, TypeOK, Made
  <2>2. CASE rows' = Updated(j, outcome)
    <3>1. /\ Made' = Made /\ rows' \in [Made -> Row]
          /\ \A i \in Made : /\ rows'[i].key = rows[i].key /\ rows'[i].request = rows[i].request
                             /\ rows'[i].status = IF i = j THEN told ELSE rows[i].status
      BY <1>2, <1>5, <2>2, OneUpdated
    <3>2. \A i \in Made \ {j} : rows'[i] = rows[i]
      BY <2>2 DEF Updated, TypeOK
    <3>3. RowTrue(j)'
      BY <1>1, <1>3, <1>5, <3>1 DEF RowTrue, Honest, Outcomes
    <3>4. QED
      BY <3>1, <3>2, <3>3
  <2>3. QED
    BY <1>1, <2>1, <2>2
<1>7. /\ DOMAIN deferred \subseteq DOMAIN deferred'
      /\ DOMAIN deferred' \subseteq DOMAIN deferred \cup {j}
      /\ \A i \in DOMAIN deferred : deferred'[i] = deferred[i]
      /\ j \in DOMAIN deferred' => deferred'[j] = told
      /\ deferred' \in [DOMAIN deferred' -> Outcomes]
  BY <1>1, <1>3, <1>5 DEF TypeOK
<1>8. ~Busy(w)' /\ Honest(j, told)'
  BY <1>1, <1>3, <1>4, <1>5, <1>6 DEF Busy, Honest
<1>9. TypeOK'
  <2>1. faults' \in 0..MaxFaults
    BY <1>1, FaultTyped DEF TypeOK
  <2>2. QED
    BY <1>1, <1>4, <1>6, <1>7, <2>1 DEF TypeOK
<1>10. j \in DOMAIN deferred' => Honest(j, deferred[j])'
  BY <1>7, <1>8 DEF Honest
<1>11. KeyInv' /\ RowInv' /\ QueueInv' /\ WorkerInv' /\ DeferInv' /\ DownInv'
  BY <1>0, <1>1, <1>4, <1>6, <1>7, <1>8, <1>10, OwnJob
<1>12. QED
  BY <1>9, <1>11

\* Outcomes that are written late belong to jobs that nobody works on.
LEMMA LateWrites ==
  ASSUME IInv, Flushed \/ UNCHANGED <<rows, deferred, faults>>,
         UNCHANGED <<queue, acts, service, run>>, service # "down",
         \A v \in Workers : Busy(v)' => Busy(v) /\ worker'[v] = worker[v]
  PROVE  KeyInv' /\ RowInv' /\ QueueInv' /\ WorkerInv' /\ DeferInv' /\ DownInv'
<1> USE DEF IInv
<1>1. /\ Made' = Made
      /\ \A i \in Made : /\ rows'[i].key = rows[i].key
                         /\ rows'[i].request = rows[i].request
                         /\ rows'[i].status # rows[i].status =>
                              i \in DOMAIN deferred /\ rows'[i].status = deferred[i]
      /\ DOMAIN deferred' \subseteq DOMAIN deferred
      /\ \A i \in DOMAIN deferred' : deferred'[i] = deferred[i]
  <2>1. CASE Flushed
    BY <2>1, FlushedRows
  <2>2. CASE UNCHANGED <<rows, deferred, faults>>
    BY <2>2 DEF Made
  <2>3. QED
    BY <2>1, <2>2
<1>2. \A i \in DOMAIN deferred : i \in Made /\ deferred[i] \in Outcomes
  BY DEF TypeOK
<1>3. KeyInv'
  BY <1>1, KeysKept
<1>4. RowInv'
  <2>1. SUFFICES ASSUME NEW i \in Made PROVE RowTrue(i)'
    BY <1>1 DEF RowInv
  <2>2. CASE rows'[i].status = rows[i].status
    BY <1>1, <2>2 DEF RowInv, RowTrue, Honest
  <2>3. CASE rows'[i].status # rows[i].status
    <3>1. rows'[i].status = deferred[i] /\ Honest(i, deferred[i]) /\ deferred[i] \in Outcomes
          /\ acts[i] \in {0, 1}
      BY <1>1, <1>2, <2>3 DEF DeferInv, RowInv, RowTrue
    <3>2. QED
      BY <1>1, <3>1 DEF RowTrue, Honest, Outcomes
  <2>4. QED
    BY <2>2, <2>3
<1>5. QueueInv'
  <2>1. SUFFICES ASSUME NEW l \in Lanes, NEW i \in Nat, NEW a \in Ids, At(l, i, a)
                 PROVE  /\ a \in Made' \ DOMAIN deferred'
                        /\ rows'[a].status = "queued"
                        /\ \A m \in Lanes, k \in Nat : At(m, k, a) => m = l /\ k = i
                        /\ \A v \in Workers : Busy(v)' => worker'[v].job # a
    BY DEF QueueInv, At
  <2>2. QED
    BY <1>1, <2>1 DEF QueueInv
<1>6. WorkerInv'
  <2>1. SUFFICES ASSUME NEW v \in Workers, Busy(v)'
                 PROVE  /\ worker'[v].job \in Made' \ DOMAIN deferred'
                        /\ \A u \in Workers : u # v /\ Busy(u)' => worker'[u].job # worker'[v].job
                        /\ Reached(v, worker[v].job)'
    BY DEF WorkerInv
  <2>2. Busy(v) /\ worker'[v] = worker[v]
    BY <2>1
  <2>3. PICK j \in Made \ DOMAIN deferred : j = worker[v].job
    BY <2>2 DEF WorkerInv
  <2>4. Reached(v, j) /\ rows'[j].status = rows[j].status /\ rows'[j].request = rows[j].request
    BY <1>1, <2>2, <2>3 DEF WorkerInv
  <2>5. Reached(v, worker[v].job)'
    BY <2>2, <2>3, <2>4 DEF Reached, Honest
  <2>6. QED
    BY <1>1, <2>2, <2>3, <2>5 DEF WorkerInv
<1>7. DeferInv'
  BY <1>1, <1>2 DEF DeferInv, Honest
<1>8. DownInv'
  BY DEF DownInv
<1>9. QED
  BY <1>3, <1>4, <1>5, <1>6, <1>7, <1>8

\* The same, for the types.
LEMMA LateTyped ==
  ASSUME IInv, Flushed \/ UNCHANGED <<rows, deferred, faults>>,
         UNCHANGED <<queue, acts, service, run>>,
         worker' \in [Workers -> Worker], pending' \in Int
  PROVE  TypeOK'
<1>1. /\ Made' = Made /\ rows' \in [Made -> Row]
      /\ DOMAIN deferred' \subseteq DOMAIN deferred
      /\ deferred' \in [DOMAIN deferred' -> Outcomes]
      /\ faults' \in 0..MaxFaults
  <2>1. CASE Flushed
    BY <2>1, FlushedRows
  <2>2. CASE UNCHANGED <<rows, deferred, faults>>
    BY <2>2 DEF Made, IInv, TypeOK
  <2>3. QED
    BY <2>1, <2>2
<1>2. QED
  BY <1>1 DEF IInv, TypeOK

LEMMA FlushStep == ASSUME IInv, NEW w \in Workers, Flush(w) PROVE IInv'
<1> USE DEF IInv
<1>1. /\ worker[w].pc = "get" /\ UNCHANGED <<run, service, queue, pending, acts>>
      /\ \/ Flushed /\ UNCHANGED worker
         \/ Goto(w, "gone") /\ UNCHANGED <<rows, deferred, faults>>
  BY DEF Flush
<1>2. service # "down"
  BY <1>1 DEF DownInv, Gone
<1>3. /\ worker' \in [Workers -> Worker]
      /\ \A v \in Workers : Busy(v)' => Busy(v) /\ worker'[v] = worker[v]
  <2>1. CASE UNCHANGED worker
    BY <2>1 DEF Busy, TypeOK
  <2>2. CASE Goto(w, "gone")
    <3>1. /\ worker' \in [Workers -> Worker] /\ worker'[w].pc = "gone"
          /\ \A v \in Workers \ {w} : worker'[v] = worker[v]
      BY <2>2, Went
    <3>2. QED
      BY <3>1 DEF Busy
  <2>3. QED
    BY <1>1, <2>1, <2>2
<1>4. pending' \in Int
  BY <1>1 DEF TypeOK
<1>5. Flushed \/ UNCHANGED <<rows, deferred, faults>>
  BY <1>1
<1>6. TypeOK'
  BY <1>1, <1>3, <1>4, <1>5, LateTyped
<1>7. QED
  BY <1>1, <1>2, <1>3, <1>5, <1>6, LateWrites

LEMMA CountStep == ASSUME IInv, NEW w \in Workers, Count(w) PROVE IInv'
<1> USE DEF IInv
<1>1. PICK pc \in {"get", "gone"} :
        worker' = [worker EXCEPT ![w].pc = pc, ![w].job = Sentinel]
  BY DEF Count
<1>2. /\ worker[w].pc = "count" /\ pending' = pending - 1
      /\ UNCHANGED <<run, service, queue, acts>>
  BY DEF Count
<1>3. Flushed \/ UNCHANGED <<rows, deferred, faults>>
  BY DEF Count
<1>4. service # "down"
  BY <1>2 DEF DownInv, Gone
<1>5. /\ worker' \in [Workers -> Worker]
      /\ worker'[w].pc = pc
      /\ \A v \in Workers \ {w} : worker'[v] = worker[v]
  BY <1>1 DEF TypeOK, Worker
<1>6. \A v \in Workers : Busy(v)' => Busy(v) /\ worker'[v] = worker[v]
  BY <1>5 DEF Busy
<1>7. pending' \in Int
  BY <1>2 DEF TypeOK
<1>8. TypeOK'
  BY <1>2, <1>3, <1>5, <1>7, LateTyped
<1>9. QED
  BY <1>2, <1>3, <1>4, <1>6, <1>8, LateWrites

LEMMA TakeStep == ASSUME IInv, NEW w \in Workers, Take(w) PROVE IInv'
<1> USE DEF IInv
<1> DEFINE l == WorkerLane[w]
           h == Head(queue[l])
<1>1. l \in Lanes
  BY JobsAssumption DEF JobsAssumption
<1>2. /\ worker[w].pc = "get" /\ queue[l] # <<>>
      /\ queue' = [queue EXCEPT ![l] = Tail(queue[l])]
      /\ UNCHANGED <<rows, run, service, pending, deferred, acts, faults>>
  BY DEF Take
<1>3. /\ h \in Ids \cup {Sentinel} /\ At(l, 1, h)
      /\ queue' \in [Lanes -> Seq(Ids \cup {Sentinel})]
  BY <1>1, <1>2, Popped
<1>4. PICK a \in Ids \cup {Sentinel} : a = h
  BY <1>3
<1>5. /\ worker' \in [Workers -> Worker]
      /\ worker'[w].job = a
      /\ worker'[w].pc = IF a = Sentinel THEN "gone" ELSE "begin"
      /\ \A v \in Workers \ {w} : worker'[v] = worker[v]
  BY <1>4 DEF Take, TypeOK, Worker
<1>6. ~Busy(w)
  BY <1>2 DEF Busy
<1>7. a \in Ids => /\ a \in Made \ DOMAIN deferred /\ rows[a].status = "queued" /\ acts[a] = 0
                   /\ \A v \in Workers : Busy(v) => worker[v].job # a
  <2>1. ASSUME a \in Ids
        PROVE  /\ a \in Made \ DOMAIN deferred /\ rows[a].status = "queued"
               /\ \A v \in Workers : Busy(v) => worker[v].job # a
    BY <1>1, <1>3, <1>4, <2>1 DEF QueueInv
  <2>2. QED
    BY <2>1 DEF RowInv, RowTrue
<1>8. TypeOK'
  BY <1>2, <1>3, <1>5 DEF TypeOK, Made
<1>9. KeyInv' /\ RowInv' /\ DeferInv'
  BY <1>2 DEF KeyInv, RowInv, RowTrue, Honest, DeferInv, Made
<1>10. \A v \in Workers : Busy(v)' => \/ v # w /\ Busy(v) /\ worker'[v] = worker[v]
                                      \/ v = w /\ a \in Ids
  BY <1>4, <1>5 DEF Busy
<1>11. QueueInv'
  <2>1. SUFFICES ASSUME NEW m \in Lanes, NEW k \in Nat, NEW j \in Ids, At(m, k, j)'
                 PROVE  /\ j \in Made \ DOMAIN deferred
                        /\ rows[j].status = "queued"
                        /\ \A n \in Lanes, i \in Nat : At(n, i, j)' => n = m /\ i = k
                        /\ \A v \in Workers : Busy(v)' => worker'[v].job # j
    BY <1>2 DEF QueueInv, Made
  <2>2. /\ j # h
        /\ j \in Made \ DOMAIN deferred
        /\ rows[j].status = "queued"
        /\ \A n \in Lanes, i \in Nat : At(n, i, j)' => n = m /\ i = k
        /\ \A v \in Workers : Busy(v) => worker[v].job # j
    BY <1>1, <1>2, <2>1, StillQueued
  <2>3. QED
    BY <1>4, <1>5, <1>10, <2>2
<1>12. WorkerInv'
  <2>1. SUFFICES ASSUME NEW v \in Workers, Busy(v)'
                 PROVE  /\ worker'[v].job \in Made' \ DOMAIN deferred'
                        /\ \A u \in Workers : u # v /\ Busy(u)' => worker'[u].job # worker'[v].job
                        /\ Reached(v, worker[v].job)'
    BY DEF WorkerInv
  <2>2. CASE v = w
    <3>1. a \in Ids /\ worker'[v].job = a /\ worker'[v].pc = "begin"
      BY <1>5, <1>10, <2>1, <2>2, NoSentinel
    <3>2. Reached(v, a)'
      BY <1>2, <1>7, <3>1 DEF Reached
    <3>3. \A u \in Workers : u # v /\ Busy(u)' => worker'[u].job # a
      BY <1>7, <1>10, <2>2, <3>1
    <3>4. QED
      BY <1>2, <1>7, <3>1, <3>2, <3>3 DEF Made, Reached, Honest
  <2>3. CASE v # w
    <3>1. Busy(v) /\ worker'[v] = worker[v]
      BY <1>10, <2>1, <2>3
    <3>2. \A u \in Workers : u # v /\ Busy(u)' => worker'[u].job # worker'[v].job
      BY <1>5, <1>7, <1>10, <3>1 DEF WorkerInv
    <3>3. QED
      BY <1>2, <3>1, <3>2 DEF WorkerInv, Reached, Honest, Made
  <2>4. QED
    BY <2>2, <2>3
<1>13. DownInv'
  <2>1. service # "down"
    BY <1>2 DEF DownInv, Gone
  <2>2. QED
    BY <1>2, <2>1 DEF DownInv
<1>14. QED
  BY <1>8, <1>9, <1>11, <1>12, <1>13

----------------------------------------------------------------------------
(* The theorems. *)

LEMMA Stutter == ASSUME IInv, UNCHANGED vars PROVE IInv'
BY DEF vars, IInv, TypeOK, Made, KeyInv, RowInv, RowTrue, Honest, QueueInv, At, Busy,
       WorkerInv, Reached, DeferInv, DownInv

LEMMA Step == ASSUME IInv, [Next]_vars PROVE IInv'
<1>1. CASE Start
  BY <1>1, StartStep
<1>2. CASE Stop
  BY <1>2, StopStep
<1>3. CASE Exit \/ Crash
  BY <1>3, DownStep DEF Exit, Crash
<1>4. ASSUME NEW l \in Lanes, Drain(l) PROVE IInv'
  BY <1>4, DrainStep
<1>5. ASSUME NEW k \in Drawn, NEW r \in Requests, Submit(k, r) PROVE IInv'
  BY <1>5, SubmitStep DEF Drawn
<1>6. ASSUME NEW w \in Workers, WorkerStep(w) PROVE IInv'
  BY <1>6, FlushStep, TakeStep, BeginStep, HandlerActsStep, HandlerEndsStep, FinishStep,
     CountStep DEF WorkerStep
<1>7. CASE UNCHANGED vars
  BY <1>7, Stutter
<1>8. QED
  BY <1>1, <1>2, <1>3, <1>4, <1>5, <1>6, <1>7 DEF Next

\* The strengthened invariant holds in every state of every run.
THEOREM Inductive == Spec => []IInv
<1>1. Init => IInv
  BY Initial
<1>2. IInv /\ [Next]_vars => IInv'
  BY Step
<1>3. QED
  BY <1>1, <1>2, PTL DEF Spec

\* Every variable keeps to its type, whatever fails.
THEOREM TypeCorrect == Spec => []TypeOK
<1>1. IInv => TypeOK
  BY DEF IInv
<1>2. QED
  BY <1>1, Inductive, PTL

\* A key has one job (create_job), and a job acts once at most, over retries of
\* the client, restarts of the service and failures of the catalog.
THEOREM KeysActOnce == Spec => []ActsOncePerKey
<1>1. IInv => ActsOncePerKey
  BY DEF IInv, KeyInv, RowInv, RowTrue, ActsOncePerKey
<1>2. QED
  BY <1>1, Inductive, PTL

\* What a row says has happened has, and what it says has not has not.
THEOREM RowsTellTheTruth == Spec => []StatusTruthful
<1>1. IInv => StatusTruthful
  BY DEF IInv, RowInv, RowTrue, Honest, StatusTruthful
<1>2. QED
  BY <1>1, Inductive, PTL
----------------------------------------------------------------------------
(***************************************************************************)
(* ResultCache: the files that jobs make of versions.                      *)
(***************************************************************************)

\* The versions a job works on.
Wanted(j) == <<jobs[j].request.from, jobs[j].request.of>>

\* A finished file is whole, and of what its folder is named for.
FileTrue(f) ==
    f.part = "result" =>
        /\ f.whole
        /\ f.folder.top = "previews" => f.of = <<f.folder.key, f.folder.key>>
        /\ f.folder.top = "diffs" => f.of = f.folder.key
        /\ f.folder.top = "downloads" => f.folder.key \in Known /\ f.of = Wanted(f.folder.key)

FilesTrue == \A f \in files : FileTrue(f)

\* Nobody is promised an image, and only a source takes the place of one.
AssetInv ==
    /\ \A j \in Known : jobs[j].pc = "place" => jobs[j].at \in Contents
    /\ \A j \in Known : jobs[j].asset => jobs[j].request.kind # "image"
    /\ sending # None => jobs[sending].request.kind # "image"

CacheInv == CacheTypeOK /\ FilesTrue /\ AssetInv

LEMMA CacheConstants ==
  /\ Asked \subseteq ResultRequests /\ None \notin Contents
  /\ \A r \in Asked : r.kind # "diff" => r.from = r.of
  /\ MaxRequests \in Nat /\ MaxEvictions \in Nat /\ MaxTroubles \in Nat
BY ResultCacheAssumption DEF ResultCacheAssumption

LEMMA JobTyped ==
  ASSUME CacheTypeOK, NEW j \in Known
  PROVE  /\ j \in JobIds /\ jobs[j] \in Job
         /\ jobs[j].request \in Asked
         /\ jobs[j].request.kind \in Kinds
         /\ jobs[j].request.from \in Contents /\ jobs[j].request.of \in Contents
         /\ jobs[j].request.kind # "diff" => jobs[j].request.from = jobs[j].request.of
         /\ Needs(j) \subseteq Contents /\ Wanted(j) \in Origins
<1>1. j \in JobIds /\ jobs[j] \in Job
  BY DEF CacheTypeOK
<1>2. jobs[j].request \in Asked
  BY <1>1 DEF Job
<1>3. jobs[j].request \in ResultRequests
  BY <1>2, CacheConstants
<1>4. jobs[j].request.kind \in Kinds /\ jobs[j].request.from \in Contents
      /\ jobs[j].request.of \in Contents
  BY <1>3 DEF ResultRequests
<1> QED BY <1>1, <1>2, <1>4, CacheConstants DEF Needs, Wanted, Origins

LEMMA ResultFolderIs ==
  ASSUME CacheTypeOK, NEW j \in Known
  PROVE  /\ ResultFolder(j) \in Folders
         /\ jobs[j].request.kind = "preview" => ResultFolder(j) = Folder("previews", jobs[j].request.of)
         /\ jobs[j].request.kind = "diff" => ResultFolder(j) = Folder("diffs", Wanted(j))
         /\ jobs[j].request.kind = "download" => ResultFolder(j) = Folder("downloads", j)
         /\ jobs[j].request.kind = "image" => ResultFolder(j) = Folder("thumbnails", jobs[j].request.of)
<1>1. jobs[j].request.kind = "preview" => ResultFolder(j) = Folder("previews", jobs[j].request.of)
  BY DEF ResultFolder
<1>2. jobs[j].request.kind = "diff" => ResultFolder(j) = Folder("diffs", Wanted(j))
  BY DEF ResultFolder, Wanted
<1>3. jobs[j].request.kind = "download" => ResultFolder(j) = Folder("downloads", j)
  BY DEF ResultFolder
<1>4. jobs[j].request.kind = "image" => ResultFolder(j) = Folder("thumbnails", jobs[j].request.of)
  BY DEF ResultFolder
<1>5. ResultFolder(j) \in Folders
  <2>1. CASE jobs[j].request.kind = "preview"
    BY <1>1, <2>1, JobTyped DEF Folder, Folders
  <2>2. CASE jobs[j].request.kind = "diff"
    BY <1>2, <2>2, JobTyped DEF Folder, Folders, Wanted
  <2>3. CASE jobs[j].request.kind = "download"
    BY <1>3, <2>3, JobTyped DEF Folder, Folders
  <2>4. CASE jobs[j].request.kind = "image"
    BY <1>4, <2>4, JobTyped DEF Folder, Folders
  <2> QED BY <2>1, <2>2, <2>3, <2>4, JobTyped DEF Kinds
<1> QED BY <1>1, <1>2, <1>3, <1>4, <1>5

LEMMA SourceFolderTyped ==
  ASSUME CacheTypeOK, NEW j \in Known, NEW c \in Contents
  PROVE  SourceFolder(j, c) \in Folders
BY JobTyped DEF SourceFolder, Folder, Folders

\* What is finished in the folder of a job is what that job makes.
LEMMA WhatJobMakes ==
  ASSUME CacheTypeOK, NEW j \in Known, NEW f,
         f.folder = ResultFolder(j), jobs[j].request.kind # "image"
  PROVE  FileTrue(f) <=> (f.part = "result" => f.whole /\ f.of = Wanted(j))
<1>1. CASE jobs[j].request.kind = "preview"
  <2>1. f.folder.top = "previews" /\ f.folder.key = jobs[j].request.of
    BY <1>1, ResultFolderIs DEF Folder
  <2>2. Wanted(j) = <<f.folder.key, f.folder.key>>
    BY <1>1, <2>1, JobTyped DEF Wanted
  <2> QED BY <2>1, <2>2 DEF FileTrue
<1>2. CASE jobs[j].request.kind = "diff"
  <2>1. f.folder.top = "diffs" /\ f.folder.key = Wanted(j)
    BY <1>2, ResultFolderIs DEF Folder
  <2> QED BY <2>1 DEF FileTrue
<1>3. CASE jobs[j].request.kind = "download"
  <2>1. f.folder.top = "downloads" /\ f.folder.key = j
    BY <1>3, ResultFolderIs DEF Folder
  <2> QED BY <2>1 DEF FileTrue
<1> QED BY <1>1, <1>2, <1>3, JobTyped DEF Kinds

\* Of images nothing is said.
LEMMA ImageTrue ==
  ASSUME CacheTypeOK, NEW j \in Known, jobs[j].request.kind = "image", NEW f,
         f.folder = ResultFolder(j), f.part = "result" => f.whole
  PROVE  FileTrue(f)
<1>1. f.folder.top = "thumbnails"
  BY ResultFolderIs DEF Folder
<1> QED BY <1>1 DEF FileTrue

----------------------------------------------------------------------------
(* What a step of a job may change. *)

\* The other jobs stay, this one works on what it was asked for.
JobsKept ==
    /\ Known' = Known /\ jobs' \in [Known -> Job]
    /\ \A i \in Known : /\ jobs'[i].request = jobs[i].request
                        /\ jobs'[i].asset => jobs[i].asset \/ jobs[i].request.kind # "image"
                        /\ \/ jobs'[i] = jobs[i]
                           \/ jobs'[i].pc = "place" => jobs'[i].at \in Contents

LEMMA JobReplaced ==
  ASSUME CacheTypeOK, NEW j \in Known, NEW job \in Job,
         job.request = jobs[j].request,
         job.asset => jobs[j].asset \/ jobs[j].request.kind # "image",
         job.pc = "place" => job.at \in Contents,
         jobs' = [jobs EXCEPT ![j] = job]
  PROVE  JobsKept
<1>1. jobs \in [Known -> Job]
  BY DEF CacheTypeOK
<1>2. jobs' \in [Known -> Job]
  BY <1>1
<1>3. Known' = Known
  BY <1>2 DEF Known
<1>4. \A i \in Known : jobs'[i] = IF i = j THEN job ELSE jobs[i]
  BY <1>1
<1> QED BY <1>2, <1>3, <1>4 DEF JobsKept

LEMMA JobGoes ==
  ASSUME CacheTypeOK, NEW j \in Known, NEW pc,
         pc \in {"look", "fetch", "write", "publish", "check"},
         Goes(j, pc)
  PROVE  JobsKept
<1>1. PICK job \in Job : job = jobs[j]
  BY JobTyped
<1>2. PICK new : new = [job EXCEPT !.pc = pc]
  OBVIOUS
<1>3. new \in Job /\ new.request = job.request /\ new.asset = job.asset /\ new.pc # "place"
  BY <1>1, <1>2 DEF Job
<1>4. jobs' = [jobs EXCEPT ![j] = new]
  BY <1>1, <1>2 DEF Goes
<1> QED BY <1>1, <1>3, <1>4, JobReplaced

LEMMA JobSucceeds ==
  ASSUME CacheTypeOK, NEW j \in Known, Succeeds(j)
  PROVE  JobsKept
<1>1. PICK job \in Job : job = jobs[j]
  BY JobTyped
<1>2. PICK k \in BOOLEAN : k <=> job.request.kind # "image"
  BY Zenon
<1>3. PICK new : new = [job EXCEPT !.pc = "ended", !.got = {}, !.at = None, !.asset = k]
  OBVIOUS
<1>4. new \in Job /\ new.request = job.request /\ new.asset = k /\ new.pc # "place"
  BY <1>1, <1>3 DEF Job
<1>5. jobs' = [jobs EXCEPT ![j] = new]
  <2>1. k = (jobs[j].request.kind # "image")
    BY <1>1, <1>2
  <2> QED BY <1>1, <1>3, <2>1 DEF Succeeds
<1> QED BY <1>1, <1>2, <1>4, <1>5, JobReplaced

LEMMA JobFails ==
  ASSUME CacheTypeOK, NEW j \in Known, Fails(j)
  PROVE  JobsKept
<1>1. PICK job \in Job : job = jobs[j]
  BY JobTyped
<1>2. PICK new : new = [job EXCEPT !.pc = "ended", !.got = {}, !.at = None]
  OBVIOUS
<1>3. new \in Job /\ new.request = job.request /\ new.asset = job.asset /\ new.pc # "place"
  BY <1>1, <1>2 DEF Job
<1>4. jobs' = [jobs EXCEPT ![j] = new]
  BY <1>1, <1>2 DEF Fails
<1> QED BY <1>1, <1>3, <1>4, JobReplaced

LEMMA FileTyped ==
  ASSUME NEW d \in Folders, NEW part \in {"source", "copy", "part", "picture", "result"},
         NEW of \in Origins, NEW whole \in BOOLEAN
  PROVE  File(d, part, of, whole) \in Files
BY DEF File, Files

LEMMA CopyTyped ==
  ASSUME NEW d \in Folders, NEW j \in JobIds, NEW c \in Contents
  PROVE  Copy(d, j, c) \in Files
BY DEF Copy, Files, Origins

LEMMA HasTyped ==
  ASSUME CacheTypeOK, NEW new \in SUBSET Files, NEW gone, NEW made \in SUBSET Folders,
         Has(new, gone, made)
  PROVE  /\ folders' \subseteq Folders /\ files' \subseteq Files /\ fresh' \subseteq Names
         /\ files' \subseteq files \cup new
<1>1. /\ folders' = folders \cup made /\ files' = (files \ gone) \cup new
      /\ fresh' \subseteq fresh \cup {Name(f) : f \in new} \cup {Place(d, "folder") : d \in made}
  BY DEF Has
<1>2. \A f \in new : Name(f) \in Names
  BY DEF Name, Names, Files
<1>3. \A d \in made : Place(d, "folder") \in Names
  BY DEF Place, Names
<1> QED BY <1>1, <1>2, <1>3 DEF CacheTypeOK

\* A step of a job keeps the invariant if the files it leaves are true.
LEMMA CacheKept ==
  ASSUME CacheInv, JobsKept, JobOnly,
         folders' \subseteq Folders, files' \subseteq Files, fresh' \subseteq Names,
         troubles' \in 0..MaxTroubles,
         \A f \in files' : f \in files \/ FileTrue(f)
  PROVE  CacheInv'
<1>1. CacheTypeOK'
  <2>1. jobs' \in [Known' -> Job] /\ Known' \subseteq JobIds
    BY DEF CacheInv, CacheTypeOK, JobsKept
  <2>2. /\ removing' \in Folders \cup {None} /\ sending' \in Known' \cup {None}
        /\ garbled' \in BOOLEAN /\ evictions' \in 0..MaxEvictions
    BY DEF CacheInv, CacheTypeOK, JobsKept, JobOnly
  <2> QED BY <2>1, <2>2 DEF CacheTypeOK
<1>2. \A f : FileTrue(f) => FileTrue(f)'
  BY DEF FileTrue, Wanted, JobsKept
<1>3. FilesTrue'
  BY <1>2 DEF CacheInv, FilesTrue
<1>4. AssetInv'
  BY DEF CacheInv, AssetInv, JobsKept, JobOnly, CacheTypeOK
<1> QED BY <1>1, <1>3, <1>4 DEF CacheInv

\* In particular if it leaves the cache alone.
LEMMA CacheAlone ==
  ASSUME CacheInv, JobsKept, JobOnly, UNCHANGED cache, troubles' \in 0..MaxTroubles
  PROVE  CacheInv'
<1>1. folders' \subseteq Folders /\ files' \subseteq Files /\ fresh' \subseteq Names /\ files' = files
  BY DEF CacheInv, CacheTypeOK, cache
<1> QED BY <1>1, CacheKept

LEMMA TroubleTyped ==
  ASSUME CacheTypeOK, Trouble \/ UNCHANGED troubles
  PROVE  troubles' \in 0..MaxTroubles
BY CacheConstants DEF CacheTypeOK, Trouble

----------------------------------------------------------------------------
(* The steps of the jobs. *)

LEMMA RequestStep ==
  ASSUME CacheInv, NEW r \in Asked, Request(r)
  PROVE  CacheInv'
<1> DEFINE new == Cardinality(Known) + 1
           job == [request |-> r, pc |-> "queued", got |-> {}, at |-> None, asset |-> FALSE]
<1>1. /\ new \in JobIds
      /\ jobs' = [i \in Known \cup {new} |-> IF i \in Known THEN jobs[i] ELSE job]
      /\ UNCHANGED <<cache, removing, sending, garbled, evictions, troubles>>
  BY DEF Request
<1>2. job \in Job
  BY DEF Job
<1>3. Known' = Known \cup {new}
  BY <1>1 DEF Known
<1>4. /\ \A i \in Known : jobs'[i] = jobs[i] /\ jobs[i] \in Job
      /\ \A i \in Known' : i \notin Known => jobs'[i] = job
  BY <1>1, <1>3 DEF CacheInv, CacheTypeOK
<1> HIDE DEF job, new
<1>5. CacheTypeOK'
  <2>1. jobs' = [i \in Known' |-> jobs'[i]]
    BY <1>1, <1>3
  <2>2. \A i \in Known' : jobs'[i] \in Job
    BY <1>2, <1>4
  <2>3. jobs' \in [Known' -> Job]
    BY <2>1, <2>2
  <2>4. Known' \subseteq JobIds /\ sending' \in Known' \cup {None}
    BY <1>1, <1>3 DEF CacheInv, CacheTypeOK
  <2> QED BY <1>1, <2>3, <2>4 DEF CacheInv, CacheTypeOK, cache
<1>6. \A f : FileTrue(f) => FileTrue(f)'
  BY <1>3, <1>4 DEF FileTrue, Wanted
<1>7. FilesTrue'
  BY <1>1, <1>6 DEF CacheInv, FilesTrue, cache
<1>8. AssetInv'
  <2>1. ~job.asset
    BY DEF job
  <2>2. \A j \in Known' : jobs'[j].asset => jobs'[j].request.kind # "image"
    BY <1>4, <2>1 DEF CacheInv, AssetInv
  <2>4. job.pc # "place"
    BY DEF job
  <2>5. \A j \in Known' : jobs'[j].pc = "place" => jobs'[j].at \in Contents
    BY <1>4, <2>4 DEF CacheInv, AssetInv
  <2>3. sending' # None => jobs'[sending'].request.kind # "image"
    BY <1>1, <1>4 DEF CacheInv, AssetInv, CacheTypeOK
  <2> QED BY <2>2, <2>3, <2>5 DEF AssetInv
<1> QED BY <1>5, <1>7, <1>8 DEF CacheInv

LEMMA StartJobStep ==
  ASSUME CacheInv, NEW j \in Known, StartJob(j)
  PROVE  CacheInv'
<1>1. CacheTypeOK /\ JobOnly /\ UNCHANGED cache /\ UNCHANGED troubles
  BY DEF CacheInv, StartJob
<1>2. JobsKept
  BY <1>1, JobGoes DEF StartJob
<1> QED BY <1>1, <1>2, TroubleTyped, CacheAlone

LEMMA LookStep ==
  ASSUME CacheInv, NEW j \in Known, Look(j)
  PROVE  CacheInv'
<1> DEFINE d == ResultFolder(j)
<1>1. CacheTypeOK /\ JobOnly /\ UNCHANGED troubles /\ troubles' \in 0..MaxTroubles
  BY TroubleTyped DEF CacheInv, Look
<1>2. CASE /\ Succeeds(j)
           /\ fresh' = fresh \cup
                (IF jobs[j].request.kind = "image" THEN {} ELSE {Place(d, "result")})
           /\ UNCHANGED <<folders, files>>
  <2>1. Place(d, "result") \in Names
    BY <1>1, ResultFolderIs DEF Place, Names
  <2>2. folders' \subseteq Folders /\ files' \subseteq Files /\ fresh' \subseteq Names
    BY <1>1, <1>2, <2>1 DEF CacheTypeOK
  <2>3. JobsKept
    BY <1>1, <1>2, JobSucceeds
  <2> QED BY <1>1, <1>2, <2>2, <2>3, CacheKept
<1>3. CASE /\ Goes(j, "fetch")
           /\ Has({}, IF jobs[j].request.kind = "image" THEN {} ELSE In(d, "result"),
                  IF jobs[j].request.kind \in {"preview", "download"} THEN {d} ELSE {})
  <2>1. JobsKept
    BY <1>1, <1>3, JobGoes
  <2>2. (IF jobs[j].request.kind \in {"preview", "download"} THEN {d} ELSE {}) \in SUBSET Folders
    BY <1>1, ResultFolderIs
  <2>3. /\ folders' \subseteq Folders /\ files' \subseteq Files /\ fresh' \subseteq Names
        /\ files' \subseteq files \cup {}
    <3>1. {} \in SUBSET Files
      OBVIOUS
    <3> HIDE DEF d
    <3> QED BY <1>1, <1>3, <2>2, <3>1, HasTyped
  <2> QED BY <1>1, <2>1, <2>3, CacheKept
<1> QED BY <1>2, <1>3 DEF Look

LEMMA UseSourceStep ==
  ASSUME CacheInv, NEW j \in Known, NEW c \in Contents, UseSource(j, c)
  PROVE  CacheInv'
<1>1. CacheTypeOK /\ JobOnly /\ UNCHANGED cache /\ UNCHANGED troubles /\ troubles' \in 0..MaxTroubles
  BY TroubleTyped DEF CacheInv, UseSource
<1>2. JobsKept
  <2>1. PICK job \in Job : job = jobs[j]
    BY <1>1, JobTyped
  <2>2. PICK new : new = [job EXCEPT !.got = @ \cup {c}]
    OBVIOUS
  <2>3. /\ new \in Job /\ new.request = job.request /\ new.asset = job.asset
        /\ new.pc # "place"
    BY <2>1, <2>2 DEF Job, UseSource
  <2>4. jobs' = [jobs EXCEPT ![j] = new]
    BY <2>1, <2>2 DEF UseSource
  <2> QED BY <1>1, <2>1, <2>3, <2>4, JobReplaced
<1> QED BY <1>1, <1>2, CacheAlone

LEMMA ExportSourceStep ==
  ASSUME CacheInv, NEW j \in Known, NEW c \in Contents, ExportSource(j, c)
  PROVE  CacheInv'
<1> DEFINE d == SourceFolder(j, c)
<1>1. CacheTypeOK /\ JobOnly /\ d \in Folders /\ j \in JobIds
  BY SourceFolderTyped, JobTyped DEF CacheInv, ExportSource
<1>2. troubles' \in 0..MaxTroubles
  BY <1>1, TroubleTyped DEF ExportSource
<1> HIDE DEF d
<1>3. CASE /\ jobs' = [jobs EXCEPT ![j].pc = "place", ![j].at = c]
           /\ Has({Copy(d, j, c)}, {}, {d})
  <2>1. JobsKept
    <3>1. PICK job \in Job : job = jobs[j]
      BY <1>1, JobTyped
    <3>2. PICK new : new = [job EXCEPT !.pc = "place", !.at = c]
      OBVIOUS
    <3>3. /\ new \in Job /\ new.request = job.request /\ new.asset = job.asset
          /\ new.at = c
      BY <3>1, <3>2 DEF Job
    <3>4. jobs' = [jobs EXCEPT ![j] = new]
      BY <1>3, <3>1, <3>2 DEF CacheTypeOK, Job
    <3> QED BY <1>1, <3>1, <3>3, <3>4, JobReplaced
  <2>2. {Copy(d, j, c)} \in SUBSET Files /\ {d} \in SUBSET Folders
    BY <1>1, CopyTyped
  <2>3. /\ folders' \subseteq Folders /\ files' \subseteq Files /\ fresh' \subseteq Names
        /\ files' \subseteq files \cup {Copy(d, j, c)}
    BY <1>1, <1>3, <2>2, HasTyped
  <2>4. FileTrue(Copy(d, j, c))
    BY DEF FileTrue, Copy
  <2> QED BY <1>1, <1>2, <2>1, <2>3, <2>4, CacheKept
<1>4. CASE /\ jobs' = [jobs EXCEPT ![j].got = @ \cup {c}]
           /\ Has({File(d, "source", c, TRUE)}, {}, {d})
  <2>1. JobsKept
    <3>1. PICK job \in Job : job = jobs[j]
      BY <1>1, JobTyped
    <3>2. PICK new : new = [job EXCEPT !.got = @ \cup {c}]
      OBVIOUS
    <3>3. /\ new \in Job /\ new.request = job.request /\ new.asset = job.asset
          /\ new.pc # "place"
      BY <3>1, <3>2 DEF Job, ExportSource
    <3>4. jobs' = [jobs EXCEPT ![j] = new]
      BY <1>4, <3>1, <3>2
    <3> QED BY <1>1, <3>1, <3>3, <3>4, JobReplaced
  <2>2. {File(d, "source", c, TRUE)} \in SUBSET Files /\ {d} \in SUBSET Folders
    BY <1>1, FileTyped DEF Origins
  <2>3. /\ folders' \subseteq Folders /\ files' \subseteq Files /\ fresh' \subseteq Names
        /\ files' \subseteq files \cup {File(d, "source", c, TRUE)}
    BY <1>1, <1>4, <2>2, HasTyped
  <2>4. FileTrue(File(d, "source", c, TRUE))
    BY DEF FileTrue, File
  <2> QED BY <1>1, <1>2, <2>1, <2>3, <2>4, CacheKept
<1>5. CASE Fails(j) /\ UNCHANGED cache
  BY <1>1, <1>2, <1>5, JobFails, CacheAlone
<1> QED BY <1>3, <1>4, <1>5 DEF ExportSource, d

LEMMA PlaceSourceStep ==
  ASSUME CacheInv, NEW j \in Known, PlaceSource(j)
  PROVE  CacheInv'
<1>1. CacheTypeOK /\ JobOnly /\ UNCHANGED troubles /\ troubles' \in 0..MaxTroubles
  BY TroubleTyped DEF CacheInv, PlaceSource
<1>2. PICK c \in Contents : c = jobs[j].at
  BY DEF PlaceSource, CacheInv, AssetInv
<1>3. PICK d \in Folders : d = SourceFolder(j, c)
  BY <1>1, SourceFolderTyped
<1>4. PICK copy : copy = Copy(d, j, c)
  OBVIOUS
<1>5. PICK placed : placed = File(d, "source", c, TRUE)
  OBVIOUS
<1>6. copy.folder = d
  BY <1>4 DEF Copy
<1>7. JobsKept
  <2>1. PICK job \in Job : job = jobs[j]
    BY <1>1, JobTyped
  <2>2. PICK new : new = [job EXCEPT !.pc = "fetch", !.at = None, !.got = @ \cup {c}]
    OBVIOUS
  <2>3. /\ new \in Job /\ new.request = job.request /\ new.asset = job.asset
        /\ new.pc # "place"
    BY <2>1, <2>2 DEF Job
  <2>4. jobs' = [jobs EXCEPT ![j] = new]
    BY <1>2, <2>1, <2>2 DEF PlaceSource
  <2> QED BY <1>1, <2>1, <2>3, <2>4, JobReplaced
<1>8. CASE Has({placed}, {copy}, {})
  <2>1. {placed} \in SUBSET Files /\ {} \in SUBSET Folders
    BY <1>5, FileTyped DEF Origins
  <2>2. /\ folders' \subseteq Folders /\ files' \subseteq Files /\ fresh' \subseteq Names
        /\ files' \subseteq files \cup {placed}
    BY <1>1, <1>8, <2>1, HasTyped
  <2>3. FileTrue(placed)
    BY <1>5 DEF FileTrue, File
  <2> QED BY <1>1, <1>7, <2>2, <2>3, CacheKept
<1>9. CASE UNCHANGED cache
  BY <1>1, <1>7, <1>9, CacheAlone
<1> QED BY <1>2, <1>3, <1>4, <1>5, <1>6, <1>8, <1>9 DEF PlaceSource

LEMMA RenderStep ==
  ASSUME CacheInv, NEW j \in Known, Render(j)
  PROVE  CacheInv'
<1>1. CacheTypeOK /\ JobOnly
  BY DEF CacheInv, Render
<1>2. JobsKept /\ troubles' \in 0..MaxTroubles
  <2>1. Goes(j, "write") \/ Fails(j)
    BY DEF Render
  <2>2. Trouble \/ UNCHANGED troubles
    BY DEF Render
  <2> QED BY <1>1, <2>1, <2>2, JobGoes, JobFails, TroubleTyped
<1>3. folders' \subseteq folders /\ files' \subseteq files /\ fresh' \subseteq fresh
  BY DEF Render, cache
<1>4. folders' \subseteq Folders /\ files' \subseteq Files /\ fresh' \subseteq Names
  BY <1>1, <1>3 DEF CacheTypeOK
<1> QED BY <1>1, <1>2, <1>3, <1>4, CacheKept

LEMMA WriteStep ==
  ASSUME CacheInv, NEW j \in Known, Write(j)
  PROVE  CacheInv'
<1>1. CacheTypeOK /\ JobOnly /\ UNCHANGED troubles /\ troubles' \in 0..MaxTroubles
  BY TroubleTyped DEF CacheInv, Write
<1>2. PICK d \in Folders : d = ResultFolder(j)
  BY <1>1, ResultFolderIs
<1>3. PICK part : part = File(d, "part", Wanted(j), FALSE)
  OBVIOUS
<1>4. PICK picture : picture = File(d, "picture", Wanted(j), TRUE)
  OBVIOUS
<1>5. part \in Files /\ picture \in Files /\ part.part # "result" /\ picture.part # "result"
  <2>1. part \in Files /\ picture \in Files
    BY <1>1, <1>3, <1>4, JobTyped, FileTyped
  <2> QED BY <1>3, <1>4, <2>1 DEF File
<1>6. CASE Fails(j) /\ UNCHANGED cache
  BY <1>1, <1>6, JobFails, CacheAlone
<1>7. ASSUME NEW new \in SUBSET {part, picture}, NEW gone, NEW made \in SUBSET {d},
             Goes(j, "publish"), Has(new, gone, made)
      PROVE  CacheInv'
  <2>1. JobsKept
    BY <1>1, <1>7, JobGoes
  <2>2. new \in SUBSET Files /\ made \in SUBSET Folders
    BY <1>2, <1>5
  <2>3. /\ folders' \subseteq Folders /\ files' \subseteq Files /\ fresh' \subseteq Names
        /\ files' \subseteq files \cup new
    BY <1>1, <1>7, <2>2, HasTyped
  <2>4. \A f \in new : FileTrue(f)
    BY <1>5 DEF FileTrue
  <2> QED BY <1>1, <2>1, <2>3, <2>4, CacheKept
<1>8. CASE jobs[j].request.kind = "image" /\ Goes(j, "publish")
           /\ Has({part} \cup {picture}, In(d, "part") \cup In(d, "picture"), {d})
  BY <1>7, <1>8
<1>9. CASE jobs[j].request.kind # "image" /\ Goes(j, "publish")
           /\ Has({part} \cup {}, In(d, "part") \cup {}, {})
  BY <1>7, <1>9
<1> QED BY <1>2, <1>3, <1>4, <1>6, <1>8, <1>9 DEF Write, Wanted

\* A result that is put into the folder of its job.
LEMMA ResultTrue ==
  ASSUME CacheTypeOK, NEW j \in Known
  PROVE  /\ File(ResultFolder(j), "result", Wanted(j), TRUE) \in Files
         /\ FileTrue(File(ResultFolder(j), "result", Wanted(j), TRUE))
<1>1. PICK f : f = File(ResultFolder(j), "result", Wanted(j), TRUE)
  OBVIOUS
<1>2. f \in Files
  BY <1>1, ResultFolderIs, JobTyped, FileTyped
<1>3. f.folder = ResultFolder(j) /\ f.whole /\ f.of = Wanted(j)
  BY <1>1 DEF File
<1>4. FileTrue(f)
  BY <1>3, WhatJobMakes, ImageTrue
<1> QED BY <1>1, <1>2, <1>4

LEMMA PublishStep ==
  ASSUME CacheInv, NEW j \in Known, Publish(j)
  PROVE  CacheInv'
<1>1. CacheTypeOK /\ JobOnly /\ UNCHANGED troubles /\ troubles' \in 0..MaxTroubles
  BY TroubleTyped DEF CacheInv, Publish
<1>2. PICK d \in Folders : d = ResultFolder(j)
  BY <1>1, ResultFolderIs
<1>3. PICK f \in Files : f = File(d, "result", Wanted(j), TRUE) /\ FileTrue(f)
  BY <1>1, <1>2, ResultTrue
<1>4. CASE Fails(j) /\ UNCHANGED cache
  BY <1>1, <1>4, JobFails, CacheAlone
<1>5. CASE Succeeds(j) /\ Has({f}, In(d, "result") \cup In(d, "part"), {})
  <2>1. JobsKept
    BY <1>1, <1>5, JobSucceeds
  <2>2. {f} \in SUBSET Files /\ {} \in SUBSET Folders
    OBVIOUS
  <2>3. /\ folders' \subseteq Folders /\ files' \subseteq Files /\ fresh' \subseteq Names
        /\ files' \subseteq files \cup {f}
    BY <1>1, <1>5, <2>2, HasTyped
  <2> QED BY <1>1, <1>3, <2>1, <2>3, CacheKept
<1> QED BY <1>2, <1>3, <1>4, <1>5 DEF Publish, Wanted

LEMMA DownloadStep ==
  ASSUME CacheInv, NEW j \in Known, Download(j)
  PROVE  CacheInv'
<1>1. CacheTypeOK /\ JobOnly
  BY DEF CacheInv, Download
<1>2. troubles' \in 0..MaxTroubles
  BY <1>1, TroubleTyped DEF Download
<1>3. PICK d \in Folders : d = ResultFolder(j)
  BY <1>1, ResultFolderIs
<1>4. PICK f \in Files : f = File(d, "result", Wanted(j), TRUE) /\ FileTrue(f)
  BY <1>1, <1>3, ResultTrue
<1>5. CASE Fails(j) /\ UNCHANGED cache
  BY <1>1, <1>2, <1>5, JobFails, CacheAlone
<1>6. CASE Goes(j, "check") /\ Has({f}, {}, {})
  <2>1. JobsKept
    BY <1>1, <1>6, JobGoes
  <2>2. {f} \in SUBSET Files /\ {} \in SUBSET Folders
    OBVIOUS
  <2>3. /\ folders' \subseteq Folders /\ files' \subseteq Files /\ fresh' \subseteq Names
        /\ files' \subseteq files \cup {f}
    BY <1>1, <1>6, <2>2, HasTyped
  <2> QED BY <1>1, <1>2, <1>4, <2>1, <2>3, CacheKept
<1> QED BY <1>3, <1>4, <1>5, <1>6 DEF Download, Wanted

LEMMA CheckDownloadStep ==
  ASSUME CacheInv, NEW j \in Known, CheckDownload(j)
  PROVE  CacheInv'
<1>1. CacheTypeOK /\ JobOnly /\ UNCHANGED cache /\ UNCHANGED troubles /\ troubles' \in 0..MaxTroubles
  BY TroubleTyped DEF CacheInv, CheckDownload
<1>2. Succeeds(j) \/ Fails(j)
  BY DEF CheckDownload
<1> QED BY <1>1, <1>2, JobSucceeds, JobFails, CacheAlone

----------------------------------------------------------------------------
(* Clients, time and the sweep. *)

\* What is removed from the cache, or gets old, breaks nothing.
LEMMA CacheShrinks ==
  ASSUME CacheInv, folders' \subseteq folders, files' \subseteq files, fresh' \subseteq fresh,
         Known' = Known, jobs' \in [Known -> Job],
         \A i \in Known : /\ jobs'[i].request = jobs[i].request
                          /\ jobs'[i].asset => jobs[i].asset
                          /\ jobs'[i].pc = "place" => jobs'[i].at \in Contents,
         removing' \in Folders \cup {None},
         sending' = sending \/ sending' = None \/ (sending' \in Known /\ jobs[sending'].asset),
         garbled' \in BOOLEAN, evictions' \in 0..MaxEvictions, troubles' \in 0..MaxTroubles
  PROVE  CacheInv'
<1>1. CacheTypeOK'
  <2>1. jobs' \in [Known' -> Job] /\ Known' \subseteq JobIds
    BY DEF CacheInv, CacheTypeOK
  <2>2. folders' \subseteq Folders /\ files' \subseteq Files /\ fresh' \subseteq Names
    BY DEF CacheInv, CacheTypeOK
  <2>3. sending' \in Known' \cup {None}
    BY DEF CacheInv, CacheTypeOK
  <2> QED BY <2>1, <2>2, <2>3 DEF CacheTypeOK
<1>2. \A f : FileTrue(f) => FileTrue(f)'
  BY DEF FileTrue, Wanted
<1>3. FilesTrue'
  BY <1>2 DEF CacheInv, FilesTrue
<1>4. AssetInv'
  <2>1. \A j \in Known' : jobs'[j].asset => jobs'[j].request.kind # "image"
    BY DEF CacheInv, AssetInv
  <2>2. sending' # None => jobs'[sending'].request.kind # "image"
    BY DEF CacheInv, AssetInv, CacheTypeOK
  <2> QED BY <2>1, <2>2 DEF AssetInv
<1> QED BY <1>1, <1>3, <1>4 DEF CacheInv

\* The jobs as they are.
LEMMA JobsAsTheyAre ==
  ASSUME CacheInv, UNCHANGED jobs
  PROVE  /\ Known' = Known /\ jobs' \in [Known -> Job]
         /\ \A i \in Known : /\ jobs'[i].request = jobs[i].request
                             /\ jobs'[i].asset => jobs[i].asset
                             /\ jobs'[i].pc = "place" => jobs'[i].at \in Contents
BY DEF CacheInv, CacheTypeOK, AssetInv, Known

\* What the types say of the small variables.
LEMMA CacheTyped ==
  ASSUME CacheInv
  PROVE  /\ removing \in Folders \cup {None} /\ garbled \in BOOLEAN
         /\ evictions \in 0..MaxEvictions /\ troubles \in 0..MaxTroubles
BY DEF CacheInv, CacheTypeOK

LEMMA PromiseStep ==
  ASSUME CacheInv, NEW j \in Known, Promise(j)
  PROVE  CacheInv'
<1>1. UNCHANGED <<removing, garbled, evictions, troubles>>
  BY DEF Promise
<1>2. CASE sending' = j /\ UNCHANGED <<jobs, cache>>
  <2>1. jobs[j].asset
    BY DEF Promise
  <2> QED BY <1>1, <1>2, <2>1, JobsAsTheyAre, CacheTyped, CacheShrinks DEF cache
<1>3. CASE /\ jobs' = [jobs EXCEPT ![j].asset = FALSE]
           /\ UNCHANGED sending
           /\ folders' \subseteq folders /\ files' \subseteq files /\ fresh' \subseteq fresh
  <2>1. PICK job \in Job : job = jobs[j]
    BY JobTyped DEF CacheInv
  <2>2. PICK new : new = [job EXCEPT !.asset = FALSE]
    OBVIOUS
  <2>3. /\ new \in Job /\ new.request = job.request /\ ~new.asset
        /\ new.pc = job.pc /\ new.at = job.at
    BY <2>1, <2>2 DEF Job
  <2>4. jobs' = [jobs EXCEPT ![j] = new]
    BY <1>3, <2>1, <2>2
  <2>5. jobs \in [Known -> Job] /\ \A i \in Known : jobs[i].pc = "place" => jobs[i].at \in Contents
    BY DEF CacheInv, CacheTypeOK, AssetInv
  <2>6. jobs' \in [Known -> Job] /\ Known' = Known
    <3>1. jobs' \in [Known -> Job]
      BY <2>3, <2>4, <2>5
    <3> QED BY <3>1 DEF Known
  <2>7. \A i \in Known : /\ jobs'[i].request = jobs[i].request
                         /\ jobs'[i].asset => jobs[i].asset
                         /\ jobs'[i].pc = "place" => jobs'[i].at \in Contents
    BY <2>1, <2>3, <2>4, <2>5
  <2> QED BY <1>1, <1>3, <2>6, <2>7, CacheTyped, CacheShrinks
<1> QED BY <1>2, <1>3 DEF Promise, Has

LEMMA SendStep ==
  ASSUME CacheInv, Send
  PROVE  CacheInv'
<1>1. sending' = None /\ UNCHANGED <<jobs, cache, removing, evictions, troubles>>
  BY DEF Send
<1>2. garbled' \in BOOLEAN
  BY CacheTyped, Zenon DEF Send
<1> QED BY <1>1, <1>2, JobsAsTheyAre, CacheTyped, CacheShrinks DEF cache

\* What is sent is what was asked for.
LEMMA SentTrue ==
  ASSUME CacheInv, Send, ~garbled
  PROVE  ~garbled'
<1>1. PICK j \in Known : j = sending
  BY DEF CacheInv, CacheTypeOK, Send
<1>2. jobs[j].request.kind # "image"
  BY <1>1 DEF CacheInv, AssetInv, Send
<1>3. \A f \in In(ResultFolder(j), "result") : f.whole /\ f.of = Wanted(j)
  <2> SUFFICES ASSUME NEW f \in In(ResultFolder(j), "result") PROVE f.whole /\ f.of = Wanted(j)
    OBVIOUS
  <2>1. f \in files /\ f.folder = ResultFolder(j) /\ f.part = "result"
    BY DEF In
  <2>2. FileTrue(f)
    BY <2>1 DEF CacheInv, FilesTrue
  <2> QED BY <1>2, <2>1, <2>2, WhatJobMakes DEF CacheInv
<1>4. ~ \E f \in In(ResultFolder(j), "result") : ~f.whole \/ f.of # Wanted(j)
  BY <1>3
<1> QED BY <1>1, <1>4, Zenon DEF Send, Wanted

LEMMA AgesStep ==
  ASSUME CacheInv, NEW d, Ages(d)
  PROVE  CacheInv'
<1>1. fresh' \subseteq fresh /\ UNCHANGED <<jobs, folders, files, removing, sending, garbled, evictions, troubles>>
  BY DEF Ages
<1> QED BY <1>1, JobsAsTheyAre, CacheTyped, CacheShrinks

LEMMA EntriesTyped ==
  ASSUME CacheInv
  PROVE  Entries \subseteq Folders
BY DEF CacheInv, CacheTypeOK, Entries, Files

LEMMA EvictStep ==
  ASSUME CacheInv, NEW d \in Entries, Evict(d) \/ Expires(d)
  PROVE  CacheInv'
<1>1. removing' = d /\ UNCHANGED <<jobs, cache, sending, garbled, troubles>>
  BY DEF Evict, Expires
<1>2. evictions' \in 0..MaxEvictions
  <2>1. evictions' = evictions \/ (evictions < MaxEvictions /\ evictions' = evictions + 1)
    BY DEF Evict, Expires
  <2> QED BY <2>1, CacheTyped, CacheConstants
<1>3. d \in Folders
  BY EntriesTyped
<1> QED BY <1>1, <1>2, <1>3, JobsAsTheyAre, CacheTyped, CacheShrinks DEF cache

LEMMA RemovalStep ==
  ASSUME CacheInv, (\E f \in files : RemoveFile(f)) \/ RemoveFolder \/ GiveUp
  PROVE  CacheInv'
<1>1. folders' \subseteq folders /\ files' \subseteq files /\ fresh' \subseteq fresh
  BY DEF RemoveFile, RemoveFolder, GiveUp, cache
<1>2. removing' = removing \/ removing' = None
  BY DEF RemoveFile, RemoveFolder, GiveUp
<1>3. UNCHANGED <<jobs, sending, garbled, evictions>> /\ (Trouble \/ UNCHANGED troubles)
  BY DEF RemoveFile, RemoveFolder, GiveUp
<1>4. troubles' \in 0..MaxTroubles
  BY <1>3, TroubleTyped DEF CacheInv
<1> QED BY <1>1, <1>2, <1>3, <1>4, JobsAsTheyAre, CacheTyped, CacheShrinks

LEMMA ServiceDiesStep ==
  ASSUME CacheInv, ServiceDies
  PROVE  CacheInv'
<1>1. /\ jobs' = [j \in Known |-> [jobs[j] EXCEPT !.pc = "ended", !.got = {}, !.at = None]]
      /\ removing' = None /\ sending' = None
      /\ UNCHANGED <<cache, garbled, evictions>> /\ Trouble
  BY DEF ServiceDies
<1>2. \A j \in Known : /\ jobs'[j] \in Job
                       /\ jobs'[j].request = jobs[j].request /\ jobs'[j].asset = jobs[j].asset
                       /\ jobs'[j].pc # "place"
  <2> SUFFICES ASSUME NEW j \in Known
               PROVE  /\ jobs'[j] \in Job
                      /\ jobs'[j].request = jobs[j].request /\ jobs'[j].asset = jobs[j].asset
                      /\ jobs'[j].pc # "place"
    OBVIOUS
  <2>1. PICK job \in Job : job = jobs[j]
    BY JobTyped DEF CacheInv
  <2>2. jobs'[j] = [job EXCEPT !.pc = "ended", !.got = {}, !.at = None]
    BY <1>1, <2>1
  <2> QED BY <2>1, <2>2 DEF Job
<1>3. jobs' \in [Known -> Job] /\ Known' = Known
  <2>1. jobs' = [j \in Known |-> jobs'[j]]
    BY <1>1
  <2>2. jobs' \in [Known -> Job]
    BY <1>2, <2>1
  <2> QED BY <2>2 DEF Known
<1>4. troubles' \in 0..MaxTroubles
  BY <1>1, TroubleTyped DEF CacheInv
<1> QED BY <1>1, <1>2, <1>3, <1>4, CacheTyped, CacheShrinks DEF cache

----------------------------------------------------------------------------
(* The theorems. *)

LEMMA CacheStep == CacheInv /\ [CacheNext]_cacheVars => CacheInv'
<1> SUFFICES ASSUME CacheInv, [CacheNext]_cacheVars PROVE CacheInv'
  OBVIOUS
<1>1. CASE UNCHANGED cacheVars
  BY <1>1, JobsAsTheyAre, CacheTyped, CacheShrinks DEF cacheVars, cache
<1>2. ASSUME NEW j \in Known, JobStep(j) PROVE CacheInv'
  BY <1>2, StartJobStep, LookStep, RenderStep, WriteStep, PublishStep, PlaceSourceStep,
     DownloadStep, CheckDownloadStep, UseSourceStep, ExportSourceStep DEF JobStep
<1>3. CASE CacheNext
  BY <1>2, <1>3, RequestStep, PromiseStep, SendStep, RemovalStep, ServiceDiesStep, AgesStep,
     EvictStep DEF CacheNext, SweepStep
<1> QED BY <1>1, <1>3

LEMMA CacheInitInv == CacheInit => CacheInv
<1> SUFFICES ASSUME CacheInit PROVE CacheInv
  OBVIOUS
<1>1. Known = {} /\ jobs \in [Known -> Job]
  BY DEF CacheInit, Known
<1>2. garbled \in BOOLEAN
  BY Zenon DEF CacheInit
<1>3. CacheTypeOK
  BY <1>1, <1>2, CacheConstants DEF CacheInit, CacheTypeOK
<1>4. FilesTrue /\ AssetInv
  BY <1>1 DEF CacheInit, FilesTrue, AssetInv
<1> QED BY <1>3, <1>4 DEF CacheInv

\* Every variable of the cache has its type.
THEOREM CacheTypeCorrect == CacheSpec => []CacheTypeOK
<1>1. CacheInv => CacheTypeOK
  BY DEF CacheInv
<1> QED BY <1>1, CacheInitInv, CacheStep, PTL DEF CacheSpec

\* A client is sent what it was promised, whatever shared the folder with it,
\* was swept or evicted and made again, or was being written in a crash.
THEOREM ResultsAreTrue == CacheSpec => []ResultsTrue
<1>1. CacheInit => CacheInv /\ ResultsTrue
  BY CacheInitInv DEF CacheInit, ResultsTrue
<1>2. CacheInv /\ ResultsTrue /\ [CacheNext]_cacheVars => CacheInv' /\ ResultsTrue'
  <2> SUFFICES ASSUME CacheInv, ResultsTrue, [CacheNext]_cacheVars PROVE CacheInv' /\ ResultsTrue'
    OBVIOUS
  <2>1. CASE Send
    BY <2>1, SentTrue, CacheStep DEF ResultsTrue
  <2>2. CASE ~Send
    <3>1. garbled' = garbled
      BY <2>2 DEF CacheNext, cacheVars, Request, JobStep, StartJob, Look, Render, Write, Publish,
                  PlaceSource, Download, CheckDownload, UseSource, ExportSource, JobOnly, Promise,
                  SweepStep, Expires, RemoveFile, RemoveFolder, GiveUp, ServiceDies, Ages, Evict
    <3> QED BY <3>1, CacheStep DEF ResultsTrue
  <2> QED BY <2>1, <2>2
<1> QED BY <1>1, <1>2, PTL DEF CacheSpec
=============================================================================
