------------------------ MODULE WindowRequestsProofs ------------------------
(***************************************************************************)
(* What TLAPS proves of WindowRequests for every set of windows, every set *)
(* of jobs and every bound: while a job acts, its windows are held, quiet  *)
(* and without lost edits; a pause keeps the recorders away; and no window *)
(* stays held for nobody.                                                  *)
(*                                                                         *)
(* The job of the lane is the only client that holds and releases.  At     *)
(* most one of its requests is on its way, to the window it waits for, and *)
(* what was put behind it neither holds nor releases nor pauses.  So an    *)
(* old release that nobody waits for is handled before the hold that is    *)
(* answered, and nothing undoes the hold afterwards.                       *)
(***************************************************************************)
EXTENDS WindowRequests, TLAPS

\* Requests that neither hold nor pause.
Harmless == {"policy", "command"}

\* Where the job is decides what it holds and whom it waits for.
JobShape ==
    /\ job.pc \notin {"asked", "freeing"} => job.window = {}
    /\ job.pc \in {"asked", "freeing"} => \E w \in Windows : job.window = {w}
    /\ job.pc \in {"idle", "queued"} => job.holds = {}
    /\ job.pc \in {"act", "free", "freeing"} => job.kind \in Holding
    /\ job.pc # "idle" => job.kind \in Kinds
    /\ job.kind \notin Holding => job.holds = {}

\* What the job asked of window w and is still to be answered.
Awaited(w, r) ==
    /\ job.window = {w}
    /\ \/ job.pc = "asked" /\ r.kind = Verb(job.kind)
       \/ job.pc = "freeing" /\ r.kind = "release"

\* The request of the job is the last but for harmless ones.
InboxOf(w) ==
    \A i \in DOMAIN inbox[w] :
        /\ inbox[w][i].kind = "command" => inbox[w][i].from # "job"
        /\ inbox[w][i].from = "job" =>
             /\ Awaited(w, inbox[w][i])
             /\ \A j \in DOMAIN inbox[w] : j > i => inbox[w][j].kind \in Harmless

\* A thread that waits has told its recorder to stop, on behalf of a request
\* that stops it; or it waits for a command, which no job sends.
ThreadOf(w) ==
    /\ IF thread[w].draining
       THEN told[w] /\ recorder[w] # "none"
       ELSE thread[w].outer = NoRequest
    /\ thread[w].outer.kind \in {"none", "pause", "hold", "policy"}
    /\ thread[w].outer.from = "job" =>
         /\ Awaited(w, thread[w].outer)
         /\ \A i \in DOMAIN inbox[w] : inbox[w][i].kind \in Harmless
    /\ thread[w].command.kind \in {"none", "command"} /\ thread[w].command.from # "job"

\* A window whose hold was answered, until the job frees it.
Quiet(w) ==
    /\ held[w] /\ recorder[w] = "none" /\ ~lastLost[w]
    /\ \A i \in DOMAIN inbox[w] : inbox[w][i].kind # "release"

HoldInv ==
    job.pc \in {"ask", "asked", "act"} => \A w \in job.holds \ job.window : Quiet(w)

\* A window that will not record until its copy of the row changes.
Still(w) == copy[w].paused /\ (recorder[w] \in {"none", "ended"} \/ told[w])

PauseInv ==
    changes = 0 =>
      /\ notice.to = {} /\ scan = <<>>
      /\ promised => catalog.paused /\ \A w \in listed : Still(w)
      /\ job.kind = "pause" /\ job.pc \in {"ask", "asked"} =>
           /\ catalog.paused
           /\ \A w \in listed \ (job.todo \cup job.window) : Still(w)

\* Nobody gave up: only the job holds, and only what it holds is held.
HeldInv ==
    timeouts = 0 =>
      /\ \A w \in Windows :
           /\ \A i \in DOMAIN inbox[w] : inbox[w][i].kind \in {"hold", "release"} => inbox[w][i].from = "job"
           /\ thread[w].outer.kind = "hold" => thread[w].outer.from = "job"
      /\ \A w \in Windows : held[w] =>
           w \in job.holds \/ (job.pc = "freeing" /\ w \in job.window)

IInv ==
    /\ TypeOK /\ JobShape
    /\ \A w \in Windows : InboxOf(w) /\ ThreadOf(w)
    /\ HoldInv /\ PauseInv /\ HeldInv

----------------------------------------------------------------------------
(* Parts of the state. *)

LEMMA JobTyped ==
  ASSUME TypeOK
  PROVE  /\ job.kind \in Kinds \cup {"none"}
         /\ job.pc \in {"idle", "queued", "ask", "asked", "act", "free", "freeing"}
         /\ job.todo \subseteq Windows /\ job.holds \subseteq Windows /\ job.window \subseteq Windows
BY DEF TypeOK, Job

\* A request of a job is neither harmless nor nothing.
LEMMA Verbs ==
  ASSUME NEW kind \in Kinds
  PROVE  /\ Verb(kind) \in {"pause", "resume", "hold"}
         /\ Verb(kind) = "hold" <=> kind \in Holding
         /\ kind \notin Holding => Verb(kind) = kind
         /\ kind # "none"
BY WindowsAssumption DEF WindowsAssumption, Verb, Holding

LEMMA AwaitedKind ==
  ASSUME TypeOK, JobShape, NEW w \in Windows, NEW r, Awaited(w, r)
  PROVE  /\ r.kind \in {"pause", "resume", "hold", "release"}
         /\ job.pc \in {"asked", "freeing"} /\ job.kind \in Kinds /\ w \in job.window
         /\ job.pc = "asked" => r.kind = Verb(job.kind)
         /\ job.pc = "freeing" => r.kind = "release" /\ job.kind \in Holding
<1>1. job.kind \in Kinds
  BY DEF JobShape, Awaited
<1>2. QED
  BY <1>1, Verbs DEF JobShape, Awaited

\* What Send does to the inboxes.
LEMMA Sent ==
  ASSUME TypeOK, NEW w \in Windows, NEW kind, NEW from,
         [kind |-> kind, from |-> from] \in Request, Send(w, kind, from)
  PROVE  /\ inbox' \in [Windows -> Seq(Request)]
         /\ \A v \in Windows : v # w => inbox'[v] = inbox[v]
         /\ \A i \in DOMAIN inbox'[w] :
              \/ i \in DOMAIN inbox[w] /\ inbox'[w][i] = inbox[w][i]
              \/ /\ i = Len(inbox[w]) + 1 /\ inbox'[w][i] = [kind |-> kind, from |-> from]
                 /\ \A j \in DOMAIN inbox'[w] : ~(j > i)
<1>1. inbox \in [Windows -> Seq(Request)] /\ inbox[w] \in Seq(Request)
  BY DEF TypeOK
<1>2. inbox' = [inbox EXCEPT ![w] = Append(inbox[w], [kind |-> kind, from |-> from])]
  BY DEF Send
<1>3. Append(inbox[w], [kind |-> kind, from |-> from]) \in Seq(Request)
  BY <1>1
<1>4. inbox'[w] = Append(inbox[w], [kind |-> kind, from |-> from])
  BY <1>1, <1>2
<1>5. QED
  BY <1>1, <1>2, <1>3, <1>4

\* What taking the first request does to them.
LEMMA Taken ==
  ASSUME TypeOK, NEW w \in Windows, inbox[w] # <<>>, inbox' = [inbox EXCEPT ![w] = Tail(@)]
  PROVE  /\ Head(inbox[w]) \in Request /\ 1 \in DOMAIN inbox[w] /\ Head(inbox[w]) = inbox[w][1]
         /\ inbox' \in [Windows -> Seq(Request)]
         /\ \A v \in Windows : v # w => inbox'[v] = inbox[v]
         /\ \A i \in DOMAIN inbox'[w] : i + 1 \in DOMAIN inbox[w] /\ inbox'[w][i] = inbox[w][i + 1] /\ i + 1 > 1
<1>1. inbox \in [Windows -> Seq(Request)] /\ inbox[w] \in Seq(Request)
  BY DEF TypeOK
<1>2. Tail(inbox[w]) \in Seq(Request) /\ inbox'[w] = Tail(inbox[w])
  BY <1>1
<1>3. QED
  BY <1>1, <1>2

LEMMA PlaceTyped ==
  ASSUME TypeOK, NEW w \in Windows, NEW i \in DOMAIN inbox[w]
  PROVE  i \in Nat /\ inbox[w][i] \in Request
<1>1. inbox[w] \in Seq(Request)
  BY DEF TypeOK
<1>2. QED
  BY <1>1

----------------------------------------------------------------------------
(* Answers. *)

\* Nothing of the job is on its way once its request has been taken.
NothingAsked ==
    \A v \in Windows :
        /\ \A i \in DOMAIN inbox[v] : inbox[v][i].from # "job"
        /\ thread[v].outer.from # "job"

\* How the job goes on with an answer.
LEMMA Outcome ==
  ASSUME TypeOK, JobShape, NEW w \in Windows, NEW r, Awaited(w, r), NEW ok \in BOOLEAN,
         job' = IF ok THEN AfterAnswer ELSE AfterError
  PROVE  /\ job' \in Job /\ JobShape' /\ job'.window = {} /\ job'.pc \notin {"asked", "freeing"}
         /\ job'.holds = IF ok /\ job.pc = "asked" /\ job.kind \in Holding
                         THEN job.holds \cup {w} ELSE job.holds
         /\ job'.pc \in {"ask", "act"} =>
              /\ ok /\ job.pc = "asked" /\ job'.kind = job.kind /\ job'.todo = job.todo
              /\ job'.pc = "act" => job.kind \in Holding
<1> USE DEF Awaited
<1>1. job.kind \in Kinds /\ job.pc \in {"asked", "freeing"} /\ job.window = {w}
  BY DEF JobShape
<1>2. NoJob \in Job /\ NoJob.pc = "idle" /\ NoJob.window = {} /\ NoJob.holds = {} /\ NoJob.kind = "none"
  BY DEF NoJob, Job
<1>3. "none" \notin Holding
  BY DEF Holding
<1>4. CASE AfterError = NoJob /\ job.holds = {} /\ (~ok \/ job.pc = "freeing")
  <2>1. job' = NoJob
    BY <1>1, <1>4 DEF AfterAnswer
  <2>2. job.pc = "freeing" => job.holds = job'.holds
    BY <1>2, <1>4, <2>1
  <2>3. QED
    BY <1>1, <1>2, <1>3, <1>4, <2>1 DEF JobShape
<1>5. CASE job.kind \in Holding /\ job.holds # {} /\ (~ok \/ job.pc = "freeing")
  <2>1. job' = [job EXCEPT !.pc = "free", !.window = {}]
    BY <1>1, <1>5 DEF AfterAnswer, AfterError
  <2>2. /\ job' \in Job /\ job'.pc = "free" /\ job'.window = {} /\ job'.holds = job.holds
        /\ job'.kind = job.kind
    BY <2>1 DEF TypeOK, Job
  <2>3. QED
    BY <1>1, <1>5, <2>2 DEF JobShape
<1>6. CASE ok /\ job.pc = "asked"
  <2> DEFINE holds == IF job.kind \in Holding THEN job.holds \cup job.window ELSE {}
  <2>1. holds \subseteq Windows
    BY JobTyped
  <2>2. job.kind \notin Holding => job.holds = {}
    BY DEF JobShape
  <2>3. CASE job.todo # {}
    <3>1. job' = [job EXCEPT !.pc = "ask", !.window = {}, !.holds = holds]
      BY <1>6, <2>3 DEF AfterAnswer
    <3>2. /\ job' \in Job /\ job'.pc = "ask" /\ job'.window = {} /\ job'.holds = holds
          /\ job'.kind = job.kind /\ job'.todo = job.todo
      BY <2>1, <3>1 DEF TypeOK, Job
    <3>3. QED
      BY <1>1, <1>6, <2>2, <3>2 DEF JobShape
  <2>4. CASE job.todo = {} /\ job.kind \in Holding
    <3>1. job' = [job EXCEPT !.pc = "act", !.window = {}, !.holds = holds]
      BY <1>6, <2>4 DEF AfterAnswer
    <3>2. /\ job' \in Job /\ job'.pc = "act" /\ job'.window = {} /\ job'.holds = holds
          /\ job'.kind = job.kind /\ job'.todo = job.todo
      BY <2>1, <3>1 DEF TypeOK, Job
    <3>3. QED
      BY <1>1, <1>6, <2>2, <2>4, <3>2 DEF JobShape
  <2>5. CASE job.todo = {} /\ job.kind \notin Holding
    <3>1. job' = NoJob
      BY <1>6, <2>5 DEF AfterAnswer
    <3>2. QED
      BY <1>2, <1>3, <2>2, <2>5, <3>1 DEF JobShape
  <2>6. QED
    BY <2>3, <2>4, <2>5
<1>7. ~(job.kind \in Holding /\ job.holds # {}) => AfterError = NoJob /\ job.holds = {}
  BY DEF AfterError, JobShape
<1>8. QED
  BY <1>1, <1>4, <1>5, <1>6, <1>7

\* No other request is the job's while this one is at the head of an inbox.
LEMMA HeadIsOnly ==
  ASSUME IInv, NEW w \in Windows, inbox[w] # <<>>, Head(inbox[w]).from = "job",
         inbox' = [inbox EXCEPT ![w] = Tail(@)], thread' = thread
  PROVE  /\ Awaited(w, Head(inbox[w]))
         /\ NothingAsked' /\ \A i \in DOMAIN inbox'[w] : inbox'[w][i].kind \in Harmless
<1> DEFINE r == Head(inbox[w])
<1>1. /\ 1 \in DOMAIN inbox[w] /\ r = inbox[w][1] /\ \A v \in Windows : v # w => inbox'[v] = inbox[v]
      /\ \A i \in DOMAIN inbox'[w] : i + 1 \in DOMAIN inbox[w] /\ inbox'[w][i] = inbox[w][i + 1] /\ i + 1 > 1
  BY Taken DEF IInv
<1>2. Awaited(w, r) /\ \A j \in DOMAIN inbox[w] : j > 1 => inbox[w][j].kind \in Harmless
  BY <1>1 DEF IInv, InboxOf
<1>3. r.kind \notin Harmless
  BY <1>2, AwaitedKind DEF IInv, Harmless
<1>4. ASSUME NEW v \in Windows, NEW i \in DOMAIN inbox'[v]
      PROVE  inbox'[v][i].from # "job"
  <2>1. CASE v = w
    <3>1. i + 1 \in DOMAIN inbox[w] /\ inbox'[w][i] = inbox[w][i + 1] /\ inbox[w][i + 1].kind \in Harmless
      BY <1>1, <1>2, <1>4, <2>1
    <3>2. inbox[w][i + 1].from = "job" => Awaited(w, inbox[w][i + 1])
      BY <3>1 DEF IInv, InboxOf
    <3>3. QED
      BY <2>1, <3>1, <3>2, AwaitedKind DEF IInv, Harmless
  <2>2. CASE v # w
    <3>1. i \in DOMAIN inbox[v] /\ inbox'[v][i] = inbox[v][i]
      BY <1>1, <1>4, <2>2
    <3>2. inbox[v][i].from = "job" => job.window = {v}
      BY <3>1 DEF IInv, InboxOf, Awaited
    <3>3. QED
      BY <1>2, <2>2, <3>1, <3>2 DEF Awaited
  <2>3. QED
    BY <2>1, <2>2
<1>5. ASSUME NEW v \in Windows PROVE thread[v].outer.from # "job"
  <2>1. SUFFICES ASSUME thread[v].outer.from = "job" PROVE FALSE
    OBVIOUS
  <2>2. job.window = {v} /\ \A i \in DOMAIN inbox[v] : inbox[v][i].kind \in Harmless
    BY <2>1 DEF IInv, ThreadOf, Awaited
  <2>3. v = w
    BY <1>2, <2>2 DEF Awaited
  <2>4. QED
    BY <1>1, <1>3, <2>2, <2>3
<1>6. QED
  BY <1>1, <1>2, <1>4, <1>5 DEF NothingAsked

\* Nor while a thread waits on behalf of it.
LEMMA OuterIsOnly ==
  ASSUME IInv, NEW w \in Windows, thread[w].outer.from = "job",
         inbox' = inbox, thread' = [thread EXCEPT ![w] = Idle]
  PROVE  /\ Awaited(w, thread[w].outer)
         /\ NothingAsked' /\ \A i \in DOMAIN inbox'[w] : inbox'[w][i].kind \in Harmless
<1>1. Awaited(w, thread[w].outer) /\ \A i \in DOMAIN inbox[w] : inbox[w][i].kind \in Harmless
  BY DEF IInv, ThreadOf
<1>2. ASSUME NEW v \in Windows, NEW i \in DOMAIN inbox[v] PROVE inbox[v][i].from # "job"
  <2>1. SUFFICES ASSUME inbox[v][i].from = "job" PROVE FALSE
    OBVIOUS
  <2>2. Awaited(v, inbox[v][i])
    BY <1>2, <2>1 DEF IInv, InboxOf
  <2>3. v = w
    BY <1>1, <2>2 DEF Awaited
  <2>4. QED
    BY <1>1, <1>2, <2>2, <2>3, AwaitedKind DEF IInv, Harmless
<1>3. ASSUME NEW v \in Windows PROVE thread'[v].outer.from # "job"
  <2>1. thread'[v] = IF v = w THEN Idle ELSE thread[v]
    BY DEF IInv, TypeOK
  <2>2. thread[v].outer.from = "job" => job.window = {v}
    BY DEF IInv, ThreadOf, Awaited
  <2>3. QED
    BY <1>1, <2>1, <2>2 DEF Awaited, Idle, NoRequest
<1>4. QED
  BY <1>1, <1>2, <1>3 DEF NothingAsked

\* What is left in an inbox was there before, d places further back.
Shifted(w, d) ==
    \A i \in DOMAIN inbox'[w] : i + d \in DOMAIN inbox[w] /\ inbox'[w][i] = inbox[w][i + d]

LEMMA InboxShifted ==
  ASSUME NEW w, NEW d \in {0, 1}, InboxOf(w), inbox'[w] \in Seq(Request), Shifted(w, d), job' = job
  PROVE  InboxOf(w)'
<1>1. SUFFICES ASSUME NEW i \in DOMAIN inbox'[w]
               PROVE  /\ inbox'[w][i].kind = "command" => inbox'[w][i].from # "job"
                      /\ inbox'[w][i].from = "job" =>
                           /\ Awaited(w, inbox[w][i])'
                           /\ \A j \in DOMAIN inbox'[w] : j > i => inbox'[w][j].kind \in Harmless
  BY DEF InboxOf
<1>2. i + d \in DOMAIN inbox[w] /\ inbox'[w][i] = inbox[w][i + d]
  BY <1>1 DEF Shifted
<1>3. Awaited(w, inbox[w][i + d]) => Awaited(w, inbox[w][i])'
  BY <1>2 DEF Awaited, Verb, Holding
<1>4. ASSUME NEW j \in DOMAIN inbox'[w], j > i, inbox'[w][i].from = "job"
      PROVE  inbox'[w][j].kind \in Harmless
  <2>1. j \in Nat /\ i \in Nat
    BY <1>1, <1>4
  <2>2. j + d \in DOMAIN inbox[w] /\ inbox'[w][j] = inbox[w][j + d] /\ j + d > i + d
    BY <1>4, <2>1 DEF Shifted
  <2>3. QED
    BY <1>2, <1>4, <2>2 DEF InboxOf
<1>5. QED
  BY <1>2, <1>3, <1>4 DEF InboxOf

LEMMA InboxSame ==
  ASSUME NEW w, InboxOf(w), inbox'[w] = inbox[w], job' = job
  PROVE  InboxOf(w)'
BY DEF InboxOf, Awaited, Verb, Holding, Harmless

\* A handler comes to its end, or answers without waiting.  What it leaves in
\* the inbox of its window was there before, d places further back.
LEMMA Concluded ==
  ASSUME IInv, NEW w \in Windows, NEW r \in Request \cup {NoRequest}, NEW saved \in BOOLEAN,
         Conclude(w, r, saved),
         inbox' \in [Windows -> Seq(Request)],
         \A v \in Windows : v # w => inbox'[v] = inbox[v],
         \E d \in {0, 1} : Shifted(w, d),
         thread' \in [Windows -> Thread],
         \A v \in Windows : \/ thread'[v] = Idle
                            \/ /\ thread'[v] = thread[v]
                               /\ v = w => recorder'[w] = recorder[w] /\ told'[w] = told[w],
         r.from = "job" => /\ Awaited(w, r)
                           /\ NothingAsked' /\ \A i \in DOMAIN inbox'[w] : inbox'[w][i].kind \in Harmless,
         UNCHANGED <<supervisor, timeouts, changes, jobs, asks>>, hangs' \in Nat, faults' \in Nat,
         {told', lost', lastLost'} \subseteq [Windows -> BOOLEAN],
         recorder' \in [Windows -> {"none", "starting", "alive", "ended"}],
         \A v \in Windows : v # w =>
             recorder'[v] = recorder[v] /\ told'[v] = told[v] /\ lastLost'[v] = lastLost[v],
         saved => recorder'[w] = "none" /\ ~lastLost'[w],
         recorder[w] = "none" => recorder'[w] = "none" /\ lastLost'[w] = lastLost[w],
         r.kind = "pause" \/ recorder[w] \in {"none", "ended"} \/ told[w]
             => recorder'[w] \in {"none", "ended"} \/ told'[w],
         r.kind = "release" => ~Quiet(w),
         timeouts = 0 /\ r.kind \in {"hold", "release"} => r.from = "job"
  PROVE  IInv'
<1>0. PICK d \in {0, 1} : Shifted(w, d)
  OBVIOUS
<1> DEFINE ok == (r.kind = "hold" => saved)
<1>1. ok \in BOOLEAN
  OBVIOUS
<1>2. /\ copy' \in [Windows -> Policy] /\ held' \in [Windows -> BOOLEAN]
      /\ \A v \in Windows : v # w => copy'[v] = copy[v] /\ held'[v] = held[v]
      /\ r.kind \in {"pause", "resume"} => copy'[w] = catalog
      /\ r.kind \notin {"pause", "resume"} => copy'[w] = copy[w]
      /\ r.kind = "hold" /\ saved => held'[w]
      /\ r.kind # "release" /\ ~(r.kind = "hold" /\ saved) => held'[w] = held[w]
      /\ r.kind = "release" => ~held'[w]
  <2>1. copy' = IF r.kind \in {"pause", "resume"} THEN [copy EXCEPT ![w] = catalog] ELSE copy
    BY DEF Conclude
  <2>2. held' = IF r.kind = "hold" /\ saved THEN [held EXCEPT ![w] = TRUE]
                ELSE IF r.kind = "release" THEN [held EXCEPT ![w] = FALSE] ELSE held
    BY DEF Conclude
  <2>3. QED
    BY <2>1, <2>2 DEF IInv, TypeOK
<1>3. r.from # "job" => job' = job /\ promised' = promised
  BY DEF Conclude, Answer, IInv, TypeOK
<1>4. r.from = "job" =>
        /\ Awaited(w, r) /\ r.kind \in {"pause", "resume", "hold", "release"}
        /\ job.pc \in {"asked", "freeing"} /\ job.kind \in Kinds /\ job.window = {w}
        /\ job.pc = "asked" => r.kind = Verb(job.kind)
        /\ job.pc = "freeing" => r.kind = "release" /\ job.kind \in Holding
        /\ job.pc = "asked" => (r.kind = "hold" <=> job.kind \in Holding)
  BY AwaitedKind, Verbs DEF IInv, Awaited
<1>5. r.from = "job" => job' = IF ok THEN AfterAnswer ELSE AfterError
  BY DEF Conclude, Answer
<1>6. r.from = "job" =>
        /\ job' \in Job /\ JobShape' /\ job'.window = {} /\ job'.pc \notin {"asked", "freeing"}
        /\ job'.holds = IF ok /\ job.pc = "asked" /\ job.kind \in Holding
                        THEN job.holds \cup {w} ELSE job.holds
        /\ job'.pc \in {"ask", "act"} =>
             /\ ok /\ job.pc = "asked" /\ job'.kind = job.kind /\ job'.todo = job.todo
             /\ job'.pc = "act" => job.kind \in Holding
  BY <1>1, <1>4, <1>5, Outcome DEF IInv
<1>7. promised' \in BOOLEAN
      /\ (promised' => promised \/ (r.from = "job" /\ job.kind = "pause" /\ job.todo = {}))
      /\ agent' \subseteq Windows
  BY DEF Conclude, Answer, IInv, TypeOK
<1>8. TypeOK'
  <2>1. job' \in Job
    BY <1>3, <1>6 DEF IInv, TypeOK
  <2>2. QED
    BY <1>2, <1>7, <2>1 DEF IInv, TypeOK, supervisor
<1>9. JobShape'
  BY <1>3, <1>6 DEF IInv, JobShape
<1>10. ASSUME NEW v \in Windows PROVE InboxOf(v)'
  <2>1. CASE r.from = "job"
    BY <2>1, <1>10, Verbs DEF NothingAsked, InboxOf
  <2>2. CASE r.from # "job"
    <3>1. InboxOf(v) /\ job' = job
      BY <1>3, <1>10, <2>2 DEF IInv
    <3>2. inbox'[v] = inbox[v] => InboxOf(v)'
      BY <3>1, InboxSame
    <3>3. v = w => InboxOf(v)'
      BY <1>0, <3>1, InboxShifted
    <3>4. QED
      BY <1>10, <3>2, <3>3
  <2>3. QED
    BY <2>1, <2>2
<1> DEFINE Left(v) == \A i \in DOMAIN inbox'[v] : \E j \in DOMAIN inbox[v] : inbox'[v][i] = inbox[v][j]
<1>30. ASSUME NEW v \in Windows PROVE Left(v)
  <2>1. v # w => DOMAIN inbox'[v] = DOMAIN inbox[v] /\ inbox'[v] = inbox[v]
    BY <1>30
  <2>2. QED
    BY <1>0, <2>1 DEF Shifted
<1> HIDE DEF Left
<1>11. ASSUME NEW v \in Windows PROVE ThreadOf(v)'
  <2>1. CASE thread'[v] = Idle
    BY <2>1 DEF ThreadOf, Idle, NoRequest
  <2>2. CASE thread'[v] = thread[v] /\ recorder'[v] = recorder[v] /\ told'[v] = told[v]
    <3>1. ThreadOf(v)
      BY DEF IInv
    <3>2. CASE r.from = "job"
      BY <2>2, <3>1, <3>2 DEF ThreadOf, NothingAsked
    <3>3. CASE r.from # "job"
      <4>1. ASSUME \A i \in DOMAIN inbox[v] : inbox[v][i].kind \in Harmless
            PROVE  \A i \in DOMAIN inbox'[v] : inbox'[v][i].kind \in Harmless
        BY <1>11, <1>30, <4>1 DEF Left
      <4>2. QED
        BY <1>3, <2>2, <3>1, <3>3, <4>1 DEF ThreadOf, Awaited
    <3>4. QED
      BY <3>2, <3>3
  <2>3. QED
    BY <2>1, <2>2
<1>12. ASSUME NEW v \in Windows, Quiet(v), v # w \/ r.kind # "release" PROVE Quiet(v)'
  <2>1. \A i \in DOMAIN inbox'[v] : inbox'[v][i].kind # "release"
    <3>1. Left(v) /\ \A i \in DOMAIN inbox[v] : inbox[v][i].kind # "release"
      BY <1>12, <1>30 DEF Quiet
    <3>2. QED
      BY <3>1 DEF Left
  <2>2. held'[v] /\ recorder'[v] = "none" /\ ~lastLost'[v]
    BY <1>2, <1>12 DEF Quiet
  <2>3. QED
    BY <2>1, <2>2 DEF Quiet
<1>13. HoldInv'
  <2>1. SUFFICES ASSUME job'.pc \in {"ask", "asked", "act"}, NEW v \in job'.holds \ job'.window
                 PROVE  Quiet(v)'
    BY DEF HoldInv
  <2>2. v \in Windows
    BY <1>8, <2>1 DEF TypeOK, Job
  <2>3. CASE r.from # "job"
    <3>1. Quiet(v)
      BY <1>3, <2>1, <2>3 DEF IInv, HoldInv
    <3>2. QED
      BY <1>12, <2>2, <3>1
  <2>4. CASE r.from = "job"
    <3>1. job.pc = "asked" /\ ok /\ job'.holds \subseteq job.holds \cup {w}
          /\ (job.kind \notin Holding => job.holds = {} /\ job'.holds = {})
      BY <1>4, <1>6, <2>1, <2>4 DEF IInv, JobShape
    <3>2. CASE v = w
      <4>1. r.kind = "hold" /\ saved
        BY <1>4, <2>1, <2>4, <3>1
      <4>2. QED
        BY <1>2, <2>4, <3>2, <4>1 DEF Quiet, Harmless
    <3>3. CASE v # w
      <4>1. Quiet(v)
        BY <1>4, <2>1, <2>4, <3>1, <3>3 DEF IInv, HoldInv
      <4>2. QED
        BY <1>12, <2>2, <3>3, <4>1
    <3>4. QED
      BY <3>2, <3>3
  <2>5. QED
    BY <2>3, <2>4
<1>14. PauseInv'
  <2>1. SUFFICES ASSUME changes = 0
                 PROVE  /\ notice.to = {} /\ scan = <<>>
                        /\ promised' => catalog.paused /\ \A v \in listed : Still(v)'
                        /\ job'.kind = "pause" /\ job'.pc \in {"ask", "asked"} =>
                             /\ catalog.paused
                             /\ \A v \in listed \ (job'.todo \cup job'.window) : Still(v)'
    BY DEF PauseInv, supervisor
  <2>2. ASSUME NEW v \in Windows, catalog.paused, Still(v) PROVE Still(v)'
    BY <1>2, <2>2 DEF Still
  <2>3. ASSUME r.kind = "pause", catalog.paused PROVE Still(w)'
    BY <1>2, <2>3 DEF Still
  <2>4. listed \subseteq Windows
    BY DEF IInv, TypeOK
  <2>5. promised => catalog.paused /\ \A v \in listed : Still(v)'
    BY <2>1, <2>2, <2>4 DEF IInv, PauseInv
  <2>6. ASSUME r.from = "job", job.kind = "pause", job.pc = "asked"
        PROVE  catalog.paused /\ \A v \in listed \ job.todo : Still(v)'
    <3>1. r.kind = "pause" /\ job.window = {w}
      BY <1>4, <2>6, Verbs DEF Holding
    <3>2. catalog.paused /\ \A v \in listed \ (job.todo \cup job.window) : Still(v)
      BY <2>1, <2>6 DEF IInv, PauseInv
    <3>3. QED
      BY <2>2, <2>3, <2>4, <3>1, <3>2
  <2>7. promised' => catalog.paused /\ \A v \in listed : Still(v)'
    <3>1. CASE promised
      BY <2>5, <3>1
    <3>2. CASE r.from = "job" /\ job.kind = "pause" /\ job.todo = {}
      <4>1. job.pc = "asked"
        BY <1>4, <3>2 DEF Holding
      <4>2. QED
        BY <2>6, <3>2, <4>1
    <3>3. QED
      BY <1>7, <3>1, <3>2
  <2>8. ASSUME job'.kind = "pause", job'.pc \in {"ask", "asked"}
        PROVE  catalog.paused /\ \A v \in listed \ (job'.todo \cup job'.window) : Still(v)'
    <3>1. CASE r.from = "job"
      BY <1>6, <2>6, <2>8, <3>1
    <3>2. CASE r.from # "job"
      BY <1>3, <2>1, <2>2, <2>4, <2>8, <3>2 DEF IInv, PauseInv
    <3>3. QED
      BY <3>1, <3>2
  <2>9. QED
    BY <2>1, <2>7, <2>8 DEF IInv, PauseInv
<1>15. HeldInv'
  <2>1. SUFFICES ASSUME timeouts = 0 PROVE HeldInv'
    BY DEF HeldInv
  <2>2. ASSUME NEW v \in Windows
        PROVE  /\ \A i \in DOMAIN inbox'[v] : inbox'[v][i].kind \in {"hold", "release"} => inbox'[v][i].from = "job"
               /\ thread'[v].outer.kind = "hold" => thread'[v].outer.from = "job"
    <3>1. \A i \in DOMAIN inbox'[v] : inbox'[v][i].kind \in {"hold", "release"} => inbox'[v][i].from = "job"
      BY <1>30, <2>1, <2>2 DEF IInv, HeldInv, Left
    <3>2. thread'[v].outer.kind = "hold" => thread'[v].outer.from = "job"
      <4>1. thread[v].outer.kind = "hold" => thread[v].outer.from = "job"
        BY <2>1, <2>2 DEF IInv, HeldInv
      <4>2. Idle.outer.kind # "hold"
        BY DEF Idle, NoRequest
      <4>3. thread'[v] = Idle \/ thread'[v] = thread[v]
        BY <2>2
      <4>4. QED
        BY <4>1, <4>2, <4>3
    <3>3. QED
      BY <3>1, <3>2
  <2>3. ASSUME NEW v \in Windows, held'[v]
        PROVE  v \in job'.holds \/ (job'.pc = "freeing" /\ v \in job'.window)
    <3>1. held[v] => v \in job.holds \/ (job.pc = "freeing" /\ v \in job.window)
      BY <2>1 DEF IInv, HeldInv
    <3>2. CASE r.from # "job"
      <4>1. held[v]
        BY <1>2, <2>1, <2>3, <3>2
      <4>2. QED
        BY <1>3, <3>1, <3>2, <4>1
    <3>3. CASE r.from = "job"
      <4>1. job.holds \subseteq job'.holds
        BY <1>6, <3>3
      <4>2. CASE v # w
        BY <1>2, <1>4, <2>3, <3>1, <3>3, <4>1, <4>2
      <4>3. CASE v = w
        <5>1. r.kind # "release" /\ job.pc = "asked"
          BY <1>2, <1>4, <2>3, <3>3, <4>3
        <5>2. CASE r.kind = "hold" /\ saved
          BY <1>4, <1>6, <3>3, <4>3, <5>1, <5>2
        <5>3. CASE ~(r.kind = "hold" /\ saved)
          BY <1>2, <2>3, <3>1, <4>1, <4>3, <5>1, <5>3
        <5>4. QED
          BY <5>2, <5>3
      <4>4. QED
        BY <4>2, <4>3
    <3>4. QED
      BY <3>2, <3>3
  <2>4. QED
    BY <2>2, <2>3 DEF HeldInv
<1>16. QED
  BY <1>8, <1>9, <1>10, <1>11, <1>13, <1>14, <1>15 DEF IInv

----------------------------------------------------------------------------
(* Steps that touch neither requests nor threads. *)

LEMMA QuietSame ==
  ASSUME NEW w, Quiet(w), held'[w] = held[w], recorder'[w] = recorder[w],
         lastLost'[w] = lastLost[w], inbox'[w] = inbox[w]
  PROVE  Quiet(w)'
BY DEF Quiet

LEMMA ThreadSame ==
  ASSUME NEW w, ThreadOf(w), inbox'[w] = inbox[w], thread'[w] = thread[w], job' = job,
         thread[w].draining => told'[w] /\ recorder'[w] # "none"
  PROVE  ThreadOf(w)'
BY DEF ThreadOf, Awaited, Verb, Holding, Harmless, NoRequest

\* Clients, requests, threads and what holds windows stay as they are.
Undisturbed == UNCHANGED <<inbox, thread, job, held, promised, timeouts>>

\* It is enough to look at recorders, types and pauses then.
LEMMA Elsewhere ==
  ASSUME IInv, Undisturbed, TypeOK', PauseInv',
         \A w \in Windows :
            /\ thread[w].draining => told'[w] /\ recorder'[w] # "none"
            /\ Quiet(w) => recorder'[w] = recorder[w] /\ lastLost'[w] = lastLost[w]
  PROVE  IInv'
<1>1. JobShape'
  BY DEF IInv, Undisturbed, JobShape, Holding
<1>2. ASSUME NEW w \in Windows PROVE InboxOf(w)' /\ ThreadOf(w)'
  BY <1>2, InboxSame, ThreadSame DEF IInv, Undisturbed
<1>3. HoldInv'
  <2>1. SUFFICES ASSUME job.pc \in {"ask", "asked", "act"}, NEW w \in job.holds \ job.window
                 PROVE  Quiet(w)'
    BY DEF HoldInv, Undisturbed
  <2>2. w \in Windows /\ Quiet(w)
    BY <2>1, JobTyped DEF IInv, HoldInv
  <2>3. QED
    BY <2>2, QuietSame DEF Undisturbed
<1>4. HeldInv'
  BY DEF IInv, Undisturbed, HeldInv
<1>5. QED
  BY <1>1, <1>2, <1>3, <1>4 DEF IInv

LEMMA ChangePolicyStep == ASSUME IInv, ChangePolicy PROVE IInv'
<1>1. TypeOK'
  <2>1. [catalog EXCEPT !.enabled = ~@] \in Policy
    BY DEF IInv, TypeOK, Policy
  <2>2. QED
    BY <2>1 DEF ChangePolicy, IInv, TypeOK, flags, recording, clients
<1>2. PauseInv'
  <2>1. changes \in Nat
    BY DEF IInv, TypeOK
  <2>2. QED
    BY <2>1 DEF ChangePolicy, PauseInv
<1>3. QED
  BY <1>1, <1>2, Elsewhere DEF ChangePolicy, Undisturbed, IInv, ThreadOf, flags, recording, clients

LEMMA ScanReadsStep == ASSUME IInv, ScanReads PROVE IInv'
<1>1. TypeOK'
  BY DEF ScanReads, IInv, TypeOK, flags, recording, clients
<1>2. PauseInv'
  <2>1. changes \in Nat
    BY DEF IInv, TypeOK
  <2>2. QED
    BY <2>1 DEF ScanReads, PauseInv
<1>3. QED
  BY <1>1, <1>2, Elsewhere DEF ScanReads, Undisturbed, IInv, ThreadOf, flags, recording, clients

LEMMA ScanCreatesStep == ASSUME IInv, ScanCreates PROVE IInv'
<1>1. TypeOK'
  <2>1. scan[1] \in Policy
    BY DEF ScanCreates, IInv, TypeOK
  <2>2. QED
    BY <2>1 DEF ScanCreates, IInv, TypeOK, recording, clients, budgets
<1>2. PauseInv'
  BY DEF ScanCreates, IInv, PauseInv, budgets
<1>3. QED
  BY <1>1, <1>2, Elsewhere DEF ScanCreates, Undisturbed, IInv, ThreadOf, recording, clients, budgets

\* A step of a recorder, or of the thread that starts one or sees it end.
LEMMA RecorderMoves ==
  ASSUME IInv, NEW w \in Windows, NEW state \in {"none", "starting", "alive", "ended"},
         recorder' = [recorder EXCEPT ![w] = state],
         {told', lost', lastLost'} \subseteq [Windows -> BOOLEAN],
         \A v \in Windows : v # w => told'[v] = told[v] /\ lastLost'[v] = lastLost[v],
         UNCHANGED <<supervisor, flags, inbox, thread, clients, jobs, asks, timeouts, hangs, changes>>,
         faults' \in Nat,
         thread[w].draining => told'[w] /\ state # "none",
         ~Quiet(w),
         Still(w) => state \in {"none", "ended"} \/ told'[w]
  PROVE  IInv'
<1>1. recorder' \in [Windows -> {"none", "starting", "alive", "ended"}]
      /\ recorder'[w] = state /\ \A v \in Windows : v # w => recorder'[v] = recorder[v]
  BY DEF IInv, TypeOK
<1>2. TypeOK'
  BY <1>1 DEF IInv, TypeOK, supervisor, flags, clients
<1>3. PauseInv'
  <2>1. ASSUME NEW v \in Windows, Still(v) PROVE Still(v)'
    BY <1>1, <2>1 DEF Still, flags
  <2>2. listed \subseteq Windows
    BY DEF IInv, TypeOK
  <2>3. QED
    BY <2>1, <2>2 DEF IInv, PauseInv, supervisor, clients
<1>4. Undisturbed
  BY DEF Undisturbed, flags, clients
<1>5. ASSUME NEW v \in Windows, thread[v].draining PROVE told'[v] /\ recorder'[v] # "none"
  BY <1>1, <1>5 DEF IInv, ThreadOf
<1>6. QED
  BY <1>1, <1>2, <1>3, <1>4, <1>5, Elsewhere

LEMMA BaselinedStep == ASSUME IInv, NEW w \in Windows, Baselined(w) PROVE IInv'
<1>1. lastLost' \in [Windows -> BOOLEAN] /\ \A v \in Windows : v # w => lastLost'[v] = lastLost[v]
  BY DEF Baselined, IInv, TypeOK
<1>2. ~Quiet(w) /\ (Still(w) => told[w]) /\ (thread[w].draining => told[w])
  BY DEF Baselined, Quiet, Still, IInv, ThreadOf
<1>3. QED
  BY <1>1, <1>2, RecorderMoves DEF Baselined, IInv, TypeOK, budgets

LEMMA RecorderEndsStep == ASSUME IInv, NEW w \in Windows, NEW fails \in BOOLEAN, RecorderEnds(w, fails) PROVE IInv'
<1>1. lost' \in [Windows -> BOOLEAN]
  <2>1. PICK l \in IF fails THEN BOOLEAN ELSE {FALSE} : lost' = [lost EXCEPT ![w] = l]
    BY DEF RecorderEnds
  <2>2. l \in BOOLEAN
    OBVIOUS
  <2>3. QED
    BY <2>1, <2>2 DEF IInv, TypeOK
<1>4. faults' \in Nat
  <2>1. faults \in Nat
    BY DEF IInv, TypeOK
  <2>2. CASE fails
    BY <2>1, <2>2 DEF RecorderEnds
  <2>3. CASE ~fails
    BY <2>1, <2>3 DEF RecorderEnds
  <2>4. QED
    BY <2>2, <2>3
<1>2. ~Quiet(w) /\ (thread[w].draining => told[w])
  BY DEF RecorderEnds, Alive, Quiet, IInv, ThreadOf
<1>3. QED
  BY <1>1, <1>2, <1>4, RecorderMoves DEF RecorderEnds, IInv, TypeOK

----------------------------------------------------------------------------
(* Jobs and agents. *)

\* Nothing is asked while the job is not waiting.
LEMMA NotWaiting ==
  ASSUME IInv, job.pc \notin {"asked", "freeing"}
  PROVE  NothingAsked
BY DEF IInv, InboxOf, ThreadOf, Awaited, NothingAsked

LEMMA RequestJobStep == ASSUME IInv, NEW kind \in Kinds, RequestJob(kind) PROVE IInv'
<1> USE DEF RequestJob, supervisor, flags, recording, NoJob
<1>1. NothingAsked
  BY NotWaiting
<1>2. /\ job' = [kind |-> kind, pc |-> "queued", todo |-> {}, holds |-> {}, window |-> {}]
      /\ job' \in Job
  BY DEF NoJob, Job
<1>3. TypeOK'
  BY <1>2 DEF IInv, TypeOK
<1>4. JobShape'
  <2>1. /\ job'.kind = kind /\ job'.pc = "queued" /\ job'.holds = {} /\ job'.window = {}
    BY <1>2
  <2>2. QED
    BY <2>1 DEF JobShape
<1>5. ASSUME NEW w \in Windows PROVE InboxOf(w)' /\ ThreadOf(w)'
  <2>1. InboxOf(w) /\ ThreadOf(w)
    BY DEF IInv
  <2>2. QED
    BY <1>1, <1>5, <2>1 DEF NothingAsked, InboxOf, ThreadOf, Harmless, NoRequest
<1>6. HoldInv' /\ PauseInv'
  BY <1>2 DEF HoldInv, PauseInv, IInv, Still
<1>7. HeldInv'
  <2>1. job.holds = {} /\ job.pc = "idle"
    BY DEF IInv, JobShape
  <2>2. QED
    BY <1>2, <2>1 DEF IInv, HeldInv
<1>8. QED
  BY <1>3, <1>4, <1>5, <1>6, <1>7 DEF IInv

LEMMA StartJobStep == ASSUME IInv, StartJob PROVE IInv'
<1> USE DEF StartJob, flags, recording, budgets
<1>1. NothingAsked
  BY NotWaiting
<1>2. PICK todo \in Targets(job.kind) : job' = [job EXCEPT !.pc = "ask", !.todo = todo]
  OBVIOUS
<1>3. todo \subseteq Windows /\ (job.kind # "open" => todo = listed)
  BY DEF Targets, IInv, TypeOK
<1>4. /\ job' \in Job /\ job'.pc = "ask" /\ job'.todo = todo /\ job'.kind = job.kind
      /\ job'.holds = {} /\ job'.window = {} /\ job.kind \in Kinds /\ job.holds = {}
  BY <1>2, <1>3 DEF IInv, TypeOK, Job, JobShape
<1>5. catalog' \in Policy /\ (job.kind \in Holding => catalog' = catalog)
      /\ (job.kind \notin Holding => (catalog'.paused <=> job.kind = "pause"))
  BY DEF IInv, TypeOK, Policy
<1>6. promised' \in BOOLEAN /\ (promised' => promised /\ job.kind # "resume")
  BY DEF IInv, TypeOK
<1>7. TypeOK'
  BY <1>4, <1>5, <1>6 DEF IInv, TypeOK
<1>8. JobShape'
  BY <1>4 DEF JobShape
<1>9. ASSUME NEW w \in Windows PROVE InboxOf(w)' /\ ThreadOf(w)'
  <2>1. InboxOf(w) /\ ThreadOf(w)
    BY DEF IInv
  <2>2. QED
    BY <1>1, <1>9, <2>1 DEF NothingAsked, InboxOf, ThreadOf, Harmless, NoRequest
<1>10. HoldInv'
  BY <1>4 DEF HoldInv
<1>11. PauseInv'
  <2>1. SUFFICES ASSUME changes = 0 PROVE PauseInv'
    BY DEF PauseInv
  <2>2. notice.to = {} /\ scan = <<>>
    BY <2>1 DEF IInv, PauseInv
  <2>3. ASSUME promised' PROVE catalog'.paused /\ \A w \in listed : Still(w)
    <3>1. job.kind \in {"pause"} \cup Holding
      BY <1>4, <1>6, <2>3, WindowsAssumption DEF WindowsAssumption, Holding
    <3>2. QED
      BY <1>5, <1>6, <2>1, <2>3, <3>1 DEF IInv, PauseInv, Holding
  <2>4. job.kind = "pause" => catalog'.paused /\ todo = listed
    BY <1>3, <1>5 DEF Holding
  <2>5. \A w \in listed : Still(w) => Still(w)'
    BY DEF Still
  <2>6. QED
    BY <1>4, <2>2, <2>3, <2>4, <2>5 DEF PauseInv
<1>12. HeldInv'
  BY <1>4 DEF IInv, HeldInv
<1>13. QED
  BY <1>7, <1>8, <1>9, <1>10, <1>11, <1>12 DEF IInv

\* Of what an agent or the supervisor sends nothing is a job's.
LEMMA Posted ==
  ASSUME IInv, NEW w \in Windows, NEW kind \in Harmless, NEW from \in {"agent", "nobody"},
         Send(w, kind, from), UNCHANGED <<thread, job, told, recorder>>
  PROVE  /\ inbox' \in [Windows -> Seq(Request)]
         /\ \A v \in Windows :
              /\ InboxOf(v)' /\ ThreadOf(v)'
              /\ \A i \in DOMAIN inbox'[v] : \/ i \in DOMAIN inbox[v] /\ inbox'[v][i] = inbox[v][i]
                                             \/ inbox'[v][i].kind \in Harmless
<1> DEFINE new == [kind |-> kind, from |-> from]
<1>1. new \in Request /\ new.kind \in Harmless /\ new.from # "job"
  BY DEF Request, Harmless
<1>2. /\ inbox' \in [Windows -> Seq(Request)]
      /\ \A v \in Windows : v # w => inbox'[v] = inbox[v]
      /\ \A i \in DOMAIN inbox'[w] :
           \/ i \in DOMAIN inbox[w] /\ inbox'[w][i] = inbox[w][i]
           \/ /\ i = Len(inbox[w]) + 1 /\ inbox'[w][i] = new
              /\ \A j \in DOMAIN inbox'[w] : ~(j > i)
  BY <1>1, Sent DEF IInv
<1> HIDE DEF new
<1>3. ASSUME NEW v \in Windows, NEW i \in DOMAIN inbox'[v]
      PROVE  \/ i \in DOMAIN inbox[v] /\ inbox'[v][i] = inbox[v][i]
             \/ inbox'[v][i] = new
  BY <1>2, <1>3
<1>4. ASSUME NEW v \in Windows PROVE InboxOf(v)'
  <2>1. SUFFICES ASSUME NEW i \in DOMAIN inbox'[v]
                 PROVE  /\ inbox'[v][i].kind = "command" => inbox'[v][i].from # "job"
                        /\ inbox'[v][i].from = "job" =>
                             /\ Awaited(v, inbox[v][i])'
                             /\ \A j \in DOMAIN inbox'[v] : j > i => inbox'[v][j].kind \in Harmless
    BY DEF InboxOf
  <2>2. CASE inbox'[v][i] = new
    BY <1>1, <2>2
  <2>3. CASE i \in DOMAIN inbox[v] /\ inbox'[v][i] = inbox[v][i]
    <3>1. Awaited(v, inbox[v][i]) => Awaited(v, inbox[v][i])'
      BY <2>3 DEF Awaited, Verb, Holding
    <3>2. \A j \in DOMAIN inbox[v] : inbox[v][i].from = "job" /\ j > i => inbox[v][j].kind \in Harmless
      BY <1>4, <2>3 DEF IInv, InboxOf
    <3>3. /\ inbox[v][i].kind = "command" => inbox[v][i].from # "job"
          /\ inbox[v][i].from = "job" => Awaited(v, inbox[v][i])
      BY <1>4, <2>3 DEF IInv, InboxOf
    <3>4. QED
      BY <1>1, <1>3, <1>4, <2>3, <3>1, <3>2, <3>3
  <2>4. QED
    BY <1>3, <1>4, <2>1, <2>2, <2>3
<1>5. ASSUME NEW v \in Windows PROVE ThreadOf(v)'
  <2>1. ThreadOf(v)
    BY <1>5 DEF IInv
  <2>2. ASSUME \A i \in DOMAIN inbox[v] : inbox[v][i].kind \in Harmless
        PROVE  \A i \in DOMAIN inbox'[v] : inbox'[v][i].kind \in Harmless
    BY <1>1, <1>3, <1>5, <2>2
  <2>3. QED
    <3>1. Awaited(v, thread[v].outer) => Awaited(v, thread[v].outer)'
      BY DEF Awaited, Verb, Holding
    <3>2. /\ thread'[v] = thread[v]
          /\ recorder[v] = recorder'[v] /\ told[v] = told'[v]
      OBVIOUS
    <3>3. NoRequest' = NoRequest
      BY DEF NoRequest
    <3>4. QED
      BY <2>1, <2>2, <3>1, <3>2, <3>3 DEF ThreadOf
<1>6. QED
  BY <1>1, <1>2, <1>3, <1>4, <1>5

LEMMA PostedStep ==
  ASSUME IInv, NEW w \in Windows, NEW kind \in Harmless, NEW from \in {"agent", "nobody"},
         Send(w, kind, from), UNCHANGED <<thread, job, held, recording, timeouts>>,
         TypeOK', PauseInv'
  PROVE  IInv'
<1>1. \A v \in Windows :
         /\ InboxOf(v)' /\ ThreadOf(v)'
         /\ \A i \in DOMAIN inbox'[v] : \/ i \in DOMAIN inbox[v] /\ inbox'[v][i] = inbox[v][i]
                                        \/ inbox'[v][i].kind \in Harmless
  BY Posted DEF recording
<1>2. JobShape'
  BY DEF IInv, JobShape, Holding
<1>3. HoldInv'
  <2>1. SUFFICES ASSUME job.pc \in {"ask", "asked", "act"}, NEW v \in job.holds \ job.window
                 PROVE  Quiet(v)'
    BY DEF HoldInv
  <2>2. v \in Windows /\ Quiet(v)
    BY <2>1, JobTyped DEF IInv, HoldInv
  <2>3. \A i \in DOMAIN inbox'[v] : inbox'[v][i].kind # "release"
    BY <1>1, <2>2 DEF Quiet, Harmless
  <2>4. QED
    BY <2>2, <2>3 DEF Quiet, recording
<1>4. HeldInv'
  BY <1>1 DEF IInv, HeldInv, Harmless
<1>5. QED
  BY <1>1, <1>2, <1>3, <1>4 DEF IInv

LEMMA AgentAsksStep == ASSUME IInv, NEW w \in Windows, AgentAsks(w) PROVE IInv'
<1>1. Send(w, "command", "agent") /\ UNCHANGED <<thread, job, held, recording, timeouts>>
  BY DEF AgentAsks, flags
<1>2. TypeOK'
  <2>1. inbox' \in [Windows -> Seq(Request)]
    BY <1>1, Posted DEF Harmless, recording
  <2>2. QED
    BY <2>1 DEF AgentAsks, IInv, TypeOK, supervisor, flags, recording
<1>3. PauseInv'
  BY DEF AgentAsks, IInv, PauseInv, Still, supervisor, flags, recording
<1>4. QED
  BY <1>1, <1>2, <1>3, PostedStep DEF Harmless

LEMMA NotifyStep == ASSUME IInv, NEW w \in Windows, Notify(w) PROVE IInv'
<1>1. Send(w, "policy", "nobody") /\ UNCHANGED <<thread, job, held, recording, timeouts>>
  BY DEF Notify, clients, budgets
<1>2. TypeOK'
  <2>1. inbox' \in [Windows -> Seq(Request)]
    BY <1>1, Posted DEF Harmless, recording
  <2>2. notice.policy \in Policy /\ copy' \in [Windows -> Policy]
    BY DEF Notify, IInv, TypeOK
  <2>3. notice' \in [policy: Policy, to: SUBSET Windows]
    BY DEF Notify, IInv, TypeOK
  <2>4. QED
    BY <2>1, <2>2, <2>3 DEF Notify, IInv, TypeOK, recording, clients, budgets
<1>3. PauseInv'
  BY DEF Notify, IInv, PauseInv, budgets
<1>4. QED
  BY <1>1, <1>2, <1>3, PostedStep DEF Harmless

\* The only request of the job is the last of its inbox.
LEMMA Asked ==
  ASSUME IInv, NothingAsked, NEW w \in Windows, NEW kind \in {"pause", "resume", "hold", "release"},
         Send(w, kind, "job"), job'.window = {w},
         \/ job'.pc = "asked" /\ kind = Verb(job'.kind)
         \/ job'.pc = "freeing" /\ kind = "release",
         UNCHANGED <<thread, told, recorder>>
  PROVE  /\ inbox' \in [Windows -> Seq(Request)]
         /\ \A v \in Windows : v # w => inbox'[v] = inbox[v]
         /\ \A i \in DOMAIN inbox'[w] : \/ i \in DOMAIN inbox[w] /\ inbox'[w][i] = inbox[w][i]
                                        \/ inbox'[w][i] = [kind |-> kind, from |-> "job"]
         /\ \A v \in Windows : InboxOf(v)' /\ ThreadOf(v)'
<1> DEFINE new == [kind |-> kind, from |-> "job"]
<1>1. new \in Request /\ new.kind = kind /\ new.from = "job"
  BY DEF Request
<1>2. /\ inbox' \in [Windows -> Seq(Request)]
      /\ \A v \in Windows : v # w => inbox'[v] = inbox[v]
      /\ \A i \in DOMAIN inbox'[w] :
           \/ i \in DOMAIN inbox[w] /\ inbox'[w][i] = inbox[w][i]
           \/ /\ i = Len(inbox[w]) + 1 /\ inbox'[w][i] = new
              /\ \A j \in DOMAIN inbox'[w] : ~(j > i)
  BY <1>1, Sent DEF IInv
<1> HIDE DEF new
<1>3. ASSUME NEW v \in Windows PROVE InboxOf(v)'
  <2>1. SUFFICES ASSUME NEW i \in DOMAIN inbox'[v]
                 PROVE  /\ inbox'[v][i].kind = "command" => inbox'[v][i].from # "job"
                        /\ inbox'[v][i].from = "job" =>
                             /\ Awaited(v, inbox[v][i])'
                             /\ \A j \in DOMAIN inbox'[v] : j > i => inbox'[v][j].kind \in Harmless
    BY DEF InboxOf
  <2>2. CASE i \in DOMAIN inbox[v] /\ inbox'[v][i] = inbox[v][i]
    BY <1>3, <2>2 DEF NothingAsked
  <2>3. CASE v = w /\ inbox'[w][i] = new /\ \A j \in DOMAIN inbox'[w] : ~(j > i)
    BY <1>1, <2>3 DEF Awaited, Verb, Holding
  <2>4. QED
    BY <1>2, <2>1, <2>2, <2>3
<1>4. ASSUME NEW v \in Windows PROVE ThreadOf(v)'
  BY <1>4 DEF IInv, ThreadOf, NothingAsked, NoRequest, Harmless
<1>5. QED
  BY <1>2, <1>3, <1>4 DEF new

LEMMA JobAsksStep == ASSUME IInv, NEW w \in Windows, JobAsks(w) PROVE IInv'
<1> USE DEF flags, recording, budgets, supervisor
<1>1. NothingAsked
  BY NotWaiting DEF JobAsks
<1>2. /\ job' \in Job /\ job'.pc = "asked" /\ job'.window = {w} /\ job'.kind = job.kind
      /\ job'.todo = job.todo \ {w} /\ job.holds \subseteq job'.holds /\ job'.holds \subseteq job.holds \cup {w}
      /\ (job.kind # "import" => job'.holds = job.holds)
  BY DEF JobAsks, IInv, TypeOK, Job
<1>3. job.kind \in Kinds /\ job.window = {} /\ job.pc = "ask" /\ w \in job.todo
  BY DEF JobAsks, IInv, JobShape
<1>4. Verb(job.kind) \in {"pause", "resume", "hold"} /\ Verb(job'.kind) = Verb(job.kind)
  BY <1>2, <1>3, Verbs
<1>5. /\ inbox' \in [Windows -> Seq(Request)]
      /\ \A v \in Windows : v # w => inbox'[v] = inbox[v]
      /\ \A i \in DOMAIN inbox'[w] : \/ i \in DOMAIN inbox[w] /\ inbox'[w][i] = inbox[w][i]
                                     \/ inbox'[w][i] = [kind |-> Verb(job.kind), from |-> "job"]
      /\ \A v \in Windows : InboxOf(v)' /\ ThreadOf(v)'
  <2>1. Send(w, Verb(job.kind), "job") /\ UNCHANGED <<thread, told, recorder>>
    BY DEF JobAsks
  <2>2. QED
    BY <1>1, <1>2, <1>4, <2>1, Asked
<1>6. TypeOK'
  BY <1>2, <1>5 DEF JobAsks, IInv, TypeOK
<1>7. JobShape'
  BY <1>2, <1>3 DEF IInv, JobShape, Holding
<1>8. HoldInv'
  <2>1. SUFFICES ASSUME NEW v \in job'.holds \ job'.window PROVE Quiet(v)'
    BY DEF HoldInv
  <2>2. v \in Windows /\ v # w /\ Quiet(v)
    BY <1>2, <1>3, <2>1, JobTyped DEF IInv, HoldInv
  <2>3. QED
    BY <1>5, <2>2, QuietSame DEF JobAsks
<1>9. PauseInv'
  BY <1>2, <1>3 DEF JobAsks, IInv, PauseInv, Still
<1>10. HeldInv'
  <2>1. SUFFICES ASSUME timeouts = 0 PROVE HeldInv'
    BY DEF HeldInv, JobAsks
  <2>2. ASSUME NEW v \in Windows, NEW i \in DOMAIN inbox'[v]
        PROVE  inbox'[v][i].kind \in {"hold", "release"} => inbox'[v][i].from = "job"
    BY <1>5, <2>1, <2>2 DEF IInv, HeldInv
  <2>3. QED
    BY <1>2, <1>3, <2>1, <2>2 DEF IInv, HeldInv, JobAsks
<1>11. QED
  BY <1>5, <1>6, <1>7, <1>8, <1>9, <1>10 DEF IInv

LEMMA JobFreesStep == ASSUME IInv, NEW w \in Windows, JobFrees(w) PROVE IInv'
<1> USE DEF flags, recording, budgets, supervisor
<1>1. NothingAsked
  BY NotWaiting DEF JobFrees
<1>2. /\ job' \in Job /\ job'.pc = "freeing" /\ job'.window = {w} /\ job'.kind = job.kind
      /\ job'.holds = job.holds \ {w}
  BY DEF JobFrees, IInv, TypeOK, Job
<1>3. job.kind \in Kinds /\ job.kind \in Holding /\ job.pc \in {"act", "free"}
  BY DEF JobFrees, IInv, JobShape
<1>4. /\ inbox' \in [Windows -> Seq(Request)]
      /\ \A v \in Windows : v # w => inbox'[v] = inbox[v]
      /\ \A i \in DOMAIN inbox'[w] : \/ i \in DOMAIN inbox[w] /\ inbox'[w][i] = inbox[w][i]
                                     \/ inbox'[w][i] = [kind |-> "release", from |-> "job"]
      /\ \A v \in Windows : InboxOf(v)' /\ ThreadOf(v)'
  <2>1. Send(w, "release", "job") /\ UNCHANGED <<thread, told, recorder>>
    BY DEF JobFrees
  <2>2. QED
    BY <1>1, <1>2, <2>1, Asked
<1>5. TypeOK'
  BY <1>2, <1>4 DEF JobFrees, IInv, TypeOK
<1>6. JobShape'
  BY <1>2, <1>3 DEF JobShape, Holding
<1>7. HoldInv' /\ PauseInv'
  BY <1>2 DEF JobFrees, IInv, HoldInv, PauseInv, Still
<1>8. HeldInv'
  <2>1. SUFFICES ASSUME timeouts = 0 PROVE HeldInv'
    BY DEF HeldInv, JobFrees
  <2>2. ASSUME NEW v \in Windows, NEW i \in DOMAIN inbox'[v]
        PROVE  inbox'[v][i].kind \in {"hold", "release"} => inbox'[v][i].from = "job"
    BY <1>4, <2>1, <2>2 DEF IInv, HeldInv
  <2>3. QED
    BY <1>2, <1>3, <2>1, <2>2 DEF IInv, HeldInv, JobFrees
<1>9. QED
  BY <1>4, <1>5, <1>6, <1>7, <1>8 DEF IInv

\* What a client that gave up asked for is in the same places, for nobody.
LEMMA Forgotten ==
  ASSUME IInv, NEW from \in {"job", "agent"}, NEW asked, Forget(from, asked)
  PROVE  /\ timeouts' \in Nat /\ timeouts' # 0
         /\ inbox' \in [Windows -> Seq(Request)] /\ thread' \in [Windows -> Thread]
         /\ \A v \in Windows :
              /\ DOMAIN inbox'[v] = DOMAIN inbox[v]
              /\ \A i \in DOMAIN inbox[v] :
                   /\ inbox'[v][i].kind = inbox[v][i].kind
                   /\ inbox'[v][i].from = "job" => inbox[v][i].from = "job" /\ from # "job"
              /\ thread'[v].draining = thread[v].draining
              /\ thread'[v].outer.kind = thread[v].outer.kind
              /\ thread'[v].outer.from = "job" => thread[v].outer.from = "job" /\ from # "job"
              /\ thread[v].outer = NoRequest => thread'[v].outer = NoRequest
              /\ thread'[v].command.kind = thread[v].command.kind
              /\ thread'[v].command.from = "job" => thread[v].command.from = "job"
<1> DEFINE Orphan(r) == IF r.from = from THEN [r EXCEPT !.from = "nobody"] ELSE r
<1>1. ASSUME NEW r \in Request \cup {NoRequest}
      PROVE  /\ r \in Request => Orphan(r) \in Request
             /\ Orphan(r) \in Request \cup {NoRequest} /\ Orphan(r).kind = r.kind
             /\ Orphan(r).from = "job" => r.from = "job" /\ from # "job"
             /\ r = NoRequest => Orphan(r) = NoRequest
  BY DEF Request, NoRequest
<1>2. /\ timeouts' = timeouts + 1 /\ timeouts \in Nat
      /\ inbox' = [v \in Windows |-> [i \in DOMAIN inbox[v] |-> Orphan(inbox[v][i])]]
      /\ thread' = [v \in Windows |-> [thread[v] EXCEPT !.outer = Orphan(@), !.command = Orphan(@)]]
  BY DEF Forget, IInv, TypeOK
<1> HIDE DEF Orphan
<1>3. ASSUME NEW v \in Windows
      PROVE  /\ DOMAIN inbox'[v] = DOMAIN inbox[v] /\ inbox'[v] \in Seq(Request)
             /\ \A i \in DOMAIN inbox[v] :
                  /\ inbox'[v][i].kind = inbox[v][i].kind
                  /\ inbox'[v][i].from = "job" => inbox[v][i].from = "job" /\ from # "job"
  <2>1. inbox[v] \in Seq(Request) /\ inbox'[v] = [i \in DOMAIN inbox[v] |-> Orphan(inbox[v][i])]
    BY <1>2, <1>3 DEF IInv, TypeOK
  <2>2. \A i \in DOMAIN inbox[v] : inbox[v][i] \in Request
    BY <2>1
  <2>3. \A i \in DOMAIN inbox[v] : Orphan(inbox[v][i]) \in Request
    BY <1>1, <2>2
  <2>4. inbox'[v] \in Seq(Request)
    BY <2>1, <2>3
  <2>5. QED
    BY <1>1, <2>1, <2>2, <2>4
<1>4. ASSUME NEW v \in Windows
      PROVE  /\ thread'[v] \in Thread
             /\ thread'[v].draining = thread[v].draining
             /\ thread'[v].outer = Orphan(thread[v].outer) /\ thread'[v].command = Orphan(thread[v].command)
             /\ thread[v].outer \in Request \cup {NoRequest} /\ thread[v].command \in Request \cup {NoRequest}
  <2>1. thread[v] \in Thread
    BY <1>4 DEF IInv, TypeOK
  <2>2. thread'[v] = [thread[v] EXCEPT !.outer = Orphan(@), !.command = Orphan(@)]
    BY <1>2, <1>4
  <2>3. thread[v].outer \in Request \cup {NoRequest} /\ thread[v].command \in Request \cup {NoRequest}
    BY <2>1 DEF Thread
  <2>4. Orphan(thread[v].outer) \in Request \cup {NoRequest} /\ Orphan(thread[v].command) \in Request \cup {NoRequest}
    BY <1>1, <2>3
  <2>5. QED
    BY <2>1, <2>2, <2>3, <2>4 DEF Thread
<1>5. inbox' \in [Windows -> Seq(Request)] /\ thread' \in [Windows -> Thread]
  <2>1. DOMAIN inbox' = Windows /\ inbox' = [v \in Windows |-> inbox'[v]]
    BY <1>2
  <2>2. DOMAIN thread' = Windows /\ thread' = [v \in Windows |-> thread'[v]]
    BY <1>2
  <2>3. QED
    BY <1>3, <1>4, <2>1, <2>2
<1>6. ASSUME NEW v \in Windows
      PROVE  /\ thread'[v].outer.kind = thread[v].outer.kind
             /\ thread'[v].outer.from = "job" => thread[v].outer.from = "job" /\ from # "job"
             /\ thread[v].outer = NoRequest => thread'[v].outer = NoRequest
             /\ thread'[v].command.kind = thread[v].command.kind
             /\ thread'[v].command.from = "job" => thread[v].command.from = "job"
  BY <1>1, <1>4, <1>6
<1>7. timeouts' \in Nat /\ timeouts' # 0
  <2>1. timeouts' = timeouts + 1 /\ timeouts \in Nat
    BY DEF Forget, IInv, TypeOK
  <2>2. QED
    BY <2>1
<1>8. QED
  BY <1>3, <1>4, <1>5, <1>6, <1>7

LEMMA ForgottenStep ==
  ASSUME IInv, NEW from \in {"job", "agent"}, NEW asked, Forget(from, asked),
         UNCHANGED <<supervisor, flags, recording, promised>>, agent' \subseteq Windows,
         \/ from = "agent" /\ job' = job
         \/ /\ from = "job" /\ job' \in Job /\ JobShape'
            /\ job'.pc \notin {"ask", "asked", "act", "freeing"}
  PROVE  IInv'
<1> USE DEF supervisor, flags, recording
<1>1. /\ timeouts' \in Nat /\ timeouts' # 0
      /\ inbox' \in [Windows -> Seq(Request)] /\ thread' \in [Windows -> Thread]
      /\ \A v \in Windows :
           /\ DOMAIN inbox'[v] = DOMAIN inbox[v]
           /\ \A i \in DOMAIN inbox[v] :
                /\ inbox'[v][i].kind = inbox[v][i].kind
                /\ inbox'[v][i].from = "job" => inbox[v][i].from = "job" /\ from # "job"
           /\ thread'[v].draining = thread[v].draining
           /\ thread'[v].outer.kind = thread[v].outer.kind
           /\ thread'[v].outer.from = "job" => thread[v].outer.from = "job" /\ from # "job"
           /\ thread[v].outer = NoRequest => thread'[v].outer = NoRequest
           /\ thread'[v].command.kind = thread[v].command.kind
           /\ thread'[v].command.from = "job" => thread[v].command.from = "job"
  BY Forgotten
<1>2. TypeOK'
  <2>1. UNCHANGED <<jobs, asks, hangs, faults, changes>>
    BY DEF Forget
  <2>2. job' \in Job
    BY DEF IInv, TypeOK
  <2>3. QED
    BY <1>1, <2>1, <2>2 DEF IInv, TypeOK
<1>3. JobShape'
  BY DEF IInv, JobShape, Holding
<1>4. ASSUME NEW v \in Windows PROVE InboxOf(v)'
  <2>1. SUFFICES ASSUME NEW i \in DOMAIN inbox'[v]
                 PROVE  /\ inbox'[v][i].kind = "command" => inbox'[v][i].from # "job"
                        /\ inbox'[v][i].from = "job" =>
                             /\ Awaited(v, inbox[v][i])'
                             /\ \A j \in DOMAIN inbox'[v] : j > i => inbox'[v][j].kind \in Harmless
    BY DEF InboxOf
  <2>2. i \in DOMAIN inbox[v] /\ inbox'[v][i].kind = inbox[v][i].kind
    BY <1>1, <1>4, <2>1
  <2>3. CASE inbox'[v][i].from # "job"
    BY <2>3
  <2>4. CASE inbox'[v][i].from = "job"
    <3>1. inbox[v][i].from = "job" /\ job' = job
      BY <1>1, <1>4, <2>2, <2>4
    <3>2. /\ inbox[v][i].kind # "command" /\ Awaited(v, inbox[v][i])
          /\ \A j \in DOMAIN inbox[v] : j > i => inbox[v][j].kind \in Harmless
      BY <1>4, <2>2, <3>1 DEF IInv, InboxOf
    <3>3. Awaited(v, inbox[v][i])'
      BY <2>2, <3>1, <3>2 DEF Awaited, Verb, Holding
    <3>4. QED
      BY <1>1, <1>4, <2>2, <3>2, <3>3
  <2>5. QED
    BY <2>3, <2>4
<1>5. ASSUME NEW v \in Windows PROVE ThreadOf(v)'
  <2>1. ThreadOf(v)
    BY <1>5 DEF IInv
  <2>2. /\ IF thread'[v].draining THEN told'[v] /\ recorder'[v] # "none" ELSE thread'[v].outer = NoRequest
        /\ thread'[v].outer.kind \in {"none", "pause", "hold", "policy"}
        /\ thread'[v].command.kind \in {"none", "command"} /\ thread'[v].command.from # "job"
    BY <1>1, <1>5, <2>1 DEF ThreadOf
  <2>3. ASSUME thread'[v].outer.from = "job"
        PROVE  Awaited(v, thread[v].outer)' /\ \A i \in DOMAIN inbox'[v] : inbox'[v][i].kind \in Harmless
    <3>1. thread[v].outer.from = "job" /\ job' = job
      BY <1>1, <1>5, <2>3
    <3>2. Awaited(v, thread[v].outer) /\ \A i \in DOMAIN inbox[v] : inbox[v][i].kind \in Harmless
      BY <2>1, <3>1 DEF ThreadOf
    <3>3. Awaited(v, thread[v].outer)'
      BY <1>1, <1>5, <3>1, <3>2 DEF Awaited, Verb, Holding
    <3>4. QED
      BY <1>1, <1>5, <3>2, <3>3
  <2>4. NoRequest' = NoRequest
    BY DEF NoRequest
  <2>5. QED
    BY <2>2, <2>3, <2>4 DEF ThreadOf
<1>6. HoldInv'
  <2>1. SUFFICES ASSUME job' = job, job.pc \in {"ask", "asked", "act"}, NEW v \in job.holds \ job.window
                 PROVE  Quiet(v)'
    BY DEF HoldInv
  <2>2. v \in Windows /\ Quiet(v)
    BY <2>1, JobTyped DEF IInv, HoldInv
  <2>3. \A i \in DOMAIN inbox'[v] : inbox'[v][i].kind # "release"
    BY <1>1, <2>2 DEF Quiet
  <2>4. QED
    BY <2>2, <2>3 DEF Quiet
<1>7. PauseInv'
  BY DEF Forget, IInv, PauseInv, Still
<1>8. HeldInv'
  BY <1>1 DEF HeldInv
<1>9. QED
  BY <1>2, <1>3, <1>4, <1>5, <1>6, <1>7, <1>8 DEF IInv

LEMMA JobTimesOutStep == ASSUME IInv, JobTimesOut PROVE IInv'
<1>1. job.pc \in {"asked", "freeing"} /\ Forget("job", job.window) /\ job' = AfterError
  BY DEF JobTimesOut
<1>2. PICK w \in Windows : job.window = {w}
  BY <1>1 DEF IInv, JobShape
<1> DEFINE r == [kind |-> IF job.pc = "asked" THEN Verb(job.kind) ELSE "release", from |-> "job"]
<1>3. Awaited(w, r)
  BY <1>1, <1>2 DEF Awaited
<1> HIDE DEF r
<1>4. /\ job' \in Job /\ JobShape' /\ job'.pc \notin {"asked", "freeing"}
      /\ job'.pc \in {"ask", "act"} => FALSE
  <2>1. job' = IF FALSE THEN AfterAnswer ELSE AfterError
    BY <1>1
  <2>2. QED
    BY <1>3, <2>1, Outcome DEF IInv
<1>5. agent' \subseteq Windows
  BY DEF JobTimesOut, IInv, TypeOK
<1>6. QED
  BY <1>1, <1>4, <1>5, ForgottenStep DEF JobTimesOut

LEMMA AgentTimesOutStep == ASSUME IInv, AgentTimesOut PROVE IInv'
BY ForgottenStep DEF AgentTimesOut

----------------------------------------------------------------------------
(* The thread of a coordinator. *)

\* A thread takes a request, begins to wait or ends a wait that was nobody's
\* but a command's.
LEMMA Proceeds ==
  ASSUME IInv, NEW w \in Windows, NEW d \in {0, 1},
         inbox' \in [Windows -> Seq(Request)],
         \A v \in Windows : v # w => inbox'[v] = inbox[v],
         Shifted(w, d),
         thread' \in [Windows -> Thread],
         \A v \in Windows : ThreadOf(v)',
         \A v \in Windows : timeouts = 0 /\ thread'[v].outer.kind = "hold" => thread'[v].outer.from = "job",
         told' \in [Windows -> BOOLEAN], \A v \in Windows : told[v] => told'[v],
         UNCHANGED <<supervisor, flags, recorder, lost, lastLost, job, promised,
                     jobs, asks, timeouts, faults, changes>>,
         hangs' \in Nat, agent' \subseteq Windows
  PROVE  IInv'
<1> USE DEF supervisor, flags
<1>1. TypeOK'
  BY DEF IInv, TypeOK
<1>2. JobShape'
  BY DEF IInv, JobShape, Holding
<1>3. ASSUME NEW v \in Windows PROVE InboxOf(v)'
  <2>1. InboxOf(v)
    BY <1>3 DEF IInv
  <2>2. CASE v = w
    BY <2>1, <2>2, InboxShifted
  <2>3. CASE v # w
    BY <1>3, <2>1, <2>3, InboxSame
  <2>4. QED
    BY <2>2, <2>3
<1>4. ASSUME NEW v \in Windows, NEW i \in DOMAIN inbox'[v]
      PROVE  \E j \in DOMAIN inbox[v] : inbox'[v][i] = inbox[v][j]
  BY <1>4 DEF Shifted
<1>5. HoldInv'
  <2>1. SUFFICES ASSUME job.pc \in {"ask", "asked", "act"}, NEW v \in job.holds \ job.window
                 PROVE  Quiet(v)'
    BY DEF HoldInv
  <2>2. v \in Windows /\ Quiet(v)
    BY <2>1, JobTyped DEF IInv, HoldInv
  <2>3. ASSUME NEW i \in DOMAIN inbox'[v] PROVE inbox'[v][i].kind # "release"
    <3>1. PICK j \in DOMAIN inbox[v] : inbox'[v][i] = inbox[v][j]
      BY <1>4, <2>2, <2>3
    <3>2. QED
      BY <2>2, <3>1 DEF Quiet
  <2>4. QED
    BY <2>2, <2>3 DEF Quiet
<1>6. PauseInv'
  <2>1. \A v \in Windows : Still(v) => Still(v)'
    BY DEF Still
  <2>2. listed \subseteq Windows
    BY DEF IInv, TypeOK
  <2>3. QED
    BY <2>1, <2>2 DEF IInv, PauseInv
<1>7. HeldInv'
  <2>1. SUFFICES ASSUME timeouts = 0 PROVE HeldInv'
    BY DEF HeldInv
  <2>2. ASSUME NEW v \in Windows, NEW i \in DOMAIN inbox'[v], inbox'[v][i].kind \in {"hold", "release"}
        PROVE  inbox'[v][i].from = "job"
    <3>1. PICK j \in DOMAIN inbox[v] : inbox'[v][i] = inbox[v][j]
      BY <1>4, <2>2
    <3>2. QED
      BY <2>1, <2>2, <3>1 DEF IInv, HeldInv
  <2>3. \A v \in Windows : held[v] => v \in job.holds \/ (job.pc = "freeing" /\ v \in job.window)
    BY <2>1 DEF IInv, HeldInv
  <2>4. QED
    BY <2>1, <2>2, <2>3 DEF HeldInv
<1>8. QED
  BY <1>1, <1>2, <1>3, <1>5, <1>6, <1>7 DEF IInv

\* As long as it is not a job's request that the others wait for.
LEMMA ThreadLeft ==
  ASSUME IInv, NEW v \in Windows, job' = job, told'[v] = told[v], recorder'[v] = recorder[v],
         thread'[v].draining = thread[v].draining, thread'[v].outer = thread[v].outer,
         thread'[v].command.kind \in {"none", "command"}, thread'[v].command.from # "job",
         \A i \in DOMAIN inbox'[v] : \E j \in DOMAIN inbox[v] : inbox'[v][i] = inbox[v][j]
  PROVE  ThreadOf(v)'
<1>1. ThreadOf(v)
  BY DEF IInv
<1>2. Awaited(v, thread[v].outer) => Awaited(v, thread[v].outer)'
  BY DEF Awaited, Verb, Holding
<1>3. (\A i \in DOMAIN inbox[v] : inbox[v][i].kind \in Harmless)
      => (\A i \in DOMAIN inbox'[v] : inbox'[v][i].kind \in Harmless)
  BY DEF Harmless
<1>4. NoRequest' = NoRequest
  BY DEF NoRequest
<1>5. QED
  BY <1>1, <1>2, <1>3, <1>4 DEF ThreadOf

LEMMA AnswerOther ==
  ASSUME IInv, NEW from, from # "job", NEW ok, Answer(from, ok)
  PROVE  job' = job /\ promised' = promised /\ agent' \subseteq Windows
BY DEF Answer, IInv, TypeOK

LEMMA CommandEndsStep == ASSUME IInv, NEW w \in Windows, CommandEnds(w) PROVE IInv'
<1>1. /\ thread[w].command.from # "job" /\ hangs' \in Nat
      /\ \E ok \in BOOLEAN : Answer(thread[w].command.from, ok)
  <2>1. hangs \in Nat
    BY DEF IInv, TypeOK
  <2>2. CASE recorder[w] = "starting"
    BY <2>1, <2>2 DEF CommandEnds, Hang, IInv, ThreadOf
  <2>3. CASE recorder[w] # "starting"
    BY <2>1, <2>3 DEF CommandEnds, IInv, ThreadOf
  <2>4. QED
    BY <2>2, <2>3
<1>2. job' = job /\ promised' = promised /\ agent' \subseteq Windows
  BY <1>1, AnswerOther
<1>3. /\ thread' \in [Windows -> Thread]
      /\ \A v \in Windows : /\ thread'[v].draining = thread[v].draining /\ thread'[v].outer = thread[v].outer
                            /\ v # w => thread'[v] = thread[v]
                            /\ v = w => thread'[v].command = NoRequest
  <2>1. thread[w] \in Thread
    BY DEF IInv, TypeOK
  <2>2. [thread[w] EXCEPT !.command = NoRequest] \in Thread
    BY <2>1 DEF Thread
  <2>3. thread' = [thread EXCEPT ![w].command = NoRequest]
    BY DEF CommandEnds
  <2>4. QED
    BY <2>1, <2>2, <2>3 DEF IInv, TypeOK, Thread
<1>4. ASSUME NEW v \in Windows PROVE ThreadOf(v)'
  <2>1. thread'[v].command.kind \in {"none", "command"} /\ thread'[v].command.from # "job"
    BY <1>3, <1>4 DEF IInv, ThreadOf, NoRequest
  <2>2. QED
    BY <1>2, <1>3, <1>4, <2>1, ThreadLeft DEF CommandEnds, recording
<1>5. \A v \in Windows : timeouts = 0 /\ thread'[v].outer.kind = "hold" => thread'[v].outer.from = "job"
  BY <1>3 DEF IInv, HeldInv
<1>6. Shifted(w, 0)
  <2>1. \A i \in DOMAIN inbox[w] : i + 0 = i
    BY PlaceTyped DEF IInv
  <2>2. QED
    BY <2>1 DEF CommandEnds, Shifted
<1>7. QED
  BY <1>1, <1>2, <1>3, <1>4, <1>5, <1>6, Proceeds DEF CommandEnds, recording, IInv, TypeOK

\* It waits for the recorder on behalf of r, which it has taken if d is 1.
LEMMA DrainStep ==
  ASSUME IInv, NEW w \in Windows, NEW d \in {0, 1}, NEW r \in Request \cup {NoRequest},
         Drain(w, r), recorder[w] # "none", r.kind \in {"none", "pause", "hold", "policy"},
         r.from = "job" =>
             Awaited(w, r) /\ \A i \in DOMAIN inbox'[w] : inbox'[w][i].kind \in Harmless,
         timeouts = 0 /\ r.kind = "hold" => r.from = "job",
         inbox' \in [Windows -> Seq(Request)],
         \A v \in Windows : v # w => inbox'[v] = inbox[v],
         Shifted(w, d), UNCHANGED <<supervisor, budgets>>
  PROVE  IInv'
<1>1. UNCHANGED <<flags, recorder, lost, lastLost, clients>> /\ told' = [told EXCEPT ![w] = TRUE]
  BY DEF Drain
<1>2. /\ thread' \in [Windows -> Thread]
      /\ \A v \in Windows : v # w => thread'[v] = thread[v]
      /\ thread'[w].draining /\ thread'[w].outer = r /\ thread'[w].command = thread[w].command
  <2>1. thread[w] \in Thread
    BY DEF IInv, TypeOK
  <2>2. [thread[w] EXCEPT !.draining = TRUE, !.outer = r] \in Thread
    BY <2>1 DEF Thread
  <2>3. thread' = [thread EXCEPT ![w] = [thread[w] EXCEPT !.draining = TRUE, !.outer = r]]
    BY DEF Drain
  <2>4. QED
    BY <2>1, <2>2, <2>3 DEF IInv, TypeOK, Thread
<1>3. told' \in [Windows -> BOOLEAN] /\ told'[w] /\ \A v \in Windows : told[v] => told'[v]
  BY <1>1 DEF IInv, TypeOK
<1>4. \A v \in Windows : v # w => told'[v] = told[v]
  BY <1>1 DEF IInv, TypeOK
<1>5. ASSUME NEW v \in Windows PROVE ThreadOf(v)'
  <2>1. CASE v # w
    <3>1. thread'[v].command.kind \in {"none", "command"} /\ thread'[v].command.from # "job"
      BY <1>2, <1>5, <2>1 DEF IInv, ThreadOf
    <3>2. QED
      BY <1>1, <1>2, <1>4, <1>5, <2>1, <3>1, ThreadLeft DEF clients
  <2>2. CASE v = w
    <3>1. thread[w].command.kind \in {"none", "command"} /\ thread[w].command.from # "job"
      BY DEF IInv, ThreadOf
    <3>2. r.from = "job" => (job.window = {w} /\ \/ job.pc = "asked" /\ r.kind = Verb(job.kind)
                                                 \/ job.pc = "freeing" /\ r.kind = "release")
      BY DEF Awaited
    <3>3. job' = job /\ recorder' = recorder
      BY <1>1 DEF clients
    <3>4. thread'[w].outer.from = "job" => Awaited(w, thread[w].outer)'
      BY <1>2, <3>2, <3>3 DEF Awaited, Verb, Holding
    <3>5. QED
      BY <1>2, <1>3, <2>2, <3>1, <3>3, <3>4 DEF ThreadOf
  <2>3. QED
    BY <2>1, <2>2
<1>6. \A v \in Windows : timeouts = 0 /\ thread'[v].outer.kind = "hold" => thread'[v].outer.from = "job"
  BY <1>2 DEF IInv, HeldInv
<1>7. hangs' \in Nat /\ agent' \subseteq Windows
  BY <1>1 DEF clients, budgets, IInv, TypeOK
<1>8. UNCHANGED <<job, promised, jobs, asks, timeouts, faults, changes>>
  BY <1>1 DEF clients, budgets
<1>9. QED
  BY <1>1, <1>2, <1>3, <1>5, <1>6, <1>7, <1>8, Proceeds

LEMMA HandleStep == ASSUME IInv, NEW w \in Windows, Handle(w) PROVE IInv'
<1> DEFINE r == Head(inbox[w])
<1>1. /\ inbox[w] # <<>> /\ inbox' = [inbox EXCEPT ![w] = Tail(@)] /\ UNCHANGED <<supervisor, budgets>>
  BY DEF Handle
<1>2. /\ r \in Request /\ 1 \in DOMAIN inbox[w] /\ r = inbox[w][1]
      /\ inbox' \in [Windows -> Seq(Request)]
      /\ \A v \in Windows : v # w => inbox'[v] = inbox[v]
      /\ \A i \in DOMAIN inbox'[w] : i + 1 \in DOMAIN inbox[w] /\ inbox'[w][i] = inbox[w][i + 1] /\ i + 1 > 1
  BY <1>1, Taken DEF IInv
<1>3. Shifted(w, 1)
  BY <1>2 DEF Shifted
<1>4. /\ r.kind = "command" => r.from # "job"
      /\ r.from = "job" => Awaited(w, r) /\ \A i \in DOMAIN inbox'[w] : inbox'[w][i].kind \in Harmless
      /\ timeouts = 0 /\ r.kind \in {"hold", "release"} => r.from = "job"
  BY <1>2 DEF IInv, InboxOf, HeldInv
<1>5. /\ \A v \in Windows : timeouts = 0 /\ thread[v].outer.kind = "hold" => thread[v].outer.from = "job"
      /\ hangs' \in Nat /\ UNCHANGED <<jobs, asks, timeouts, faults, changes>>
  BY <1>1 DEF IInv, HeldInv, TypeOK, budgets
<1>6. ASSUME NEW v \in Windows, NEW i \in DOMAIN inbox'[v]
      PROVE  \E j \in DOMAIN inbox[v] : inbox'[v][i] = inbox[v][j]
  BY <1>2, <1>6
<1> HIDE DEF r
<1>7. CASE r.kind = "command" /\ thread' = [thread EXCEPT ![w].command = r] /\ UNCHANGED <<flags, recording, clients>>
  <2>1. /\ thread' \in [Windows -> Thread]
        /\ \A v \in Windows : /\ thread'[v].draining = thread[v].draining /\ thread'[v].outer = thread[v].outer
                              /\ v # w => thread'[v] = thread[v]
                              /\ v = w => thread'[v].command = r
    <3>1. thread[w] \in Thread
      BY DEF IInv, TypeOK
    <3>2. [thread[w] EXCEPT !.command = r] \in Thread
      BY <1>2, <3>1 DEF Thread
    <3>3. QED
      BY <1>7, <3>1, <3>2 DEF IInv, TypeOK, Thread
  <2>2. ASSUME NEW v \in Windows PROVE ThreadOf(v)'
    <3>1. thread'[v].command.kind \in {"none", "command"} /\ thread'[v].command.from # "job"
      BY <1>4, <1>7, <2>1, <2>2 DEF IInv, ThreadOf
    <3>2. QED
      BY <1>6, <1>7, <2>1, <2>2, <3>1, ThreadLeft DEF recording, clients
  <2>3. agent' \subseteq Windows /\ told' \in [Windows -> BOOLEAN] /\ told' = told
    BY <1>7 DEF clients, recording, IInv, TypeOK
  <2>4. UNCHANGED <<supervisor, flags, recorder, lost, lastLost, job, promised, jobs, asks, timeouts, faults, changes>>
    BY <1>1, <1>5, <1>7 DEF recording, clients
  <2>5. \A v \in Windows : timeouts = 0 /\ thread'[v].outer.kind = "hold" => thread'[v].outer.from = "job"
    BY <1>5, <2>1
  <2>6. QED
    BY <1>2, <1>3, <1>5, <2>1, <2>2, <2>3, <2>4, <2>5, Proceeds
<1>8. CASE r.kind = "command" /\ Answer(r.from, FALSE) /\ UNCHANGED <<flags, recording, thread>>
  <2>1. job' = job /\ promised' = promised /\ agent' \subseteq Windows
    BY <1>4, <1>8, AnswerOther
  <2>2. ASSUME NEW v \in Windows PROVE ThreadOf(v)'
    <3>1. thread'[v].command.kind \in {"none", "command"} /\ thread'[v].command.from # "job"
      BY <1>8, <2>2 DEF IInv, ThreadOf
    <3>2. QED
      BY <1>6, <1>8, <2>1, <2>2, <3>1, ThreadLeft DEF recording
  <2>3. thread' \in [Windows -> Thread] /\ told' \in [Windows -> BOOLEAN] /\ told' = told
    BY <1>8 DEF recording, IInv, TypeOK
  <2>4. QED
    BY <1>1, <1>2, <1>3, <1>5, <1>8, <2>1, <2>2, <2>3, Proceeds DEF recording
<1>9. CASE Stops(w, r) /\ recorder[w] # "none" /\ Drain(w, r)
  BY <1>1, <1>2, <1>3, <1>4, <1>9, DrainStep DEF Stops
<1>10. CASE /\ Stops(w, r) => recorder[w] = "none" \/ thread[w].draining
            /\ Conclude(w, r, recorder[w] = "none" /\ ~lastLost[w])
            /\ UNCHANGED <<recording, thread>>
  <2>1. r.from = "job" => /\ Awaited(w, r) /\ NothingAsked'
                          /\ \A i \in DOMAIN inbox'[w] : inbox'[w][i].kind \in Harmless
    BY <1>1, <1>10, HeadIsOnly DEF r
  <2>2. thread[w].draining => told[w]
    BY DEF IInv, ThreadOf
  <2>3. r.kind = "pause" => recorder[w] = "none" \/ told[w]
    BY <1>10, <2>2 DEF Stops
  <2>4. r.kind = "release" => ~Quiet(w)
    BY <1>2 DEF Quiet
  <2>5. /\ thread' \in [Windows -> Thread] /\ {told', lost', lastLost'} \subseteq [Windows -> BOOLEAN]
        /\ recorder' \in [Windows -> {"none", "starting", "alive", "ended"}] /\ faults' \in Nat
        /\ thread' = thread /\ recorder' = recorder /\ told' = told /\ lastLost' = lastLost
    BY <1>5, <1>10 DEF recording, IInv, TypeOK
  <2> DEFINE saved == recorder[w] = "none" /\ ~lastLost[w]
  <2>6. saved \in BOOLEAN /\ (saved => recorder'[w] = "none" /\ ~lastLost'[w]) /\ Conclude(w, r, saved)
    BY <1>10, <2>5
  <2> HIDE DEF saved
  <2>7. QED
    BY <1>1, <1>2, <1>3, <1>4, <1>5, <2>1, <2>3, <2>4, <2>5, <2>6, Concluded
<1>11. QED
  BY <1>7, <1>8, <1>9, <1>10 DEF Handle, r

\* What either end of a wait for the recorder knows of the request it is for.
LEMMA DrainOver ==
  ASSUME IInv, NEW w \in Windows, thread[w].draining,
         thread' = [thread EXCEPT ![w] = Idle], inbox' = inbox
  PROVE  /\ thread[w].outer \in Request \cup {NoRequest} /\ told[w]
         /\ inbox' \in [Windows -> Seq(Request)] /\ Shifted(w, 0)
         /\ thread' \in [Windows -> Thread] /\ thread'[w] = Idle
         /\ \A v \in Windows : v # w => inbox'[v] = inbox[v] /\ thread'[v] = thread[v]
         /\ thread[w].outer.from = "job" =>
              /\ Awaited(w, thread[w].outer)
              /\ NothingAsked' /\ \A i \in DOMAIN inbox'[w] : inbox'[w][i].kind \in Harmless
         /\ thread[w].outer.kind \in {"none", "pause", "hold", "policy"}
         /\ timeouts = 0 /\ thread[w].outer.kind = "hold" => thread[w].outer.from = "job"
<1>1. thread[w] \in Thread /\ inbox \in [Windows -> Seq(Request)]
  BY DEF IInv, TypeOK
<1>2. thread' \in [Windows -> Thread] /\ thread'[w] = Idle
      /\ \A v \in Windows : v # w => thread'[v] = thread[v]
  BY DEF IInv, TypeOK, Thread, Idle
<1>3. \A i \in DOMAIN inbox[w] : i + 0 = i
  BY PlaceTyped DEF IInv
<1>4. thread[w].outer.from = "job" =>
        /\ Awaited(w, thread[w].outer)
        /\ NothingAsked' /\ \A i \in DOMAIN inbox'[w] : inbox'[w][i].kind \in Harmless
  BY OuterIsOnly
<1>5. /\ thread[w].outer.kind \in {"none", "pause", "hold", "policy"} /\ told[w]
      /\ timeouts = 0 /\ thread[w].outer.kind = "hold" => thread[w].outer.from = "job"
  BY DEF IInv, ThreadOf, HeldInv
<1>6. Shifted(w, 0)
  BY <1>3 DEF Shifted
<1>7. thread[w].outer \in Request \cup {NoRequest}
  BY <1>1 DEF Thread
<1>8. QED
  BY <1>1, <1>2, <1>4, <1>5, <1>6, <1>7

LEMMA DrainEndsStep == ASSUME IInv, NEW w \in Windows, DrainEnds(w) PROVE IInv'
<1> DEFINE saved == ~lost[w]
           r == thread[w].outer
           d == 0
<1>1. /\ Conclude(w, r, saved) /\ recorder[w] = "ended"
      /\ UNCHANGED <<supervisor, timeouts, changes, jobs, asks>>
  BY DEF DrainEnds, Ended, budgets
<1>2. /\ recorder' \in [Windows -> {"none", "starting", "alive", "ended"}]
      /\ {told', lost', lastLost'} \subseteq [Windows -> BOOLEAN] /\ recorder'[w] = "none"
      /\ saved \in BOOLEAN /\ (saved => ~lastLost'[w])
      /\ \A v \in Windows : v # w =>
           recorder'[v] = recorder[v] /\ told'[v] = told[v] /\ lastLost'[v] = lastLost[v]
  BY DEF DrainEnds, Ended, IInv, TypeOK
<1>3. hangs' \in Nat /\ faults' \in Nat
  BY DEF DrainEnds, budgets, IInv, TypeOK
<1>4. /\ r \in Request \cup {NoRequest}
      /\ inbox' \in [Windows -> Seq(Request)] /\ Shifted(w, 0)
      /\ thread' \in [Windows -> Thread] /\ thread'[w] = Idle
      /\ \A v \in Windows : v # w => inbox'[v] = inbox[v] /\ thread'[v] = thread[v]
      /\ r.from = "job" =>
           /\ Awaited(w, r)
           /\ NothingAsked' /\ \A i \in DOMAIN inbox'[w] : inbox'[w][i].kind \in Harmless
      /\ r.kind \in {"none", "pause", "hold", "policy"}
      /\ timeouts = 0 /\ r.kind = "hold" => r.from = "job"
  BY DrainOver DEF DrainEnds
<1>5. d \in {0, 1} /\ Shifted(w, d)
  BY <1>4
<1> HIDE DEF saved, r, d
<1>6. QED
  BY <1>1, <1>2, <1>3, <1>4, <1>5, Concluded

LEMMA DrainExpiresStep == ASSUME IInv, NEW w \in Windows, DrainExpires(w) PROVE IInv'
<1> DEFINE saved == FALSE
           r == thread[w].outer
           d == 0
<1>1. /\ Conclude(w, r, saved) /\ recorder[w] # "none"
      /\ UNCHANGED <<supervisor, timeouts, changes, jobs, asks>>
  BY DEF DrainExpires, Alive
<1>2. /\ recorder' \in [Windows -> {"none", "starting", "alive", "ended"}]
      /\ {told', lost', lastLost'} \subseteq [Windows -> BOOLEAN]
      /\ saved \in BOOLEAN /\ ~saved
      /\ \A v \in Windows : v # w =>
           recorder'[v] = recorder[v] /\ told'[v] = told[v] /\ lastLost'[v] = lastLost[v]
      /\ recorder'[w] = recorder[w] /\ told'[w] = told[w]
  BY DEF DrainExpires, IInv, TypeOK
<1>3. hangs' \in Nat /\ faults' \in Nat
  BY DEF DrainExpires, Hang, IInv, TypeOK
<1>4. /\ r \in Request \cup {NoRequest} /\ told[w]
      /\ inbox' \in [Windows -> Seq(Request)] /\ Shifted(w, 0)
      /\ thread' \in [Windows -> Thread] /\ thread'[w] = Idle
      /\ \A v \in Windows : v # w => inbox'[v] = inbox[v] /\ thread'[v] = thread[v]
      /\ r.from = "job" =>
           /\ Awaited(w, r)
           /\ NothingAsked' /\ \A i \in DOMAIN inbox'[w] : inbox'[w][i].kind \in Harmless
      /\ r.kind \in {"none", "pause", "hold", "policy"}
      /\ timeouts = 0 /\ r.kind = "hold" => r.from = "job"
  BY DrainOver DEF DrainExpires
<1>5. d \in {0, 1} /\ Shifted(w, d)
  BY <1>4
<1> HIDE DEF saved, r, d
<1>6. QED
  BY <1>1, <1>2, <1>3, <1>4, <1>5, Concluded

LEMMA StepStep == ASSUME IInv, NEW w \in Windows, Step(w) PROVE IInv'
<1>1. ~thread[w].draining /\ UNCHANGED <<supervisor, inbox, budgets>>
  BY DEF Step
<1>2. Shifted(w, 0)
  <2>1. \A i \in DOMAIN inbox[w] : i + 0 = i
    BY PlaceTyped DEF IInv
  <2>2. QED
    BY <1>1, <2>1 DEF Shifted
<1>3. CASE ~May(w) /\ recorder[w] # "none" /\ Drain(w, NoRequest)
  <2>1. NoRequest.kind = "none" /\ NoRequest.from = "nobody"
    BY DEF NoRequest
  <2>2. inbox' \in [Windows -> Seq(Request)]
    BY <1>1 DEF IInv, TypeOK
  <2>3. QED
    BY <1>1, <1>2, <1>3, <2>1, <2>2, DrainStep
<1>4. CASE May(w) /\ recorder[w] = "ended" /\ Ended(w) /\ UNCHANGED <<flags, thread, clients>>
  <2>1. /\ recorder' = [recorder EXCEPT ![w] = "none"]
        /\ {told', lost', lastLost'} \subseteq [Windows -> BOOLEAN]
        /\ \A v \in Windows : v # w => told'[v] = told[v] /\ lastLost'[v] = lastLost[v]
    BY <1>4 DEF Ended, IInv, TypeOK
  <2>2. ~Quiet(w)
    BY <1>4 DEF Quiet
  <2>3. QED
    BY <1>1, <1>4, <2>1, <2>2, RecorderMoves DEF budgets, IInv, TypeOK
<1>5. CASE /\ May(w) /\ recorder' = [recorder EXCEPT ![w] = "starting"]
           /\ UNCHANGED <<flags, told, lost, lastLost, thread, clients>>
  <2>1. ~Quiet(w) /\ ~Still(w)
    BY <1>5 DEF Quiet, Still, May
  <2>2. {told', lost', lastLost'} \subseteq [Windows -> BOOLEAN]
    BY <1>5 DEF IInv, TypeOK
  <2>3. QED
    BY <1>1, <1>5, <2>1, <2>2, RecorderMoves DEF budgets, IInv, TypeOK
<1>6. QED
  BY <1>3, <1>4, <1>5 DEF Step

----------------------------------------------------------------------------
(* The invariant, and what follows from it. *)

LEMMA Initial == Init => IInv
<1> SUFFICES ASSUME Init PROVE IInv
  OBVIOUS
<1> USE DEF Init
<1>1. TypeOK
  <2>1. Idle \in Thread /\ NoJob \in Job /\ catalog \in Policy
    BY DEF Idle, Thread, NoJob, Job, Policy
  <2>2. inbox \in [Windows -> Seq(Request)] /\ thread \in [Windows -> Thread]
    BY <2>1
  <2>3. copy \in [Windows -> Policy] /\ {held, told, lost, lastLost} \subseteq [Windows -> BOOLEAN]
        /\ recorder \in [Windows -> {"none", "starting", "alive", "ended"}]
    BY <2>1
  <2>4. notice \in [policy: Policy, to: SUBSET Windows] /\ scan \in {<<>>}
    BY <2>1
  <2>5. {jobs, asks, timeouts, hangs, faults, changes} \subseteq Nat
    OBVIOUS
  <2>6. listed \subseteq Windows /\ agent \subseteq Windows /\ promised \in BOOLEAN
    OBVIOUS
  <2>7. job \in Job
    BY <2>1
  <2> HIDE DEF Init
  <2>8. QED
    BY <2>1, <2>2, <2>3, <2>4, <2>5, <2>6, <2>7 DEF TypeOK
<1>2. JobShape
  BY DEF JobShape, NoJob, Holding
<1>3. \A w \in Windows : InboxOf(w) /\ ThreadOf(w)
  BY DEF InboxOf, ThreadOf, Idle, NoRequest
<1>4. HoldInv /\ PauseInv /\ HeldInv
  BY DEF HoldInv, PauseInv, HeldInv, NoJob, Idle, NoRequest
<1>5. QED
  BY <1>1, <1>2, <1>3, <1>4 DEF IInv

LEMMA NextStep == IInv /\ [Next]_vars => IInv'
<1> SUFFICES ASSUME IInv, [Next]_vars PROVE IInv'
  OBVIOUS
<1>1. CASE UNCHANGED vars
  BY <1>1 DEF vars, supervisor, flags, recording, clients, budgets, IInv, TypeOK, JobShape, InboxOf, ThreadOf,
              Awaited, Verb, Holding, Harmless, NoRequest, HoldInv, Quiet, PauseInv, Still, HeldInv
<1>2. CASE \E kind \in Kinds : RequestJob(kind)
  BY <1>2, RequestJobStep
<1>3. CASE StartJob \/ JobTimesOut \/ AgentTimesOut
  BY <1>3, StartJobStep, JobTimesOutStep, AgentTimesOutStep
<1>4. CASE JobStep
  BY <1>4, JobAsksStep, JobFreesStep DEF JobStep
<1>5. CASE ChangePolicy \/ ScanReads \/ ScanCreates
  BY <1>5, ChangePolicyStep, ScanReadsStep, ScanCreatesStep
<1>6. ASSUME NEW w \in Windows, AgentAsks(w) \/ Notify(w) PROVE IInv'
  BY <1>6, AgentAsksStep, NotifyStep
<1>7. ASSUME NEW w \in Windows, ThreadStep(w) \/ DrainExpires(w) PROVE IInv'
  BY <1>7, HandleStep, DrainEndsStep, CommandEndsStep, StepStep, DrainExpiresStep DEF ThreadStep
<1>8. ASSUME NEW w \in Windows, Baselined(w) \/ \E fails \in BOOLEAN : RecorderEnds(w, fails) PROVE IInv'
  BY <1>8, BaselinedStep, RecorderEndsStep
<1>9. QED
  BY <1>1, <1>2, <1>3, <1>4, <1>5, <1>6, <1>7, <1>8 DEF Next

THEOREM Inductive == Spec => []IInv
BY Initial, NextStep, PTL DEF Spec

\* Every variable keeps its type.
THEOREM TypeCorrect == Spec => []TypeOK
<1>1. IInv => TypeOK
  BY DEF IInv
<1>2. QED
  BY <1>1, Inductive, PTL

\* While an editor is navigated, or a history moved or imported into, none of
\* the windows held for that records, and none has lost edits since its hold
\* was answered (service/coordinator.py, navigation_hold), however requests of
\* clients that gave up are still on their way.
THEOREM NavigationIsQuiet == Spec => []QuietWhileNavigating
<1>1. IInv => QuietWhileNavigating
  BY DEF IInv, JobShape, HoldInv, Quiet, QuietWhileNavigating
<1>2. QED
  BY <1>1, Inductive, PTL

\* A project that was paused stays so for every window that is there, and a
\* window whose job did not give up is held for that job or not at all.
THEOREM PausesAreKept == Spec => []PausesKept
<1>1. IInv => PausesKept
  <2> SUFFICES ASSUME IInv PROVE PausesKept
    OBVIOUS
  <2>1. changes = 0 => PauseSticks
    BY DEF IInv, PauseInv, PauseSticks, Still
  <2>2. timeouts = 0 => HeldForSomeone
    BY DEF IInv, HeldInv, HeldForSomeone
  <2>3. QED
    BY <2>1, <2>2 DEF PausesKept
<1>2. QED
  BY <1>1, Inductive, PTL
=============================================================================
