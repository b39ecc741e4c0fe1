--------------------------- MODULE WindowRequests ---------------------------
(***************************************************************************)
(* Requests to the coordinators of a project's windows.                    *)
(*                                                                         *)
(* A coordinator is a thread with an inbox.  Between requests it takes     *)
(* steps: it starts a recorder for its window, or ends it when it may not  *)
(* record.  Handlers that stop the recorder wait for its end and answer    *)
(* other requests meanwhile.  Jobs of the lane "coordinate" come one at a  *)
(* time and ask window after window: to pause, to resume, or to hold still *)
(* while an editor is navigated or a history is moved or imported into.    *)
(* A client waits for its answer for a limited time.  Pauses are also in   *)
(* the catalog; a coordinator works with a copy of the project's row.      *)
(*                                                                         *)
(* Not here: claims, leases and windows that go away (DocumentClaims), what*)
(* the recorder does with commands (Observer), pauses of a single window,  *)
(* which differ in the flag they set, and the state shown to the user.     *)
(***************************************************************************)
EXTENDS Naturals, Sequences, FiniteSets

CONSTANTS
    Windows,      \* windows of the editor
    Late,         \* those that appear while the service runs
    Kinds,        \* kinds of jobs, among "pause", "resume", "open", "move", "import"
    MaxJobs,      \* bound: jobs
    MaxAsks,      \* bound: requests of agents that prepare an edit
    MaxTimeouts,  \* bound: clients that stop waiting
    MaxHangs,     \* bound: drains and commands that reach their limit
    MaxFaults,    \* bound: recorders that fail
    MaxChanges    \* bound: changes of the policy and scans for new windows

ASSUME WindowsAssumption ==
    /\ Late \subseteq Windows
    /\ Kinds \subseteq {"pause", "resume", "open", "move", "import"}
    /\ {MaxJobs, MaxAsks, MaxTimeouts, MaxHangs, MaxFaults, MaxChanges} \subseteq Nat

Policy == [enabled: BOOLEAN, paused: BOOLEAN]
Request == [kind: {"policy", "pause", "resume", "hold", "release", "command"},
            from: {"job", "agent", "nobody"}]
\* A handler that waits for the end of the recorder; a step waits for "nobody".
NoRequest == [kind |-> "none", from |-> "nobody"]

VARIABLES
    catalog,   \* Policy: the project's row
    listed,    \* windows that have a coordinator
    copy,      \* [Windows -> Policy]: Coordinator.project
    held,      \* [Windows -> BOOLEAN]: paused_by_navigation
    recorder,  \* [Windows -> {"none", "starting", "alive", "ended"}]
    told,      \* [Windows -> BOOLEAN]: run_stop is set
    lost,      \* [Windows -> BOOLEAN]: how the recorder ended: its tail is not saved
    lastLost,  \* [Windows -> BOOLEAN]: last_end_error is set
    inbox,     \* [Windows -> Seq(Request)]
    thread,    \* [Windows -> [draining, outer, command]]
    job,       \* the job of the lane, a client
    agent,     \* the window an agent waits for, if any
    notice,    \* a policy on its way to the coordinators, and to which
    scan,      \* what a scan of the supervisor has read: <<>> or <<Policy>>
    promised,  \* the last pause or resume that succeeded was a pause
    jobs, asks, timeouts, hangs, faults, changes   \* how much of each bound is used

budgets == <<jobs, asks, timeouts, hangs, faults, changes>>
flags == <<copy, held>>
recording == <<recorder, told, lost, lastLost>>
clients == <<job, agent, promised>>
supervisor == <<catalog, listed, notice, scan>>
vars == <<supervisor, flags, recording, inbox, thread, clients, budgets>>

NoJob == [kind |-> "none", pc |-> "idle", todo |-> {}, holds |-> {}, window |-> {}]
Idle == [draining |-> FALSE, outer |-> NoRequest, command |-> NoRequest]

Thread == [draining: BOOLEAN, outer: Request \cup {NoRequest}, command: Request \cup {NoRequest}]
Job == [kind: Kinds \cup {"none"}, pc: {"idle", "queued", "ask", "asked", "act", "free", "freeing"},
        todo: SUBSET Windows, holds: SUBSET Windows, window: SUBSET Windows]

TypeOK ==
    /\ catalog \in Policy /\ listed \subseteq Windows
    /\ notice \in [policy: Policy, to: SUBSET Windows]
    /\ scan \in {<<>>} \cup {<<policy>> : policy \in Policy}
    /\ copy \in [Windows -> Policy]
    /\ {held, told, lost, lastLost} \subseteq [Windows -> BOOLEAN]
    /\ recorder \in [Windows -> {"none", "starting", "alive", "ended"}]
    /\ inbox \in [Windows -> Seq(Request)]
    /\ thread \in [Windows -> Thread] /\ job \in Job
    /\ agent \subseteq Windows /\ promised \in BOOLEAN
    /\ {jobs, asks, timeouts, hangs, faults, changes} \subseteq Nat

Init ==
    /\ catalog = [enabled |-> TRUE, paused |-> FALSE]
    /\ listed = Windows \ Late
    /\ copy = [w \in Windows |-> catalog]
    /\ held = [w \in Windows |-> FALSE]
    /\ recorder = [w \in Windows |-> "none"]
    /\ told = held /\ lost = held /\ lastLost = held
    /\ inbox = [w \in Windows |-> <<>>]
    /\ thread = [w \in Windows |-> Idle]
    /\ job = NoJob /\ agent = {} /\ promised = FALSE
    /\ notice = [policy |-> catalog, to |-> {}] /\ scan = <<>>
    /\ jobs = 0 /\ asks = 0 /\ timeouts = 0 /\ hangs = 0 /\ faults = 0 /\ changes = 0

----------------------------------------------------------------------------
(* Clients. *)

Send(w, kind, from) ==
    inbox' = [inbox EXCEPT ![w] = Append(@, [kind |-> kind, from |-> from])]

Holding == {"open", "move", "import"}
Verb(kind) == IF kind \in Holding THEN "hold" ELSE kind

\* A job that fails while windows are held for it frees them first.
AfterError ==
    IF job.kind \in Holding /\ job.holds # {}
    THEN [job EXCEPT !.pc = "free", !.window = {}] ELSE NoJob

\* Where it goes on with its answer: when no window is left it acts or is done.
AfterAnswer ==
    LET holds == IF job.kind \in Holding THEN job.holds \cup job.window ELSE {} IN
    CASE job.pc = "freeing" -> AfterError
      [] job.pc = "asked" /\ job.todo # {} -> [job EXCEPT !.pc = "ask", !.window = {}, !.holds = holds]
      [] job.pc = "asked" /\ job.todo = {} ->
           IF job.kind \in Holding THEN [job EXCEPT !.pc = "act", !.window = {}, !.holds = holds] ELSE NoJob

\* The answer reaches the client that still waits for it, if there is one.
Answer(from, ok) ==
    /\ job' = IF from # "job" THEN job ELSE IF ok THEN AfterAnswer ELSE AfterError
    /\ promised' = (promised \/ (from = "job" /\ ok /\ job.kind = "pause" /\ job.todo = {}))
    /\ agent' = IF from = "agent" THEN {} ELSE agent

\* A thread that does not wait itself answers within seconds.  The request of
\* a client that gave up stays where it is, and is handled all the same.
Forget(from, asked) ==
    LET Orphan(r) == IF r.from = from THEN [r EXCEPT !.from = "nobody"] ELSE r IN
    /\ \E w \in asked : thread[w] # Idle
    /\ timeouts < MaxTimeouts /\ timeouts' = timeouts + 1
    /\ inbox' = [w \in Windows |-> [i \in DOMAIN inbox[w] |-> Orphan(inbox[w][i])]]
    /\ thread' = [w \in Windows |-> [thread[w] EXCEPT !.outer = Orphan(@), !.command = Orphan(@)]]
    /\ UNCHANGED <<jobs, asks, hangs, faults, changes>>

\* A request needs windows that can be recorded; what is asked for waits in the
\* lane, and is not asked for again before it has ended.
RequestJob(kind) ==
    /\ job.pc = "idle" /\ jobs < MaxJobs /\ jobs' = jobs + 1
    /\ job' = [NoJob EXCEPT !.kind = kind, !.pc = "queued"]
    /\ UNCHANGED <<supervisor, flags, recording, inbox, thread, agent, promised,
                   asks, timeouts, hangs, faults, changes>>

\* Opening a version concerns one window, the others all that the project has
\* when the job begins.
Targets(kind) == IF kind = "open" THEN {{w} : w \in listed} ELSE {listed}

\* A pause or a resume writes the catalog first.
StartJob ==
    /\ job.pc = "queued"
    /\ \E todo \in Targets(job.kind) : job' = [job EXCEPT !.pc = "ask", !.todo = todo]
    /\ catalog' = IF job.kind \in Holding THEN catalog
                  ELSE [catalog EXCEPT !.paused = (job.kind = "pause")]
    /\ promised' = (promised /\ job.kind # "resume")
    /\ UNCHANGED <<listed, notice, scan, flags, recording, inbox, thread, agent, budgets>>

\* An import counts a window as held before it was answered, the others after.
JobAsks(w) ==
    /\ job.pc = "ask" /\ w \in job.todo
    /\ Send(w, Verb(job.kind), "job")
    /\ job' = [job EXCEPT !.pc = "asked", !.todo = @ \ {w}, !.window = {w},
                          !.holds = IF job.kind = "import" THEN @ \cup {w} ELSE @]
    /\ UNCHANGED <<supervisor, flags, recording, thread, agent, promised, budgets>>

JobTimesOut ==
    /\ job.pc \in {"asked", "freeing"}
    /\ Forget("job", job.window) /\ job' = AfterError
    /\ UNCHANGED <<supervisor, flags, recording, agent, promised>>

\* It has acted, or was refused, and releases one window after the other.
JobFrees(w) ==
    /\ job.pc \in {"act", "free"} /\ w \in job.holds
    /\ Send(w, "release", "job")
    /\ job' = [job EXCEPT !.pc = "freeing", !.holds = @ \ {w}, !.window = {w}]
    /\ UNCHANGED <<supervisor, flags, recording, thread, agent, promised, budgets>>

\* An agent wants a version before it edits.
AgentAsks(w) ==
    /\ agent = {} /\ w \in listed /\ asks < MaxAsks /\ asks' = asks + 1
    /\ Send(w, "command", "agent") /\ agent' = {w}
    /\ UNCHANGED <<supervisor, flags, recording, thread, job, promised, jobs, timeouts, hangs, faults, changes>>

AgentTimesOut ==
    /\ agent # {} /\ Forget("agent", agent) /\ agent' = {}
    /\ UNCHANGED <<supervisor, flags, recording, job, promised>>

----------------------------------------------------------------------------
(* The supervisor. *)

\* set_policy writes the row; what it read back is what the windows are told.
ChangePolicy ==
    /\ notice.to = {} /\ changes < MaxChanges /\ changes' = changes + 1
    /\ catalog' = [catalog EXCEPT !.enabled = ~@]
    /\ notice' = [policy |-> catalog', to |-> listed]
    /\ UNCHANGED <<listed, scan, flags, recording, inbox, thread, clients, jobs, asks, timeouts, hangs, faults>>

Notify(w) ==
    /\ w \in notice.to /\ notice' = [notice EXCEPT !.to = @ \ {w}]
    /\ copy' = [copy EXCEPT ![w] = notice.policy]
    /\ Send(w, "policy", "nobody")
    /\ UNCHANGED <<catalog, listed, scan, held, recording, thread, clients, budgets>>

\* A scan reads the projects before it makes the coordinators of new windows.
ScanReads ==
    /\ scan = <<>> /\ listed # Windows /\ changes < MaxChanges /\ changes' = changes + 1
    /\ scan' = <<catalog>>
    /\ UNCHANGED <<catalog, listed, notice, flags, recording, inbox, thread, clients, jobs, asks, timeouts, hangs, faults>>

ScanCreates ==
    /\ scan # <<>> /\ scan' = <<>> /\ listed' = Windows
    /\ copy' = [w \in Windows |-> IF w \in listed THEN copy[w] ELSE scan[1]]
    /\ UNCHANGED <<catalog, notice, held, recording, inbox, thread, clients, budgets>>

----------------------------------------------------------------------------
(* The thread of a coordinator. *)

\* Faulty: the coordinator goes on with the copy it has.
KeepCopy(w, r, saved) ==
    /\ held' = CASE r.kind = "hold" /\ saved -> [held EXCEPT ![w] = TRUE]
                 [] r.kind = "release" -> [held EXCEPT ![w] = FALSE]
                 [] OTHER -> held
    /\ Answer(r.from, r.kind = "hold" => saved) /\ UNCHANGED copy

\* The rest of a handler, once the recorder was stopped as far as it needs;
\* saved: _stop_recorder returned True.  Only a hold asks for that.
Conclude(w, r, saved) ==
    /\ copy' = IF r.kind \in {"pause", "resume"} THEN [copy EXCEPT ![w] = catalog] ELSE copy
    /\ held' = CASE r.kind = "hold" /\ saved -> [held EXCEPT ![w] = TRUE]
                 [] r.kind = "release" -> [held EXCEPT ![w] = FALSE]
                 [] OTHER -> held
    /\ Answer(r.from, r.kind = "hold" => saved)

Stops(w, r) == r.kind \in {"pause", "hold"} \/ (r.kind = "policy" /\ ~copy[w].enabled)
Alive(w) == recorder[w] \in {"starting", "alive"}
Free(w) == w \in listed /\ thread[w].command = NoRequest

\* The thread waits for the recorder on behalf of r.
Drain(w, r) ==
    /\ thread' = [thread EXCEPT ![w].draining = TRUE, ![w].outer = r]
    /\ told' = [told EXCEPT ![w] = TRUE]
    /\ UNCHANGED <<flags, recorder, lost, lastLost, clients>>

\* The next request, between steps or while a drain lasts.  A stop within a
\* drain does not wait again and does not count as saved; without a recorder
\* it is as the last one ended.
Handle(w) ==
    LET r == Head(inbox[w]) IN
    /\ Free(w) /\ inbox[w] # <<>>
    /\ inbox' = [inbox EXCEPT ![w] = Tail(@)]
    /\ \/ /\ r.kind = "command" /\ Alive(w)
          /\ thread' = [thread EXCEPT ![w].command = r]
          /\ UNCHANGED <<flags, recording, clients>>
       \/ /\ r.kind = "command" /\ ~Alive(w)
          /\ Answer(r.from, FALSE)
          /\ UNCHANGED <<flags, recording, thread>>
       \/ /\ Stops(w, r) /\ recorder[w] # "none" /\ ~thread[w].draining
          /\ Drain(w, r)
       \/ /\ r.kind # "command"
          /\ Stops(w, r) => recorder[w] = "none" \/ thread[w].draining
          /\ Conclude(w, r, recorder[w] = "none" /\ ~lastLost[w])
          /\ UNCHANGED <<recording, thread>>
    /\ UNCHANGED <<supervisor, budgets>>

\* _recorder_ended
Ended(w) ==
    /\ recorder' = [recorder EXCEPT ![w] = "none"]
    /\ told' = [told EXCEPT ![w] = FALSE]
    /\ lastLost' = [lastLost EXCEPT ![w] = lost[w]]
    /\ UNCHANGED lost

DrainEnds(w) ==
    /\ Free(w) /\ thread[w].draining /\ recorder[w] = "ended"
    /\ Ended(w) /\ Conclude(w, thread[w].outer, ~lost[w])
    /\ thread' = [thread EXCEPT ![w] = Idle]
    /\ UNCHANGED <<supervisor, inbox, budgets>>

Hang == hangs < MaxHangs /\ hangs' = hangs + 1

\* 180 seconds are over: the recorder stays, with its stop request.
DrainExpires(w) ==
    /\ Free(w) /\ thread[w].draining /\ Alive(w) /\ Hang
    /\ lastLost' = [lastLost EXCEPT ![w] = TRUE]
    /\ Conclude(w, thread[w].outer, FALSE)
    /\ thread' = [thread EXCEPT ![w] = Idle]
    /\ UNCHANGED <<supervisor, recorder, told, lost, inbox, jobs, asks, timeouts, faults, changes>>

\* Faulty: the wait for a command has no limit.
CommandServed(w) ==
    /\ thread[w].command # NoRequest /\ recorder[w] = "alive"
    /\ Answer(thread[w].command.from, TRUE)
    /\ thread' = [thread EXCEPT ![w].command = NoRequest]
    /\ UNCHANGED <<supervisor, flags, recording, inbox, budgets>>

\* The recorder has served the command, or ended; or 180 seconds are over.
CommandEnds(w) ==
    /\ thread[w].command # NoRequest
    /\ IF recorder[w] = "starting" THEN Hang ELSE UNCHANGED hangs
    /\ \E ok \in BOOLEAN : Answer(thread[w].command.from, ok)
    /\ thread' = [thread EXCEPT ![w].command = NoRequest]
    /\ UNCHANGED <<supervisor, flags, recording, inbox, jobs, asks, timeouts, faults, changes>>

\* Faulty: a held window may record.
MayThoughHeld(w) == copy[w].enabled /\ ~copy[w].paused

May(w) == copy[w].enabled /\ ~copy[w].paused /\ ~held[w]

\* One step of the loop, when no request is left.
Step(w) ==
    /\ Free(w) /\ ~thread[w].draining /\ inbox[w] = <<>>
    /\ \/ ~May(w) /\ recorder[w] # "none" /\ Drain(w, NoRequest)
       \/ May(w) /\ recorder[w] = "ended" /\ Ended(w) /\ UNCHANGED <<flags, thread, clients>>
       \/ /\ May(w) /\ recorder[w] = "none"
          /\ recorder' = [recorder EXCEPT ![w] = "starting"]
          /\ UNCHANGED <<flags, told, lost, lastLost, thread, clients>>
    /\ UNCHANGED <<supervisor, inbox, budgets>>

----------------------------------------------------------------------------
(* The recorder. *)

\* Its first version is saved; from here on nothing is missing.
Baselined(w) ==
    /\ recorder[w] = "starting"
    /\ recorder' = [recorder EXCEPT ![w] = "alive"]
    /\ lastLost' = [lastLost EXCEPT ![w] = FALSE]
    /\ UNCHANGED <<supervisor, flags, told, lost, inbox, thread, clients, budgets>>

RecorderEnds(w, fails) ==
    /\ Alive(w) /\ (told[w] \/ fails)
    /\ IF fails THEN faults < MaxFaults /\ faults' = faults + 1 ELSE UNCHANGED faults
    /\ recorder' = [recorder EXCEPT ![w] = "ended"]
    /\ \E l \in IF fails THEN BOOLEAN ELSE {FALSE} : lost' = [lost EXCEPT ![w] = l]
    /\ UNCHANGED <<supervisor, flags, told, lastLost, inbox, thread, clients,
                   jobs, asks, timeouts, hangs, changes>>

----------------------------------------------------------------------------

JobStep ==
    \E w \in Windows : JobAsks(w) \/ JobFrees(w)

ThreadStep(w) == Handle(w) \/ DrainEnds(w) \/ CommandEnds(w) \/ Step(w)

Next ==
    \/ \E kind \in Kinds : RequestJob(kind)
    \/ StartJob
    \/ JobStep \/ JobTimesOut \/ AgentTimesOut
    \/ ChangePolicy \/ ScanReads \/ ScanCreates
    \/ \E w \in Windows :
         \/ AgentAsks(w) \/ Notify(w) \/ ThreadStep(w) \/ DrainExpires(w) \/ Baselined(w)
         \/ \E fails \in BOOLEAN : RecorderEnds(w, fails)

Spec == Init /\ [][Next]_vars

\* Threads go on; a recorder that was told to stop ends, though perhaps not
\* within the limit of a drain.  Nobody is obliged to time out.
FairSpec ==
    /\ Spec /\ WF_vars(JobStep)
    /\ \A w \in Windows :
         WF_vars(ThreadStep(w)) /\ WF_vars(Baselined(w)) /\ WF_vars(RecorderEnds(w, FALSE))

----------------------------------------------------------------------------
(* Properties. *)

\* While an editor is navigated or a history imported into, no held window
\* has a recorder, and none of them lost edits when its recorder ended, which
\* a later start of the recorder alone makes good (navigation_hold).
QuietWhileNavigating ==
    job.pc = "act" =>
      \A w \in job.holds : held[w] /\ recorder[w] = "none" /\ ~lastLost[w]

\* After a pause of the project has succeeded no recorder is started until
\* somebody resumes; one that hangs has been told to stop.
PauseSticks == promised => \A w \in listed : recorder[w] \in {"none", "ended"} \/ told[w]

\* A window is held for the job of the lane.
HeldForSomeone == \A w \in Windows : held[w] => w \in job.holds \cup job.window

\* A pause sticks as long as the copies of the project's row are not replaced
\* by others, and a window is held for somebody as long as no client gives up.
PausesKept ==
    /\ changes = 0 => PauseSticks
    /\ timeouts = 0 => HeldForSomeone

\* A request is answered even if its client waits for ever: threads that wait
\* for recorders, commands and each other come to an end.
ClientsAnswered ==
    /\ (job.pc \in {"asked", "freeing"}) ~> (job.pc \notin {"asked", "freeing"})
    /\ (agent # {}) ~> (agent = {})
=============================================================================
