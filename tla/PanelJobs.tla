------------------------------ MODULE PanelJobs ------------------------------
(***************************************************************************)
(* Jobs as the web panel sees them (web/static/app.js): a button sends a   *)
(* request, the service answers with a job, the page asks for its state    *)
(* until it has ended and shows the outcome.  Previews of versions and      *)
(* comparisons with the version before are jobs that nobody clicked for;   *)
(* their outcome goes into a cache entry.  So do the recorded changes of a *)
(* version, which are read without a job.  A version has one entry of each *)
(* kind; they do not meet on the page, and the model follows one kind.     *)
(*                                                                         *)
(* pollJobs runs from the timer, from navigateDoc and after other jobs, so *)
(* several passes are under way at once and each may hold an answer that   *)
(* another one has overtaken.  A preview is also waited for by the call    *)
(* that asked for it.  A pass takes one job after the other; here it takes *)
(* any job at any time.                                                    *)
(*                                                                         *)
(* Not here: the limit of the caches, which may drop the entry of the      *)
(* selected version (a poll then loads it again), further pages of the     *)
(* recorded changes, imports that change what a version is compared with,  *)
(* and what the entries show.                                              *)
(***************************************************************************)
EXTENDS Naturals, FiniteSets

CONSTANTS
  Versions,      \* versions that can be selected
  None,          \* no version
  Buttons,       \* write actions
  Pending,       \* the buttons that go through beginPending and isPending
  Passes,        \* passes of pollJobs that can be under way at once
  MaxJobs,       \* bound: jobs of the service
  MaxEvents,     \* bound: clicks, selections and moves of the user
  MaxTroubles    \* bound: jobs or requests that fail, waits that are given up

ASSUME PanelJobsAssumption ==
  /\ Pending \subseteq Buttons /\ None \notin Versions
  /\ {MaxJobs, MaxEvents, MaxTroubles} \subseteq Nat

VARIABLES
  service,   \* service: job -> its state
  tracked,   \* page: state.jobs
  told,      \* page: the jobs whose outcome was announced, once or more
  shows,     \* the kind of entries that is followed
  selected,  \* page: the version that is shown
  deferred,  \* page: playbackDiffDeferred, not compared when they were played
  previews,  \* page: version -> its cache entry of that kind
  waits,     \* page: loadPreview, loadChanges, ... calls that have not ended
  passes,    \* page: pass -> the job it is busy with
  pending,   \* page: state.pendingActions
  disabled,  \* page: the buttons that cannot be clicked
  sent,      \* page: button -> its requests that are not answered
  events, troubles, gaveUp, entries   \* counters; entries numbers cache entries

shown == <<shows, selected, deferred>>
page == <<tracked, told, shown, previews, waits, passes>>
buttons == <<pending, disabled, sent>>
counters == <<events, troubles, gaveUp, entries>>
vars == <<service, page, buttons, counters>>

Jobs == 1..MaxJobs
Ended == {"succeeded", "failed"}

Untracked == [kind |-> "none", version |-> None, status |-> "none"]
Results == {"preview", "comparison", "recorded"}
Quiet(kind) == kind \in Results
NoEntry == [number |-> 0, status |-> "none"]
IdlePass == [pc |-> "idle", job |-> 0, kind |-> "none", version |-> None,
             answer |-> "none", number |-> 0]

Init ==
  /\ service = [j \in Jobs |-> "none"]
  /\ tracked = [j \in Jobs |-> Untracked]
  /\ told = {}
  /\ shows \in Results /\ selected = None /\ deferred = {}
  /\ previews = [v \in Versions |-> NoEntry]
  /\ waits = {}
  /\ passes = [p \in Passes |-> IdlePass]
  /\ pending = {} /\ disabled = {}
  /\ sent = [b \in Buttons |-> 0]
  /\ events = 0 /\ troubles = 0 /\ gaveUp = 0 /\ entries = 0

Event == events < MaxEvents /\ events' = events + 1
Trouble == troubles + gaveUp < MaxTroubles /\ troubles' = troubles + 1

NewJob == CHOOSE j \in Jobs : service[j] = "none" /\ \A i \in Jobs : i < j => service[i] # "none"
HasRoom == \E j \in Jobs : service[j] = "none"
HasSpareRoom == Cardinality({j \in Jobs : service[j] = "none"}) > 1

\* The service accepts a request; trackJob notes the job it answers with.
Accepted(kind, v) ==
  /\ HasRoom
  /\ service' = [service EXCEPT ![NewJob] = "active"]
  /\ tracked' = [tracked EXCEPT ![NewJob] =
                   [kind |-> kind, version |-> v, status |-> "active"]]

---------------------------------------------------------------------------
(* The service.                                                            *)

Succeed(j) ==
  /\ service[j] = "active"
  /\ service' = [service EXCEPT ![j] = "succeeded"]
  /\ UNCHANGED <<page, buttons, counters>>

Fail(j) ==
  /\ service[j] = "active"
  /\ Trouble
  /\ service' = [service EXCEPT ![j] = "failed"]
  /\ UNCHANGED <<page, buttons, events, gaveUp, entries>>

\* The service no longer knows the job.
Forget(j) ==
  /\ service[j] \in {"active"} \cup Ended
  /\ Trouble
  /\ service' = [service EXCEPT ![j] = "gone"]
  /\ UNCHANGED <<page, buttons, events, gaveUp, entries>>

---------------------------------------------------------------------------
(* Buttons.                                                                *)

\* A click sends one request; the button is disabled until it is answered.
Click(b) ==
  /\ b \notin disabled
  /\ Event
  /\ sent' = [sent EXCEPT ![b] = @ + 1]
  /\ pending' = IF b \in Pending THEN pending \cup {b} ELSE pending
  /\ disabled' = disabled \cup {b}
  /\ UNCHANGED <<service, page, troubles, gaveUp, entries>>

Answered(b) ==
  /\ sent[b] > 0
  /\ sent' = [sent EXCEPT ![b] = @ - 1]
  /\ pending' = pending \ {b}
  /\ disabled' = disabled \ {b}

\* Bound: the last job is left to what the page loads by itself.
RequestAccepted(b) ==
  /\ HasSpareRoom
  /\ Answered(b)
  /\ Accepted("write", None)
  /\ UNCHANGED <<told, shown, previews, waits, passes, counters>>

RequestRefused(b) ==
  /\ Answered(b)
  /\ Trouble
  /\ UNCHANGED <<service, page, events, gaveUp, entries>>

\* Faulty: the render looks at the state of the recording only.
AllEnabled == {}

\* The buttons that a render leaves disabled.
Disabled == pending

\* A poll renders the buttons again.
Render ==
  /\ disabled' = Disabled
  /\ UNCHANGED <<service, page, pending, sent, counters>>

---------------------------------------------------------------------------
(* Previews, comparisons and recorded changes of the selected version.     *)

\* What a call asks for first: a screenshot, the job, the page of a list.
First ==
  CASE shows = "preview" -> "image"
    [] shows = "comparison" -> "compare"
    [] shows = "recorded" -> "page"

\* loadPreview and its like: an entry that is there and not idle is left alone.
Load(v) ==
  IF previews[v].status \in {"none", "idle"}
  THEN LET n == IF previews[v].status = "none" THEN entries + 1 ELSE previews[v].number
       IN /\ entries' = IF previews[v].status = "none" THEN n ELSE entries
          /\ previews' = [previews EXCEPT ![v] = [number |-> n, status |-> "loading"]]
          /\ waits' = waits \cup {[version |-> v, number |-> n, pc |-> First, job |-> 0]}
  ELSE UNCHANGED <<entries, previews, waits>>

\* loadChanges: what is only played, or was, is not compared.
Defers(v) == shows = "comparison" /\ v \in deferred'

\* selectCheckpoint, from the list, a step or the playback.
Select(v) ==
  /\ v # selected
  /\ Event
  /\ selected' = v
  /\ deferred' \in {deferred \ {v}, deferred \cup (IF shows = "comparison" THEN {v} ELSE {})}
  /\ IF Defers(v) THEN UNCHANGED <<entries, previews, waits>> ELSE Load(v)
  /\ UNCHANGED <<service, tracked, told, shows, passes, buttons, troubles, gaveUp>>

\* The user asks for the comparison when the playback is over.
Compare ==
  /\ selected \in deferred
  /\ Event
  /\ deferred' = deferred \ {selected}
  /\ Load(selected)
  /\ UNCHANGED <<service, tracked, told, shows, selected, passes, buttons, troubles, gaveUp>>

\* retryPreview: forget the failed entry and ask anew.
Retry ==
  /\ shows = "preview"
  /\ selected # None /\ previews[selected].status = "failed"
  /\ Event
  /\ entries' = entries + 1
  /\ previews' = [previews EXCEPT ![selected] =
                    [number |-> entries + 1, status |-> "loading"]]
  /\ waits' = waits \cup {[version |-> selected, number |-> entries + 1,
                           pc |-> First, job |-> 0]}
  /\ UNCHANGED <<service, tracked, told, shown, passes, buttons, troubles, gaveUp>>

\* Faulty: the cache outlives the calls that fill it.
NavigateCached ==
  /\ selected # None
  /\ Event
  /\ selected' = None /\ waits' = {} /\ deferred' = {}
  /\ UNCHANGED <<service, tracked, told, shows, previews, passes, buttons, troubles, gaveUp, entries>>

\* Another view: clearDocumentViews drops the cache and abortAll the calls.
\* The jobs stay tracked, and passes of pollJobs go on.
Navigate ==
  /\ selected # None
  /\ Event
  /\ selected' = None /\ deferred' = {}
  /\ previews' = [v \in Versions |-> NoEntry]
  /\ waits' = {}
  /\ UNCHANGED <<service, tracked, told, shows, passes, buttons, troubles, gaveUp, entries>>

\* What a call writes reaches the page if its entry is still in the cache.
Entry(v, n, status) ==
  [previews EXCEPT ![v] = IF @.number = n THEN [@ EXCEPT !.status = status] ELSE @]

Finish(w, status) ==
  /\ previews' = Entry(w.version, w.number, status)
  /\ waits' = waits \ {w}

\* There is a screenshot of the version.
ImageShown(w) ==
  /\ w \in waits /\ w.pc = "image"
  /\ Finish(w, "ready")
  /\ UNCHANGED <<service, tracked, told, shown, passes, buttons, counters>>

\* What the history has recorded of the changes.
PageShown(w) ==
  /\ w \in waits /\ w.pc = "page"
  /\ Finish(w, "ready")
  /\ UNCHANGED <<service, tracked, told, shown, passes, buttons, counters>>

\* The comparison is a job from the start.
CompareAccepted(w) ==
  /\ w \in waits /\ w.pc = "compare"
  /\ Accepted("comparison", w.version)
  /\ waits' = (waits \ {w}) \cup {[w EXCEPT !.pc = "waiting", !.job = NewJob]}
  /\ UNCHANGED <<told, shown, previews, passes, buttons, counters>>

\* There is none: a preview is computed.
PreviewAccepted(w) ==
  /\ w \in waits /\ w.pc = "image"
  /\ Accepted("preview", w.version)
  /\ waits' = (waits \ {w}) \cup {[w EXCEPT !.pc = "waiting", !.job = NewJob]}
  /\ UNCHANGED <<told, shown, previews, passes, buttons, counters>>

\* waitForJob sees the end of the job and notes it; then the asset is fetched.
JobSeen(w) ==
  /\ w \in waits /\ w.pc = "waiting" /\ service[w.job] \in Ended
  /\ tracked' = IF tracked[w.job] = Untracked THEN tracked
                ELSE [tracked EXCEPT ![w.job].status = service[w.job]]
  /\ IF service[w.job] = "succeeded"
     THEN /\ waits' = (waits \ {w}) \cup {[w EXCEPT !.pc = "asset"]}
          /\ UNCHANGED previews
     ELSE Finish(w, "failed")
  /\ UNCHANGED <<service, told, shown, passes, buttons, counters>>

AssetShown(w) ==
  /\ w \in waits /\ w.pc = "asset"
  /\ Finish(w, "ready")
  /\ UNCHANGED <<service, tracked, told, shown, passes, buttons, counters>>

\* A request of the call fails, or its job is gone.
LoadFails(w) ==
  /\ w \in waits
  /\ IF w.pc = "waiting" /\ service[w.job] = "gone"
     THEN UNCHANGED troubles ELSE Trouble
  /\ Finish(w, "failed")
  /\ UNCHANGED <<service, tracked, told, shown, passes, buttons, events, gaveUp, entries>>

\* CLIENT_WAIT_TIMEOUT: the call says that the outcome is unknown; the job
\* stays tracked, and pollJobs is to settle the entry.
GiveUp(w) ==
  /\ w \in waits /\ w.pc = "waiting" /\ troubles + gaveUp < MaxTroubles
  /\ gaveUp' = gaveUp + 1
  /\ Finish(w, "failed")
  /\ UNCHANGED <<service, tracked, told, shown, passes, buttons, events, troubles, entries>>

---------------------------------------------------------------------------
(* pollJobs.                                                               *)

Unsettled(j) == tracked[j].status = "active"

\* A pass asks for a job that has not ended as far as the page knows.
Ask(p, j) ==
  /\ passes[p].pc = "idle" /\ Unsettled(j)
  /\ passes' = [passes EXCEPT ![p] = [IdlePass EXCEPT
       !.pc = "asked", !.job = j, !.kind = tracked[j].kind, !.version = tracked[j].version]]
  /\ UNCHANGED <<service, tracked, told, shown, previews, waits, buttons, counters>>

Answer(p) ==
  /\ passes[p].pc = "asked"
  /\ passes' = [passes EXCEPT ![p].pc = "answered", ![p].answer = service[passes[p].job]]
  /\ UNCHANGED <<service, tracked, told, shown, previews, waits, buttons, counters>>

Status(answer) == IF answer = "gone" THEN "lost" ELSE answer

Noted(j, answer) ==
  IF tracked[j] = Untracked THEN tracked
  ELSE [tracked EXCEPT ![j].status = Status(answer)]

\* A job that has not ended; an answer that was overtaken reopens one that has.
StillActive(p) ==
  /\ passes[p].pc = "answered" /\ passes[p].answer = "active"
  /\ tracked' = Noted(passes[p].job, "active")
  /\ passes' = [passes EXCEPT ![p] = IdlePass]
  /\ UNCHANGED <<service, told, shown, previews, waits, buttons, counters>>

\* settleTrackedJob, toastJob: announce the outcome of what the user asked for.
Announce(p) ==
  LET j == passes[p].job
  IN /\ passes[p].pc = "answered" /\ passes[p].answer # "active"
     /\ passes[p].kind = "write" \/ passes[p].answer = "gone"
     /\ tracked' = Noted(j, passes[p].answer)
     /\ told' = IF Quiet(passes[p].kind) THEN told ELSE told \cup {j}
     /\ passes' = [passes EXCEPT ![p] = IdlePass]
     /\ UNCHANGED <<service, shown, previews, waits, buttons, counters>>

\* settleTrackedJob: the entry of the version, a new one if need be, gets the
\* outcome of the job unless it is ready by now.
SettlePreview(p) ==
  LET j == passes[p].job
      v == passes[p].version
      n == IF previews[v] = NoEntry THEN entries + 1 ELSE previews[v].number
  IN /\ passes[p].pc = "answered" /\ passes[p].answer \in Ended
     /\ passes[p].kind # "write"
     /\ tracked' = Noted(j, passes[p].answer)
     /\ entries' = IF previews[v] = NoEntry THEN n ELSE entries
     /\ LET entry == IF previews[v] = NoEntry THEN [number |-> n, status |-> "idle"]
                     ELSE previews[v]
            loads == entry.status # "ready" /\ passes[p].answer = "succeeded"
        IN /\ previews' = [previews EXCEPT ![v] =
                IF entry.status # "ready" /\ passes[p].answer = "failed"
                THEN [entry EXCEPT !.status = "failed"] ELSE entry]
           /\ passes' = [passes EXCEPT ![p] =
                IF loads THEN [@ EXCEPT !.pc = "asset", !.number = n] ELSE IdlePass]
     /\ UNCHANGED <<service, told, shown, waits, buttons, events, troubles, gaveUp>>

PassAsset(p, status) ==
  /\ passes[p].pc = "asset"
  /\ previews' = Entry(passes[p].version, passes[p].number, status)
  /\ passes' = [passes EXCEPT ![p] = IdlePass]
  /\ UNCHANGED <<service, tracked, told, shown, waits, buttons, events, gaveUp, entries>>

PassAssetShown(p) == PassAsset(p, "ready") /\ UNCHANGED troubles
PassAssetFails(p) == PassAsset(p, "failed") /\ Trouble

\* Faulty: any job may be dropped when there are too many.
AnyTracked(j) == tracked[j] # Untracked

\* pruneJobs: jobs that have ended, after a while or when there are too many.
Prunable(j) == tracked[j].status \in {"succeeded", "failed", "lost"}

Prune(j) ==
  /\ Prunable(j)
  /\ tracked' = [tracked EXCEPT ![j] = Untracked]
  /\ UNCHANGED <<service, told, shown, previews, waits, passes, buttons, counters>>

---------------------------------------------------------------------------
Service == \E j \in Jobs : Succeed(j) \/ Fail(j) \/ Forget(j)

User ==
  \/ \E b \in Buttons : Click(b)
  \/ \E v \in Versions : Select(v)
  \/ Compare \/ Retry \/ Navigate

Requests == \E b \in Buttons : RequestAccepted(b) \/ RequestRefused(b)

Loading(w) ==
  \/ ImageShown(w) \/ PageShown(w) \/ PreviewAccepted(w) \/ CompareAccepted(w)
  \/ JobSeen(w) \/ AssetShown(w) \/ LoadFails(w) \/ GiveUp(w)

Pass(p) ==
  \/ Answer(p) \/ StillActive(p) \/ Announce(p) \/ SettlePreview(p)
  \/ PassAssetShown(p) \/ PassAssetFails(p)

Next ==
  \/ Service \/ User \/ Requests \/ Render
  \/ \E w \in waits : Loading(w)
  \/ \E p \in Passes : Pass(p) \/ \E j \in Jobs : Ask(p, j)
  \/ \E j \in Jobs : Prune(j)

Spec == Init /\ [][Next]_vars

\* Jobs end, requests are answered, the timers go on and visit every job.
Fairness ==
  /\ \A j \in Jobs : WF_vars(Succeed(j))
  /\ WF_vars(Requests)
  /\ WF_vars(\E w \in waits : Loading(w))
  /\ \A p \in Passes : WF_vars(Pass(p))
  /\ \A j \in Jobs : WF_vars(\E p \in Passes : Ask(p, j))

FairSpec == Spec /\ Fairness

---------------------------------------------------------------------------
\* No render of a poll lets the user send the same action twice: a button has
\* one request at most ("a double click can never mint two jobs").
OneRequestEach == \A b \in Buttons : sent[b] <= 1

\* The outcome of every job that a button started is announced in the end,
\* whichever pass learns of it and whatever is forgotten or pruned.
OutcomeTold ==
  \A j \in Jobs : tracked[j].kind = "write" ~> j \in told

\* An action of the user is requested once, and its outcome told.
ActionsTold == []OneRequestEach /\ OutcomeTold

\* The preview, the comparison and the recorded changes of the version that stays
\* selected are settled in the end, unless the user is to ask for them; and they
\* fail only if something failed or the page had stopped waiting.
PreviewSettles ==
  <>[](selected # None /\ selected \notin deferred =>
         \/ previews[selected].status = "ready"
         \/ previews[selected].status = "failed" /\ troubles + gaveUp > 0)
=============================================================================
