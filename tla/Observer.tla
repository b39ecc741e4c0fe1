------------------------------ MODULE Observer ------------------------------
(***************************************************************************)
(* The recorder between the editor's events and its saves.                 *)
(*                                                                         *)
(* The editor calls back with an event for every change; the callback puts *)
(* it into a bounded queue or, when the queue is full, only notes that one *)
(* was lost.  The recorder's loop takes events from the queue, remembers   *)
(* that the layout is dirty, and saves it when it sees fit: it exports the *)
(* layout as it is then.  Named saves and saves before an operation of an  *)
(* agent come as commands.  When it is stopped it shuts the queue, takes   *)
(* what is left and saves the tail; when it fails it says whether the tail *)
(* was saved.                                                              *)
(*                                                                         *)
(* An edit is a number, the place in the order in which the recorder heard *)
(* of the edits; a save covers a prefix of them.  Not here: what becomes   *)
(* of a saved copy (CapturePipeline), segments and their events, time (a   *)
(* dirty layout may be saved whenever the loop comes to it), and changes   *)
(* of the selection, which only make it dirty more often.                  *)
(***************************************************************************)
EXTENDS Naturals, Sequences

CONSTANTS
    QueueSize,    \* capacity of the event queue
    Noise,        \* the kinds of events that are no edits and occur
    Commands,     \* named saves and saves before an operation
    NoCommand,    \* none of them
    MaxEdits,     \* bound: edits
    MaxNoise,     \* bound: other events
    MaxFaults     \* bound: steps that fail, and edits that come as events nobody can parse

ASSUME ObserverAssumption ==
    /\ Noise \subseteq {"quiet", "gone"}
    /\ QueueSize \in Nat \ {0}
    /\ NoCommand \notin Commands
    /\ MaxEdits \in Nat /\ MaxNoise \in Nat /\ MaxFaults \in Nat

VARIABLES
    heard,       \* edits that the recorder was told of
    manual,      \* the last of them that the user made
    noise,       \* other events so far
    queue,       \* events that wait: Seq(Kinds)
    lost,        \* lost_events > 0
    dropped,     \* an event found the queue full (a history variable)
    accepting,   \* the callback takes events
    dirty,       \* the layout has changes to be saved
    operation,   \* pending_operation: some are an agent's
    manualDirty, \* manual_dirty: some are the user's
    pc, why,     \* where the recorder is, and what it is saving for
    exported,    \* the edits that the export in hand has
    saved,       \* the edits that the last stored copy has
    cancel, cancelled,   \* the user's cancel; the last save was cancelled
    durable,     \* saves go through the durable queue, or straight into the history
    stop,        \* stop_event is set
    commands,    \* commands that wait: Seq(Commands)
    command,     \* [Commands -> Command]
    serving,     \* the command being served, or NoCommand
    baselined,   \* the starting version is saved
    cutoff,      \* the edits the recorder answers for when it ends
    outcome,     \* how it ended
    faults       \* failed steps and events that cannot be parsed so far

ingress == <<heard, manual, noise>>
intake == <<queue, lost, dropped, accepting>>
marks == <<dirty, operation, manualDirty>>
saves == <<exported, saved, cancel, cancelled>>
requests == <<commands, command, serving>>
ending == <<baselined, cutoff, outcome>>
vars == <<ingress, intake, marks, saves, requests, ending, pc, why, durable, stop, faults>>

\* "quiet": the start of an operation, or an event of another document;
\* "gone": the connection is lost; "invalid": an edit that cannot be parsed.
Edits == {"manual", "agent", "invalid"}
Kinds == Edits \cup Noise
Marking == {"manual", "agent"}

SavePCs == {"fold", "export", "store", "refold", "settle"}
PCs == SavePCs \cup {"start", "loop", "get", "serve", "flush", "poll", "finish", "drain",
                     "check", "failed", "gap", "reject", "closing", "dead"}
Reasons == {"none", "baseline", "auto", "named", "prepare", "tail"}

Command ==
    [kind: {"named", "prepare"}, state: {"unused", "checked", "queued", "ok", "failed"},
     heard: Nat, manual: Nat,   \* what the recorder had been told when it was put
     late: BOOLEAN]             \* it was put after the others had been rejected

TypeOK ==
    /\ heard \in 0..MaxEdits /\ manual \in 0..heard /\ noise \in 0..MaxNoise
    /\ queue \in Seq(Kinds) /\ Len(queue) <= QueueSize
    /\ {lost, dropped, accepting, dirty, operation, manualDirty, cancel, cancelled, durable, stop, baselined}
           \subseteq BOOLEAN
    /\ pc \in PCs /\ why \in Reasons
    /\ exported \in 0..heard /\ saved \in 0..exported
    /\ commands \in Seq(Commands)
    /\ command \in [Commands -> Command]
    /\ serving \in Commands \cup {NoCommand}
    /\ cutoff \in 0..heard
    /\ outcome \in {"none", "clean", "saved", "unsaved"}
    /\ faults \in 0..MaxFaults

Init ==
    /\ heard = 0 /\ manual = 0 /\ noise = 0
    /\ queue = <<>> /\ lost = FALSE /\ dropped = FALSE /\ accepting = TRUE
    /\ dirty = FALSE /\ operation = FALSE /\ manualDirty = FALSE
    /\ pc = "start" /\ why = "none"
    /\ exported = 0 /\ saved = 0 /\ cancel = FALSE /\ cancelled = FALSE
    /\ durable \in BOOLEAN /\ stop = FALSE
    /\ commands = <<>> /\ serving = NoCommand
    /\ \E kind \in [Commands -> {"named", "prepare"}] :
           command = [c \in Commands |-> [kind |-> kind[c], state |-> "unused", heard |-> 0,
                                          manual |-> 0, late |-> FALSE]]
    /\ baselined = FALSE /\ cutoff = 0 /\ outcome = "none"
    /\ faults = 0

-----------------------------------------------------------------------------
(* The editor's callback.  An edit counts when the callback is entered while  *)
(* events are taken; whether it found room in the queue does not matter.      *)

Enqueue(k) ==
    IF Len(queue) < QueueSize
      THEN queue' = Append(queue, k) /\ UNCHANGED <<lost, dropped>>
      ELSE lost' = TRUE /\ dropped' = TRUE /\ UNCHANGED queue

Errs == faults < MaxFaults /\ faults' = faults + 1

\* What is lost is counted whatever its kind, so a lost quiet event marks, too.
Edit(k) ==
    /\ accepting /\ heard < MaxEdits
    /\ heard' = heard + 1
    /\ manual' = IF k = "agent" THEN manual ELSE heard'
    /\ Enqueue(k)
    /\ IF k = "invalid" THEN Errs ELSE UNCHANGED faults
    /\ UNCHANGED <<noise, accepting, marks, saves, requests, ending, pc, why, durable, stop>>

OtherEvent(k) ==
    /\ accepting /\ noise < MaxNoise
    /\ noise' = noise + 1
    /\ Enqueue(k)
    /\ UNCHANGED <<heard, manual, accepting, marks, saves, requests, ending, pc, why, durable, stop, faults>>

(* The service's other threads. *)

Stop ==
    /\ ~stop /\ stop' = TRUE
    /\ UNCHANGED <<ingress, intake, marks, saves, requests, ending, pc, why, durable, faults>>

Cancel ==
    /\ ~durable /\ ~cancel /\ pc \in SavePCs
    /\ cancel' = TRUE
    /\ UNCHANGED <<ingress, intake, marks, exported, saved, cancelled, requests, ending,
                   pc, why, durable, stop, faults>>

\* A command is put after its sender found the recorder's thread alive, and
\* without the lock under which it looked.
CheckAlive(c) ==
    /\ command[c].state = "unused" /\ pc # "dead"
    /\ command' = [command EXCEPT ![c].state = "checked"]
    /\ UNCHANGED <<ingress, intake, marks, saves, commands, serving, ending, pc, why, durable, stop, faults>>

PutCommand(c) ==
    /\ command[c].state = "checked"
    /\ command' = [command EXCEPT ![c] = [@ EXCEPT !.state = "queued", !.heard = heard,
                                          !.manual = manual, !.late = pc \in {"closing", "dead"}]]
    /\ commands' = Append(commands, c)
    /\ UNCHANGED <<ingress, intake, marks, saves, serving, ending, pc, why, durable, stop, faults>>

-----------------------------------------------------------------------------
(* Helpers of the recorder's steps *)

Goto(there) == pc' = there /\ UNCHANGED why
BeginSave(for) == pc' = "fold" /\ why' = for

\* Mutant of FoldLost: what was lost is reported and marks nothing.
FoldLostUnmarked == lost' = FALSE /\ UNCHANGED dirty

\* check_overflow: the count is taken before the event that reports it is written.
FoldLost == lost' = FALSE /\ dirty' = (dirty \/ lost)
FoldFails == lost /\ Errs /\ lost' = FALSE /\ UNCHANGED dirty

\* consume: an event is taken before it is written.
Consume ==
    /\ queue # <<>> /\ Head(queue) \in Marking \cup {"quiet"}
    /\ queue' = Tail(queue)
    /\ dirty' = (dirty \/ Head(queue) \in Marking)
    /\ operation' = (operation \/ Head(queue) = "agent")
    /\ manualDirty' = (manualDirty \/ Head(queue) = "manual")
    /\ UNCHANGED <<lost, dropped, accepting, faults>>

ConsumeFails ==
    /\ queue # <<>> /\ queue' = Tail(queue)
    /\ IF Head(queue) \in {"gone", "invalid"} THEN UNCHANGED faults ELSE Errs
    /\ UNCHANGED <<lost, dropped, accepting, marks>>

CloseSegment == operation' = FALSE /\ manualDirty' = FALSE

Reply(c, answer) == command' = [command EXCEPT ![c].state = answer] /\ serving' = NoCommand

\* Mutant of CommandFails: the sender is not answered.
CommandFailsSilently == serving' = NoCommand /\ UNCHANGED <<commands, command>>

\* A command that fails ends the recording, or only itself, depending on the error.
CommandFails == Reply(serving, "failed") /\ UNCHANGED commands

-----------------------------------------------------------------------------
(* Saving, for the reason in `why' *)

Cancellable == ~durable /\ why \in {"auto", "named"}

SaveFold ==
    /\ pc = "fold" /\ FoldLost
    /\ cancelled' = FALSE
    /\ cancel' = (cancel /\ Cancellable)
    /\ Goto("export")
    /\ UNCHANGED <<ingress, queue, dropped, accepting, operation, manualDirty, exported, saved,
                   requests, ending, durable, stop, faults>>

\* The copy has every edit made before the editor writes it.
Export ==
    /\ pc = "export"
    /\ exported' = heard
    /\ Goto("store")
    /\ UNCHANGED <<ingress, intake, marks, saved, cancel, cancelled, requests, ending, durable, stop, faults>>

\* A copy like the one before it makes no version unless the user asked for one.
Store ==
    /\ pc = "store"
    /\ saved' = exported
    /\ \/ ~durable /\ Goto("refold") /\ UNCHANGED cancel
       \/ ~durable /\ why # "named" /\ Goto("settle") /\ cancel' = FALSE
       \/ durable /\ Goto("settle") /\ UNCHANGED cancel
    /\ UNCHANGED <<ingress, intake, marks, exported, cancelled, requests, ending, durable, stop, faults>>

StoreCancelled ==
    /\ pc = "store" /\ cancel /\ Cancellable
    /\ cancelled' = TRUE /\ cancel' = FALSE
    /\ Goto("settle")
    /\ UNCHANGED <<ingress, intake, marks, exported, saved, requests, ending, durable, stop, faults>>

\* What was lost while the copy was made and stored.
Refold ==
    /\ pc = "refold" /\ FoldLost
    /\ cancel' = FALSE
    /\ Goto("settle")
    /\ UNCHANGED <<ingress, queue, dropped, accepting, operation, manualDirty, exported, saved, cancelled,
                   requests, ending, durable, stop, faults>>

BaselineSaved ==
    /\ pc = "settle" /\ why = "baseline"
    /\ baselined' = TRUE /\ CloseSegment
    /\ Goto("loop")
    /\ UNCHANGED <<ingress, intake, dirty, saves, requests, cutoff, outcome, durable, stop, faults>>

\* Mutant of CommandSaved: a cancelled save is answered with success.
CommandSavedOk ==
    /\ pc = "settle" /\ why \in {"named", "prepare"}
    /\ CloseSegment
    /\ dirty' = (dirty /\ cancelled)
    /\ Reply(serving, "ok") /\ UNCHANGED commands
    /\ Goto("serve")
    /\ UNCHANGED <<ingress, intake, saves, ending, durable, stop, faults>>

AutoSaved ==
    /\ pc = "settle" /\ why = "auto"
    /\ IF cancelled THEN UNCHANGED marks ELSE dirty' = FALSE /\ CloseSegment
    /\ Goto("loop")
    /\ UNCHANGED <<ingress, intake, saves, requests, ending, durable, stop, faults>>

CommandSaved ==
    /\ pc = "settle" /\ why \in {"named", "prepare"}
    /\ CloseSegment
    /\ dirty' = (dirty /\ cancelled)
    /\ Reply(serving, IF cancelled THEN "failed" ELSE "ok") /\ UNCHANGED commands
    /\ Goto("serve")
    /\ UNCHANGED <<ingress, intake, saves, ending, durable, stop, faults>>

TailSaved ==
    /\ pc = "settle" /\ why = "tail"
    /\ dirty' = FALSE /\ CloseSegment
    /\ outcome' = "clean"
    /\ Goto("reject")
    /\ UNCHANGED <<ingress, intake, saves, requests, baselined, cutoff, durable, stop, faults>>

\* A save that fails leaves the layout dirty; one that a command asked for may
\* leave the recorder running.
SaveFails ==
    /\ pc \in SavePCs
    /\ \/ pc \in {"fold", "refold"} /\ FoldFails
       \/ pc = "settle" /\ why = "tail" /\ Errs /\ dirty' = FALSE /\ UNCHANGED lost
       \/ ~(pc = "settle" /\ why = "tail") /\ Errs /\ UNCHANGED <<lost, dirty>>
    /\ baselined' = (baselined \/ pc = "settle")
    /\ IF why \in {"named", "prepare"}
         THEN CommandFails /\ (Goto("serve") \/ Goto("failed"))
         ELSE Goto("failed") /\ UNCHANGED requests
    /\ UNCHANGED <<ingress, queue, dropped, accepting, operation, manualDirty, saves, cutoff, outcome, durable, stop>>

-----------------------------------------------------------------------------
(* The recorder's loop *)

Start ==
    /\ pc = "start" /\ BeginSave("baseline")
    /\ UNCHANGED <<ingress, intake, marks, saves, requests, ending, durable, stop, faults>>

\* The pass begins with the stop flag, and with what was lost since the last one.
Pass ==
    /\ pc = "loop" /\ ~stop
    /\ FoldLost
    /\ Goto("get")
    /\ UNCHANGED <<ingress, queue, dropped, accepting, operation, manualDirty, saves, requests, ending,
                   durable, stop, faults>>

Get ==
    /\ pc = "get"
    /\ IF queue = <<>> THEN UNCHANGED <<intake, marks, faults>> ELSE Consume
    /\ Goto("serve")
    /\ UNCHANGED <<ingress, saves, requests, ending, durable, stop>>

Serve ==
    /\ pc = "serve" /\ commands # <<>>
    /\ serving' = Head(commands) /\ commands' = Tail(commands)
    /\ IF command[serving'].kind = "named" THEN BeginSave("named") ELSE Goto("flush")
    /\ UNCHANGED <<ingress, intake, marks, saves, command, ending, durable, stop, faults>>

Served ==
    /\ pc = "serve" /\ commands = <<>>
    /\ Goto("poll")
    /\ UNCHANGED <<ingress, intake, marks, saves, requests, ending, durable, stop, faults>>

\* Before an agent's operation everything in the queue is taken.
Flush ==
    /\ pc = "flush" /\ Consume /\ Goto("flush")
    /\ UNCHANGED <<ingress, saves, requests, ending, durable, stop>>

\* Between two operations of an agent nothing is saved.
PrepareSkips ==
    /\ pc = "flush" /\ queue = <<>>
    /\ operation /\ ~manualDirty
    /\ Reply(serving, "ok") /\ UNCHANGED commands
    /\ Goto("serve")
    /\ UNCHANGED <<ingress, intake, marks, saves, ending, durable, stop, faults>>

PrepareSaves ==
    /\ pc = "flush" /\ queue = <<>>
    /\ ~operation \/ manualDirty
    /\ operation' = FALSE
    /\ BeginSave("prepare")
    /\ UNCHANGED <<ingress, intake, dirty, manualDirty, saves, requests, ending, durable, stop, faults>>

\* An event that cannot be parsed fails the command and nothing else.
FlushFails ==
    /\ pc = "flush"
    /\ \/ Errs /\ UNCHANGED <<intake, marks>> /\ Goto("serve")
       \/ Errs /\ UNCHANGED <<intake, marks>> /\ Goto("failed")
       \/ ConsumeFails /\ Head(queue) # "gone" /\ Goto("serve")
       \/ ConsumeFails /\ Head(queue) # "invalid" /\ Goto("failed")
    /\ CommandFails
    /\ UNCHANGED <<ingress, saves, ending, durable, stop>>

\* Mutant of AutoSave: only what the user is known to have changed.
AutoSaveManual ==
    /\ pc = "poll" /\ dirty /\ manualDirty
    /\ BeginSave("auto")
    /\ UNCHANGED <<ingress, intake, marks, saves, requests, ending, durable, stop, faults>>

\* A dirty layout is saved when it has been quiet, or dirty for long enough.
AutoSave ==
    /\ pc = "poll" /\ dirty
    /\ BeginSave("auto")
    /\ UNCHANGED <<ingress, intake, marks, saves, requests, ending, durable, stop, faults>>

NotYet ==
    /\ pc = "poll"
    /\ Goto("loop")
    /\ UNCHANGED <<ingress, intake, marks, saves, requests, ending, durable, stop, faults>>

-----------------------------------------------------------------------------
(* The recorder's end *)

Finish ==
    /\ pc = "loop" /\ stop
    /\ accepting' = FALSE /\ cutoff' = heard
    /\ Goto("finish")
    /\ UNCHANGED <<ingress, queue, lost, dropped, marks, saves, requests, baselined, outcome, durable, stop, faults>>

FinishFold ==
    /\ pc = "finish" /\ FoldLost
    /\ Goto("drain")
    /\ UNCHANGED <<ingress, queue, dropped, accepting, operation, manualDirty, saves, requests, ending,
                   durable, stop, faults>>

\* Mutant of Drained: the queue is not taken to its end.
DrainedEarly ==
    /\ pc = "drain"
    /\ Goto("check")
    /\ UNCHANGED <<ingress, intake, marks, saves, requests, ending, durable, stop, faults>>

Drain ==
    /\ pc = "drain" /\ Consume /\ Goto("drain")
    /\ UNCHANGED <<ingress, saves, requests, ending, durable, stop>>

Drained ==
    /\ pc = "drain" /\ queue = <<>>
    /\ Goto("check")
    /\ UNCHANGED <<ingress, intake, marks, saves, requests, ending, durable, stop, faults>>

SaveTail ==
    /\ pc = "check" /\ dirty
    /\ BeginSave("tail")
    /\ UNCHANGED <<ingress, intake, marks, saves, requests, ending, durable, stop, faults>>

NoTail ==
    /\ pc = "check" /\ ~dirty
    /\ CloseSegment /\ UNCHANGED dirty
    /\ outcome' = "clean"
    /\ Goto("reject")
    /\ UNCHANGED <<ingress, intake, saves, requests, baselined, cutoff, durable, stop, faults>>

LoopFails ==
    /\ \/ pc \in {"loop", "finish"} /\ FoldFails /\ UNCHANGED <<queue, dropped, accepting, operation, manualDirty>>
       \/ pc \in {"get", "drain"} /\ ConsumeFails
       \/ pc \in {"start", "loop", "poll", "finish", "check"} /\ Errs /\ UNCHANGED <<intake, marks>>
    /\ Goto("failed")
    /\ UNCHANGED <<ingress, saves, requests, ending, durable, stop>>

\* A copy that is not in the history yet counts as unsaved.
TailUnsaved == dirty \/ queue # <<>> \/ ~baselined

Failed ==
    /\ pc = "failed"
    /\ cutoff' = IF accepting THEN heard ELSE cutoff
    /\ outcome' \in IF TailUnsaved THEN {"unsaved"}
                    ELSE IF durable THEN {"saved", "unsaved"} ELSE {"saved"}
    /\ Goto("gap")
    /\ UNCHANGED <<ingress, intake, marks, saves, requests, baselined, durable, stop, faults>>

RecordGap ==
    /\ pc = "gap"
    /\ accepting' = FALSE
    /\ \/ CloseSegment /\ UNCHANGED <<outcome, faults>>
       \/ Errs /\ outcome' = "unsaved" /\ UNCHANGED <<operation, manualDirty>>
    /\ Goto("reject")
    /\ UNCHANGED <<ingress, queue, lost, dropped, dirty, saves, requests, baselined, cutoff, durable, stop>>

Reject ==
    /\ pc = "reject" /\ commands # <<>>
    /\ command' = [command EXCEPT ![Head(commands)].state = "failed"]
    /\ commands' = Tail(commands)
    /\ Goto("reject")
    /\ UNCHANGED <<ingress, intake, marks, saves, serving, ending, durable, stop, faults>>

Rejected ==
    /\ pc = "reject" /\ commands = <<>>
    /\ Goto("closing")
    /\ UNCHANGED <<ingress, intake, marks, saves, requests, ending, durable, stop, faults>>

Die ==
    /\ pc = "closing" /\ Goto("dead")
    /\ UNCHANGED <<ingress, intake, marks, saves, requests, ending, durable, stop, faults>>

-----------------------------------------------------------------------------
SaveStep ==
    \/ SaveFold \/ Export \/ Store \/ StoreCancelled \/ Refold
    \/ BaselineSaved \/ AutoSaved \/ CommandSaved \/ TailSaved \/ SaveFails

LoopStep ==
    \/ Start \/ Pass \/ Get \/ Serve \/ Served
    \/ Flush \/ PrepareSkips \/ PrepareSaves \/ FlushFails \/ AutoSave \/ NotYet

EndStep ==
    \/ Finish \/ FinishFold \/ Drain \/ Drained \/ SaveTail \/ NoTail
    \/ LoopFails \/ Failed \/ RecordGap \/ Reject \/ Rejected \/ Die

RecorderStep == SaveStep \/ LoopStep \/ EndStep

Next ==
    \/ \E k \in Edits : Edit(k)
    \/ \E k \in Noise : OtherEvent(k)
    \/ Stop \/ Cancel
    \/ \E c \in Commands : CheckAlive(c) \/ PutCommand(c)
    \/ RecorderStep

Spec == Init /\ [][Next]_vars

\* The recorder's thread runs, and a layout that stays dirty becomes quiet
\* or old enough to be saved: the editor's events are finitely many.
FairSpec == Spec /\ WF_vars(RecorderStep) /\ SF_vars(AutoSave)

-----------------------------------------------------------------------------
(* Properties *)

Running == pc \notin {"failed", "gap", "reject", "closing", "dead"}

\* While the recorder runs and nothing has failed, an edit that no save has is
\* remembered somewhere: in the dirty mark, in the note that events were lost,
\* or in the queue.  It holds when saves are durable: only a direct save counts
\* lost events again after its commit (lines 443-467).  The mark is cleared
\* by a save that may have begun before the edit (lines 755-758 and 817-821).
NothingForgotten ==
    durable /\ Running /\ heard > saved /\ faults = 0 =>
        dirty \/ lost \/ \E i \in DOMAIN queue : queue[i] \in Edits

\* A recording with durable saves that ends without an error, and in which
\* nothing failed before, has saved every edit that it heard of before it shut
\* the queue.
CleanStop == durable /\ outcome = "clean" /\ faults = 0 => saved >= cutoff

\* Neither while it runs nor when it ends does a recording lose an edit.
EditsKept == NothingForgotten /\ CleanStop

\* A command that is answered with success is covered by a save.  A named one
\* has every edit that the recorder had heard of when the user asked.  When an
\* agent is told to go ahead, the edits the user had made are saved, unless
\* their events were dropped or something failed before.
AnswersCover ==
    \A c \in Commands : command[c].state = "ok" =>
        \/ command[c].kind = "named" /\ saved >= command[c].heard
        \/ command[c].kind = "prepare"
           /\ (durable /\ faults = 0 /\ ~dropped => saved >= command[c].manual)

\* A command put while the recorder still rejects commands is answered.
PromptAnswered ==
    pc = "dead" => \A c \in Commands : command[c].state = "queued" => command[c].late

\* Commands are answered, and the answers are true.
CommandsTrue == PromptAnswered /\ AnswersCover

\* Every edit is saved at last, unless the recording ends, the user cancels,
\* something fails, or a direct save meets a full queue: it counts what was
\* lost meanwhile, and the mark this sets is cleared (lines 463 and 755-758).
EditsSettle ==
    []<>(saved = heard \/ ~Running \/ cancelled \/ faults > 0 \/ (~durable /\ dropped))
=============================================================================
