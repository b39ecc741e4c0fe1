--------------------------- MODULE ObserverProofs ---------------------------
(***************************************************************************)
(* What TLAPS proves of Observer for every size of the queue, every set of *)
(* commands and every bound.                                               *)
(*                                                                         *)
(* Types and answers hold without hypotheses.  That no edit is forgotten   *)
(* is proved of recordings that save through the durable queue, until      *)
(* something fails or an event cannot be parsed.  Events may be dropped    *)
(* there and the connection may break.                                     *)
(***************************************************************************)
EXTENDS Observer, TLAPS

----------------------------------------------------------------------------
(* Sequences and the records of the commands. *)

\* What is at the head of a queue, and what is left without it.
LEMMA Taken ==
  ASSUME NEW S, NEW q \in Seq(S), q # <<>>
  PROVE  /\ Head(q) \in S /\ Tail(q) \in Seq(S) /\ Len(Tail(q)) = Len(q) - 1 /\ Len(q) > 0
         /\ \A i \in DOMAIN Tail(q) : Tail(q)[i] = q[i + 1]
OBVIOUS

\* What is in a queue stays there when something is put at its end.
LEMMA PutLast ==
  ASSUME NEW S, NEW q \in Seq(S), NEW e \in S
  PROVE  /\ Append(q, e) \in Seq(S) /\ Len(Append(q, e)) = Len(q) + 1
         /\ \A i \in DOMAIN q : i \in DOMAIN Append(q, e) /\ Append(q, e)[i] = q[i]
         /\ Len(q) + 1 \in DOMAIN Append(q, e) /\ Append(q, e)[Len(q) + 1] = e
OBVIOUS

\* A command whose state changes stays a command.
LEMMA Answered ==
  ASSUME NEW f \in [Commands -> Command], NEW c,
         NEW s \in {"unused", "checked", "queued", "ok", "failed"}
  PROVE  [f EXCEPT ![c].state = s] \in [Commands -> Command]
BY DEF Command

----------------------------------------------------------------------------
(* Types *)

\* The counters, apart from the rest of TypeOK.
Counters ==
    /\ heard \in 0..MaxEdits /\ manual \in 0..heard /\ noise \in 0..MaxNoise
    /\ exported \in 0..heard /\ saved \in 0..exported /\ cutoff \in 0..heard
    /\ faults \in 0..MaxFaults

Flags == {lost, dropped, accepting, dirty, operation, manualDirty, cancel, cancelled, durable, stop, baselined}

\* The initial states have the types.
LEMMA TypeInit == Init => TypeOK
<1> SUFFICES ASSUME Init PROVE TypeOK
  OBVIOUS
<1> USE ObserverAssumption DEF ObserverAssumption, Init
<1>1. command \in [Commands -> Command]
  BY DEF Command
<1>2. Counters
  BY DEF Counters
<1>3. queue \in Seq(Kinds) /\ Len(queue) <= QueueSize /\ commands \in Seq(Commands)
  BY DEF Kinds
<1>4. QED
  BY <1>1, <1>2, <1>3 DEF TypeOK, PCs, Reasons, Counters

\* Every step keeps the types.
LEMMA TypeStep == TypeOK /\ [Next]_vars => TypeOK'
<1> SUFFICES ASSUME TypeOK, [Next]_vars PROVE TypeOK'
  OBVIOUS
<1> USE ObserverAssumption DEF ObserverAssumption, TypeOK, Flags, ingress, intake,
   marks, saves, requests, ending

<1>1. ASSUME NEW k \in Edits, Edit(k) PROVE TypeOK'
  <2>1. Counters'
    BY <1>1 DEF Edit, Errs, Counters
  <2>2. queue' \in Seq(Kinds) /\ Len(queue') <= QueueSize
    <3>1. CASE Len(queue) < QueueSize
      <4>1. k \in Kinds /\ queue' = Append(queue, k)
        BY <1>1, <3>1 DEF Edit, Enqueue, Kinds
      <4>2. QED
        BY <3>1, <4>1, PutLast
    <3>2. CASE ~(Len(queue) < QueueSize)
      BY <1>1, <3>2 DEF Edit, Enqueue
    <3>3. QED
      BY <3>1, <3>2
  <2>3. Flags' \subseteq BOOLEAN
    BY <1>1 DEF Edit, Enqueue
  <2>4. QED
    BY <1>1, <2>1, <2>2, <2>3 DEF Edit, Counters
<1>2. ASSUME NEW k \in Noise, OtherEvent(k) PROVE TypeOK'
  <2>1. Counters'
    BY <1>2 DEF OtherEvent, Counters
  <2>2. queue' \in Seq(Kinds) /\ Len(queue') <= QueueSize
    <3>1. CASE Len(queue) < QueueSize
      <4>1. k \in Kinds /\ queue' = Append(queue, k)
        BY <1>2, <3>1 DEF OtherEvent, Enqueue, Kinds
      <4>2. QED
        BY <3>1, <4>1, PutLast
    <3>2. CASE ~(Len(queue) < QueueSize)
      BY <1>2, <3>2 DEF OtherEvent, Enqueue
    <3>3. QED
      BY <3>1, <3>2
  <2>3. Flags' \subseteq BOOLEAN
    BY <1>2 DEF OtherEvent, Enqueue
  <2>4. QED
    BY <1>2, <2>1, <2>2, <2>3 DEF OtherEvent, Counters
<1>3. CASE Stop
  BY <1>3 DEF Stop
<1>4. CASE Cancel
  BY <1>4 DEF Cancel
<1>5. ASSUME NEW c \in Commands, CheckAlive(c) PROVE TypeOK'
  BY <1>5, Answered DEF CheckAlive
<1>6. ASSUME NEW c \in Commands, PutCommand(c) PROVE TypeOK'
  <2>1. command' \in [Commands -> Command]
    <3> DEFINE r == [command[c] EXCEPT !.state = "queued", !.heard = heard, !.manual = manual,
                                       !.late = pc \in {"closing", "dead"}]
    <3>1. (pc \in {"closing", "dead"}) \in BOOLEAN /\ heard \in Nat /\ manual \in Nat
      OBVIOUS
    <3>2. command[c] \in Command
      BY <1>6
    <3>3. r \in Command
      BY <3>1, <3>2 DEF Command
    <3>4. command' = [command EXCEPT ![c] = r]
      BY <1>6 DEF PutCommand
    <3> HIDE DEF r
    <3>5. QED
      BY <3>3, <3>4
  <2>2. commands' \in Seq(Commands)
    BY <1>6 DEF PutCommand
  <2>3. QED
    BY <1>6, <2>1, <2>2 DEF PutCommand
<1>7. ASSUME queue # <<>>, queue' = Tail(queue)
      PROVE  queue' \in Seq(Kinds) /\ Len(queue') <= QueueSize
  BY <1>7, Taken
<1>8. CASE SaveFold
  BY <1>8 DEF SaveFold, PCs, SavePCs, Reasons, Goto, FoldLost
<1>9. CASE Export
  BY <1>9 DEF Export, PCs, SavePCs, Reasons, Goto
<1>10. CASE Store
  <2>1. Counters'
    BY <1>10 DEF Store, Counters, PCs, SavePCs, Reasons, Goto
  <2>2. queue' \in Seq(Kinds) /\ Len(queue') <= QueueSize
    BY <1>10 DEF Store, PCs, SavePCs, Reasons, Goto
  <2>3. commands' \in Seq(Commands) /\ command' \in [Commands -> Command] /\ serving' \in Commands \cup {NoCommand}
    BY <1>10 DEF Store, PCs, SavePCs, Reasons, Goto
  <2>4. Flags' \subseteq BOOLEAN
    BY <1>10 DEF Store, PCs, SavePCs, Reasons, Goto
  <2>5. pc' \in PCs /\ why' \in Reasons
    BY <1>10 DEF Store, PCs, SavePCs, Reasons, Goto
  <2>6. outcome' \in {"none", "clean", "saved", "unsaved"}
    BY <1>10 DEF Store, PCs, SavePCs, Reasons, Goto
  <2>7. QED
    BY <2>1, <2>2, <2>3, <2>4, <2>5, <2>6 DEF Counters
<1>11. CASE StoreCancelled
  BY <1>11 DEF StoreCancelled, PCs, SavePCs, Reasons, Goto
<1>12. CASE Refold
  BY <1>12 DEF Refold, PCs, SavePCs, Reasons, Goto, FoldLost
<1>13. CASE BaselineSaved
  BY <1>13 DEF BaselineSaved, PCs, SavePCs, Reasons, Goto, CloseSegment
<1>14. CASE AutoSaved
  BY <1>14 DEF AutoSaved, PCs, SavePCs, Reasons, Goto, CloseSegment
<1>15. CASE CommandSaved
  BY <1>15, <1>7, Answered DEF CommandSaved, PCs, SavePCs, Reasons, Goto, CloseSegment, Reply
<1>16. CASE TailSaved
  BY <1>16 DEF TailSaved, PCs, SavePCs, Reasons, Goto, CloseSegment
<1>17. CASE SaveFails
  <2>1. Counters'
    BY <1>17 DEF SaveFails, Counters, PCs, SavePCs, Reasons, Goto, Errs, FoldFails, Reply,
       CommandFails
  <2>2. queue' \in Seq(Kinds) /\ Len(queue') <= QueueSize
    BY <1>17 DEF SaveFails, PCs, SavePCs, Reasons, Goto, Errs, FoldFails, Reply, CommandFails
  <2>3. commands' \in Seq(Commands) /\ command' \in [Commands -> Command] /\ serving' \in Commands \cup {NoCommand}
    <3>1. CASE why \in {"named", "prepare"}
      <4>1. /\ commands' = commands /\ serving' = NoCommand
            /\ command' = [command EXCEPT ![serving].state = "failed"]
        BY <1>17, <3>1 DEF SaveFails, CommandFails, Reply
      <4>2. QED
        BY <4>1, Answered
    <3>2. CASE why \notin {"named", "prepare"}
      BY <1>17, <3>2 DEF SaveFails
    <3>3. QED
      BY <3>1, <3>2
  <2>4. Flags' \subseteq BOOLEAN
    BY <1>17 DEF SaveFails, PCs, SavePCs, Reasons, Goto, Errs, FoldFails, Reply, CommandFails
  <2>5. pc' \in PCs /\ why' \in Reasons
    BY <1>17 DEF SaveFails, PCs, SavePCs, Reasons, Goto, Errs, FoldFails, Reply, CommandFails
  <2>6. outcome' \in {"none", "clean", "saved", "unsaved"}
    BY <1>17 DEF SaveFails, PCs, SavePCs, Reasons, Goto, Errs, FoldFails, Reply, CommandFails
  <2>7. QED
    BY <2>1, <2>2, <2>3, <2>4, <2>5, <2>6 DEF Counters
<1>18. CASE Start
  BY <1>18 DEF Start, PCs, SavePCs, Reasons, BeginSave
<1>19. CASE Pass
  BY <1>19 DEF Pass, PCs, SavePCs, Reasons, Goto, FoldLost
<1>20. CASE Get
  BY <1>20, <1>7, Taken DEF Get, PCs, SavePCs, Reasons, Goto, Consume
<1>21. CASE Serve
  BY <1>21 DEF Serve, PCs, SavePCs, Reasons, Goto, BeginSave
<1>22. CASE Served
  BY <1>22 DEF Served, PCs, SavePCs, Reasons, Goto
<1>23. CASE Flush
  BY <1>23, <1>7, Taken DEF Flush, PCs, SavePCs, Reasons, Goto, Consume
<1>24. CASE PrepareSkips
  BY <1>24, <1>7, Answered DEF PrepareSkips, PCs, SavePCs, Reasons, Goto, Reply
<1>25. CASE PrepareSaves
  BY <1>25 DEF PrepareSaves, PCs, SavePCs, Reasons, BeginSave
<1>26. CASE FlushFails
  <2>1. Counters'
    BY <1>26 DEF FlushFails, Counters, PCs, SavePCs, Reasons, Goto, Errs, ConsumeFails,
       Reply, CommandFails
  <2>2. queue' \in Seq(Kinds) /\ Len(queue') <= QueueSize
    BY <1>26, <1>7 DEF FlushFails, PCs, SavePCs, Reasons, Goto, Errs, ConsumeFails, Reply,
       CommandFails
  <2>3. commands' \in Seq(Commands) /\ command' \in [Commands -> Command] /\ serving' \in Commands \cup {NoCommand}
    BY <1>26, Answered DEF FlushFails, PCs, SavePCs, Reasons, Goto, Errs, ConsumeFails,
       Reply, CommandFails
  <2>4. Flags' \subseteq BOOLEAN
    BY <1>26 DEF FlushFails, PCs, SavePCs, Reasons, Goto, Errs, ConsumeFails, Reply,
       CommandFails
  <2>5. pc' \in PCs /\ why' \in Reasons
    BY <1>26 DEF FlushFails, PCs, SavePCs, Reasons, Goto, Errs, ConsumeFails, Reply,
       CommandFails
  <2>6. outcome' \in {"none", "clean", "saved", "unsaved"}
    BY <1>26 DEF FlushFails, PCs, SavePCs, Reasons, Goto, Errs, ConsumeFails, Reply,
       CommandFails
  <2>7. QED
    BY <2>1, <2>2, <2>3, <2>4, <2>5, <2>6 DEF Counters
<1>27. CASE AutoSave
  BY <1>27 DEF AutoSave, PCs, SavePCs, Reasons, BeginSave
<1>28. CASE NotYet
  BY <1>28 DEF NotYet, PCs, SavePCs, Reasons, Goto
<1>29. CASE Finish
  <2>1. Counters'
    BY <1>29 DEF Finish, Counters, PCs, SavePCs, Reasons, Goto
  <2>2. queue' \in Seq(Kinds) /\ Len(queue') <= QueueSize
    BY <1>29 DEF Finish, PCs, SavePCs, Reasons, Goto
  <2>3. commands' \in Seq(Commands) /\ command' \in [Commands -> Command] /\ serving' \in Commands \cup {NoCommand}
    BY <1>29 DEF Finish, PCs, SavePCs, Reasons, Goto
  <2>4. Flags' \subseteq BOOLEAN
    BY <1>29 DEF Finish, PCs, SavePCs, Reasons, Goto
  <2>5. pc' \in PCs /\ why' \in Reasons
    BY <1>29 DEF Finish, PCs, SavePCs, Reasons, Goto
  <2>6. outcome' \in {"none", "clean", "saved", "unsaved"}
    BY <1>29 DEF Finish, PCs, SavePCs, Reasons, Goto
  <2>7. QED
    BY <2>1, <2>2, <2>3, <2>4, <2>5, <2>6 DEF Counters
<1>30. CASE FinishFold
  BY <1>30 DEF FinishFold, PCs, SavePCs, Reasons, Goto, FoldLost
<1>31. CASE Drain
  BY <1>31, <1>7, Taken DEF Drain, PCs, SavePCs, Reasons, Goto, Consume
<1>32. CASE Drained
  BY <1>32 DEF Drained, PCs, SavePCs, Reasons, Goto
<1>33. CASE SaveTail
  BY <1>33 DEF SaveTail, PCs, SavePCs, Reasons, BeginSave
<1>34. CASE NoTail
  BY <1>34 DEF NoTail, PCs, SavePCs, Reasons, Goto, CloseSegment
<1>35. CASE LoopFails
  <2>1. Counters'
    BY <1>35 DEF LoopFails, Counters, PCs, SavePCs, Reasons, Goto, Errs, FoldFails, ConsumeFails
  <2>2. queue' \in Seq(Kinds) /\ Len(queue') <= QueueSize
    BY <1>35, <1>7 DEF LoopFails, PCs, SavePCs, Reasons, Goto, Errs, FoldFails, ConsumeFails
  <2>3. commands' \in Seq(Commands) /\ command' \in [Commands -> Command] /\ serving' \in Commands \cup {NoCommand}
    BY <1>35 DEF LoopFails, PCs, SavePCs, Reasons, Goto, Errs, FoldFails, ConsumeFails
  <2>4. Flags' \subseteq BOOLEAN
    BY <1>35 DEF LoopFails, PCs, SavePCs, Reasons, Goto, Errs, FoldFails, ConsumeFails
  <2>5. pc' \in PCs /\ why' \in Reasons
    BY <1>35 DEF LoopFails, PCs, SavePCs, Reasons, Goto, Errs, FoldFails, ConsumeFails
  <2>6. outcome' \in {"none", "clean", "saved", "unsaved"}
    BY <1>35 DEF LoopFails, PCs, SavePCs, Reasons, Goto, Errs, FoldFails, ConsumeFails
  <2>7. QED
    BY <2>1, <2>2, <2>3, <2>4, <2>5, <2>6 DEF Counters
<1>36. CASE Failed
  BY <1>36 DEF Failed, PCs, SavePCs, Reasons, Goto
<1>37. CASE RecordGap
  <2>1. Counters'
    BY <1>37 DEF RecordGap, Counters, PCs, SavePCs, Reasons, Goto, Errs, CloseSegment
  <2>2. queue' \in Seq(Kinds) /\ Len(queue') <= QueueSize
    BY <1>37 DEF RecordGap, PCs, SavePCs, Reasons, Goto, Errs, CloseSegment
  <2>3. commands' \in Seq(Commands) /\ command' \in [Commands -> Command] /\ serving' \in Commands \cup {NoCommand}
    BY <1>37 DEF RecordGap, PCs, SavePCs, Reasons, Goto, Errs, CloseSegment
  <2>4. Flags' \subseteq BOOLEAN
    BY <1>37 DEF RecordGap, PCs, SavePCs, Reasons, Goto, Errs, CloseSegment
  <2>5. pc' \in PCs /\ why' \in Reasons
    BY <1>37 DEF RecordGap, PCs, SavePCs, Reasons, Goto, Errs, CloseSegment
  <2>6. outcome' \in {"none", "clean", "saved", "unsaved"}
    BY <1>37 DEF RecordGap, PCs, SavePCs, Reasons, Goto, Errs, CloseSegment
  <2>7. QED
    BY <2>1, <2>2, <2>3, <2>4, <2>5, <2>6 DEF Counters
<1>38. CASE Reject
  BY <1>38, Answered, Taken DEF Reject, PCs, SavePCs, Reasons, Goto
<1>39. CASE Rejected
  BY <1>39 DEF Rejected, PCs, SavePCs, Reasons, Goto
<1>40. CASE Die
  BY <1>40 DEF Die, PCs, SavePCs, Reasons, Goto
<1>41. CASE UNCHANGED vars
  BY <1>41 DEF vars
<1>42. QED
  BY <1>1, <1>2, <1>3, <1>4, <1>5, <1>6, <1>8, <1>9, <1>10, <1>11, <1>12, <1>13, <1>14,
     <1>15, <1>16, <1>17, <1>18, <1>19, <1>20, <1>21, <1>22, <1>23, <1>24, <1>25, <1>26,
        <1>27, <1>28, <1>29, <1>30, <1>31, <1>32, <1>33, <1>34, <1>35, <1>36, <1>37, <1>38,
           <1>39, <1>40, <1>41 DEF Next, RecorderStep, SaveStep, LoopStep, EndStep

\* Every variable has its type; the queue never exceeds its capacity
\* (queue.Queue(queue_size)) and nothing is saved that was not exported.
THEOREM TypeCorrect == Spec => []TypeOK
<1>1. Init => TypeOK
  BY TypeInit
<1>2. TypeOK /\ [Next]_vars => TypeOK'
  BY TypeStep
<1>3. QED
  BY <1>1, <1>2, PTL DEF Spec

----------------------------------------------------------------------------
(* Commands *)

\* A command that was put in time is in the queue or being served; the recorder
\* serves one only while it flushes or saves for it, and none once it closes.
AnswerInv ==
    /\ \A c \in Commands :
           command[c].state = "queued" /\ ~command[c].late
               => serving = c \/ \E i \in DOMAIN commands : commands[i] = c
    /\ serving # NoCommand
           => pc = "flush" \/ (pc \in SavePCs /\ why \in {"named", "prepare"})
    /\ pc \in {"closing",
       "dead"} => \A c \in Commands : command[c].state = "queued" => command[c].late

\* What is not at the head is still there when the head is taken.
LEMMA Shifted ==
  ASSUME NEW S, NEW q \in Seq(S), q # <<>>, NEW i \in DOMAIN q, q[i] # Head(q)
  PROVE  \E j \in DOMAIN Tail(q) : Tail(q)[j] = q[i]
<1>1. i \in 2..Len(q) /\ Head(q) = q[1]
  OBVIOUS
<1>2. i - 1 \in DOMAIN Tail(q) /\ Tail(q)[i - 1] = q[i]
  BY <1>1
<1>3. QED
  BY <1>2

\* Every step keeps that.
LEMMA AnswerStep == TypeOK /\ AnswerInv /\ [Next]_vars => AnswerInv'
<1> SUFFICES ASSUME TypeOK, AnswerInv, [Next]_vars PROVE AnswerInv'
  OBVIOUS
<1> USE ObserverAssumption DEF ObserverAssumption, AnswerInv, ingress, intake, marks, saves,
   requests, ending
<1>1. commands \in Seq(Commands) /\ command \in [Commands -> Command]
  BY DEF TypeOK
<1>2. ASSUME NEW k \in Edits, Edit(k) PROVE AnswerInv'
  BY <1>2 DEF Edit
<1>3. ASSUME NEW k \in Noise, OtherEvent(k) PROVE AnswerInv'
  BY <1>3 DEF OtherEvent
<1>4. CASE Stop
  BY <1>4 DEF Stop
<1>5. CASE Cancel
  BY <1>5 DEF Cancel
<1>6. ASSUME NEW c \in Commands, CheckAlive(c) PROVE AnswerInv'
  BY <1>6, <1>1, PutLast DEF CheckAlive, Command
<1>7. ASSUME NEW c \in Commands, PutCommand(c) PROVE AnswerInv'
  <2>1. /\ \A b \in Commands \ {c} : command'[b] = command[b]
        /\ command'[c].state = "queued"
        /\ command'[c].late = (pc \in {"closing", "dead"})
    BY <1>7, <1>1 DEF PutCommand, Command
  <2>2. /\ \A i \in DOMAIN commands : i \in DOMAIN commands' /\ commands'[i] = commands[i]
        /\ \E i \in DOMAIN commands' : commands'[i] = c
    BY <1>7, <1>1, PutLast DEF PutCommand
  <2>3. pc' = pc /\ why' = why /\ serving' = serving
    BY <1>7 DEF PutCommand
  <2>4. ASSUME NEW b \in Commands, command'[b].state = "queued", ~command'[b].late
        PROVE  serving' = b \/ \E i \in DOMAIN commands' : commands'[i] = b
    <3>1. CASE b = c
      BY <3>1, <2>2
    <3>2. CASE b # c
      <4>1. command[b].state = "queued" /\ ~command[b].late
        BY <2>1, <2>4, <3>2
      <4>2. QED
        BY <4>1, <2>2, <2>3
    <3>3. QED
      BY <3>1, <3>2
  <2>5. ASSUME pc' \in {"closing", "dead"}, NEW b \in Commands, command'[b].state = "queued"
        PROVE  command'[b].late
    BY <2>1, <2>3, <2>5
  <2>6. serving' # NoCommand
           => pc' = "flush" \/ (pc' \in SavePCs /\ why' \in {"named", "prepare"})
    BY <2>3
  <2>7. QED
    BY <2>4, <2>5, <2>6
<1>8. CASE SaveFold
  BY <1>8, <1>1 DEF SaveFold, SavePCs, Goto
<1>9. CASE Export
  BY <1>9, <1>1 DEF Export, SavePCs, Goto
<1>10. CASE Store
  BY <1>10, <1>1 DEF Store, SavePCs, Goto
<1>11. CASE StoreCancelled
  BY <1>11, <1>1 DEF StoreCancelled, SavePCs, Goto
<1>12. CASE Refold
  BY <1>12, <1>1 DEF Refold, SavePCs, Goto
<1>13. CASE BaselineSaved
  BY <1>13, <1>1 DEF BaselineSaved, SavePCs, Goto
<1>14. CASE AutoSaved
  BY <1>14, <1>1 DEF AutoSaved, SavePCs, Goto
<1>15. CASE CommandSaved
  BY <1>15, <1>1 DEF CommandSaved, SavePCs, Goto, Reply
<1>16. CASE TailSaved
  BY <1>16, <1>1 DEF TailSaved, SavePCs, Goto
<1>17. CASE SaveFails
  <2>1. pc \in SavePCs /\ commands' = commands /\ pc' \in {"serve", "failed"}
    BY <1>17 DEF SaveFails, CommandFails, Goto
  <2>2. CASE why \in {"named", "prepare"}
    <3>1. serving' = NoCommand /\ command' = [command EXCEPT ![serving].state = "failed"]
      BY <1>17, <2>2 DEF SaveFails, CommandFails, Reply
    <3>2. QED
      BY <1>1, <2>1, <3>1
  <2>3. CASE why \notin {"named", "prepare"}
    <3>1. serving' = serving /\ command' = command
      BY <1>17, <2>3 DEF SaveFails
    <3>2. serving = NoCommand
      BY <2>1, <2>3 DEF SavePCs
    <3>3. QED
      BY <2>1, <3>1, <3>2
  <2>4. QED
    BY <2>2, <2>3
<1>18. CASE Start
  BY <1>18, <1>1 DEF Start, SavePCs, BeginSave
<1>19. CASE Pass
  BY <1>19, <1>1 DEF Pass, SavePCs, Goto
<1>20. CASE Get
  BY <1>20, <1>1 DEF Get, SavePCs, Goto
<1>21. CASE Serve
  BY <1>21, <1>1, Shifted, SMTT(60) DEF Serve, SavePCs, Goto, BeginSave
<1>22. CASE Served
  BY <1>22, <1>1 DEF Served, SavePCs, Goto
<1>23. CASE Flush
  BY <1>23, <1>1 DEF Flush, SavePCs, Goto
<1>24. CASE PrepareSkips
  BY <1>24, <1>1 DEF PrepareSkips, SavePCs, Goto, Reply
<1>25. CASE PrepareSaves
  BY <1>25, <1>1 DEF PrepareSaves, SavePCs, BeginSave
<1>26. CASE FlushFails
  BY <1>26, <1>1 DEF FlushFails, SavePCs, Goto, Reply, CommandFails
<1>27. CASE AutoSave
  BY <1>27, <1>1 DEF AutoSave, SavePCs, BeginSave
<1>28. CASE NotYet
  BY <1>28, <1>1 DEF NotYet, SavePCs, Goto
<1>29. CASE Finish
  BY <1>29, <1>1 DEF Finish, SavePCs, Goto
<1>30. CASE FinishFold
  BY <1>30, <1>1 DEF FinishFold, SavePCs, Goto
<1>31. CASE Drain
  BY <1>31, <1>1 DEF Drain, SavePCs, Goto
<1>32. CASE Drained
  BY <1>32, <1>1 DEF Drained, SavePCs, Goto
<1>33. CASE SaveTail
  BY <1>33, <1>1 DEF SaveTail, SavePCs, BeginSave
<1>34. CASE NoTail
  BY <1>34, <1>1 DEF NoTail, SavePCs, Goto
<1>35. CASE LoopFails
  BY <1>35, <1>1 DEF LoopFails, SavePCs, Goto
<1>36. CASE Failed
  BY <1>36, <1>1 DEF Failed, SavePCs, Goto
<1>37. CASE RecordGap
  BY <1>37, <1>1 DEF RecordGap, SavePCs, Goto
<1>38. CASE Reject
  BY <1>38, <1>1, Shifted, SMTT(60) DEF Reject, SavePCs, Goto
<1>39. CASE Rejected
  BY <1>39, <1>1 DEF Rejected, SavePCs, Goto
<1>40. CASE Die
  BY <1>40, <1>1 DEF Die, SavePCs, Goto
<1>41. CASE UNCHANGED vars
  BY <1>41 DEF vars
<1>42. QED
  BY <1>2, <1>3, <1>4, <1>5, <1>6, <1>7, <1>8, <1>9, <1>10, <1>11, <1>12, <1>13, <1>14,
     <1>15, <1>16, <1>17, <1>18, <1>19, <1>20, <1>21, <1>22, <1>23, <1>24, <1>25, <1>26,
        <1>27, <1>28, <1>29, <1>30, <1>31, <1>32, <1>33, <1>34, <1>35, <1>36, <1>37, <1>38,
           <1>39, <1>40, <1>41 DEF Next, RecorderStep, SaveStep, LoopStep, EndStep

----------------------------------------------------------------------------
(* Edits *)

\* An edit waits in the queue.
InQueue == \E i \in DOMAIN queue : queue[i] \in Edits

\* Every event in the queue can be parsed.
Readable == \A i \in DOMAIN queue : queue[i] # "invalid"

SavingTail == pc \in SavePCs /\ why = "tail"

\* While a copy is made, what it lacks is in the queue or noted as lost; from the
\* moment the queue is shut, it shrinks, and what is left is marked, then saved.
\* All this until something fails.
CleanState ==
    /\ ~cancel /\ ~cancelled /\ pc # "refold"
    /\ Readable
    /\ NothingForgotten
    /\ pc \in {"store", "settle"} /\ heard > exported => lost \/ InQueue
    /\ pc = "settle" => saved = exported
    /\ pc \in {"finish", "drain", "check"} \/ SavingTail => ~accepting /\ cutoff = heard
    /\ pc \in {"drain", "check"} \/ SavingTail => ~lost
    /\ pc = "check" \/ SavingTail => queue = <<>>
    /\ outcome = "clean" => pc \in {"reject", "closing", "dead"} /\ saved >= cutoff

CleanInv == durable /\ faults = 0 => CleanState

\* A recording keeps its way of saving.
LEMMA DurableStays == [Next]_vars => durable' = durable
BY DEF Next, RecorderStep, SaveStep, LoopStep, EndStep, Edit, OtherEvent, Stop, Cancel, CheckAlive,
   PutCommand, SaveFold, Export, Store, StoreCancelled, Refold, BaselineSaved, AutoSaved,
   CommandSaved, TailSaved, SaveFails, Start, Pass, Get, Serve, Served, Flush, PrepareSkips,
   PrepareSaves, FlushFails, AutoSave, NotYet, Finish, FinishFold, Drain, Drained, SaveTail,
   NoTail, LoopFails, Failed, RecordGap, Reject, Rejected, Die, vars

\* What has failed is not forgotten.
LEMMA FaultsStay == TypeOK /\ [Next]_vars /\ faults' = 0 => faults = 0
<1> SUFFICES ASSUME TypeOK, [Next]_vars, faults # 0 PROVE faults' # 0
  OBVIOUS
<1>1. Errs => faults' # 0
  BY DEF Errs, TypeOK
<1>2. ASSUME NEW k \in Edits, Edit(k) PROVE faults' # 0
  BY <1>1, <1>2 DEF Edit
<1>3. CASE SaveStep
  BY <1>1, <1>3 DEF SaveStep, SaveFold, Export, Store, StoreCancelled, Refold, BaselineSaved,
     AutoSaved, CommandSaved, TailSaved, SaveFails, FoldFails
<1>4. CASE LoopStep
  BY <1>1, <1>4 DEF LoopStep, Start, Pass, Get, Serve, Served, Flush, PrepareSkips, PrepareSaves,
     FlushFails, AutoSave, NotYet, Consume, ConsumeFails
<1>5. CASE EndStep
  BY <1>1, <1>5 DEF EndStep, Finish, FinishFold, Drain, Drained, SaveTail, NoTail, LoopFails,
     Failed, RecordGap, Reject, Rejected, Die, Consume, ConsumeFails, FoldFails
<1>6. QED
  BY <1>2, <1>3, <1>4, <1>5 DEF Next, RecorderStep, OtherEvent, Stop, Cancel, CheckAlive,
     PutCommand, vars

\* Every step of such a recording keeps that.
LEMMA CleanStep == TypeOK /\ CleanInv /\ [Next]_vars => CleanInv'
<1> SUFFICES ASSUME TypeOK, CleanInv, [Next]_vars, durable', faults' = 0 PROVE CleanState'
  BY DEF CleanInv
<1>0. durable /\ durable' /\ faults = 0 /\ ~Errs
  <2>1. durable
    BY DurableStays, Zenon
  <2>2. faults = 0 /\ ~Errs
    BY FaultsStay DEF Errs, TypeOK
  <2>3. QED
    BY <2>1, <2>2
<1>a. CleanState
  BY <1>0 DEF CleanInv
<1> USE <1>0, <1>a, ObserverAssumption DEF ObserverAssumption, CleanState, NothingForgotten,
   SavingTail, Running, ingress, intake, marks, saves, requests, ending
<1>1. /\ heard \in Nat /\ saved \in Nat /\ exported \in Nat /\ cutoff \in Nat
      /\ saved <= exported /\ exported <= heard /\ cutoff <= heard
      /\ queue \in Seq(Kinds)
  BY DEF TypeOK
<1>2. ~Errs
  BY <1>0
<1>b. ASSUME queue # <<>>, queue' = Tail(queue) PROVE Readable' /\ Head(queue) # "invalid"
  <2>1. /\ Tail(queue) \in Seq(Kinds) /\ Head(queue) = queue[1] /\ 1 \in DOMAIN queue
        /\ \A i \in DOMAIN Tail(queue) : i + 1 \in DOMAIN queue /\ Tail(queue)[i] = queue[i + 1]
    <3>1. queue \in Seq(Kinds) /\ queue # <<>>
      BY <1>b, <1>1
    <3>2. DOMAIN queue = 1..Len(queue) /\ Len(queue) \in Nat \ {0} /\ Head(queue) = queue[1]
      BY <3>1
    <3>3. DOMAIN Tail(queue) = 1..(Len(queue) - 1) /\ Tail(queue) \in Seq(Kinds)
      BY <3>1
    <3>4. QED
      BY <3>1, <3>2, <3>3, Taken
  <2>2. QED
    BY <2>1, <1>b DEF Readable
<1>3. ASSUME queue # <<>>, queue' = Tail(queue), InQueue
      PROVE  InQueue' \/ Head(queue) \in Marking
  BY <1>3, <1>b, <1>1, Shifted DEF InQueue, Edits, Marking
<1>4. ASSUME NEW k \in Edits, Edit(k) PROVE CleanState'
  <2>1. /\ accepting /\ heard' = heard + 1
        /\ UNCHANGED <<accepting, marks, saves, ending, pc, why, faults>>
    BY <1>4, <1>0 DEF Edit
  <2>2. (lost => lost') /\ (lost' \/ InQueue') /\ Readable'
    <3>1. CASE Len(queue) < QueueSize
      <4>1. k \in Kinds /\ k # "invalid" /\ queue' = Append(queue, k) /\ lost' = lost
        BY <1>4, <1>0, <3>1 DEF Edit, Enqueue, Kinds
      <4>2. QED
        BY <4>1, <1>1, <1>4, PutLast DEF Readable, InQueue
    <3>2. CASE ~(Len(queue) < QueueSize)
      BY <1>4, <3>2 DEF Edit, Enqueue, Readable
    <3>3. QED
      BY <3>1, <3>2
  <2>3. QED
    BY <2>1, <2>2, <1>1 DEF InQueue, SavePCs
<1>5. ASSUME NEW k \in Noise, OtherEvent(k) PROVE CleanState'
  <2>1. (InQueue => InQueue') /\ (lost => lost') /\ Readable'
    <3>1. CASE Len(queue) < QueueSize
      <4>1. k \in Kinds /\ queue' = Append(queue, k) /\ lost' = lost /\ k # "invalid"
        BY <1>5, <3>1 DEF OtherEvent, Enqueue, Kinds
      <4>2. QED
        BY <4>1, <1>1, PutLast DEF Readable, InQueue
    <3>2. CASE ~(Len(queue) < QueueSize)
      BY <1>5, <3>2 DEF OtherEvent, Enqueue, Readable, InQueue
    <3>3. QED
      BY <3>1, <3>2
  <2>2. accepting /\ UNCHANGED <<heard, accepting, marks, saves, ending, pc, why>>
    BY <1>5 DEF OtherEvent
  <2>3. QED
    BY <2>1, <2>2, <1>1 DEF InQueue, SavePCs
<1>6. CASE Stop
  BY <1>6, <1>1 DEF Stop, Readable, InQueue
<1>7. CASE Cancel
  BY <1>7, <1>1 DEF Cancel, Readable, InQueue
<1>8. ASSUME NEW c \in Commands, CheckAlive(c) PROVE CleanState'
  BY <1>8, <1>1 DEF CheckAlive, Readable, InQueue
<1>9. ASSUME NEW c \in Commands, PutCommand(c) PROVE CleanState'
  BY <1>9, <1>1 DEF PutCommand, Readable, InQueue
<1>10. CASE SaveFold
  BY <1>10, <1>1 DEF SaveFold, SavePCs, Goto, FoldLost, Readable, InQueue
<1>11. CASE Export
  BY <1>11, <1>1 DEF Export, SavePCs, Goto, Readable, InQueue
<1>12. CASE Store
  BY <1>12, <1>1 DEF Store, SavePCs, Goto, Readable, InQueue
<1>13. CASE StoreCancelled
  BY <1>13, <1>1 DEF StoreCancelled, SavePCs, Goto, Readable, InQueue
<1>14. CASE Refold
  BY <1>14, <1>1 DEF Refold, SavePCs, Goto, FoldLost, Readable, InQueue
<1>15. CASE BaselineSaved
  BY <1>15, <1>1 DEF BaselineSaved, SavePCs, Goto, CloseSegment, Readable, InQueue
<1>16. CASE AutoSaved
  BY <1>16, <1>1 DEF AutoSaved, SavePCs, Goto, CloseSegment, Readable, InQueue
<1>17. CASE CommandSaved
  BY <1>17, <1>1 DEF CommandSaved, SavePCs, Goto, CloseSegment, Readable, InQueue
<1>18. CASE TailSaved
  BY <1>18, <1>1 DEF TailSaved, SavePCs, Goto, CloseSegment, Readable, InQueue
<1>19. CASE SaveFails
  BY <1>19, <1>1, <1>2 DEF SaveFails, SavePCs, Goto, FoldFails, Readable, InQueue
<1>20. CASE Start
  BY <1>20, <1>1 DEF Start, SavePCs, BeginSave, Readable, InQueue
<1>21. CASE Pass
  BY <1>21, <1>1 DEF Pass, SavePCs, Goto, FoldLost, Readable, InQueue
<1>22. CASE Get
  <2>1. /\ pc = "get" /\ pc' = "serve" /\ why' = why
        /\ UNCHANGED <<heard, saves, ending>>
    BY <1>22 DEF Get, Goto
  <2>2. /\ (InQueue => InQueue' \/ dirty') /\ (dirty => dirty') /\ lost' = lost /\ accepting' = accepting
        /\ Readable'
    <3>1. CASE queue = <<>>
      BY <1>22, <3>1 DEF Get, Readable, InQueue
    <3>2. CASE queue # <<>>
      <4>1. Consume
        BY <1>22, <3>2 DEF Get
      <4>2. QED
        BY <4>1, <1>3, <1>b DEF Consume
    <3>3. QED
      BY <3>1, <3>2
  <2>3. QED
    BY <2>1, <2>2, <1>1 DEF InQueue, SavePCs
<1>23. CASE Serve
  BY <1>23, <1>1 DEF Serve, SavePCs, Goto, BeginSave, Readable, InQueue
<1>24. CASE Served
  BY <1>24, <1>1 DEF Served, SavePCs, Goto, Readable, InQueue
<1>25. CASE Flush
  <2>1. /\ pc = "flush" /\ pc' = "flush" /\ why' = why
        /\ UNCHANGED <<heard, saves, ending>>
    BY <1>25 DEF Flush, Goto
  <2>2. /\ (InQueue => InQueue' \/ dirty') /\ (dirty => dirty') /\ lost' = lost /\ accepting' = accepting
        /\ Readable'
    BY <1>25, <1>3, <1>b DEF Flush, Consume
  <2>3. QED
    BY <2>1, <2>2, <1>1 DEF InQueue, SavePCs
<1>26. CASE PrepareSkips
  BY <1>26, <1>1 DEF PrepareSkips, SavePCs, Goto, Readable, InQueue
<1>27. CASE PrepareSaves
  BY <1>27, <1>1 DEF PrepareSaves, SavePCs, BeginSave, Readable, InQueue
<1>28. CASE FlushFails
  <2>1. ConsumeFails /\ Head(queue) \in {"gone", "invalid"} /\ Head(queue) \in Kinds
    BY <1>28, <1>2, <1>1, Taken DEF FlushFails, ConsumeFails
  <2>2. Head(queue) = "gone" /\ Readable'
    BY <2>1, <1>b DEF ConsumeFails
  <2>3. pc' = "failed" /\ UNCHANGED <<saves, ending>> /\ pc = "flush"
    BY <1>28, <1>2, <2>2 DEF FlushFails, Goto
  <2>4. QED
    BY <2>2, <2>3, <1>1 DEF SavePCs
<1>29. CASE AutoSave
  BY <1>29, <1>1 DEF AutoSave, SavePCs, BeginSave, Readable, InQueue
<1>30. CASE NotYet
  BY <1>30, <1>1 DEF NotYet, SavePCs, Goto, Readable, InQueue
<1>31. CASE Finish
  BY <1>31, <1>1 DEF Finish, SavePCs, Goto, Readable, InQueue
<1>32. CASE FinishFold
  BY <1>32, <1>1 DEF FinishFold, SavePCs, Goto, FoldLost, Readable, InQueue
<1>33. CASE Drain
  <2>1. /\ pc = "drain" /\ pc' = "drain" /\ why' = why
        /\ UNCHANGED <<heard, saves, ending>>
    BY <1>33 DEF Drain, Goto
  <2>2. /\ (InQueue => InQueue' \/ dirty') /\ (dirty => dirty') /\ lost' = lost /\ accepting' = accepting
        /\ Readable'
    BY <1>33, <1>3, <1>b DEF Drain, Consume
  <2>3. QED
    BY <2>1, <2>2, <1>1 DEF InQueue, SavePCs
<1>34. CASE Drained
  BY <1>34, <1>1 DEF Drained, SavePCs, Goto, Readable, InQueue
<1>35. CASE SaveTail
  BY <1>35, <1>1 DEF SaveTail, SavePCs, BeginSave, Readable, InQueue
<1>36. CASE NoTail
  BY <1>36, <1>1 DEF NoTail, SavePCs, Goto, CloseSegment, Readable, InQueue
<1>37. CASE LoopFails
  BY <1>37, <1>1, <1>2, <1>3, <1>b DEF LoopFails, Readable, SavePCs, Goto, FoldFails, ConsumeFails, InQueue
<1>38. CASE Failed
  BY <1>38, <1>1 DEF Failed, SavePCs, Goto, Readable, InQueue
<1>39. CASE RecordGap
  BY <1>39, <1>1, <1>2 DEF RecordGap, SavePCs, Goto, CloseSegment, Readable, InQueue
<1>40. CASE Reject
  BY <1>40, <1>1 DEF Reject, SavePCs, Goto, Readable, InQueue
<1>41. CASE Rejected
  BY <1>41, <1>1 DEF Rejected, SavePCs, Goto, Readable, InQueue
<1>42. CASE Die
  BY <1>42, <1>1 DEF Die, SavePCs, Goto, Readable, InQueue
<1>43. CASE UNCHANGED vars
  BY <1>43 DEF vars, Readable, InQueue
<1>44. QED
  BY <1>4, <1>5, <1>6, <1>7, <1>8, <1>9, <1>10, <1>11, <1>12, <1>13, <1>14, <1>15, <1>16,
     <1>17, <1>18, <1>19, <1>20, <1>21, <1>22, <1>23, <1>24, <1>25, <1>26, <1>27, <1>28,
        <1>29, <1>30, <1>31, <1>32, <1>33, <1>34, <1>35, <1>36, <1>37, <1>38, <1>39, <1>40,
           <1>41, <1>42, <1>43 DEF Next, RecorderStep, SaveStep, LoopStep, EndStep

----------------------------------------------------------------------------
(* What answers cover *)

\* A command that has not been put.
Fresh == {"unused", "checked"}

\* What a command must cover is settled when it is put; the copy made for it
\* has that as soon as it is exported.
CommandInv ==
    /\ \A c \in Commands : /\ command[c].heard <= heard /\ command[c].manual <= manual
                           /\ command[c].manual <= command[c].heard
    /\ \A i \in DOMAIN commands : command[commands[i]].state \notin Fresh
    /\ serving # NoCommand => command[serving].state \notin Fresh
    /\ pc = "flush" => serving \in Commands /\ command[serving].kind = "prepare"
    /\ pc \in SavePCs /\ why \in {"named", "prepare"} =>
         /\ serving \in Commands /\ command[serving].kind = why
         /\ pc = "store" => exported >= command[serving].heard
         /\ pc \in {"refold", "settle"} /\ ~cancelled => saved >= command[serving].heard

ManualInQueue == \E i \in DOMAIN queue : queue[i] = "manual"

\* An edit of the user that no save has is marked as the user's, or waits.
ManualState ==
    /\ ~lost
    /\ Running /\ manual > saved => manualDirty \/ ManualInQueue
    /\ pc \in {"store", "settle"} /\ manual > exported => ManualInQueue

ManualInv == durable /\ faults = 0 /\ ~dropped => ManualState

\* Nothing is unheard or taken out of a copy.
LEMMA Grows ==
  ASSUME TypeOK, [Next]_vars
  PROVE  heard <= heard' /\ manual <= manual' /\ exported <= exported' /\ saved <= saved' /\ (dropped => dropped')
<1> USE DEF ingress, intake, saves
<1>1. heard \in Nat /\ manual \in Nat /\ exported \in Nat /\ saved \in Nat
      /\ saved <= exported /\ exported <= heard /\ manual <= heard
  BY DEF TypeOK
<1>2. ASSUME NEW k \in Edits, Edit(k)
      PROVE  heard <= heard' /\ manual <= manual' /\ UNCHANGED <<exported, saved>> /\ (dropped => dropped')
  BY <1>1, <1>2 DEF Edit, Enqueue
<1>3. ASSUME NEW k \in Noise, OtherEvent(k)
      PROVE  UNCHANGED <<heard, manual, exported, saved>> /\ (dropped => dropped')
  BY <1>3 DEF OtherEvent, Enqueue
<1>4. ASSUME Stop \/ Cancel \/ UNCHANGED vars \/ \E c \in Commands : CheckAlive(c) \/ PutCommand(c)
      PROVE  UNCHANGED <<heard, manual, exported, saved, dropped>>
  BY <1>4 DEF Stop, Cancel, CheckAlive, PutCommand, vars, intake
<1>5. CASE Export \/ Store
  BY <1>1, <1>5 DEF Export, Store
<1>6. CASE SaveFold \/ StoreCancelled \/ Refold \/ BaselineSaved \/ AutoSaved \/ CommandSaved \/ TailSaved \/ SaveFails
  BY <1>1, <1>6 DEF SaveFold, StoreCancelled, Refold, BaselineSaved, AutoSaved, CommandSaved, TailSaved, SaveFails
<1>7. CASE LoopStep
  BY <1>1, <1>7 DEF LoopStep, Start, Pass, Get, Serve, Served, Flush, PrepareSkips, PrepareSaves,
     FlushFails, AutoSave, NotYet, Consume, ConsumeFails
<1>8. CASE EndStep
  BY <1>1, <1>8 DEF EndStep, Finish, FinishFold, Drain, Drained, SaveTail, NoTail, LoopFails,
     Failed, RecordGap, Reject, Rejected, Die, Consume, ConsumeFails
<1>9. QED
  BY <1>1, <1>2, <1>3, <1>4, <1>5, <1>6, <1>7, <1>8 DEF Next, RecorderStep, SaveStep

\* Steps that answer no command with success.
LEMMA AnswersNo ==
  ASSUME TypeOK, [Next]_vars
  PROVE  \/ command' = command
         \/ \E d \in Commands : command[d].state \in Fresh /\ (CheckAlive(d) \/ PutCommand(d))
         \/ \E d : command' = [command EXCEPT ![d].state = "failed"]
         \/ (PrepareSkips \/ (CommandSaved /\ ~cancelled)) /\ command' = [command EXCEPT ![serving].state = "ok"]
<1> USE DEF requests
<1>1. ASSUME NEW d \in Commands, CheckAlive(d) \/ PutCommand(d) PROVE command[d].state \in Fresh
  BY <1>1 DEF CheckAlive, PutCommand, Fresh
<1>2. CASE CommandSaved
  BY <1>2 DEF CommandSaved, Reply
<1>3. CASE SaveFails
  BY <1>3 DEF SaveFails, CommandFails, Reply
<1>4. CASE PrepareSkips
  BY <1>4 DEF PrepareSkips, Reply
<1>5. CASE FlushFails
  BY <1>5 DEF FlushFails, CommandFails, Reply
<1>6. CASE Reject
  BY <1>6 DEF Reject
<1>7. CASE \/ Stop \/ Cancel \/ UNCHANGED vars
           \/ \E k \in Edits : Edit(k)
           \/ \E k \in Noise : OtherEvent(k)
  BY <1>7 DEF Stop, Cancel, Edit, OtherEvent, vars
<1>8. CASE SaveFold \/ Export \/ Store \/ StoreCancelled \/ Refold \/ BaselineSaved \/ AutoSaved \/ TailSaved
  BY <1>8 DEF SaveFold, Export, Store, StoreCancelled, Refold, BaselineSaved, AutoSaved, TailSaved
<1>9. CASE Start \/ Pass \/ Get \/ Serve \/ Served \/ Flush \/ PrepareSaves \/ AutoSave \/ NotYet
  BY <1>9 DEF Start, Pass, Get, Serve, Served, Flush, PrepareSaves, AutoSave, NotYet
<1>10. CASE Finish \/ FinishFold \/ Drain \/ Drained \/ SaveTail \/ NoTail \/ LoopFails \/ Failed
            \/ RecordGap \/ Rejected \/ Die
  BY <1>10 DEF Finish, FinishFold, Drain, Drained, SaveTail, NoTail, LoopFails, Failed, RecordGap, Rejected, Die
<1>11. QED
  BY <1>1, <1>2, <1>3, <1>4, <1>5, <1>6, <1>7, <1>8, <1>9, <1>10 DEF Next, RecorderStep, SaveStep, LoopStep, EndStep

\* What a command must cover is settled when it is put, and it succeeds only
\* by a save or because there is nothing to save.
LEMMA CommandsGrow ==
  ASSUME TypeOK, [Next]_vars, NEW c \in Commands
  PROVE  /\ command'[c].kind = command[c].kind
         /\ command[c].state \notin Fresh =>
              /\ command'[c].state \notin Fresh
              /\ command'[c].heard = command[c].heard /\ command'[c].manual = command[c].manual
         /\ \/ command'[c].heard = command[c].heard /\ command'[c].manual = command[c].manual
            \/ command'[c].heard = heard /\ command'[c].manual = manual
         /\ command'[c].state = "ok" =>
              \/ command[c].state = "ok"
              \/ c = serving /\ (PrepareSkips \/ (CommandSaved /\ ~cancelled))
<1>0. command \in [Commands -> Command] /\ command[c] \in Command
  BY DEF TypeOK
<1>1. CASE command' = command
  BY <1>1
<1>2. ASSUME NEW d \in Commands, command[d].state \in Fresh, CheckAlive(d)
      PROVE  /\ command'[c].kind = command[c].kind /\ command'[c].heard = command[c].heard
             /\ command'[c].manual = command[c].manual
             /\ command'[c].state = IF c = d THEN "checked" ELSE command[c].state
  BY <1>0, <1>2 DEF CheckAlive, Command
<1>3. ASSUME NEW d \in Commands, command[d].state \in Fresh, PutCommand(d)
      PROVE  /\ c # d => command'[c] = command[c]
             /\ command'[d].kind = command[d].kind /\ command'[d].state = "queued"
             /\ command'[d].heard = heard /\ command'[d].manual = manual
  <2>1. command \in [Commands -> Command] /\ command[d] \in Command
    BY DEF TypeOK
  <2>2. QED
    BY <1>3, <2>1 DEF PutCommand, Command
<1>4. ASSUME NEW d, command' = [command EXCEPT ![d].state = "failed"]
      PROVE  /\ command'[c].kind = command[c].kind /\ command'[c].heard = command[c].heard
             /\ command'[c].manual = command[c].manual
             /\ command'[c].state = IF c = d THEN "failed" ELSE command[c].state
  BY <1>0, <1>4 DEF Command
<1>5. ASSUME command' = [command EXCEPT ![serving].state = "ok"]
      PROVE  /\ command'[c].kind = command[c].kind /\ command'[c].heard = command[c].heard
             /\ command'[c].manual = command[c].manual
             /\ command'[c].state = IF c = serving THEN "ok" ELSE command[c].state
  BY <1>0, <1>5 DEF Command
<1>6. QED
  BY <1>1, <1>2, <1>3, <1>4, <1>5, AnswersNo DEF Fresh

\* Which commands wait, and which is served, changes in few ways.
LEMMA Waiting ==
  ASSUME [Next]_vars
  PROVE  /\ \/ commands' = commands
            \/ \E c \in Commands : PutCommand(c)
            \/ commands # <<>> /\ commands' = Tail(commands)
         /\ \/ serving' = serving
            \/ serving' = NoCommand
            \/ Serve
<1> USE DEF requests
<1>1. CASE Stop \/ Cancel \/ UNCHANGED vars \/ (\E k \in Edits : Edit(k)) \/ (\E k \in Noise : OtherEvent(k))
  BY <1>1 DEF Stop, Cancel, Edit, OtherEvent, vars
<1>2. ASSUME NEW c \in Commands, CheckAlive(c) \/ PutCommand(c)
      PROVE  serving' = serving /\ (commands' = commands \/ PutCommand(c))
  BY <1>2 DEF CheckAlive, PutCommand
<1>3. CASE CommandSaved \/ SaveFails \/ PrepareSkips \/ FlushFails \/ Reject
  BY <1>3 DEF CommandSaved, SaveFails, PrepareSkips, FlushFails, Reject, CommandFails, Reply
<1>4. CASE SaveFold \/ Export \/ Store \/ StoreCancelled \/ Refold \/ BaselineSaved \/ AutoSaved \/ TailSaved
  BY <1>4 DEF SaveFold, Export, Store, StoreCancelled, Refold, BaselineSaved, AutoSaved, TailSaved
<1>5. CASE Start \/ Pass \/ Get \/ Serve \/ Served \/ Flush \/ PrepareSaves \/ AutoSave \/ NotYet
  BY <1>5 DEF Start, Pass, Get, Serve, Served, Flush, PrepareSaves, AutoSave, NotYet
<1>6. CASE Finish \/ FinishFold \/ Drain \/ Drained \/ SaveTail \/ NoTail \/ LoopFails \/ Failed
           \/ RecordGap \/ Rejected \/ Die
  BY <1>6 DEF Finish, FinishFold, Drain, Drained, SaveTail, NoTail, LoopFails, Failed, RecordGap, Rejected, Die
<1>7. QED
  BY <1>1, <1>2, <1>3, <1>4, <1>5, <1>6 DEF Next, RecorderStep, SaveStep, LoopStep, EndStep

\* The command being served, while a copy is made for it.
ServedState ==
    /\ pc = "flush" => serving \in Commands /\ command[serving].kind = "prepare"
    /\ pc \in SavePCs /\ why \in {"named", "prepare"} =>
         /\ serving \in Commands /\ command[serving].kind = why
         /\ pc = "store" => exported >= command[serving].heard
         /\ pc \in {"refold", "settle"} /\ ~cancelled => saved >= command[serving].heard

LEMMA ServedStep == TypeOK /\ CommandInv /\ [Next]_vars => ServedState'
<1> SUFFICES ASSUME TypeOK, CommandInv, [Next]_vars PROVE ServedState'
  OBVIOUS
<1> USE ObserverAssumption DEF ObserverAssumption, requests, saves, SavePCs, Goto, BeginSave, ServedState
<1>1. /\ heard \in Nat /\ saved \in Nat /\ exported \in Nat /\ saved <= exported /\ exported <= heard
      /\ heard' \in Nat /\ saved' \in Nat /\ exported' \in Nat
      /\ heard <= heard' /\ saved <= saved' /\ exported <= exported'
  <2>1. TypeOK'
    BY TypeStep
  <2>2. /\ heard \in Nat /\ saved \in Nat /\ exported \in Nat /\ saved <= exported /\ exported <= heard
        /\ heard' \in Nat /\ saved' \in Nat /\ exported' \in Nat
    BY <2>1 DEF TypeOK
  <2>3. QED
    BY <2>2, Grows
<1>2. \A c \in Commands :
        /\ command'[c].kind = command[c].kind /\ command[c].heard \in Nat /\ command'[c].heard \in Nat
        /\ command[c].heard <= heard
        /\ command[c].state \notin Fresh => command'[c].heard = command[c].heard
  <2>1. TypeOK'
    BY TypeStep
  <2>2. \A c \in Commands : command[c] \in Command /\ command'[c] \in Command
    BY <2>1 DEF TypeOK
  <2>3. QED
    BY <2>2, CommandsGrow DEF CommandInv, Command
<1>3. /\ serving \in Commands => command[serving].state \notin Fresh
      /\ ServedState
  BY DEF CommandInv
<1>4. CASE Stop \/ Cancel \/ UNCHANGED vars \/ (\E k \in Edits : Edit(k)) \/ (\E k \in Noise : OtherEvent(k))
  <2>1. UNCHANGED <<pc, why, serving, exported, saved, cancelled>>
    BY <1>4 DEF Stop, Cancel, Edit, OtherEvent, vars
  <2>2. QED
    BY <1>1, <1>2, <1>3, <2>1
<1>5. ASSUME NEW c \in Commands, CheckAlive(c) \/ PutCommand(c) PROVE ServedState'
  <2>1. UNCHANGED <<pc, why, serving, exported, saved, cancelled>>
    BY <1>5 DEF CheckAlive, PutCommand
  <2>2. QED
    BY <1>1, <1>2, <1>3, <2>1
<1>6. CASE SaveFold
  BY <1>1, <1>2, <1>3, <1>6 DEF SaveFold
<1>7. CASE Export
  BY <1>1, <1>2, <1>3, <1>7 DEF Export
<1>8. CASE Store
  BY <1>1, <1>2, <1>3, <1>8 DEF Store
<1>9. CASE StoreCancelled
  BY <1>1, <1>2, <1>3, <1>9 DEF StoreCancelled
<1>10. CASE Refold
  BY <1>1, <1>2, <1>3, <1>10 DEF Refold
<1>11. CASE BaselineSaved \/ AutoSaved \/ TailSaved
  BY <1>11 DEF BaselineSaved, AutoSaved, TailSaved
<1>12. CASE CommandSaved \/ SaveFails \/ PrepareSkips \/ FlushFails \/ Reject
  BY <1>12 DEF CommandSaved, SaveFails, PrepareSkips, FlushFails, Reject
<1>13. CASE Serve
  <2>1. commands \in Seq(Commands) /\ commands # <<>>
    BY <1>13 DEF Serve, TypeOK
  <2>2. serving' \in Commands
    BY <1>13, <2>1, Taken DEF Serve
  <2>3. command' = command /\ command[serving'] \in Command
    BY <1>13, <2>2 DEF Serve, TypeOK
  <2>4. command[serving'].kind \in {"named", "prepare"}
    BY <2>3 DEF Command
  <2>5. CASE command[serving'].kind = "named"
    BY <1>13, <2>2, <2>3, <2>5 DEF Serve
  <2>6. CASE command[serving'].kind = "prepare"
    BY <1>13, <2>2, <2>3, <2>6 DEF Serve
  <2>7. QED
    BY <2>4, <2>5, <2>6
<1>14. CASE Flush \/ PrepareSaves
  BY <1>1, <1>2, <1>3, <1>14 DEF Flush, PrepareSaves
<1>15. CASE Start \/ Pass \/ Get \/ Served \/ AutoSave \/ NotYet
  BY <1>15 DEF Start, Pass, Get, Served, AutoSave, NotYet
<1>16. CASE Finish \/ FinishFold \/ Drain \/ Drained \/ SaveTail \/ NoTail \/ LoopFails \/ Failed
           \/ RecordGap \/ Rejected \/ Die
  BY <1>16 DEF Finish, FinishFold, Drain, Drained, SaveTail, NoTail, LoopFails, Failed, RecordGap, Rejected, Die
<1>17. QED
  BY <1>4, <1>5, <1>6, <1>7, <1>8, <1>9, <1>10, <1>11, <1>12, <1>13, <1>14, <1>15, <1>16
     DEF Next, RecorderStep, SaveStep, LoopStep, EndStep

LEMMA CommandStep == TypeOK /\ CommandInv /\ [Next]_vars => CommandInv'
<1> SUFFICES ASSUME TypeOK, CommandInv, [Next]_vars PROVE CommandInv'
  OBVIOUS
<1>0. TypeOK'
  BY TypeStep
<1>1. ServedState'
  BY ServedStep
<1>2. ASSUME NEW c \in Commands
      PROVE  command'[c].heard <= heard' /\ command'[c].manual <= manual' /\ command'[c].manual <= command'[c].heard
  <2>1. command[c] \in Command /\ command'[c] \in Command
    BY <1>0 DEF TypeOK
  <2>2. heard \in Nat /\ manual \in Nat /\ heard' \in Nat /\ manual' \in Nat /\ manual <= heard
    BY <1>0 DEF TypeOK
  <2>3. /\ command[c].heard \in Nat /\ command[c].manual \in Nat
        /\ command'[c].heard \in Nat /\ command'[c].manual \in Nat
    BY <2>1 DEF Command
  <2>4. QED
    BY <2>2, <2>3, CommandsGrow, Grows DEF CommandInv
<1>3. ASSUME NEW i \in DOMAIN commands' PROVE command'[commands'[i]].state \notin Fresh
  <2>1. commands \in Seq(Commands) /\ \A j \in DOMAIN commands : commands[j] \in Commands
    BY DEF TypeOK
  <2>2. ASSUME NEW j \in DOMAIN commands PROVE command'[commands[j]].state \notin Fresh
    BY <2>1, <2>2, CommandsGrow DEF CommandInv
  <2>3. CASE commands' = commands
    BY <2>2, <1>3, <2>3
  <2>4. ASSUME NEW c \in Commands, PutCommand(c) PROVE command'[commands'[i]].state \notin Fresh
    <3>1. commands' = Append(commands, c)
      BY <2>4 DEF PutCommand
    <3>2. command \in [Commands -> Command]
      BY DEF TypeOK
    <3>3. command'[c].state = "queued"
      BY <2>4, <3>2 DEF PutCommand
    <3>4. (i \in DOMAIN commands /\ commands'[i] = commands[i]) \/ commands'[i] = c
      BY <1>3, <2>1, <3>1
    <3>5. QED
      BY <2>2, <3>3, <3>4 DEF Fresh
  <2>5. CASE commands # <<>> /\ commands' = Tail(commands)
    <3>1. i + 1 \in DOMAIN commands /\ commands'[i] = commands[i + 1]
      BY <1>3, <2>1, <2>5
    <3>2. QED
      BY <2>2, <3>1
  <2>6. QED
    BY <2>3, <2>4, <2>5, Waiting
<1>4. ASSUME serving' # NoCommand PROVE command'[serving'].state \notin Fresh
  <2>1. CASE serving' = serving
    <3>1. serving \in Commands
      BY <1>4, <2>1 DEF TypeOK
    <3>2. QED
      BY <1>4, <2>1, <3>1, CommandsGrow DEF CommandInv
  <2>2. CASE Serve
    <3>1. commands \in Seq(Commands) /\ commands # <<>> /\ serving' = Head(commands) /\ command' = command
      BY <2>2 DEF Serve, TypeOK
    <3>2. 1 \in DOMAIN commands /\ serving' = commands[1]
      BY <3>1
    <3>3. QED
      BY <3>1, <3>2 DEF CommandInv
  <2>3. QED
    BY <1>4, <2>1, <2>2, Waiting
<1>5. QED
  BY <1>1, <1>2, <1>3, <1>4 DEF CommandInv, ServedState, Fresh, SavePCs

\* The user's edits, while nothing fails and nothing is dropped.
LEMMA ManualStep == TypeOK /\ CleanInv /\ ManualInv /\ [Next]_vars => ManualInv'
<1> SUFFICES ASSUME TypeOK, CleanInv, ManualInv, [Next]_vars, durable', faults' = 0, ~dropped'
             PROVE  ManualState'
  BY DEF ManualInv
<1>0. durable /\ faults = 0 /\ ~Errs /\ ~dropped
  <2>1. durable
    BY DurableStays, Zenon
  <2>2. faults = 0 /\ ~Errs
    BY FaultsStay DEF Errs, TypeOK
  <2>3. ~dropped
    BY Grows
  <2>4. QED
    BY <2>1, <2>2, <2>3
<1>1. /\ heard \in Nat /\ manual \in Nat /\ saved \in Nat /\ exported \in Nat
      /\ saved <= exported /\ exported <= heard /\ manual <= heard /\ queue \in Seq(Kinds)
  BY DEF TypeOK
<1>2. /\ ~cancel /\ ~cancelled /\ pc # "refold" /\ (pc = "settle" => saved = exported)
      /\ Readable
  BY <1>0 DEF CleanInv, CleanState
<1>3. ManualState
  BY <1>0 DEF ManualInv
<1> USE <1>0, <1>3 DEF ManualState, Running, SavePCs, Goto, BeginSave, ingress, intake, marks, saves
<1>4. ASSUME queue # <<>>, queue' = Tail(queue), ManualInQueue
      PROVE  ManualInQueue' \/ Head(queue) = "manual"
  BY <1>1, <1>4, Shifted DEF ManualInQueue
<1>5. ASSUME UNCHANGED <<manual, saved, exported, lost, queue, manualDirty, pc>> PROVE ManualState'
  BY <1>5 DEF ManualInQueue
<1>6. CASE Stop \/ Cancel \/ UNCHANGED vars \/ \E c \in Commands : CheckAlive(c) \/ PutCommand(c)
  BY <1>5, <1>6 DEF Stop, Cancel, CheckAlive, PutCommand, vars
<1>7. ASSUME NEW k \in Kinds, Enqueue(k) PROVE lost' = lost /\ (ManualInQueue => ManualInQueue') /\ (k = "manual" => ManualInQueue')
  <2>1. queue' = Append(queue, k) /\ lost' = lost
    BY <1>7 DEF Enqueue
  <2>2. QED
    BY <1>1, <2>1, PutLast DEF ManualInQueue
<1>8. ASSUME NEW k \in Edits, Edit(k) PROVE ManualState'
  <2>1. k \in {"agent", "manual"} /\ k \in Kinds
    BY <1>8 DEF Edit, Edits, Kinds
  <2>2. lost' = lost /\ (ManualInQueue => ManualInQueue') /\ (k = "manual" => ManualInQueue')
    BY <1>7, <1>8, <2>1 DEF Edit
  <2>3. UNCHANGED <<manualDirty, saved, exported, pc>> /\ (k = "agent" => manual' = manual)
    BY <1>8 DEF Edit
  <2>4. QED
    BY <1>1, <2>1, <2>2, <2>3
<1>9. ASSUME NEW k \in Noise, OtherEvent(k) PROVE ManualState'
  <2>1. k \in Kinds
    BY DEF Kinds
  <2>2. lost' = lost /\ (ManualInQueue => ManualInQueue')
    BY <1>7, <1>9, <2>1 DEF OtherEvent
  <2>3. UNCHANGED <<manual, manualDirty, saved, exported, pc>>
    BY <1>9 DEF OtherEvent
  <2>4. QED
    BY <1>1, <2>2, <2>3
<1>10. ASSUME Consume PROVE lost' = lost /\ (manualDirty \/ ManualInQueue => manualDirty' \/ ManualInQueue')
  BY <1>4, <1>10 DEF Consume
<1>11. CASE Get
  <2>1. UNCHANGED <<manual, saved, exported>> /\ pc' = "serve" /\ pc = "get"
    BY <1>11 DEF Get
  <2>2. lost' = lost /\ (manualDirty \/ ManualInQueue => manualDirty' \/ ManualInQueue')
    BY <1>10, <1>11 DEF Get, ManualInQueue
  <2>3. QED
    BY <2>1, <2>2
<1>12. CASE Flush \/ Drain
  <2>1. UNCHANGED <<manual, saved, exported>> /\ pc' = pc /\ pc \in {"flush", "drain"}
    BY <1>12 DEF Flush, Drain
  <2>2. lost' = lost /\ (manualDirty \/ ManualInQueue => manualDirty' \/ ManualInQueue')
    BY <1>10, <1>12 DEF Flush, Drain
  <2>3. QED
    BY <2>1, <2>2
<1>13. CASE SaveFold \/ Pass \/ FinishFold
  BY <1>1, <1>13 DEF SaveFold, Pass, FinishFold, FoldLost, ManualInQueue
<1>14. CASE Export
  BY <1>1, <1>14 DEF Export, ManualInQueue
<1>15. CASE Store
  BY <1>1, <1>15 DEF Store, ManualInQueue
<1>16. CASE StoreCancelled \/ Refold
  BY <1>2, <1>16 DEF StoreCancelled, Refold
<1>17. CASE BaselineSaved \/ AutoSaved \/ CommandSaved
  BY <1>1, <1>2, <1>17 DEF BaselineSaved, AutoSaved, CommandSaved, CloseSegment, ManualInQueue
<1>18. CASE TailSaved \/ NoTail
  BY <1>18 DEF TailSaved, NoTail
<1>19. CASE SaveFails
  BY <1>1, <1>19 DEF SaveFails, FoldFails
<1>20. CASE Start \/ Serve \/ Served \/ PrepareSkips \/ PrepareSaves \/ AutoSave \/ NotYet
  BY <1>1, <1>20 DEF Start, Serve, Served, PrepareSkips, PrepareSaves, AutoSave, NotYet, ManualInQueue
<1>21. CASE FlushFails
  <2>1. ConsumeFails /\ lost' = lost
    BY <1>21 DEF FlushFails, ConsumeFails
  <2>2. Head(queue) # "invalid"
    BY <1>1, <1>2, <2>1 DEF ConsumeFails, Readable
  <2>3. Head(queue) = "gone"
    BY <1>21, <2>1, <2>2 DEF ConsumeFails
  <2>4. pc' = "failed"
    BY <1>21, <2>3 DEF FlushFails
  <2>5. QED
    BY <2>1, <2>4
<1>22. CASE LoopFails
  BY <1>22 DEF LoopFails, FoldFails, ConsumeFails
<1>23. CASE Finish \/ Drained \/ SaveTail
  BY <1>1, <1>23 DEF Finish, Drained, SaveTail, ManualInQueue
<1>24. CASE Failed \/ RecordGap \/ Reject \/ Rejected \/ Die
  BY <1>24 DEF Failed, RecordGap, Reject, Rejected, Die
<1>25. QED
  BY <1>6, <1>8, <1>9, <1>11, <1>12, <1>13, <1>14, <1>15, <1>16, <1>17, <1>18, <1>19, <1>20, <1>21,
     <1>22, <1>23, <1>24 DEF Next, RecorderStep, SaveStep, LoopStep, EndStep

\* A command that succeeds in this step is covered, and stays so.
LEMMA CoverStep ==
  TypeOK /\ CommandInv /\ ManualInv /\ AnswersCover /\ [Next]_vars => AnswersCover'
<1> SUFFICES ASSUME TypeOK, CommandInv, ManualInv, AnswersCover, [Next]_vars,
                    NEW c \in Commands, command'[c].state = "ok"
             PROVE  \/ command'[c].kind = "named" /\ saved' >= command'[c].heard
                    \/ command'[c].kind = "prepare"
                       /\ (durable' /\ faults' = 0 /\ ~dropped' => saved' >= command'[c].manual)
  BY DEF AnswersCover
<1>1. /\ command[c].kind \in {"named", "prepare"} /\ command[c].heard \in Nat /\ command[c].manual \in Nat
      /\ command'[c].kind = command[c].kind
  <2>1. command[c] \in Command
    BY DEF TypeOK
  <2>2. QED
    BY <2>1, CommandsGrow DEF Command
<1>2. saved \in Nat /\ saved' \in Nat /\ manual \in Nat /\ heard \in Nat
  <2>1. TypeOK'
    BY TypeStep
  <2>2. QED
    BY <2>1 DEF TypeOK
<1>3. saved <= saved' /\ (dropped => dropped') /\ (faults' = 0 => faults = 0) /\ durable' = durable
  BY Grows, FaultsStay, DurableStays
<1>4. CASE command[c].state = "ok"
  <2>1. command'[c].heard = command[c].heard /\ command'[c].manual = command[c].manual
    BY <1>4, CommandsGrow DEF Fresh
  <2>2. QED
    BY <1>1, <1>2, <1>3, <1>4, <2>1 DEF AnswersCover
<1>5. ASSUME c = serving
      PROVE  /\ command'[c].heard = command[c].heard /\ command'[c].manual = command[c].manual
             /\ command[c].manual <= command[c].heard /\ command[c].manual <= manual
  <2>1. c # NoCommand
    BY ObserverAssumption DEF ObserverAssumption
  <2>2. QED
    BY <1>5, <2>1, CommandsGrow DEF CommandInv
<1>6. CASE c = serving /\ CommandSaved /\ ~cancelled
  <2>1. saved >= command[c].heard
    BY <1>6 DEF CommandInv, CommandSaved, SavePCs
  <2>2. QED
    BY <1>1, <1>2, <1>3, <1>5, <1>6, <2>1
<1>7. CASE c = serving /\ PrepareSkips
  <2>1. /\ command[c].kind = "prepare" /\ queue = <<>> /\ ~manualDirty /\ pc = "flush" /\ saved' = saved
    BY <1>7 DEF CommandInv, PrepareSkips, saves
  <2>2. durable /\ faults = 0 /\ ~dropped => manual <= saved
    BY <1>2, <2>1 DEF ManualInv, ManualState, Running, ManualInQueue
  <2>3. QED
    BY <1>1, <1>2, <1>3, <1>5, <1>7, <2>1, <2>2
<1>8. QED
  BY <1>4, <1>6, <1>7, CommandsGrow

----------------------------------------------------------------------------
(* The theorems *)

\* A command put before the recorder has rejected what waited is answered
\* (_serve_commands, _reject_commands), whatever fails.
THEOREM CommandsAnswered == Spec => []PromptAnswered
<1>1. Init => AnswerInv
  BY DEF Init, AnswerInv, SavePCs
<1>2. TypeOK /\ AnswerInv /\ [Next]_vars => AnswerInv'
  BY AnswerStep
<1>3. AnswerInv => PromptAnswered
  BY DEF AnswerInv, PromptAnswered
<1>4. QED
  BY <1>1, <1>2, <1>3, TypeCorrect, PTL DEF Spec

\* The invariant of a durable recording holds throughout.
LEMMA CleanInductive == Spec => []CleanInv
<1>1. Init => CleanInv
  BY DEF Init, CleanInv, CleanState, Readable, NothingForgotten, SavingTail, SavePCs
<1>2. TypeOK /\ CleanInv /\ [Next]_vars => CleanInv'
  BY CleanStep
<1>3. QED
  BY <1>1, <1>2, TypeCorrect, PTL DEF Spec

\* While it runs and nothing fails, no edit is forgotten, however many events the full queue drops
\* (enqueue, check_overflow).
THEOREM NothingIsForgotten == Spec => []NothingForgotten
<1>1. CleanInv => NothingForgotten
  BY DEF CleanInv, CleanState, NothingForgotten
<1>2. QED
  BY <1>1, CleanInductive, PTL

\* When it stops without an error, every edit heard before the queue was shut is
\* saved (finish).
THEOREM CleanStopsSave == Spec => []CleanStop
<1>1. CleanInv => CleanStop
  BY DEF CleanInv, CleanState, CleanStop
<1>2. QED
  BY <1>1, CleanInductive, PTL

\* A save that was answered with success has what the user, or the agent's
\* operation, relied on (_serve_commands, prepare_operation).
THEOREM AnswersAreCovered == Spec => []AnswersCover
<1> DEFINE Inv == CommandInv /\ ManualInv /\ AnswersCover
<1>1. Init => Inv
  <2> SUFFICES ASSUME Init PROVE Inv
    OBVIOUS
  <2>1. CommandInv
    BY ObserverAssumption DEF ObserverAssumption, Init, CommandInv, Fresh, SavePCs
  <2>2. ManualInv
    BY DEF Init, ManualInv, ManualState, Running
  <2>3. AnswersCover
    BY DEF Init, AnswersCover
  <2>4. QED
    BY <2>1, <2>2, <2>3
<1>2. TypeOK /\ CleanInv /\ Inv /\ [Next]_vars => Inv'
  BY CommandStep, ManualStep, CoverStep
<1>3. Inv => AnswersCover
  OBVIOUS
<1> HIDE DEF Inv
<1>4. QED
  BY <1>1, <1>2, <1>3, TypeCorrect, CleanInductive, PTL DEF Spec

\* No edit is lost while a durable recording runs, nor when it ends
\* (enqueue, check_overflow, finish).
THEOREM EditsAreKept == Spec => []EditsKept
<1>1. NothingForgotten /\ CleanStop => EditsKept
  BY DEF EditsKept
<1>2. QED
  BY <1>1, NothingIsForgotten, CleanStopsSave, PTL

\* Whoever asks is answered, and told of success only when it is one
\* (_serve_commands, _reject_commands, prepare_operation).
THEOREM CommandsAreTrue == Spec => []CommandsTrue
<1>1. PromptAnswered /\ AnswersCover => CommandsTrue
  BY DEF CommandsTrue
<1>2. QED
  BY <1>1, CommandsAnswered, AnswersAreCovered, PTL
=============================================================================
