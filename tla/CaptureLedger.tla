---------------------------- MODULE CaptureLedger ----------------------------
(***************************************************************************)
(* What the durable queue promises about one history, without threads,     *)
(* files, receipts or leases: accepted copies leave in acceptance order,   *)
(* each one exactly once, as a version of its own, as a reference to the   *)
(* version it repeats, or because the user dropped it.                     *)
(* Nothing happens to an accepted copy when the service crashes.           *)
(***************************************************************************)
EXTENDS Integers, Sequences

CONSTANTS Layouts, Drawing, MaxCaptures, NoLayout

Captures == 1..MaxCaptures
Dropped == -1

VARIABLES
  content,    \* capture -> the layout it was accepted with
  queue,      \* accepted captures that have not left
  versions,   \* the layouts of the history, oldest first
  outcome     \* capture -> its version, 0 when it has none, Dropped

vars == <<content, queue, versions, outcome>>

Init ==
  /\ content = [c \in Captures |-> NoLayout]
  /\ queue = {}
  /\ versions \in {<<>>} \cup {<<l>> : l \in Layouts}
  /\ outcome = [c \in Captures |-> 0]

Oldest(c) == c \in queue /\ \A d \in queue : c <= d

Repeats(c, l) ==
  Len(versions) > 0 /\ Drawing[versions[Len(versions)]] = Drawing[l]

\* Later than everything accepted before.
Fresh(c) == \A d \in Captures : d >= c => content[d] = NoLayout

Accept(c, l) ==
  /\ Fresh(c)
  /\ content' = [content EXCEPT ![c] = l]
  /\ queue' = queue \cup {c}
  /\ UNCHANGED <<versions, outcome>>

AcceptRepeated(c, l) ==
  /\ Fresh(c)
  /\ queue = {}
  /\ Repeats(c, l)
  /\ content' = [content EXCEPT ![c] = l]
  /\ outcome' = [outcome EXCEPT ![c] = Len(versions)]
  /\ UNCHANGED <<queue, versions>>

Publish(c) ==
  /\ Oldest(c)
  /\ versions' = Append(versions, content[c])
  /\ outcome' = [outcome EXCEPT ![c] = Len(versions) + 1]
  /\ queue' = queue \ {c}
  /\ UNCHANGED content

Elide(c) ==
  /\ Oldest(c)
  /\ Repeats(c, content[c])
  /\ outcome' = [outcome EXCEPT ![c] = Len(versions)]
  /\ queue' = queue \ {c}
  /\ UNCHANGED <<content, versions>>

Drop(c) ==
  /\ Oldest(c)
  /\ outcome' = [outcome EXCEPT ![c] = Dropped]
  /\ queue' = queue \ {c}
  /\ UNCHANGED <<content, versions>>

\* Another writer of the same history.
Foreign(l) ==
  /\ versions' = Append(versions, l)
  /\ UNCHANGED <<content, queue, outcome>>

Next ==
  \/ \E c \in Captures, l \in Layouts : Accept(c, l) \/ AcceptRepeated(c, l)
  \/ \E c \in Captures : Publish(c) \/ Elide(c) \/ Drop(c)
  \/ \E l \in Layouts : Foreign(l)

Spec == Init /\ [][Next]_vars
===========================================================================
