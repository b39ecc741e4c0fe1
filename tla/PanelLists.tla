----------------------------- MODULE PanelLists -----------------------------
(***************************************************************************)
(* The lists of the web panel (web/static/app.js): which document the page *)
(* shows, its timeline of saved versions, the filter, the selected version *)
(* and the details beside it.  The page runs in one thread, but every      *)
(* request is answered later: the user moves on, another request overtakes *)
(* it, versions are saved and old files imported in between.               *)
(*                                                                         *)
(* A request records the generation of the view that sent it.  abortAll    *)
(* ends the guarded ones when the view changes; the chain that opens a     *)
(* document (refreshProjects, loadAllDocuments) cannot be aborted and      *)
(* compares generations itself.  Segments and events are loaded with the   *)
(* timeline; here they are one bit, whether they changed.                  *)
(***************************************************************************)
EXTENDS Naturals, Sequences, FiniteSets, SequencesExt

CONSTANTS
  Docs,            \* the documents that have a history
  NoDocument,      \* an id no document has (an old link)
  Segments,        \* activities a version may belong to, and the filters
  PageSize,        \* versions in one page (50 in the code)
  Earlier,         \* versions a history has when the page is opened, or none
  MaxEvents        \* saves, imports, actions of the user and failures in all

ASSUME PanelAssumption ==
  /\ NoDocument \notin Docs
  /\ PageSize \in Nat \ {0}
  /\ Earlier \in Nat
  /\ MaxEvents \in Nat

VARIABLES
  timeline,  \* service: document -> its versions, newest first
  revision,  \* service: document -> its history revision
  view,      \* page: the fields of `state` that the lists use
  poll,      \* page: listsInFlight, one poll of the lists
  opening,   \* page: chains of navigateDoc that have not ended
  calls,     \* page: other requests that have not been answered
  events     \* how many of the bounded events have happened

vars == <<timeline, revision, view, poll, opening, calls, events>>

All == <<>>                                    \* no filter: segmentFilter null
Filters == {All} \cup {<<s>> : s \in Segments}

\* Versions are numbered over all documents; a version has an activity, and the
\* revision that imported it, or 0.
Version == [id : Nat \ {0}, segment : Filters, imported : Nat]
Versions == UNION {Range(timeline[d]) : d \in Docs}
Nothing == 0                                   \* no version selected or shown

\* The part of a timeline that a filter leaves (page_checkpoints).
Listed(d, filter) ==
  SelectSeq(timeline[d], LAMBDA v : filter = All \/ v.segment = filter)

Ids(items) == {v.id : v \in Range(items)}

\* A page and the cursor of the next one.  The cursor is bound to the
\* document, the filter and the revision it was issued for.
PageAfter(d, filter, last) ==
  LET whole == Listed(d, filter)
      from  == IF last = Nothing THEN 0
               ELSE CHOOSE k \in DOMAIN whole : whole[k].id = last
      to    == IF from + PageSize < Len(whole) THEN from + PageSize ELSE Len(whole)
  IN [items    |-> SubSeq(whole, from + 1, to),
      cursor   |-> IF to = Len(whole) THEN <<>>
                   ELSE <<[doc |-> d, filter |-> filter, revision |-> revision[d],
                           last |-> whole[to].id]>>,
      revision |-> revision[d]]

FirstPage(d, filter) == PageAfter(d, filter, Nothing)

---------------------------------------------------------------------------
(* The view.                                                               *)

\* Faulty: the versions of the last document stay until the first answer.
ClearedButItems(v) ==
  [v EXCEPT !.detail = Nothing, !.signature = <<>>, !.scope = <<>>]

\* clearDocumentViews.  The cursor of the list and historyRevision are left as
\* they are: "load older versions" stays on the page, and may be used before the
\* first poll is answered.
Cleared(v) ==
  [v EXCEPT !.items = <<>>, !.detail = Nothing, !.signature = <<>>, !.scope = <<>>]

IdlePoll == [pc |-> "idle", gen |-> 0, filter |-> All, page |-> <<>>]

Init ==
  /\ \E filter \in Filters :
       timeline \in [Docs -> {<<>>, [k \in 1 .. Earlier |->
         [id |-> Earlier + 1 - k, segment |-> filter, imported |-> 0]]}]
  /\ \A d, e \in Docs : d # e => Ids(timeline[d]) \cap Ids(timeline[e]) = {}
  /\ revision = [d \in Docs |-> 0]
  /\ view = [gen |-> 0, doc |-> <<>>, filter |-> All, selected |-> Nothing,
             detail |-> Nothing, scope |-> <<>>, revision |-> 0, items |-> <<>>,
             cursor |-> <<>>, signature |-> <<>>]
  /\ poll = IdlePoll
  /\ opening = {}
  /\ calls = {}
  /\ events = 0

Event == events < MaxEvents /\ events' = events + 1

---------------------------------------------------------------------------
(* The service.                                                            *)

NewId == 1 + Cardinality(Versions)

\* A save of the recorder: the newest version, in a running activity or none.
Save(d) ==
  /\ Event
  /\ \E filter \in Filters :
       timeline' = [timeline EXCEPT ![d] =
                      <<[id |-> NewId, segment |-> filter, imported |-> 0]>> \o @]
  /\ UNCHANGED <<revision, view, poll, opening, calls>>

\* An import puts an old file in front of an existing version and makes every
\* open cursor invalid.
Import(d) ==
  /\ Event
  /\ \E k \in DOMAIN timeline[d] :
       timeline' = [timeline EXCEPT ![d] =
                      InsertAt(@, k + 1, [id |-> NewId, segment |-> All,
                                          imported |-> revision[d] + 1])]
  /\ revision' = [revision EXCEPT ![d] = @ + 1]
  /\ UNCHANGED <<view, poll, opening, calls>>

---------------------------------------------------------------------------
(* Routes.                                                                 *)

\* abortAll: what a change of the view ends.  Details and further pages are
\* requested through guarded.
Aborted(requests) == {}

\* navigateDoc: by a click, a link or the address bar.  A link may name a
\* version and an activity; nothing is loaded before the projects are known.
NavigateDoc(d, filter, id) ==
  /\ Event
  /\ view' = [Cleared(view) EXCEPT !.gen = @ + 1, !.doc = <<d>>,
                                   !.filter = filter, !.selected = id]
  /\ opening' = opening \cup {[gen |-> view.gen + 1, doc |-> d]}
  /\ poll' = IdlePoll
  /\ calls' = Aborted(calls)
  /\ UNCHANGED <<timeline, revision>>

\* navigateDocs, navigateWindow, navigateWindows: no document is shown.
LeftDocument ==
  /\ view' = [Cleared(view) EXCEPT !.gen = @ + 1, !.doc = <<>>,
                                   !.filter = All, !.selected = Nothing]
  /\ poll' = IdlePoll
  /\ calls' = Aborted(calls)

NavigateAway ==
  /\ view.doc # <<>>
  /\ Event
  /\ LeftDocument
  /\ UNCHANGED <<timeline, revision, opening>>

---------------------------------------------------------------------------
(* The poll of the lists: sessions first, then three requests together.    *)

\* pollLists: a poll of the same generation is shared.
PollOf(v) ==
  IF poll.pc # "idle" /\ poll.gen = v.gen THEN poll
  ELSE [IdlePoll EXCEPT !.pc = "sessions", !.gen = v.gen]

\* The timer of startPolling.
PollLists ==
  /\ poll.pc = "idle"
  /\ poll' = PollOf(view)
  /\ UNCHANGED <<timeline, revision, view, opening, calls, events>>

\* The end of navigateDoc's chain: pollStatus, then pollLists.
Opened(o) ==
  /\ o \in opening
  /\ opening' = opening \ {o}
  /\ poll' = IF o.gen = view.gen THEN PollOf(view) ELSE poll
  /\ UNCHANGED <<timeline, revision, view, calls, events>>

\* loadSessions has returned; the filter is read now, not when the poll began.
RequestLists ==
  /\ poll.pc = "sessions"
  /\ poll' = IF view.doc = <<>> THEN IdlePoll
             ELSE [poll EXCEPT !.pc = "lists", !.filter = view.filter]
  /\ UNCHANGED <<timeline, revision, view, opening, calls, events>>

\* The service answers: the answer is of this moment, the page reads it later.
AnswerLists ==
  /\ poll.pc = "lists"
  /\ poll' = IF view.doc[1] \in Docs
             THEN [poll EXCEPT !.pc = "answered",
                               !.page = <<FirstPage(view.doc[1], poll.filter)>>]
             ELSE [poll EXCEPT !.pc = "missing"]
  /\ UNCHANGED <<timeline, revision, view, opening, calls, events>>

\* Faulty: an overlap is not looked for; what was shown is always kept.
MergeAlways(old, oldCursor, fresh, reset) ==
  IF reset \/ old = <<>> THEN [items |-> fresh.items, cursor |-> fresh.cursor]
  ELSE [items  |-> fresh.items \o SelectSeq(old, LAMBDA v : v.id \notin Ids(fresh.items)),
        cursor |-> oldCursor]

\* mergeFreshWindow: a fresh first page in front of what was shown, if they
\* overlap; otherwise there is a gap, and the fresh page replaces it.
Merge(old, oldCursor, fresh, reset) ==
  IF reset \/ Ids(old) \cap Ids(fresh.items) = {}
  THEN [items |-> fresh.items, cursor |-> fresh.cursor]
  ELSE [items  |-> fresh.items \o SelectSeq(old, LAMBDA v : v.id \notin Ids(fresh.items)),
        cursor |-> oldCursor]

\* A call of loadDetail for the selected version.
DetailOf(id, ofPoll) ==
  [kind |-> "detail", id |-> id, ofPoll |-> ofPoll, status |-> "sent"]

\* A poll that found the same items keeps what is shown and its cursor, but
\* not the scope and the revision.  Segments or events may differ anyway.
Shown(fresh, otherChanged) ==
  LET scope   == <<view.doc[1], poll.filter>>
      reset   == view.scope # scope \/ view.revision # fresh.revision
      merged  == Merge(view.items, view.cursor, fresh, reset)
      changed == otherChanged \/ view.signature # <<merged.items>>
      noted   == [view EXCEPT !.scope = scope, !.revision = fresh.revision,
                              !.detail = IF reset THEN Nothing ELSE @]
  IN IF changed
     THEN [noted EXCEPT !.items = merged.items, !.cursor = merged.cursor,
                        !.signature = <<merged.items>>]
     ELSE noted

\* The answer reaches the page; details that are missing are loaded next, and
\* the poll lasts until they are.
ShowLists ==
  /\ poll.pc = "answered"
  /\ \E otherChanged \in BOOLEAN :
       IF poll.filter # view.filter
       THEN /\ poll' = IdlePoll
            /\ UNCHANGED <<view, calls>>
       ELSE LET shown == Shown(poll.page[1], otherChanged)
                loads == shown.selected # Nothing /\ shown.detail = Nothing
            IN /\ view' = shown
               /\ poll' = IF loads THEN [poll EXCEPT !.pc = "detail", !.page = <<>>]
                          ELSE IdlePoll
               /\ calls' = IF loads THEN calls \cup {DetailOf(shown.selected, TRUE)}
                           ELSE calls
  /\ UNCHANGED <<timeline, revision, opening, events>>

\* The document does not exist: back to the list of documents.
DocumentMissing ==
  /\ poll.pc = "missing"
  /\ LeftDocument
  /\ UNCHANGED <<timeline, revision, opening, events>>

\* The poll fails and the next one comes later.
PollFails ==
  /\ poll.pc = "lists"
  /\ Event
  /\ poll' = IdlePoll
  /\ UNCHANGED <<timeline, revision, view, opening, calls>>

---------------------------------------------------------------------------
(* The user on the page of a document.                                     *)

\* A click on an activity, or on "clear filter".
ToggleFilter(s) ==
  /\ view.doc # <<>>
  /\ Event
  /\ view' = [view EXCEPT !.filter = IF @ = <<s>> THEN All ELSE <<s>>,
                          !.signature = <<>>]
  /\ poll' = PollOf(view')
  /\ UNCHANGED <<timeline, revision, opening, calls>>

\* selectCheckpoint, on a version of the list.
SelectCheckpoint(id) ==
  /\ id \in Ids(view.items)
  /\ Event
  /\ view' = [view EXCEPT !.selected = id, !.detail = Nothing]
  /\ calls' = calls \cup {DetailOf(id, FALSE)}
  /\ UNCHANGED <<timeline, revision, poll, opening>>

\* The import dialog has ended an import of this document: the next answer
\* replaces what is shown.
ImportEnded ==
  /\ view.doc # <<>> /\ view.doc[1] \in Docs /\ revision[view.doc[1]] > 0
  /\ Event
  /\ view' = [view EXCEPT !.scope = <<>>, !.signature = <<>>, !.detail = Nothing]
  /\ poll' = PollOf(view)
  /\ UNCHANGED <<timeline, revision, opening, calls>>

\* loadMoreCheckpoints: the filter and the cursor of this moment.  The cursor
\* may be one that an earlier view left.
LoadMore ==
  /\ view.doc # <<>> /\ view.cursor # <<>>
  /\ Event
  /\ calls' = calls \cup
       {[kind |-> "more", id |-> events, filter |-> view.filter,
         cursor |-> view.cursor[1], status |-> "sent", page |-> <<>>]}
  /\ UNCHANGED <<timeline, revision, view, poll, opening>>

---------------------------------------------------------------------------
(* Answers to the user's requests, in any order.                           *)

\* The service compares the cursor's scope with the list it is used for.
Accepted(d, more) ==
  /\ more.cursor.doc = d
  /\ more.cursor.filter = more.filter
  /\ more.cursor.revision = revision[d]

AnswerMore(c) ==
  /\ c \in calls /\ c.kind = "more" /\ c.status = "sent"
  /\ LET d == view.doc[1]
     IN calls' = (calls \ {c}) \cup
          {IF Accepted(d, c)
           THEN [c EXCEPT !.status = "found",
                          !.page = <<PageAfter(d, c.filter, c.cursor.last)>>]
           ELSE [c EXCEPT !.status = "refused"]}
  /\ UNCHANGED <<timeline, revision, view, poll, opening, events>>

AnswerDetail(c) ==
  /\ c \in calls /\ c.kind = "detail" /\ c.status = "sent"
  /\ LET known == UNION {Ids(timeline[d]) : d \in Docs \cap {view.doc[1]}}
     IN calls' = (calls \ {c}) \cup
          {[c EXCEPT !.status = IF c.id \in known THEN "found" ELSE "missing"]}
  /\ UNCHANGED <<timeline, revision, view, poll, opening, events>>

\* Faulty: the cursor is not looked at again, and two clicks show one page twice.
MoreShownAgain(c) ==
  IF c.status = "refused" \/ c.filter # view.filter THEN view
  ELSE [view EXCEPT !.items = @ \o c.page[1].items, !.cursor = c.page[1].cursor]

\* A further page is appended if nothing changed meanwhile; two clicks send
\* the same cursor, and the second answer no longer matches.
MoreShown(c) ==
  IF \/ c.status = "refused"
     \/ <<c.cursor>> # view.cursor \/ c.filter # view.filter
  THEN view
  ELSE [view EXCEPT !.items = @ \o c.page[1].items, !.cursor = c.page[1].cursor]

ShowMore(c) ==
  /\ c \in calls /\ c.kind = "more" /\ c.status # "sent"
  /\ calls' = calls \ {c}
  /\ view' = MoreShown(c)
  /\ UNCHANGED <<timeline, revision, poll, opening, events>>

\* Faulty: an error leaves the poll waiting, and later ones share it.
DetailEndsAnswered(c) ==
  /\ calls' = calls \ {c}
  /\ poll' = IF c.ofPoll /\ c.status # "sent" THEN IdlePoll ELSE poll
  /\ UNCHANGED <<timeline, revision, opening>>

\* The end of loadDetail: a poll that waited for it ends too.
DetailEnds(c) ==
  /\ calls' = calls \ {c}
  /\ poll' = IF c.ofPoll THEN IdlePoll ELSE poll
  /\ UNCHANGED <<timeline, revision, opening>>

\* Faulty: the answer is shown beside whatever is selected now.
DetailForAny(c) == [view EXCEPT !.detail = c.id]

\* Details arrive for the version that is still selected, or are dropped.
DetailShown(c) == IF c.id = view.selected THEN [view EXCEPT !.detail = c.id] ELSE view

ShowDetail(c) ==
  /\ c \in calls /\ c.kind = "detail" /\ c.status = "found"
  /\ view' = DetailShown(c)
  /\ DetailEnds(c)
  /\ UNCHANGED events

\* The version does not exist: nothing is selected any more, whatever the user
\* has selected since.
DetailMissing(c) ==
  /\ c \in calls /\ c.kind = "detail" /\ c.status = "missing"
  /\ view' = [view EXCEPT !.selected = Nothing, !.detail = Nothing]
  /\ DetailEnds(c)
  /\ UNCHANGED events

\* The request fails: details go away, the next poll loads them again.
DetailFails(c) ==
  /\ c \in calls /\ c.kind = "detail"
  /\ Event
  /\ view' = [view EXCEPT !.detail = Nothing]
  /\ DetailEnds(c)

---------------------------------------------------------------------------
Service == \E d \in Docs : Save(d) \/ Import(d)

\* Links to a document, to one of its activities, or to a version that exists or
\* not; and a link to no document.
Links ==
  {<<d, All, id>> : d \in Docs, id \in {Nothing, NewId} \cup {v.id : v \in Versions}}
    \cup {<<d, <<s>>, Nothing>> : d \in Docs, s \in Segments}
    \cup {<<NoDocument, All, Nothing>>}

User ==
  \/ \E link \in Links : NavigateDoc(link[1], link[2], link[3])
  \/ NavigateAway
  \/ \E s \in Segments : ToggleFilter(s)
  \/ \E id \in Ids(view.items) : SelectCheckpoint(id)
  \/ ImportEnded \/ LoadMore

Page == PollLists \/ RequestLists \/ ShowLists \/ DocumentMissing

Fault == PollFails \/ \E c \in calls : DetailFails(c)

Next ==
  \/ Service \/ User \/ Page \/ Fault \/ AnswerLists
  \/ \E o \in opening : Opened(o)
  \/ \E c \in calls : AnswerMore(c) \/ AnswerDetail(c) \/ ShowMore(c) \/ ShowDetail(c) \/ DetailMissing(c)

Spec == Init /\ [][Next]_vars

\* The timer of the page runs, and requests are answered in the end.
Fairness ==
  /\ WF_vars(Page)
  /\ WF_vars(AnswerLists)
  /\ WF_vars(\E o \in opening : Opened(o))
  /\ WF_vars(\E c \in calls : AnswerMore(c) \/ AnswerDetail(c) \/ ShowMore(c) \/ ShowDetail(c) \/ DetailMissing(c))

FairSpec == Spec /\ Fairness

---------------------------------------------------------------------------
\* The list that is shown: that of the last poll; none is known after a
\* navigation, when only a further page may have come, or after an import.
ShownFilters == IF view.scope = <<>> THEN Filters ELSE {view.scope[2]}

\* What the page shows of the timeline is a run of one list of its document
\* without a gap and without a repetition, as it was at one revision of the
\* history, and its cursor continues exactly there: whatever overtook whatever,
\* and also when it was continued from a cursor that an earlier view left.
ShownGapless ==
  /\ view.items = <<>> /\ view.scope # <<>> => view.cursor = <<>>
  /\ view.items # <<>> =>
       /\ view.doc # <<>> /\ view.doc[1] \in Docs
       /\ LET d == view.doc[1]
              k == Len(view.items)
          IN \E filter \in ShownFilters : \E r \in 0 .. revision[d] :
               LET whole == SelectSeq(Listed(d, filter), LAMBDA v : v.imported <= r)
               IN \E from \in 0 .. (Len(whole) - k) :
                    /\ view.items = SubSeq(whole, from + 1, from + k)
                    /\ view.cursor = IF from + k = Len(whole) THEN <<>>
                                     ELSE <<[doc |-> d, filter |-> filter, revision |-> r,
                                             last |-> view.items[k].id]>>

\* The details shown are those of the selected version.
DetailOfSelected == view.detail \in {Nothing, view.selected}

\* What the page shows is true of one list and of one selection.
PageTrue == ShownGapless /\ DetailOfSelected

\* When nothing happens any more, the page shows the newest versions of the
\* document and the filter, and the details of the version that is selected.
PageSettles ==
  <>[](view.doc # <<>> =>
         LET d     == view.doc[1]
             fresh == FirstPage(d, view.filter).items
         IN /\ d \in Docs
            /\ view.scope = <<d, view.filter>>
            /\ view.revision = revision[d]
            /\ IsPrefix(fresh, view.items)
            /\ view.detail = view.selected)
=============================================================================
