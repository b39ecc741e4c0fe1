------------------------------- MODULE Skills -------------------------------
(***************************************************************************)
(* Skills: what agents and pages refine from an interval of a history, and *)
(* the revisions they make of it (service/skills.py, service/agent.py,     *)
(* web/skill_routes.py, vesti_skills).  A client lists the versions page   *)
(* by page, has the evidence between two of them frozen, reads a skill,    *)
(* submits instructions, publishes, has a provider generate or validate,   *)
(* and exports; others do the same, the history goes on, and an answer may *)
(* be lost.                                                                *)
(*                                                                         *)
(* A version is a number.  Positions in the list are those of the timeline *)
(* (HistoryOrder says what happens to them); a body is named by the        *)
(* revision that brought it.  All clients explain a skill in the same      *)
(* words, and the request of a job has no key (Jobs has).                  *)
(***************************************************************************)
EXTENDS Counting, SequencesExt, FiniteSetsExt

CONSTANTS
  Agents, Pages,    \* clients
  PageSize,         \* of a list of versions, and of a list of skills
  MaxInterval,      \* MAX_VERSIONS of the evidence
  Bounds            \* how far a behaviour goes: [versions, changes, notes, skills, revisions,
                    \* tasks, lost], and whether who has made all skills goes on asking

ASSUME SkillsAssumption == PageSize \in Nat \ {0}

VARIABLES
  timeline,   \* versions in the order in which they are listed
  hidden,     \* history_collapsed
  order,      \* config history_revision
  notes,      \* versions with an annotation
  skills,     \* skill_assets and skill_revisions
  tasks,      \* jobs skill_generate and skill_validate
  client,     \* what each client is doing
  lost,       \* answers that were lost
  bound       \* one of Bounds

libraryVars == <<timeline, hidden, order, notes, skills, tasks, client, lost, bound>>
history == <<timeline, hidden, order, notes>>

Clients == Agents \cup Pages
Nobody == [pc |-> "idle"]

LibraryInit ==
  /\ timeline = <<1, 2>> /\ hidden = {} /\ order = 0 /\ notes = {}
  /\ skills = <<>> /\ tasks = {} /\ lost = 0 /\ bound \in Bounds
  /\ client = [c \in Clients |-> Nobody]

TurnsTo(c, mind) == client' = [client EXCEPT ![c] = mind]

---------------------------------------------------------------------------
(* The history.                                                            *)

NextVersion == Len(timeline) + 1

Save ==
  /\ Len(timeline) < bound.versions
  /\ timeline' = Append(timeline, NextVersion)
  /\ UNCHANGED <<hidden, order, notes, skills, tasks, client, lost>>

\* An older file is imported, before a version of the list.
ImportBefore(i) ==
  /\ Len(timeline) < bound.versions /\ order < bound.changes
  /\ timeline' = InsertAt(timeline, i, NextVersion) /\ order' = order + 1
  /\ UNCHANGED <<hidden, notes, skills, tasks, client, lost>>

\* A redundant baseline is hidden.
Collapse(i) ==
  /\ i < Len(timeline) /\ timeline[i] \notin hidden /\ order < bound.changes
  /\ hidden' = hidden \cup {timeline[i]} /\ order' = order + 1
  /\ UNCHANGED <<timeline, notes, skills, tasks, client, lost>>

Annotate(i) ==
  /\ Cardinality(notes) < bound.notes /\ notes' = notes \cup {timeline[i]}
  /\ UNCHANGED <<timeline, hidden, order, skills, tasks, client, lost>>

---------------------------------------------------------------------------
(* A list of versions, newest first, and a choice of two of them.          *)

Visible(first, last) == {i \in first..last : timeline[i] \notin hidden}

\* The versions at some places, in the order of the list.
Versions(places) == AtPlaces(timeline, places)
Newest(S) == {i \in S : Cardinality({j \in S : j > i}) < PageSize}

Listed(view, revision, before) ==
  LET places == Newest(Visible(1, before - 1))
  IN [pc |-> "history", revision |-> revision, before |-> Min(places \cup {before}),
      view |-> Versions(places) \o view]

FirstPage(c) ==
  /\ client[c].pc = "idle" /\ (Len(skills) < bound.skills \/ bound.again)
  /\ TurnsTo(c, Listed(<<>>, order, NextVersion))
  /\ UNCHANGED <<history, skills, tasks, lost>>

\* Faulty: a cursor of any revision is good.
AnyOrder(revision) == TRUE

\* The revision in the scope of a cursor, or in a selection.
SameOrder(revision) == revision = order

NextPage(c) ==
  LET mind == client[c]
  IN /\ mind.pc = "history" /\ Visible(1, mind.before - 1) # {}
     /\ TurnsTo(c, IF SameOrder(mind.revision)
                   THEN Listed(mind.view, mind.revision, mind.before)
                   ELSE Nobody)
     /\ UNCHANGED <<history, skills, tasks, lost>>

\* wanted: what the client saw between the two.
Choose(c) ==
  LET view == client[c].view
  IN /\ client[c].pc = "history"
     /\ \E i, j \in DOMAIN view :
          /\ i < j
          /\ TurnsTo(c, [pc |-> "refine", wanted |-> SubSeq(view, i, j),
                         call |-> [from |-> view[i], to |-> view[j], revision |-> client[c].revision]])
     /\ UNCHANGED <<history, skills, tasks, lost>>

---------------------------------------------------------------------------
(* refine: the evidence is collected, and the skill created with it.       *)

PlaceOf(version) == CHOOSE i \in DOMAIN timeline : timeline[i] = version

\* HistoryWindow.collect, in one transaction.
Collect(c) ==
  LET mind == client[c]
      places == Visible(PlaceOf(mind.call.from), PlaceOf(mind.call.to))
      accepted == /\ SameOrder(mind.call.revision)
                  /\ mind.call.from \notin hidden /\ mind.call.to \notin hidden
                  /\ Cardinality(places) \in 2..MaxInterval
  IN /\ mind.pc = "refine"
     /\ TurnsTo(c, IF accepted
                   THEN [pc |-> "create", wanted |-> mind.wanted, call |-> mind.call,
                         items |-> Versions(places)]
                   ELSE Nobody)
     /\ UNCHANGED <<history, skills, tasks, lost>>

\* An answer that is lost leaves the client where it asked.
Told(c, answer) ==
  \/ TurnsTo(c, answer) /\ UNCHANGED lost
  \/ lost < bound.lost /\ lost' = lost + 1 /\ UNCHANGED client

Outline == [body |-> 1, kind |-> "outline", state |-> "awaiting_agent", reports |-> {}, basis |-> 0]

AtRevision(n, revision, wanted) ==
  [pc |-> "skill", skill |-> n, revision |-> revision, wanted |-> wanted]

\* The key of an agent's call is made of its arguments; pages take a new one
\* for every click.
Key(c) == IF c \in Agents THEN {client[c].call} ELSE {}

\* Faulty: a call that is repeated is a new one.
NeverMade(key) == {}

\* The key lookup of SkillCatalog.create.
MadeWith(key) == {n \in DOMAIN skills : key # {} /\ skills[n].key = key}

\* The notes are read last.  What a key made before is the answer, as long as
\* the evidence is the same.
Create(c) ==
  LET mind == client[c]
      evidence == [items |-> mind.items, notes |-> notes \cap ToSet(mind.items)]
  IN /\ mind.pc = "create"
     /\ \/ /\ MadeWith(Key(c)) = {} /\ Len(skills) < bound.skills
           /\ skills' = Append(skills, [key |-> Key(c), evidence |-> evidence, revs |-> <<Outline>>])
           /\ Told(c, AtRevision(Len(skills'), 1, mind.wanted))
        \/ \E n \in MadeWith(Key(c)) :
             /\ UNCHANGED skills
             /\ IF skills[n].evidence = evidence
                THEN Told(c, AtRevision(n, Len(skills[n].revs), mind.wanted))
                ELSE TurnsTo(c, Nobody) /\ UNCHANGED lost
     /\ UNCHANGED <<history, tasks>>

\* Who got no answer asks again.
AskAgain(c) ==
  /\ client[c].pc = "create"
  /\ TurnsTo(c, [pc |-> "refine", wanted |-> client[c].wanted, call |-> client[c].call])
  /\ UNCHANGED <<history, skills, tasks, lost>>

---------------------------------------------------------------------------
(* The skills that wait for an agent, page by page.                        *)

Waiting == {n \in DOMAIN skills : Last(skills[n].revs).state = "awaiting_agent"}

\* Faulty: the cursor is the first one of the next page.
OneTooFar(places) == Min(places \cup {1}) - 1

\* next_before: the last one of this page.
Cursor(places) == Min(places)

\* Newest first.
Downwards(places) ==
  [k \in 1..Cardinality(places) |-> Nth(places, Cardinality(places) + 1 - k)]

Pending(known, before, since) ==
  LET places == Newest({n \in Waiting : n < before})
  IN [pc |-> IF \E n \in Waiting : places # {} /\ n < Min(places) THEN "pending" ELSE "listed",
      before |-> IF places = {} THEN before ELSE Cursor(places), since |-> since,
      known |-> known \o Downwards(places)]

ListPending(c) ==
  /\ \/ client[c].pc = "idle" /\ TurnsTo(c, Pending(<<>>, Len(skills) + 1, Waiting))
     \/ client[c].pc = "pending" /\ TurnsTo(c, Pending(client[c].known, client[c].before, client[c].since))
  /\ UNCHANGED <<history, skills, tasks, lost>>

---------------------------------------------------------------------------
(* The revisions of a skill.                                               *)

Read(c, n) ==
  /\ client[c].pc \in {"idle", "listed"} /\ TurnsTo(c, AtRevision(n, Len(skills[n].revs), <<>>))
  /\ UNCHANGED <<history, skills, tasks, lost>>

\* Faulty: the last one wins.
Unchecked(n, revision) == TRUE

\* SkillCatalog.update, and the checks before it, in one transaction.
Expected(n, revision) == Len(skills[n].revs) = revision

\* An update changes what the skill is by now.
Update(n, revision, Change(_)) ==
  LET new == Len(skills[n].revs) + 1
  IN /\ new <= bound.revisions
     /\ skills' = [skills EXCEPT ![n].revs =
                     Append(@, [Change(Last(@)) EXCEPT !.basis = revision])]

Conflict(c) == TurnsTo(c, Nobody) /\ UNCHANGED <<skills, lost>>

\* revise: an agent has the structure checked, and either may add a note.
Submit(c) ==
  LET n == client[c].skill
      new == Len(skills[n].revs) + 1
      structure == [body |-> new, revision |-> client[c].revision + 1]
      statement == [body |-> new, revision |-> 0]
  IN /\ client[c].pc = "skill"
     /\ IF Expected(n, client[c].revision)
        THEN /\ \E said \in SUBSET {statement} :
                  Update(n, client[c].revision, LAMBDA item : [item EXCEPT
                    !.body = new, !.kind = "instructions", !.state = "draft",
                    !.reports = said \cup IF c \in Agents THEN {structure} ELSE {}])
             /\ Told(c, AtRevision(n, new, <<>>))
        ELSE Conflict(c)
     /\ UNCHANGED <<history, tasks>>

Publish(c) ==
  LET n == client[c].skill
      item == Last(skills[n].revs)
  IN /\ c \in Pages /\ client[c].pc = "skill"
     /\ IF /\ Expected(n, client[c].revision)
           /\ item.state # "awaiting_agent" /\ item.kind # "outline"
        THEN /\ Update(n, client[c].revision, LAMBDA it : [it EXCEPT !.state = "published"])
             /\ Told(c, AtRevision(n, Len(skills[n].revs) + 1, <<>>))
        ELSE Conflict(c)
     /\ UNCHANGED <<history, tasks>>

\* request: a job for the revision that the page shows.
RequestTask(c, kind) ==
  LET n == client[c].skill
  IN /\ c \in Pages /\ client[c].pc = "skill" /\ Cardinality(tasks) < bound.tasks
     /\ IF Expected(n, client[c].revision)
        THEN /\ tasks' = tasks \cup {[kind |-> kind, skill |-> n, revision |-> client[c].revision]}
             /\ UNCHANGED client
        ELSE UNCHANGED tasks /\ TurnsTo(c, Nobody)
     /\ UNCHANGED <<history, skills, lost>>

\* _generate and _validate: the provider gets the revision of the job, and its
\* answer is for no other.
RunTask(task) ==
  LET n == task.skill
      new == Len(skills[n].revs) + 1
      report == [body |-> skills[n].revs[task.revision].body, revision |-> task.revision]
  IN /\ tasks' = tasks \ {task}
     /\ IF ~Expected(n, task.revision) THEN UNCHANGED skills
        ELSE \/ /\ task.kind = "generate"
                /\ \E kind \in {"outline", "instructions"} :
                     Update(n, task.revision, LAMBDA item : [item EXCEPT
                       !.body = new, !.kind = kind, !.state = "draft", !.reports = {}])
             \/ /\ task.kind = "validate"
                /\ Update(n, task.revision, LAMBDA item : [item EXCEPT !.reports = {report}])
     /\ UNCHANGED <<history, client, lost>>

\* An agent exports what it has read and nothing newer; the link of a page
\* names the revision that it shows.
AskExport(c) ==
  LET mind == client[c]
  IN /\ mind.pc = "skill"
     /\ TurnsTo(c, IF c \in Pages \/ Expected(mind.skill, mind.revision)
                THEN [mind EXCEPT !.pc = "export"] ELSE Nobody)
     /\ UNCHANGED <<history, skills, tasks, lost>>

Export(c) ==
  LET mind == client[c]
  IN /\ mind.pc = "export"
     /\ TurnsTo(c, [pc |-> "exported", skill |-> mind.skill, revision |-> mind.revision,
                    holds |-> skills[mind.skill].revs[mind.revision]])
     /\ UNCHANGED <<history, skills, tasks, lost>>

---------------------------------------------------------------------------
\* A client may turn to something else at any time.
Drop(c) ==
  /\ client[c] # Nobody /\ TurnsTo(c, Nobody)
  /\ UNCHANGED <<history, skills, tasks, lost>>

LibraryStep ==
  \/ Save
  \/ \E i \in DOMAIN timeline : ImportBefore(i) \/ Collapse(i) \/ Annotate(i)
  \/ \E task \in tasks : RunTask(task)
  \/ \E c \in Clients :
       \/ FirstPage(c) \/ NextPage(c) \/ Choose(c) \/ Collect(c) \/ Create(c) \/ AskAgain(c)
       \/ ListPending(c) \/ \E n \in DOMAIN skills : Read(c, n)
       \/ Submit(c) \/ Publish(c) \/ AskExport(c) \/ Export(c) \/ Drop(c)
       \/ \E kind \in {"generate", "validate"} : RequestTask(c, kind)

LibraryNext == LibraryStep /\ UNCHANGED bound

LibrarySpec == LibraryInit /\ [][LibraryNext]_libraryVars

---------------------------------------------------------------------------
(* Types.                                                                  *)

Call == [from : Nat, to : Nat, revision : Nat]
Evidence == [items : Seq(Nat), notes : SUBSET Nat]
Report == [body : Nat, revision : Nat]
Revision == [body : Nat, kind : {"outline", "instructions"}, reports : SUBSET Report,
             state : {"awaiting_agent", "draft", "published"}, basis : Nat]
Skill == [key : SUBSET Call, evidence : Evidence, revs : Seq(Revision) \ {<<>>}]

\* What a client knows of skill n at one of its revisions.
IsRevision(n, revision) == n \in DOMAIN skills /\ revision \in DOMAIN skills[n].revs

Minds ==
  [idle     |-> {Nobody},
   history  |-> [pc : {"history"}, revision : Nat, before : Nat, view : Seq(Nat)],
   refine   |-> [pc : {"refine"}, wanted : Seq(Nat), call : Call],
   create   |-> [pc : {"create"}, wanted : Seq(Nat), call : Call, items : Seq(Nat)],
   skill    |-> [pc : {"skill"}, skill : Nat, revision : Nat, wanted : Seq(Nat)],
   export   |-> [pc : {"export"}, skill : Nat, revision : Nat, wanted : Seq(Nat)],
   exported |-> [pc : {"exported"}, skill : Nat, revision : Nat, holds : Revision],
   pending  |-> [pc : {"pending"}, before : Nat, since : SUBSET Nat, known : Seq(Nat)],
   listed   |-> [pc : {"listed"}, before : Nat, since : SUBSET Nat, known : Seq(Nat)]]

LibraryTypeOK ==
  /\ timeline \in Seq(Nat) /\ Len(timeline) >= 2 /\ IsInjective(timeline)
  /\ \A i \in DOMAIN timeline : timeline[i] <= Len(timeline)
  /\ hidden \subseteq Nat /\ order \in Nat /\ notes \subseteq Nat /\ lost \in Nat
  /\ skills \in Seq(Skill)
  /\ \A task \in tasks : task.kind \in {"generate", "validate"} /\ IsRevision(task.skill, task.revision)
  /\ DOMAIN client = Clients
  /\ \A c \in Clients :
       /\ client[c].pc \in DOMAIN Minds /\ client[c] \in Minds[client[c].pc]
       /\ client[c].pc \in {"skill", "export", "exported"} =>
            IsRevision(client[c].skill, client[c].revision)

---------------------------------------------------------------------------
(* Properties.                                                             *)

\* A call of an agent makes one skill, however often it is repeated after lost
\* answers.
MadeOnce ==
  \A n, m \in DOMAIN skills : skills[n].key = skills[m].key => n = m \/ skills[n].key = {}

\* The evidence of a skill is the interval that its client saw, though the list
\* came page by page while the history changed.
EvidenceSeen ==
  \A c \in Clients :
    client[c].pc = "skill" /\ client[c].wanted # <<>> =>
      skills[client[c].skill].evidence.items = client[c].wanted

RefinedOnce == MadeOnce /\ EvidenceSeen

\* Nothing is lost or claimed wrongly between writers of a skill: every
\* revision was made by one who had read the revision before it, reports are
\* about the body that they stand with, an outline is never published, and an
\* export holds the revision that was asked for.
RevisionsTrue ==
  /\ \A n \in DOMAIN skills : \A k \in DOMAIN skills[n].revs :
       LET item == skills[n].revs[k]
       IN /\ item.basis = k - 1
          /\ item.state = "published" => item.kind = "instructions"
          /\ \A report \in item.reports :
               /\ report.body = item.body
               /\ report.revision # 0 => skills[n].revs[report.revision].body = report.body
  /\ \A c \in Clients : client[c].pc = "exported" =>
       client[c].holds = skills[client[c].skill].revs[client[c].revision]

\* Who walks through the pending requests sees every one that was pending all
\* the time, and none twice.
PendingListed ==
  \A c \in Clients : client[c].pc = "listed" =>
    /\ client[c].since \cap Waiting \subseteq ToSet(client[c].known)
    /\ IsInjective(client[c].known)
=============================================================================
