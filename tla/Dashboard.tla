----------------------------- MODULE Dashboard -----------------------------
(***************************************************************************)
(* The dashboard: the answer that dashboard/service.py puts together from  *)
(* several reads without a common snapshot, the follow-up events it        *)
(* records, and the page that shows the one and causes the other           *)
(* (frontend SummaryCards.tsx), with its query cache and its mutations.    *)
(* Meanwhile conversations are uploaded, linked and deleted, and clients   *)
(* merged, from elsewhere.                                                 *)
(*                                                                         *)
(* What is abstracted:                                                     *)
(*  - texts, and the order within a list. Which clients a list that is cut *)
(*    keeps is modelled: the first by the order of the query, which may be *)
(*    any, or the most urgent, where a tie in urgency may fall either way; *)
(*  - the counts of conversations by status, which are of one read;        *)
(*  - priorities, a third list of the clients that are due;                *)
(*  - that no more than ten tasks are shown: the page may act on any;      *)
(*  - a conversation has its tasks as soon as it is there;                 *)
(*  - merges that are undone (ClientMerge has the undo).                   *)
(***************************************************************************)
EXTENDS Naturals, Sequences, FiniteSets, FiniteSetsExt

CONSTANTS
  Clients,        \* clients of the owner
  Conversations,  \* recordings, there at first or uploaded later
  Tasks,          \* action items
  ConversationOf, \* the conversation each task is from
  TextOf,         \* its normalised text, owner and due date
  Existing,       \* the conversations there at first, all of one client
  FirstClient,    \* this one
  Day,            \* clock steps in a day
  FollowupAfter,  \* FOLLOWUP_AFTER_DAYS
  ListLimit,      \* the clients a list has at most, [:5]
  SnoozeDays,     \* the days the page snoozes for
  MaxNow,         \* bound: the last time
  MaxCommits,     \* bound: writes the page causes
  MaxChanges      \* bound: changes from elsewhere

NoClient == "none"
Actions == {"COMPLETE", "SNOOZE", "RECORD_CONTACT"}
Mutations == {"complete", "reopen"}
Target(m) == IF m = "complete" THEN "COMPLETED" ELSE "OPEN"

ASSUME ClientsAssumption == NoClient \notin Clients /\ FirstClient \in Clients
ASSUME TasksAssumption == IsFiniteSet(Tasks) /\ ConversationOf \in [Tasks -> Conversations]
ASSUME ClockAssumption == Day \in Nat \ {0} /\ FollowupAfter \in Nat /\ SnoozeDays \in Nat
ASSUME ListsAssumption == ListLimit \in Nat
ASSUME BoundsAssumption == MaxNow \in Nat /\ MaxCommits \in Nat /\ MaxChanges \in Nat

VARIABLES
  now,     \* the clock of database and application
  present, \* the rows of clients
  conv,    \* of each conversation: whether it is there, its client, its created_at
  events,  \* client_followup_actions in the order of created_at
  task,    \* the status of each task
  fetch,   \* the GET /dashboard under way, and what it has read and built
  page,    \* what the query cache of the page holds
  follow,  \* the mutation that records a follow-up event
  batch,   \* the mutations that complete a group of tasks and reopen one
  commits, \* history: writes of the page
  told,    \* history: the latest of them that it has been told of, by kind
  since,   \* history: links and events as they were when fetch began, while it reads
  changes  \* changes from elsewhere

vars == <<now, present, conv, events, task, fetch, page, follow, batch,
          commits, told, since, changes>>
store == <<now, present, conv, events, task>>
history == <<commits, told, since, changes>>

Times == 0 .. MaxNow
Event == [client: Clients, action: Actions, at: Nat, until: Nat, commit: Nat] \* commit: history

Blank ==
  [ at |-> "idle", clients |-> {}, linked |-> [k \in Clients |-> {}],
    last |-> [k \in Clients |-> {}], open |-> {}, completed |-> {},
    followups |-> {}, recommended |-> {}, due |-> {}, eventsAt |-> 0, tasksAt |-> 0 ]

Reading == {"clients", "links", "events", "tasks"}
Building == {"followups", "recommendations", "answer"}

TypeOK ==
  /\ now \in Times
  /\ present \subseteq Clients
  /\ conv \in [Conversations ->
       [state: {"new", "stored", "deleted"}, client: Clients \cup {NoClient}, created: Times]]
  /\ events \in Seq(Event)
  /\ task \in [Tasks -> {"OPEN", "COMPLETED"}]
  /\ fetch.at \in {"idle"} \cup Reading \cup Building
  /\ fetch.open \subseteq Tasks \X (Clients \cup {NoClient})
  /\ fetch.followups \cup fetch.due \cup page.recommended \subseteq Clients
  /\ page.shown \in BOOLEAN
  /\ follow.at \in {"idle", "sent", "checked", "committed", "refetching"}
  /\ \A m \in Mutations : batch[m].at \in {"idle", "sent", "refetching"}

Idle == [at |-> "idle", client |-> NoClient, action |-> "COMPLETE", since |-> 0, commit |-> 0]
NoBatch == [at |-> "idle", todo |-> {}, commit |-> 0]

EmptyPage ==
  [ shown |-> FALSE, recommended |-> {}, groups |-> {}, completed |-> {},
    eventsAt |-> 0, tasksAt |-> 0 ]

NothingSince == [links |-> [c \in Conversations |-> NoClient], events |-> <<>>]

Init ==
  /\ now = 0
  /\ present = Clients
  /\ conv = [c \in Conversations |->
       IF c \in Existing THEN [state |-> "stored", client |-> FirstClient, created |-> 0]
                         ELSE [state |-> "new", client |-> NoClient, created |-> 0]]
  /\ events = <<>>
  /\ task \in {f \in [Tasks -> {"OPEN", "COMPLETED"}] :
                \A t \in Tasks : ConversationOf[t] \notin Existing => f[t] = "OPEN"}
  /\ fetch = Blank
  /\ page = EmptyPage
  /\ follow = Idle
  /\ batch = [m \in Mutations |-> NoBatch]
  /\ commits = 0
  /\ told = [events |-> 0, tasks |-> 0]
  /\ since = NothingSince
  /\ changes = 0

-----------------------------------------------------------------------------
(* Helpers *)

Linked(k) == {c \in Conversations : conv[c].state = "stored" /\ conv[c].client = k}

\* list_latest_followup_actions: the latest event of client k, if there is one.
LatestEvent(log, k) ==
  LET own == {i \in 1 .. Len(log) : log[i].client = k} IN
  IF own = {} THEN {} ELSE {log[Max(own)]}

DaysSince(time) == (now - time) \div Day

\* _followup_state, on what a request has read: the client is not to be followed up.
Suppressed(k) ==
  \E e \in fetch.last[k] :
    \/ e.action = "SNOOZE" /\ e.until > now
    \/ e.action = "COMPLETE" /\ \A created \in fetch.linked[k] : created <= e.at

ContactsByConversation(k) == fetch.linked[k] \* mutant: no recorded contact

\* The conversations of a client, and the contact that was recorded last.
Contacts(k) ==
  fetch.linked[k] \cup {e.at : e \in {x \in fetch.last[k] : x.action = "RECORD_CONTACT"}}

\* A client without any is due, too.
Due(k) ==
  /\ ~Suppressed(k)
  /\ \A contact \in Contacts(k) : DaysSince(contact) >= FollowupAfter

OpenOf(k) == {o \in fetch.open : o[2] = k}
RecommendedLater(k) == \* mutant: days_since_contact <= FOLLOWUP_AFTER_DAYS
  /\ ~Suppressed(k)
  /\ \/ \A contact \in Contacts(k) : DaysSince(contact) > FollowupAfter
     \/ OpenOf(k) # {}

Recommended(k) == ~Suppressed(k) /\ (Due(k) \/ OpenOf(k) # {})

\* urgency_score: of a client whom nobody has been in contact with, of one in contact
\* who has open tasks, and of one to be followed up.
Urgency(k) ==
  LET open == Cardinality(OpenOf(k))
      days == DaysSince(Max(Contacts(k)))
  IN CASE Contacts(k) = {} -> 50
       [] Contacts(k) # {} /\ days < FollowupAfter -> Min({90, 70 + 5 * open})
       [] Contacts(k) # {} /\ days >= FollowupAfter -> Min({100, 50 + days + 5 * open})

\* What a cut leaves of a list of the clients S, in whatever order they come.
Shortlists(S) == IF Cardinality(S) <= ListLimit THEN {S} ELSE kSubset(ListLimit, S)

\* The same where the most urgent come first.
MostUrgent(S) ==
  {R \in Shortlists(S) : \A k \in R, other \in S \ R : Urgency(other) <= Urgency(k)}

\* Tasks with the same text, owner and due date for the same client are one entry.
Groups ==
  {{p[1] : p \in {q \in fetch.open : TextOf[q[1]] = TextOf[o[1]] /\ q[2] = o[2]}} : o \in fetch.open}

\* A query that is cancelled resolves whoever awaits it, and begins again.
Refetch ==
  /\ fetch' = [Blank EXCEPT !.at = "clients"]
  /\ since' = [ links |-> [c \in Conversations |->
                             IF conv[c].state = "stored" THEN conv[c].client ELSE NoClient],
                events |-> events ]

Released(mutation, idle) == IF mutation.at = "refetching" THEN idle ELSE mutation
-----------------------------------------------------------------------------
(* What happens elsewhere *)

Tick ==
  /\ now < MaxNow
  /\ now' = now + 1
  /\ UNCHANGED <<present, conv, events, task, fetch, page, follow, batch, history>>

Elsewhere ==
  /\ changes < MaxChanges
  /\ changes' = changes + 1
  /\ UNCHANGED <<now, fetch, page, follow, batch, commits, told>>

\* A conversation is uploaded for a client or for none, and its tasks are extracted.
Upload(c) ==
  /\ Elsewhere
  /\ conv[c].state = "new"
  /\ \E k \in present \cup {NoClient} :
       conv' = [conv EXCEPT ![c] = [state |-> "stored", client |-> k, created |-> now]]
  /\ UNCHANGED <<present, events, task, since>>

\* An attempt or the user links it, or the user unlinks it.
Link(c) ==
  /\ Elsewhere
  /\ conv[c].state = "stored"
  /\ \E k \in (present \cup {NoClient}) \ {conv[c].client} : conv' = [conv EXCEPT ![c].client = k]
  /\ since' = [since EXCEPT !.links[c] = NoClient]
  /\ UNCHANGED <<present, events, task>>

Delete(c) ==
  /\ Elsewhere
  /\ conv[c].state = "stored"
  /\ conv' = [conv EXCEPT ![c].state = "deleted", ![c].client = NoClient]
  /\ since' = [since EXCEPT !.links[c] = NoClient]
  /\ UNCHANGED <<present, events, task>>

MergeConversations(from, to) ==
  [c \in Conversations |-> IF conv[c].client = from THEN [conv[c] EXCEPT !.client = to] ELSE conv[c]]

MergeWithoutEvents(from, to) == \* mutant: the events go with the client, ON DELETE CASCADE
  /\ Elsewhere
  /\ from # to
  /\ {from, to} \subseteq present
  /\ conv' = MergeConversations(from, to)
  /\ events' = SelectSeq(events, LAMBDA e : e.client # from)
  /\ present' = present \ {from}
  /\ since' = [since EXCEPT !.links = [c \in Conversations |->
                                         IF conv[c].client = from THEN NoClient ELSE since.links[c]]]
  /\ UNCHANGED task

\* A merge moves conversations and events to the client that is kept.
Merge(from, to) ==
  /\ Elsewhere
  /\ from # to
  /\ {from, to} \subseteq present
  /\ conv' = MergeConversations(from, to)
  /\ events' = [i \in DOMAIN events |->
                  IF events[i].client = from THEN [events[i] EXCEPT !.client = to] ELSE events[i]]
  /\ present' = present \ {from}
  /\ since' = [since EXCEPT !.links = [c \in Conversations |->
                                         IF conv[c].client = from THEN NoClient ELSE since.links[c]]]
  /\ UNCHANGED task

-----------------------------------------------------------------------------
(* GET /dashboard: one statement after another, then one list after another, each   *)
(* with a reading of the clock of its own.                                          *)

Fetching ==
  UNCHANGED <<store, page, follow, batch, history>>

ReadClients ==
  /\ fetch.at = "clients"
  /\ fetch' = [fetch EXCEPT !.at = "links", !.clients = present]
  /\ Fetching

\* The conversations of the clients are loaded by a statement of their own.
ReadLinks ==
  /\ fetch.at = "links"
  /\ fetch' = [fetch EXCEPT !.at = "events",
                !.linked = [k \in Clients |-> {conv[c].created : c \in Linked(k)}]]
  /\ Fetching

ReadEvents ==
  /\ fetch.at = "events"
  /\ fetch' = [fetch EXCEPT !.at = "tasks", !.eventsAt = commits,
                !.last = [k \in Clients |-> LatestEvent(events, k)]]
  /\ Fetching

InStatus(status) == {t \in Tasks : conv[ConversationOf[t]].state = "stored" /\ task[t] = status}

\* The open tasks with their clients, and the completed ones: two statements, one step.
ReadTasks ==
  /\ fetch.at = "tasks"
  /\ fetch' = [fetch EXCEPT !.at = "followups", !.tasksAt = commits,
                !.open = {<<t, conv[ConversationOf[t]].client>> : t \in InStatus("OPEN")},
                !.completed = InStatus("COMPLETED")]
  /\ Fetching

BuildFollowups ==
  /\ fetch.at = "followups"
  /\ \E listed \in Shortlists({k \in fetch.clients : Due(k)}) :
       fetch' = [fetch EXCEPT !.at = "recommendations", !.followups = listed]
  /\ since' = NothingSince
  /\ UNCHANGED <<store, page, follow, batch, commits, told, changes>>

\* The recommendations, and last the count, of which nothing is cut; two later readings
\* of the clock, one step.
BuildRecommendations ==
  /\ fetch.at = "recommendations"
  /\ \E listed \in MostUrgent({k \in fetch.clients : Recommended(k)}) :
       fetch' = [fetch EXCEPT !.at = "answer", !.recommended = listed,
                  !.due = {k \in fetch.clients : Due(k)},
                  !.clients = {}, !.linked = Blank.linked, !.last = Blank.last]
  /\ Fetching

Settle ==
  /\ fetch' = Blank
  /\ follow' = Released(follow, Idle)
  /\ batch' = [m \in Mutations |-> Released(batch[m], NoBatch)]
  /\ since' = NothingSince
  /\ UNCHANGED <<store, commits, told, changes>>

Answer ==
  /\ fetch.at = "answer"
  /\ page' = [ shown |-> TRUE, recommended |-> fetch.recommended,
               groups |-> Groups, completed |-> fetch.completed,
               eventsAt |-> fetch.eventsAt, tasksAt |-> fetch.tasksAt ]
  /\ Settle

\* The request and its retries fail: the page shows an alert and nothing else until
\* another succeeds.
AnswerFails ==
  /\ fetch.at # "idle"
  /\ page' = EmptyPage
  /\ Settle

\* The page is opened, or "Try again".
Visit ==
  /\ fetch.at = "idle"
  /\ Refetch
  /\ UNCHANGED <<store, page, follow, batch, commits, told, changes>>

-----------------------------------------------------------------------------
(* A follow-up event: the mutation of the page, record_followup_action *)

Act(k, action) ==
  /\ page.shown
  /\ commits < MaxCommits
  /\ follow.at = "idle"
  /\ k \in page.recommended
  /\ follow' = [Idle EXCEPT !.at = "sent", !.client = k, !.action = action]
  /\ UNCHANGED <<store, fetch, page, batch, history>>

\* get_profile, then the clock.
Check ==
  /\ follow.at = "sent"
  /\ follow.client \in present
  /\ follow' = [follow EXCEPT !.at = "checked", !.since = now]
  /\ UNCHANGED <<store, fetch, page, batch, history>>

\* INSERT and commit, under the foreign key.
Insert ==
  /\ follow.at = "checked"
  /\ follow.client \in present
  /\ events' = Append(events,
       [ client |-> follow.client, action |-> follow.action, at |-> follow.since,
         until |-> IF follow.action = "SNOOZE" THEN follow.since + SnoozeDays * Day ELSE 0,
         commit |-> commits + 1 ])
  /\ commits' = commits + 1
  /\ follow' = [follow EXCEPT !.at = "committed", !.commit = commits + 1]
  /\ UNCHANGED <<now, present, conv, task, fetch, page, batch, told, since, changes>>

\* 404, an error, or an answer that is lost after the commit. A client that was merged
\* away since the check leaves nothing else.
FollowFails ==
  /\ follow.at \in {"sent", "checked", "committed"}
  /\ follow' = Idle
  /\ UNCHANGED <<store, fetch, page, batch, history>>

FollowToldJoins == \* mutant: waits for the request that is under way
  /\ follow.at = "committed"
  /\ told' = [told EXCEPT !.events = follow.commit]
  /\ follow' = [Idle EXCEPT !.at = "refetching"]
  /\ IF fetch.at = "idle" THEN Refetch ELSE UNCHANGED <<fetch, since>>
  /\ UNCHANGED <<store, page, batch, commits, changes>>

\* onSuccess: invalidateQueries cancels the request under way, and awaits another.
FollowTold ==
  /\ follow.at = "committed"
  /\ told' = [told EXCEPT !.events = follow.commit]
  /\ follow' = [Idle EXCEPT !.at = "refetching"]
  /\ batch' = [m \in Mutations |-> Released(batch[m], NoBatch)]
  /\ Refetch
  /\ UNCHANGED <<store, page, commits, changes>>

-----------------------------------------------------------------------------
(* Tasks: one request for each task of the group *)

Begin(m, group) ==
  /\ page.shown
  /\ commits < MaxCommits
  /\ batch[m].at = "idle"
  /\ group \in IF m = "complete" THEN page.groups ELSE {{t} : t \in page.completed}
  /\ batch' = [batch EXCEPT ![m] = [at |-> "sent", todo |-> group, commit |-> 0]]
  /\ UNCHANGED <<store, fetch, page, follow, history>>

\* ActionItemService.complete and reopen: a task that is so already is not written.
SetTask(m, t) ==
  /\ batch[m].at = "sent"
  /\ t \in batch[m].todo
  /\ conv[ConversationOf[t]].state = "stored"
  /\ task' = [task EXCEPT ![t] = Target(m)]
  /\ commits' = IF task[t] = Target(m) THEN commits ELSE commits + 1
  /\ batch' = [batch EXCEPT ![m].todo = @ \ {t}, ![m].commit = commits']
  /\ UNCHANGED <<now, present, conv, events, fetch, page, follow, told, since, changes>>

\* One fails and Promise.all with it. It, and those not answered yet, are carried out or not.
BatchFails(m) ==
  /\ batch[m].at = "sent"
  /\ batch[m].todo # {}
  /\ \E done \in SUBSET {t \in batch[m].todo : conv[ConversationOf[t]].state = "stored"} :
       /\ task' = [t \in Tasks |-> IF t \in done THEN Target(m) ELSE task[t]]
       /\ commits' = commits + Cardinality({t \in done : task[t] # Target(m)})
  /\ batch' = [batch EXCEPT ![m] = NoBatch]
  /\ UNCHANGED <<now, present, conv, events, fetch, page, follow, told, since, changes>>

BatchTold(m) ==
  /\ batch[m].at = "sent"
  /\ batch[m].todo = {}
  /\ told' = [told EXCEPT !.tasks = Max({@, batch[m].commit})]
  /\ batch' = [[n \in Mutations |-> Released(batch[n], NoBatch)] EXCEPT ![m] = [NoBatch EXCEPT !.at = "refetching"]]
  /\ follow' = Released(follow, Idle)
  /\ Refetch
  /\ UNCHANGED <<store, page, commits, changes>>

-----------------------------------------------------------------------------

Change ==
  \/ \E c \in Conversations : Upload(c) \/ Link(c) \/ Delete(c)
  \/ \E from, to \in Clients : Merge(from, to)

FetchStep ==
  \/ ReadClients \/ ReadLinks \/ ReadEvents \/ ReadTasks
  \/ BuildFollowups \/ BuildRecommendations \/ Answer \/ AnswerFails

FollowStep ==
  \/ \E k \in Clients, action \in Actions : Act(k, action)
  \/ Check \/ Insert \/ FollowFails \/ FollowTold

BatchStep(m) ==
  \/ \E group \in SUBSET Tasks : Begin(m, group)
  \/ \E t \in Tasks : SetTask(m, t)
  \/ BatchFails(m) \/ BatchTold(m)

Next ==
  \/ Tick \/ Change \/ FetchStep \/ Visit \/ FollowStep
  \/ \E m \in Mutations : BatchStep(m)

Spec == Init /\ [][Next]_vars
-----------------------------------------------------------------------------
(* Properties *)

\* The lists and the count of one answer agree although each is built with a clock of
\* its own and the lists are cut, one in the order of the query, one by urgency. Whom the
\* answer asks to follow up it counts as due; it recommends all of them, or else as many
\* clients as it may show.
ListedIsCounted ==
  fetch.at = "answer" =>
    /\ fetch.followups \subseteq fetch.due
    /\ \/ fetch.followups \subseteq fetch.recommended
       \/ Cardinality(fetch.recommended) = ListLimit

\* A client that is still there is not listed as due while a conversation that has been
\* linked since before the request is recent, nor against its latest event, if that is
\* the latest since before the request: a contact counts, a snooze lasts, a completed
\* follow-up comes back with a newer conversation only. This whatever is uploaded,
\* linked, merged and recorded between the readings.
QuietIsKept ==
  [][ fetch.at = "followups" /\ fetch'.at = "recommendations" =>
        \A k \in fetch'.followups \cap present :
          /\ \A c \in Conversations :
               since.links[c] = k => DaysSince(conv[c].created) >= FollowupAfter
          /\ \A e \in LatestEvent(events, k) \cap LatestEvent(since.events, k) :
               CASE e.action = "RECORD_CONTACT" -> DaysSince(e.at) >= FollowupAfter
                 [] e.action = "SNOOZE" -> e.until <= now
                 [] e.action = "COMPLETE" ->
                      \E c \in Conversations : conv[c].state # "new" /\ conv[c].created > e.at ]_vars

\* When nothing is under way and the page has no alert, it shows an answer that was read
\* after every write it has been told of: answers that cross leave nothing stale.
SettledIsFresh ==
  fetch.at = "idle" /\ page.shown => page.eventsAt >= told.events /\ page.tasksAt >= told.tasks

\* An event that the page was told of is kept, and is of a client that is there: merges
\* come between its check, its insertion and the answer, and each deletes a client, with
\* which the database deletes the events that still name it.
RecordedIsKept ==
  told.events # 0 =>
    \E i \in DOMAIN events : events[i].commit = told.events /\ events[i].client \in present
=============================================================================
