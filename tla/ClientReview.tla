---------------------------- MODULE ClientReview ----------------------------
(***************************************************************************)
(* The review of one client (client/review.py): an assistant reads the     *)
(* transcripts of the client's recordings and the open tasks, and the      *)
(* suggestions it makes are saved with a fingerprint of what they were     *)
(* made from. Nothing is locked. The context is read in three queries, the *)
(* provider takes its time, and meanwhile other tabs link, unlink, delete  *)
(* and edit, and the worker transcribes and extracts. A fingerprint that   *)
(* no longer fits hides the saved review; there is nothing else that does. *)
(***************************************************************************)
EXTENDS Naturals

CONSTANTS
  Recordings, \* the owner's recordings, numbered in the order of their upload
  Tasks,      \* action items the recordings mention
  OriginOf,   \* the recording each task was extracted from
  Generators, \* POST /clients/{id}/review requests
  Loaders,    \* GET /clients/{id}/review requests
  MaxChanges  \* bound: writes of other requests and of the worker

ASSUME OriginAssumption == Recordings \subseteq Nat /\ OriginOf \in [Tasks -> Recordings]
ASSUME RequestsAssumption == Generators \cap Loaders = {}
ASSUME ChangesAssumption == MaxChanges \in Nat

Requests == Generators \cup Loaders

VARIABLES
  place,   \* each recording: linked to the client, elsewhere or deleted
  transcribed, \* those with the text of a transcript, which does not change again
  version, \* its updated_at
  task,    \* each task: not extracted, open or completed
  wording, \* what the user has made of its words
  saved,   \* clients.saved_review
  pc, pass, \* how far each request is, and in which of its readings
  ctx,     \* review_context as far as it is read
  base,    \* the context a generator drafted from
  draft,   \* what it drafted
  held,    \* the saved review a loader has read
  shown,   \* what a loader has answered
  changes

rows == <<place, transcribed, version, task, wording>>
requests == <<pc, pass, ctx, base, draft, held, shown>>
vars == <<rows, saved, requests, changes>>

-----------------------------------------------------------------------------
(* Helpers *)

Linked == {r \in Recordings : place[r] = "linked"}
OpenTasks == {t \in Tasks : task[t] = "open" /\ OriginOf[t] \in Linked}

Nothing == [sources |-> {}, tasks |-> <<>>, linked |-> <<>>]
NoDraft == [cited |-> {}, completed |-> <<>>]
NoReview == [kind |-> "none", of |-> <<>>, cited |-> {}, completed |-> <<>>, assessed |-> <<>>]
NoAnswer == [kind |-> "none", cited |-> {}, completed |-> <<>>, assessed |-> <<>>, tasks |-> <<>>]

\* The sources and the linked rows; the status of a task is not part of it.
Fingerprint(c) == <<c.sources, c.linked>>

\* What the provider is sent.
Payload(c) == <<c.sources, c.tasks>>

SameFingerprint(q) == Fingerprint(ctx[q]) = Fingerprint(base[q]) \* mutant: the payload is not compared

\* The context that is read again is the one the draft was made from.
Same(q) ==
  /\ Fingerprint(ctx[q]) = Fingerprint(base[q])
  /\ Payload(ctx[q]) = Payload(base[q])

\* validate_assessments: a later source than the task's own, which is a source too.
Evidence(c, t) ==
  {r \in c.sources : OriginOf[t] \in c.sources /\ r > OriginOf[t]}

FreshAnyway(q, c) == held[q].kind # "none" \* mutant: a stale review is shown

\* load_review shows the saved review only to the context it was made from.
Fresh(q, c) == held[q].kind # "none" /\ held[q].of = Fingerprint(c)

\* What a review or an answer quotes.
Cites(x) == x.cited \cup {x.completed[t] : t \in DOMAIN x.completed}

-----------------------------------------------------------------------------

TypeOK ==
  /\ place \in [Recordings -> {"linked", "elsewhere", "deleted"}]
  /\ transcribed \subseteq Recordings
  /\ version \in [Recordings -> Nat]
  /\ task \in [Tasks -> {"none", "open", "completed"}]
  /\ wording \in [Tasks -> Nat]
  /\ saved.kind \in {"none", "saved"}
  /\ pc \in [Requests -> {"idle", "sources", "tasks", "linked", "asking", "publishing", "done"}]
  /\ pass \in [Requests -> {"first", "again", "load"}]
  /\ changes \in 0 .. MaxChanges
  /\ \A t \in Tasks : place[OriginOf[t]] = "deleted" => task[t] = "none"

Init ==
  /\ place \in [Recordings -> {"linked", "elsewhere"}]
  /\ transcribed \in SUBSET Recordings
  /\ version = [r \in Recordings |-> 0]
  /\ task \in [Tasks -> {"none", "open"}]
  /\ \A t \in Tasks : task[t] = "open" => OriginOf[t] \in transcribed
  /\ wording = [t \in Tasks |-> 0]
  /\ saved = NoReview
  /\ pc = [q \in Requests |-> IF q \in Loaders THEN "idle" ELSE "sources"]
  /\ pass = [q \in Requests |-> IF q \in Loaders THEN "load" ELSE "first"]
  /\ ctx = [q \in Requests |-> Nothing]
  /\ base = [q \in Generators |-> Nothing]
  /\ draft = [q \in Generators |-> NoDraft]
  /\ held = [q \in Loaders |-> NoReview]
  /\ shown = [q \in Loaders |-> NoAnswer]
  /\ changes = 0

-----------------------------------------------------------------------------
(* review_context *)

\* repository.get, which gives a loader the saved review.
Begin(q) ==
  /\ pc[q] = "idle"
  /\ pc' = [pc EXCEPT ![q] = "sources"]
  /\ held' = [held EXCEPT ![q] = saved]
  /\ UNCHANGED <<rows, saved, pass, ctx, base, draft, shown, changes>>

ReadSources(q) ==
  /\ pc[q] = "sources"
  /\ pc' = [pc EXCEPT ![q] = "tasks"]
  /\ ctx' = [ctx EXCEPT ![q].sources = Linked \cap transcribed]
  /\ UNCHANGED <<rows, saved, pass, base, draft, held, shown, changes>>

ReadTasks(q) ==
  /\ pc[q] = "tasks"
  /\ pc' = [pc EXCEPT ![q] = "linked"]
  /\ ctx' = [ctx EXCEPT ![q].tasks = [t \in OpenTasks |-> wording[t]]]
  /\ UNCHANGED <<rows, saved, pass, base, draft, held, shown, changes>>

\* The context with the linked rows, which completes it.
Completed(q) == [ctx[q] EXCEPT !.linked = [r \in Linked |-> version[r]]]

ReadLinked(q) ==
  /\ pc[q] = "linked"
  /\ q \in Generators
  /\ ctx' = [ctx EXCEPT ![q] = Completed(q)]
  /\ pc' = [pc EXCEPT ![q] = IF pass[q] = "first" THEN "asking" ELSE "publishing"]
  /\ UNCHANGED <<rows, saved, pass, base, draft, held, shown, changes>>

-----------------------------------------------------------------------------
(* generate_review and load_review *)

\* A draft that validates, at the first or the second attempt. Without sources
\* nothing is asked and the draft is empty.
Draft(q) ==
  /\ pc[q] = "asking"
  /\ \E cited \in SUBSET ctx[q].sources, done \in SUBSET DOMAIN ctx[q].tasks :
       \E evidence \in [done -> Recordings] :
         /\ \A t \in done : evidence[t] \in Evidence(ctx[q], t)
         /\ draft' = [draft EXCEPT ![q] = [cited |-> cited, completed |-> evidence]]
  /\ base' = [base EXCEPT ![q] = ctx[q]]
  /\ ctx' = [ctx EXCEPT ![q] = Nothing]
  /\ pass' = [pass EXCEPT ![q] = "again"]
  /\ pc' = [pc EXCEPT ![q] = "sources"]
  /\ UNCHANGED <<rows, saved, held, shown, changes>>

End(q) ==
  /\ pc' = [pc EXCEPT ![q] = "done"]
  /\ ctx' = [ctx EXCEPT ![q] = Nothing]
  /\ pass' = pass

EndGenerator(q) ==
  /\ End(q)
  /\ base' = [base EXCEPT ![q] = Nothing]
  /\ draft' = [draft EXCEPT ![q] = NoDraft]
  /\ UNCHANGED <<rows, held, shown, changes>>

\* The allowance is used up, the provider fails, or two drafts do not validate.
DraftFails(q) ==
  /\ pc[q] = "asking"
  /\ EndGenerator(q)
  /\ UNCHANGED saved

\* The UPDATE and its commit, after the comparison.
Publish(q) ==
  /\ pc[q] = "publishing"
  /\ Same(q)
  /\ saved' = [kind |-> "saved", of |-> Fingerprint(base[q]), cited |-> draft[q].cited,
               completed |-> draft[q].completed, assessed |-> base[q].tasks]
  /\ EndGenerator(q)

\* 409: this client's information changed.
Conflict(q) ==
  /\ pc[q] = "publishing"
  /\ ~Same(q)
  /\ EndGenerator(q)
  /\ UNCHANGED saved

\* Suggestions for tasks that are no longer open are left out.
Show(q) ==
  /\ pc[q] = "linked"
  /\ q \in Loaders
  /\ LET c == Completed(q)
         still == DOMAIN held[q].completed \cap DOMAIN c.tasks
     IN  shown' = [shown EXCEPT ![q] =
           IF Fresh(q, c)
             THEN [kind |-> "fresh", cited |-> held[q].cited,
                   completed |-> [t \in still |-> held[q].completed[t]],
                   assessed |-> held[q].assessed, tasks |-> c.tasks]
             ELSE [NoAnswer EXCEPT !.kind = IF held[q].kind = "none" THEN "none" ELSE "stale"]]
  /\ held' = [held EXCEPT ![q] = NoReview]
  /\ End(q)
  /\ UNCHANGED <<rows, saved, base, draft, changes>>

-----------------------------------------------------------------------------
(* What else is written meanwhile, each in a transaction of its own *)

Change == changes < MaxChanges /\ changes' = changes + 1
Touched(r) == [version EXCEPT ![r] = @ + 1]

\* The link and unlink endpoints, reconciliation and merges.
Link(r) ==
  /\ Change
  /\ place[r] # "deleted"
  /\ place' = [place EXCEPT ![r] = IF @ = "linked" THEN "elsewhere" ELSE "linked"]
  /\ version' = Touched(r)
  /\ UNCHANGED <<transcribed, task, wording, saved, requests>>

\* delete_conversation: transcript, memory and tasks go with the row.
DeleteRecording(r) ==
  /\ Change
  /\ place[r] # "deleted"
  /\ place' = [place EXCEPT ![r] = "deleted"]
  /\ transcribed' = transcribed \ {r}
  /\ task' = [t \in Tasks |-> IF OriginOf[t] = r THEN "none" ELSE task[t]]
  /\ UNCHANGED <<version, wording, saved, requests>>

\* An attempt commits the transcript, in a row of its own; later attempts reuse it.
Transcribe(r) ==
  /\ Change
  /\ place[r] # "deleted" /\ r \notin transcribed
  /\ transcribed' = transcribed \cup {r}
  /\ UNCHANGED <<place, version, task, wording, saved, requests>>

\* The worker saves a memory, once.
Extract(r) ==
  /\ Change
  /\ place[r] # "deleted" /\ r \in transcribed
  /\ \A t \in Tasks : OriginOf[t] = r => task[t] = "none"
  /\ task' = [t \in Tasks |-> IF OriginOf[t] = r THEN "open" ELSE task[t]]
  /\ UNCHANGED <<place, transcribed, version, wording, saved, requests>>

\* Any other update of the recording's row: its status, its title.
Touch(r) ==
  /\ Change
  /\ place[r] # "deleted"
  /\ version' = Touched(r)
  /\ UNCHANGED <<place, transcribed, task, wording, saved, requests>>

\* complete_action_item and reopen_action_item, which leave the recording alone.
Toggle(t) ==
  /\ Change
  /\ task[t] # "none"
  /\ task' = [task EXCEPT ![t] = IF @ = "open" THEN "completed" ELSE "open"]
  /\ UNCHANGED <<place, transcribed, version, wording, saved, requests>>

\* edit_item: the words and the recording's version, in one transaction.
EditItem(t) ==
  /\ Change
  /\ task[t] # "none"
  /\ wording' = [wording EXCEPT ![t] = @ + 1]
  /\ version' = Touched(OriginOf[t])
  /\ UNCHANGED <<place, transcribed, task, saved, requests>>

Next ==
  \/ \E q \in Requests : ReadSources(q) \/ ReadTasks(q)
  \/ \E q \in Generators :
       ReadLinked(q) \/ Draft(q) \/ DraftFails(q) \/ Publish(q) \/ Conflict(q)
  \/ \E q \in Loaders : Begin(q) \/ Show(q)
  \/ \E r \in Recordings :
       Link(r) \/ DeleteRecording(r) \/ Transcribe(r) \/ Extract(r) \/ Touch(r)
  \/ \E t \in Tasks : Toggle(t) \/ EditItem(t)

Spec == Init /\ [][Next]_vars

-----------------------------------------------------------------------------

\* A suggestion that a task is completed is shown with the words it was assessed by:
\* edits between the three readings, during the provider call, between the last reading
\* and the update, and while a loader reads, are all noticed or hidden. The task's own
\* recording has to be linked for that: of one that is unlinked in each of the three
\* contexts after its tasks are read, the fingerprint has no version.
ShownMatchesTasks ==
  [][\A q \in Loaders :
       shown'[q] # shown[q] =>
         \A t \in DOMAIN shown'[q].completed :
           OriginOf[t] \in Linked => shown'[q].tasks[t] = shown'[q].assessed[t]]_vars

\* Every recording that an answer quotes was the client's, and had the text that is
\* quoted, when the request read the sources: nothing of a recording that was unlinked,
\* reassigned or deleted before is shown (client/review.py 175).
NothingGoneIsShown ==
  [][\A q \in Loaders :
       shown'[q] # shown[q] => Cites(shown'[q]) \subseteq ctx[q].sources]_vars
=============================================================================
