----------------------------- MODULE ClientMerge -----------------------------
(***************************************************************************)
(* The merge of two clients and its undo (client/merge.py, client/undo.py) *)
(* beside everything that can change the rows they move: the processing    *)
(* attempts and the user's links of module Reconciliation, confirmations   *)
(* of people, saved reviews and edits of what a conversation holds.        *)
(*                                                                         *)
(* A merge and an undo lock the client rows first, which keeps new         *)
(* references out, and then the rows they move, so each is one step.       *)
(*                                                                         *)
(* Left out: follow-up events, which move and are fingerprinted as facts   *)
(* are; corrections of a transcript, which the fingerprint does not cover; *)
(* and the status of a task, which it covers without a time, so that a     *)
(* task completed and opened again matches as before. The last two stay    *)
(* with their conversation whatever a merge or an undo does.               *)
(***************************************************************************)
EXTENDS Reconciliation

CONSTANTS
  MaxEdits, \* bound: confirmations, reviews and edits
  MaxMerges \* bound: merges

ASSUME MergeBoundsAssumption == MaxEdits \in Nat /\ MaxMerges \in Nat

VARIABLES
  confirmed, \* people.confirmed_name, as the client it was taken from
  review,    \* which clients have a saved review
  preview,   \* what the user was last shown, a set with no or one snapshot; as history, the rows then
  audits,    \* client_merge_audits, in the order of the merges
  edits

mergeRows == <<confirmed, review, preview, audits, edits>>
mergeVars == <<vars, mergeRows>>

-----------------------------------------------------------------------------
(* What is linked with a set of clients *)

AllPeople == UNION {{c} \X People(c) : c \in Conversations}
ClientOf(p) == person[p[1]][p[2]]

LinkedConversations(S) == {c \in Conversations : assigned[c] \in S}
LinkedPeople(S) == {p \in AllPeople : ClientOf(p) \in S}

\* inspect_merge's snapshot; its hash is the token that a merge must present.
Snapshot(s, t) ==
  [source |-> s,
   target |-> t,
   key |-> key[s],
   reviews |-> {s, t} \cap review,
   assigned |-> [c \in LinkedConversations({s, t}) |-> assigned[c]],
   manual |-> [c \in LinkedConversations({s, t}) |-> manual[c]],
   person |-> [p \in LinkedPeople({s, t}) |-> ClientOf(p)],
   facts |-> [c \in Conversations |-> [cl \in {s, t} |-> facts[c][cl]]]]

\* merged_state: the retained client with everything linked with it, and the people
\* of its conversations.
MergedState(t) ==
  LET people == {p \in AllPeople : ClientOf(p) = t \/ assigned[p[1]] = t} IN
  [review |-> t \in review,
   conversations |-> LinkedConversations({t}),
   people |-> [p \in people |-> <<ClientOf(p), confirmed[p[1]][p[2]]>>],
   facts |-> [c \in Conversations |-> facts[c][t]]]

\* The fingerprint holds updated_at of the client and of each conversation, which
\* stands for its memory, items and drafts too: a row that was written after the merge
\* never matches again.
Unwritten(audit) ==
  audit.touched \cap ({audit.snapshot.target} \cup LinkedConversations({audit.snapshot.target}))
    = {}

\* The conversations that a step writes.
Written ==
  {c \in Conversations :
     \/ <<status[c], assigned[c], manual[c]>> # <<status[c], assigned[c], manual[c]>>'
     \/ <<transcript[c], memory[c]>> # <<transcript[c], memory[c]>>'}

Touch(ids) == [n \in DOMAIN audits |-> [audits[n] EXCEPT !.touched = @ \cup ids]]

MergeTypeOK ==
  /\ TypeOK
  /\ DOMAIN confirmed = Conversations
  /\ \A c \in Conversations : confirmed[c] \in [People(c) -> Clients \cup {None}]
  /\ review \subseteq Clients
  /\ Cardinality(preview) <= 1
  /\ Len(audits) <= MaxMerges
  /\ \A n \in DOMAIN audits :
       /\ audits[n].touched \subseteq Conversations \cup Clients
       /\ audits[n].undone \in BOOLEAN
       /\ {audits[n].snapshot.source, audits[n].snapshot.target} \subseteq Clients
  /\ edits \in 0 .. MaxEdits

MergeInit ==
  /\ Init
  /\ confirmed = [c \in Conversations |-> NoLinks(c)]
  /\ review = {}
  /\ preview = {}
  /\ audits = <<>>
  /\ edits = 0

-----------------------------------------------------------------------------
(* The merge and its undo *)

\* A pair of the owner's clients none of whose recordings is being processed.
MayMerge(s, t) ==
  /\ s # t /\ Exists(s) /\ Exists(t)
  /\ \A c \in LinkedConversations({s, t}) : status[c] \in {"completed", "failed"}

\* What the properties compare a merge and its undo with; the code keeps no such thing.
Before ==
  [assigned |-> assigned, manual |-> manual, person |-> person, confirmed |-> confirmed,
   facts |-> facts, review |-> review]

Preview(s, t) ==
  /\ MayMerge(s, t)
  /\ preview' = {[snapshot |-> Snapshot(s, t), before |-> Before]}
  /\ UNCHANGED <<vars, confirmed, review, audits, edits>>

\* A mutant: the token covers the pair and its conversations, not what else moves.
FreshConversations(s, t) ==
  \E shown \in preview :
    /\ shown.snapshot.source = s /\ shown.snapshot.target = t
    /\ shown.snapshot.assigned = Snapshot(s, t).assigned
    /\ shown.snapshot.manual = Snapshot(s, t).manual

\* Does the token that the user confirms match what is there now?
Fresh(s, t) == \E shown \in preview : shown.snapshot = Snapshot(s, t)

Merge(s, t) ==
  LET to(cl) == IF cl = s THEN t ELSE cl IN
  /\ Len(audits) < MaxMerges
  /\ MayMerge(s, t)
  /\ Fresh(s, t)
  /\ assigned' = [c \in Conversations |-> to(assigned[c])]
  /\ manual' = [c \in Conversations |-> manual[c] \/ assigned[c] = s]
  /\ person' = [c \in Conversations |-> [i \in People(c) |-> to(person[c][i])]]
  /\ facts' = [c \in Conversations |->
                 [facts[c] EXCEPT ![t] = @ + facts[c][s], ![s] = 0]]
  /\ key' = [key EXCEPT ![s] = None]
  /\ review' = review \ {s, t}
  /\ preview' = {}
  /\ UNCHANGED <<status, transcript, memory, pc, session, selections, confirmed, edits>>
  /\ audits' = Append(Touch({t} \cup Written),
                      [snapshot |-> Snapshot(s, t), after |-> MergedState(t)',
                       touched |-> {}, undone |-> FALSE, before |-> Before])

\* Everything the undo checks besides the fingerprint.
MayUndo(n) ==
  /\ ~audits[n].undone
  /\ Exists(audits[n].snapshot.target)
  /\ ~Exists(audits[n].snapshot.source)

\* A mutant: only the links are compared, not what was written in the rows.
UnchangedLinks(audit) ==
  LinkedConversations({audit.snapshot.target}) = audit.after.conversations

\* Is the retained client, with all that is linked with it, as the merge left it?
Unchanged(audit) == Unwritten(audit) /\ MergedState(audit.snapshot.target) = audit.after

\* The conversations that the merge moved.
Moved(old) == {c \in DOMAIN old.assigned : old.assigned[c] = old.source}

\* A mutant: the assignments stay manual, which the merge has made them.
RestoredManualAlways(old, c) == manual[c]

\* client_assignment_manual after the undo.
RestoredManual(old, c) == IF c \in Moved(old) THEN old.manual[c] ELSE manual[c]

Undo(n) ==
  LET old == audits[n].snapshot
      moved == Moved(old)
      mentioned == {p \in DOMAIN old.person : old.person[p] = old.source}
  IN
  /\ MayUndo(n)
  /\ Unchanged(audits[n])
  /\ key' = [key EXCEPT ![old.source] = old.key]
  /\ assigned' = [c \in Conversations |-> IF c \in moved THEN old.source ELSE assigned[c]]
  /\ manual' = [c \in Conversations |-> RestoredManual(old, c)]
  /\ person' = [c \in Conversations |-> [i \in People(c) |->
                  IF <<c, i>> \in mentioned THEN old.source ELSE person[c][i]]]
  /\ facts' = [c \in Conversations |->
                 [facts[c] EXCEPT ![old.source] = old.facts[c][old.source],
                                  ![old.target] = @ - old.facts[c][old.source]]]
  /\ review' = (review \ {old.source, old.target}) \cup old.reviews
  /\ UNCHANGED <<status, transcript, memory, pc, session, selections, confirmed, preview, edits>>
  /\ audits' = [Touch({old.source, old.target} \cup Written) EXCEPT ![n].undone = TRUE]

-----------------------------------------------------------------------------
(* What else the user writes *)

MayEdit == edits < MaxEdits /\ edits' = edits + 1

\* PUT /memories/{id}/people/{id}/confirmation; None withdraws a confirmation.
Confirm(c, i, cl) ==
  /\ MayEdit
  /\ memory[c]
  /\ cl = None \/ Exists(cl)
  /\ person' = [person EXCEPT ![c][i] = cl]
  /\ confirmed' = [confirmed EXCEPT ![c][i] = cl]
  /\ UNCHANGED <<status, assigned, manual, transcript, memory, facts, key, pc, session,
                 selections, review, preview, audits>>

\* POST /clients/{id}/review stores the review in the client's row.
Review(cl) ==
  /\ MayEdit
  /\ Exists(cl)
  /\ review' = review \cup {cl}
  /\ audits' = Touch({cl})
  /\ UNCHANGED <<vars, confirmed, preview>>

\* The title, the words of tasks and decisions, and the drafts of a conversation: what moves
\* its updated_at, or a version or time of its own.
Edit(c) ==
  /\ MayEdit
  /\ Present(c)
  /\ audits' = Touch({c})
  /\ UNCHANGED <<vars, confirmed, review, preview>>

\* A step of Reconciliation; the confirmations go with a deleted conversation.
Reconcile ==
  /\ Next
  /\ confirmed' = [c \in Conversations |-> IF Present(c)' THEN confirmed[c] ELSE NoLinks(c)]
  /\ audits' = Touch(Written)
  /\ UNCHANGED <<review, preview, edits>>

MergeNext ==
  \/ Reconcile
  \/ \E s, t \in Clients : Preview(s, t) \/ Merge(s, t)
  \/ \E n \in DOMAIN audits : Undo(n)
  \/ \E p \in AllPeople, cl \in Clients \cup {None} : Confirm(p[1], p[2], cl)
  \/ \E cl \in Clients : Review(cl)
  \/ \E c \in Conversations : Edit(c)

MergeSpec == MergeInit /\ [][MergeNext]_mergeVars

-----------------------------------------------------------------------------
(* Properties *)

\* Every link names a client that is there, whatever a merge or an undo does between
\* two steps of an attempt that has matched one of the pair (client/merge.py 103-116).
LinksNameClients ==
  \A c \in Conversations :
    /\ assigned[c] = None \/ Exists(assigned[c])
    /\ \A i \in People(c) : person[c][i] = None \/ Exists(person[c][i])
    /\ \A cl \in Clients : facts[c][cl] > 0 => Exists(cl)

\* Merges and undos do not break up what a completed conversation was matched with:
\* until users edit, each person is linked with a client that has the facts of the
\* conversation (orchestrator/conversation_processing.py 180-225).
MergedIsWhole ==
  \A c \in Conversations :
    edits = 0 /\ status[c] = "completed" /\ memory[c] /\ ~manual[c] =>
      \A i \in People(c) : person[c][i] # None /\ facts[c][person[c][i]] > 0

IsUndo(n) == ~audits[n].undone /\ audits'[n].undone

\* An undo puts every conversation, person, fact and review of the pair back where
\* it was before the merge, however much happened in between
\* (client/tests/test_undo.py 55).
UndoRestores ==
  [][\A n \in DOMAIN audits : IsUndo(n) =>
       LET pair == {audits[n].snapshot.source, audits[n].snapshot.target}
           before == audits[n].before
       IN
       /\ review' \cap pair = before.review \cap pair
       /\ \A c \in Conversations :
            /\ \A cl \in pair : facts'[c][cl] = before.facts[c][cl]
            /\ before.assigned[c] \in pair =>
                 <<assigned[c], manual[c]>>' = <<before.assigned[c], before.manual[c]>>
            /\ \A i \in People(c) :
                 before.person[c][i] \in pair => person'[c][i] = before.person[c][i]]_mergeVars

\* An undo never overwrites what was written after the merge: a conversation that was
\* linked, processed or edited since, a confirmed person, a new review
\* (docs/client-merge-undo.md 5).
NewerWorkIsKept ==
  [][\A n \in DOMAIN audits : IsUndo(n) =>
       LET old == audits[n].snapshot
           before == audits[n].before
           left(cl) == IF cl = old.source THEN old.target ELSE cl
       IN
       /\ \A c \in audits[n].touched \cap Conversations :
            <<assigned[c], manual[c]>>' = <<assigned[c], manual[c]>>
       /\ old.target \in audits[n].touched =>
            review' \cap {old.target} = review \cap {old.target}
       /\ \A p \in AllPeople :
            \/ ClientOf(p)' = ClientOf(p)
            \/ /\ ClientOf(p) = left(before.person[p[1]][p[2]])
               /\ confirmed[p[1]][p[2]] = before.confirmed[p[1]][p[2]]]_mergeVars

\* A merge does to the rows of the time of its preview what the user was told it would,
\* and touches no others: what moves was shown as the source's, whatever was shown as
\* either's ends as the target's, the facts add up to those shown, and the reviews it
\* discards were there to be seen (client/merge.py 94-116).
MergeIsAsShown ==
  [][Len(audits') > Len(audits) =>
       LET s == audits'[Len(audits')].snapshot.source
           t == audits'[Len(audits')].snapshot.target
       IN
       \E p \in preview :
         LET shown == p.before IN
         /\ p.snapshot.source = s /\ p.snapshot.target = t
         /\ review \ review' = shown.review \cap {s, t}
         /\ \A c \in Conversations :
              /\ assigned'[c] # assigned[c] => shown.assigned[c] = s
              /\ shown.assigned[c] \in {s, t} =>
                   /\ assigned'[c] = t
                   /\ manual'[c] = (shown.manual[c] \/ shown.assigned[c] = s)
              /\ \A i \in People(c) :
                   /\ person'[c][i] # person[c][i] => shown.person[c][i] = s
                   /\ shown.person[c][i] \in {s, t} => person'[c][i] = t
              /\ facts'[c] = [facts[c] EXCEPT ![s] = 0, ![t] = shown.facts[c][s] + shown.facts[c][t]]]_mergeVars
=============================================================================
