--------------------------- MODULE Reconciliation ---------------------------
(***************************************************************************)
(* The stages of a processing attempt, between the commit that starts it   *)
(* and the commit that ends it (orchestrator/conversation_processing.py):  *)
(* transcription, memory extraction, and the matching of the people the    *)
(* recording names with the owner's clients. Each stage commits on its     *)
(* own, so an attempt that stops leaves what it has committed; attempts of *)
(* several conversations share the client table; and the user links,       *)
(* unlinks and deletes conversations meanwhile.                            *)
(*                                                                         *)
(* When attempts start and what a failed one leaves in the row is the      *)
(* subject of module Processing. Here an attempt may begin on any          *)
(* conversation that is not COMPLETED.                                     *)
(***************************************************************************)
EXTENDS Naturals, Sequences, FiniteSets

CONSTANTS
  Conversations,
  Attempts,   \* runs of the pipeline
  Of,         \* the conversation of each attempt
  Clients,    \* ids of client rows; enough for every person to become one
  Existing,   \* the clients there are to begin with
  Keys,       \* what a match compares: lower-case name and canonical role
  Matchable,  \* the keys that have a role
  KeyOf,      \* the keys of the existing clients
  Mentions,   \* the CLIENT people extracted from each conversation, in order
  Silent,     \* conversations whose transcript has no text
  Overlap,    \* may two attempts of a conversation run at once?
  SelectAnyTime, \* may the user link a conversation while an attempt runs?
  MaxSelections  \* bound: how often the user links or unlinks

None == "none"
Free == "free"

ASSUME AttemptsAssumption == Of \in [Attempts -> Conversations]
ASSUME ClientsAssumption == Existing \subseteq Clients /\ None \notin Clients
ASSUME KeysAssumption ==
  /\ KeyOf \in [Existing -> Keys]
  /\ Mentions \in [Conversations -> Seq(Keys)]
  /\ None \notin Keys /\ Free \notin Keys
ASSUME BoundAssumption == MaxSelections \in Nat

VARIABLES
  status,     \* conversations.status; "deleted" once the row is gone
  assigned,   \* conversations.client_id
  manual,     \* conversations.client_assignment_manual
  transcript, \* transcripts.status, None without a row
  memory,     \* is there a memory row?
  person,     \* people.client_id of the people in Mentions
  facts,      \* how often a memory's topics are recorded for a client
  key,        \* the clients: the key of a row, Free for an id not used yet, None for one that was
  pc,         \* where an attempt is
  loaded,     \* client_assignment_manual in the attempt's session
  seen,       \* the transcript's status when the attempt read it
  hold,       \* the client find_or_create returned
  matched,    \* the clients of the people linked so far, in order
  recorded,   \* the clients whose facts are recorded
  selections

rows == <<status, assigned, manual, transcript, memory, person, facts, key>>
session == <<loaded, seen, hold, matched, recorded>>
vars == <<rows, pc, session, selections>>

Running ==
  {"reading", "resetting", "transcribing", "extracting", "matching",
   "creating", "linking", "recording", "finishing"}
TranscriptStatuses == {None, "processing", "completed", "failed"}

People(c) == DOMAIN Mentions[c]
NoFacts == [cl \in Clients |-> 0]
NoLinks(c) == [i \in People(c) |-> None]
Exists(cl) == cl \in Clients /\ key[cl] \in Keys
Present(c) == status[c] # "deleted"

TypeOK ==
  /\ status \in [Conversations -> {"waiting", "processing", "completed", "failed", "deleted"}]
  /\ assigned \in [Conversations -> Clients \cup {None}]
  /\ manual \in [Conversations -> BOOLEAN]
  /\ transcript \in [Conversations -> TranscriptStatuses]
  /\ memory \in [Conversations -> BOOLEAN]
  /\ \A c \in Conversations : person[c] \in [People(c) -> Clients \cup {None}]
  /\ DOMAIN person = Conversations
  /\ facts \in [Conversations -> [Clients -> Nat]]
  /\ key \in [Clients -> Keys \cup {Free, None}]
  /\ pc \in [Attempts -> Running \cup {"new", "ended"}]
  /\ loaded \in [Attempts -> BOOLEAN]
  /\ seen \in [Attempts -> TranscriptStatuses]
  /\ hold \in [Attempts -> Clients \cup {None}]
  /\ matched \in [Attempts -> Seq(Clients)]
  /\ recorded \in [Attempts -> SUBSET Clients]
  /\ selections \in 0 .. MaxSelections

\* A conversation that is uploaded with a client, or with the choice of none, is manual.
Init ==
  /\ status = [c \in Conversations |-> "waiting"]
  /\ assigned \in [Conversations -> Existing \cup {None}]
  /\ manual \in [Conversations -> BOOLEAN]
  /\ \A c \in Conversations : assigned[c] # None => manual[c]
  /\ transcript = [c \in Conversations |-> None]
  /\ memory = [c \in Conversations |-> FALSE]
  /\ person = [c \in Conversations |-> NoLinks(c)]
  /\ facts = [c \in Conversations |-> NoFacts]
  /\ key = [cl \in Clients |-> IF cl \in Existing THEN KeyOf[cl] ELSE Free]
  /\ pc = [a \in Attempts |-> "new"]
  /\ loaded = [a \in Attempts |-> FALSE]
  /\ seen = [a \in Attempts |-> None]
  /\ hold = [a \in Attempts |-> None]
  /\ matched = [a \in Attempts |-> <<>>]
  /\ recorded = [a \in Attempts |-> {}]
  /\ selections = 0

-----------------------------------------------------------------------------
(* Helpers *)

\* The session's objects are dropped when an attempt ends; it commits nothing more.
End(a) ==
  /\ pc' = [pc EXCEPT ![a] = "ended"]
  /\ loaded' = [loaded EXCEPT ![a] = FALSE]
  /\ seen' = [seen EXCEPT ![a] = None]
  /\ hold' = [hold EXCEPT ![a] = None]
  /\ matched' = [matched EXCEPT ![a] = <<>>]
  /\ recorded' = [recorded EXCEPT ![a] = {}]

Go(a, place) == pc' = [pc EXCEPT ![a] = place]

\* A mutant: a stage that raises is logged and the conversation completes.
FailCompleting(a) ==
  /\ status' = IF Present(Of[a]) THEN [status EXCEPT ![Of[a]] = "completed"] ELSE status
  /\ End(a)

\* A stage that raises: run() writes FAILED, or PROCESSING when tries remain, in a
\* row that is still there.
Fail(a) ==
  /\ \E s \in {"failed", "processing"} :
       status' = IF Present(Of[a]) THEN [status EXCEPT ![Of[a]] = s] ELSE status
  /\ End(a)

\* Does an attempt of the conversation run?
Busy(c) == \E a \in Attempts : Of[a] = c /\ pc[a] \in Running

\* The people without a role are never matched with a client.
Candidates(k) == {cl \in Clients : k \in Matchable /\ key[cl] = k}

\* The person that is matched next.
Turn(a) == Len(matched[a]) + 1

Pending(a) == {matched[a][i] : i \in DOMAIN matched[a]} \ recorded[a]

\* A mutant: the unique constraint is forgotten.
MayPersistAgain(c) == Present(c)

\* A mutant: the foreign key is forgotten.
MayPersistLate(c) == ~memory[c]

\* A mutant: the client is not looked up again.
MayReferUnchecked(c, cl) == memory[c]

\* May a person or fact of the conversation refer to the client? Both are looked up
\* first, and the foreign keys see to it that both are still there.
MayRefer(c, cl) == memory[c] /\ Exists(cl)

\* The memory row of a conversation has a unique constraint.
MayPersist(c) == Present(c) /\ ~memory[c]

-----------------------------------------------------------------------------
(* Processing attempts *)

Begin(a) ==
  LET c == Of[a] IN
  /\ pc[a] = "new"
  /\ status[c] \in {"waiting", "processing", "failed"}
  /\ Overlap \/ ~Busy(c)
  /\ loaded' = [loaded EXCEPT ![a] = manual[c]]
  /\ status' = [status EXCEPT ![c] = "processing"]
  /\ Go(a, "reading")
  /\ UNCHANGED <<assigned, manual, transcript, memory, person, facts, key,
                 seen, hold, matched, recorded, selections>>

\* Whatever makes an attempt stop between two commits: a provider that fails, an
\* answer that is not valid, the database, a time-out or the death of the worker.
Stop(a) ==
  /\ pc[a] \in Running
  /\ Fail(a)
  /\ UNCHANGED <<assigned, manual, transcript, memory, person, facts, key, selections>>

\* A mutant: every attempt transcribes again.
ReadTranscriptAfresh(a) ==
  LET c == Of[a] IN
  /\ pc[a] = "reading"
  /\ seen' = [seen EXCEPT ![a] = transcript[c]]
  /\ Go(a, "resetting")
  /\ UNCHANGED <<rows, loaded, hold, matched, recorded, selections>>

\* A completed transcript is reused.
ReadTranscript(a) ==
  LET c == Of[a] IN
  /\ pc[a] = "reading"
  /\ seen' = [seen EXCEPT ![a] = transcript[c]]
  /\ Go(a, IF transcript[c] # "completed" THEN "resetting"
           ELSE IF c \in Silent THEN "finishing" ELSE "extracting")
  /\ UNCHANGED <<rows, loaded, hold, matched, recorded, selections>>

\* A row that is not there is inserted; of one that is, what differs is updated,
\* which is nothing when it was PROCESSING already.
ResetTranscript(a) ==
  LET c == Of[a]
      Allowed == IF seen[a] = None THEN Present(c) /\ transcript[c] = None
                 ELSE seen[a] = "processing" \/ transcript[c] # None
  IN
  /\ pc[a] = "resetting"
  /\ \/ /\ Allowed
        /\ transcript' = IF seen[a] = "processing" THEN transcript
                         ELSE [transcript EXCEPT ![c] = "processing"]
        /\ Go(a, "transcribing")
        /\ UNCHANGED <<status, session>>
     \/ /\ ~Allowed
        /\ Fail(a)
        /\ UNCHANGED transcript
  /\ UNCHANGED <<assigned, manual, memory, person, facts, key, selections>>

Transcribe(a) ==
  LET c == Of[a] IN
  /\ pc[a] = "transcribing"
  /\ transcript[c] # None
  /\ transcript' = [transcript EXCEPT ![c] = "completed"]
  /\ Go(a, IF c \in Silent THEN "finishing" ELSE "extracting")
  /\ UNCHANGED <<status, assigned, manual, memory, person, facts, key, session, selections>>

\* The provider or the storage fails; the row says so before the attempt fails. When
\* the row was deleted there is nothing to update and the attempt fails as well.
TranscribeFails(a) ==
  LET c == Of[a] IN
  /\ pc[a] = "transcribing"
  /\ transcript' = IF transcript[c] = None THEN transcript
                   ELSE [transcript EXCEPT ![c] = "failed"]
  /\ Fail(a)
  /\ UNCHANGED <<assigned, manual, memory, person, facts, key, selections>>

\* A mutant: the user's choice is not looked at.
PersistIgnoringChoice(a) ==
  LET c == Of[a] IN
  /\ pc[a] = "extracting"
  /\ \/ /\ MayPersist(c)
        /\ memory' = [memory EXCEPT ![c] = TRUE]
        /\ Go(a, "matching")
        /\ UNCHANGED <<status, session>>
     \/ /\ ~MayPersist(c)
        /\ Fail(a)
        /\ UNCHANGED memory
  /\ UNCHANGED <<assigned, manual, transcript, person, facts, key, selections>>

\* The memory and its people are inserted in one transaction. The choice the user
\* made before the attempt began then ends the attempt without matching anyone.
Persist(a) ==
  LET c == Of[a] IN
  /\ pc[a] = "extracting"
  /\ \/ /\ MayPersist(c)
        /\ memory' = [memory EXCEPT ![c] = TRUE]
        /\ Go(a, IF loaded[a] THEN "finishing" ELSE "matching")
        /\ UNCHANGED <<status, session>>
     \/ /\ ~MayPersist(c)
        /\ Fail(a)
        /\ UNCHANGED memory
  /\ UNCHANGED <<assigned, manual, transcript, person, facts, key, selections>>

\* find_or_create first looks for a client with the person's name and role.
Match(a) ==
  /\ pc[a] = "matching"
  /\ Turn(a) \in People(Of[a])
  /\ LET found == Candidates(Mentions[Of[a]][Turn(a)]) IN
       \/ \E cl \in found : hold' = [hold EXCEPT ![a] = cl] /\ Go(a, "linking")
       \/ found = {} /\ Go(a, "creating") /\ UNCHANGED hold
  /\ UNCHANGED <<rows, loaded, seen, matched, recorded, selections>>

\* Without one it commits a new client.
Create(a) ==
  /\ pc[a] = "creating"
  /\ \E cl \in Clients :
       /\ key[cl] = Free
       /\ key' = [key EXCEPT ![cl] = Mentions[Of[a]][Turn(a)]]
       /\ hold' = [hold EXCEPT ![a] = cl]
  /\ Go(a, "linking")
  /\ UNCHANGED <<status, assigned, manual, transcript, memory, person, facts,
                 loaded, seen, matched, recorded, selections>>

\* link_person_to_client; the person or the client may be gone.
LinkPerson(a) ==
  LET c == Of[a] IN
  /\ pc[a] = "linking"
  /\ \/ /\ MayRefer(c, hold[a])
        /\ person' = [person EXCEPT ![c][Turn(a)] = hold[a]]
        /\ matched' = [matched EXCEPT ![a] = Append(@, hold[a])]
        /\ Go(a, "matching")
        /\ UNCHANGED <<status, loaded, seen, hold, recorded>>
     \/ /\ ~MayRefer(c, hold[a])
        /\ Fail(a)
        /\ UNCHANGED person
  /\ UNCHANGED <<assigned, manual, transcript, memory, facts, key, selections>>

EndMatching(a) ==
  /\ pc[a] = "matching"
  /\ Turn(a) \notin People(Of[a])
  /\ Go(a, IF matched[a] = <<>> THEN "finishing" ELSE "recording")
  /\ UNCHANGED <<rows, session, selections>>

\* The memory's topics become facts of each client that was matched, in any order.
RecordFacts(a) ==
  LET c == Of[a] IN
  /\ pc[a] = "recording"
  /\ \E cl \in Pending(a) :
       \/ /\ MayRefer(c, cl)
          /\ facts' = [facts EXCEPT ![c][cl] = @ + 1]
          /\ recorded' = [recorded EXCEPT ![a] = @ \cup {cl}]
          /\ UNCHANGED <<status, pc, loaded, seen, hold, matched>>
       \/ /\ ~MayRefer(c, cl)
          /\ Fail(a)
          /\ UNCHANGED facts
  /\ UNCHANGED <<assigned, manual, transcript, memory, person, key, selections>>

\* The first client becomes the conversation's; whether the user has chosen another
\* since the attempt began is not looked at.
Assign(a) ==
  LET c == Of[a]
      Allowed == Present(c) /\ Exists(Head(matched[a]))
  IN
  /\ pc[a] = "recording"
  /\ Pending(a) = {}
  /\ \/ /\ Allowed
        /\ assigned' = [assigned EXCEPT ![c] = Head(matched[a])]
        /\ Go(a, "finishing")
        /\ UNCHANGED <<status, session>>
     \/ /\ ~Allowed
        /\ Fail(a)
        /\ UNCHANGED assigned
  /\ UNCHANGED <<manual, transcript, memory, person, facts, key, selections>>

Finish(a) ==
  LET c == Of[a] IN
  /\ pc[a] = "finishing"
  /\ status' = IF Present(c) THEN [status EXCEPT ![c] = "completed"] ELSE status
  /\ End(a)
  /\ UNCHANGED <<assigned, manual, transcript, memory, person, facts, key, selections>>

-----------------------------------------------------------------------------
(* The user *)

MaySelect(c) ==
  /\ selections < MaxSelections
  /\ Present(c)
  /\ SelectAnyTime \/ ~Busy(c)

Link(c, cl) ==
  /\ MaySelect(c)
  /\ Exists(cl)
  /\ assigned' = [assigned EXCEPT ![c] = cl]
  /\ manual' = [manual EXCEPT ![c] = TRUE]
  /\ selections' = selections + 1
  /\ UNCHANGED <<status, transcript, memory, person, facts, key, pc, session>>

Unlink(c) ==
  /\ MaySelect(c)
  /\ assigned[c] # None
  /\ assigned' = [assigned EXCEPT ![c] = None]
  /\ manual' = [manual EXCEPT ![c] = TRUE]
  /\ selections' = selections + 1
  /\ UNCHANGED <<status, transcript, memory, person, facts, key, pc, session>>

\* The foreign keys delete the transcript, the memory, its people and its facts.
Delete(c) ==
  /\ Present(c)
  /\ status' = [status EXCEPT ![c] = "deleted"]
  /\ assigned' = [assigned EXCEPT ![c] = None]
  /\ manual' = [manual EXCEPT ![c] = FALSE]
  /\ transcript' = [transcript EXCEPT ![c] = None]
  /\ memory' = [memory EXCEPT ![c] = FALSE]
  /\ person' = [person EXCEPT ![c] = NoLinks(c)]
  /\ facts' = [facts EXCEPT ![c] = NoFacts]
  /\ UNCHANGED <<key, pc, session, selections>>

-----------------------------------------------------------------------------

Attempt(a) ==
  \/ Begin(a) \/ Stop(a)
  \/ ReadTranscript(a) \/ ResetTranscript(a) \/ Transcribe(a) \/ TranscribeFails(a)
  \/ Persist(a) \/ Match(a) \/ Create(a) \/ LinkPerson(a) \/ EndMatching(a)
  \/ RecordFacts(a) \/ Assign(a) \/ Finish(a)

Next ==
  \/ \E a \in Attempts : Attempt(a)
  \/ \E c \in Conversations : Unlink(c) \/ Delete(c)
  \/ \E c \in Conversations, cl \in Clients : Link(c, cl)

Spec == Init /\ [][Next]_vars

-----------------------------------------------------------------------------
(* Properties *)

\* A conversation's topics are recorded at most once for each client, however many
\* attempts it takes, also when two of them run at once: only the attempt whose
\* memory was stored gets as far (memory/service.py 394, client/service.py 162).
FactsOnce ==
  \A c \in Conversations, cl \in Clients : facts[c][cl] <= 1

\* What a stage of a running attempt writes never outlives the deletion of its
\* conversation (conversation/repository.py 97).
DeletedLeavesNothing ==
  \A c \in Conversations :
    ~Present(c) =>
      /\ ~memory[c] /\ transcript[c] = None /\ assigned[c] = None
      /\ facts[c] = NoFacts /\ person[c] = NoLinks(c)

\* A conversation that is COMPLETED, has a memory and no client of the user's choice
\* is matched as a whole: everyone it mentions is linked with a client, each of those
\* clients has its facts, and the first of them is the conversation's. An attempt
\* that stopped half-way is never presented as completed
\* (orchestrator/conversation_processing.py 87-117).
CompletedIsWhole ==
  \A c \in Conversations :
    status[c] = "completed" /\ memory[c] /\ ~manual[c] =>
      /\ \A i \in People(c) : person[c][i] # None /\ facts[c][person[c][i]] > 0
      /\ Mentions[c] # <<>> => assigned[c] = person[c][1]

\* While only one attempt of a conversation runs at a time, a transcript that was
\* completed is not lost to a later attempt (transcription/service.py 55-62).
TranscriptIsKept ==
  [][\A c \in Conversations :
       transcript[c] = "completed" /\ Present(c)' => transcript'[c] = "completed"]_vars

\* No step of the pipeline changes the client of a conversation for which the user
\* has chosen one, or none (orchestrator/conversation_processing.py 170-174).
ManualSelectionIsKept ==
  [][\A c \in Conversations :
       manual[c] /\ pc' # pc => assigned'[c] = assigned[c]]_vars

\* "A reconciliation failure doesn't fail the whole conversation" (Sprint3.md 224): an
\* attempt that has stored the memory and ends while it matches people with clients does not
\* leave its conversation FAILED (orchestrator/conversation_processing.py 93-131).
MatchingFailureIsIsolated ==
  [][\A a \in Attempts :
       pc[a] \in {"matching", "creating", "linking", "recording"} /\ pc'[a] = "ended" =>
         status'[Of[a]] # "failed"]_vars
=============================================================================
