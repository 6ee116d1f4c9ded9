------------------------- MODULE ReconciliationProofs -------------------------
(***************************************************************************)
(* What holds of Reconciliation for any number of conversations, attempts, *)
(* clients and people, whether or not attempts of a conversation overlap   *)
(* where a theorem does not say; and of ClientMerge for any number of      *)
(* merges and edits too.                                                   *)
(*                                                                         *)
(* The argument for FactsOnce: the unique constraint lets one attempt of a *)
(* conversation past the point where the memory is stored (OneMatches),    *)
(* facts need a memory (FactsNeedMemory), and that one attempt remembers   *)
(* whose facts it has recorded (RecordedByTheOne). For CompletedIsWhole,   *)
(* whom the one attempt has matched and whose facts it has recorded is     *)
(* what the rows say (SoFar), up to the last of the people it names.       *)
(*                                                                         *)
(* The argument for the undo: what an audit says of the pair is what was   *)
(* there before its merge and what the merge made of it (SnapshotOK,       *)
(* AfterOK), which no later step changes; while a conversation is not      *)
(* written, its assignment is as manual as the merge left it (ManualKept); *)
(* and an undo requires that the pair is as the merge left it. The same    *)
(* holds of what a preview showed (PreviewInv), so that rows of two times  *)
(* with the same snapshot agree on the pair (SameSnapshot).                *)
(*                                                                         *)
(* The argument for MergedIsWhole: an undo gives a person back with the    *)
(* facts they had before the merge (ToldHadFacts), for it finds as many as *)
(* the merge left (GainedInv), and with the choice of then (FirmInv); what *)
(* it gives back is what the running attempts have matched (ForeseenInv).  *)
(***************************************************************************)
EXTENDS ClientMerge, FiniteSetTheorems, TLAPS

\* Places of an attempt that has stored a memory and matches its people.
Matching == {"matching", "creating", "linking", "recording"}

\* The turn of an attempt that looks for a client is that of a person.
TurnIsAPerson ==
  \A a \in Attempts : pc[a] \in {"creating", "linking"} => Turn(a) \in People(Of[a])

Typed == TypeOK /\ TurnIsAPerson


\* What a step keeps of the types follows from the types of what it writes.
LEMMA TypedInit == Init => Typed
<1> SUFFICES ASSUME Init PROVE Typed
  OBVIOUS
<1> USE AttemptsAssumption, ClientsAssumption, KeysAssumption, BoundAssumption
<1>1. TypeOK
  BY DEF Init, TypeOK, TranscriptStatuses, NoLinks, NoFacts, People
<1>2. TurnIsAPerson
  BY DEF Init, TurnIsAPerson
<1>3. QED
  BY <1>1, <1>2 DEF Typed

\* A failed attempt leaves a status, an empty session and no turn behind.
SessionTyped ==
  /\ status \in [Conversations -> {"waiting", "processing", "completed", "failed", "deleted"}]
  /\ pc \in [Attempts -> Running \cup {"new", "ended"}]
  /\ loaded \in [Attempts -> BOOLEAN]
  /\ seen \in [Attempts -> TranscriptStatuses]
  /\ hold \in [Attempts -> Clients \cup {None}]
  /\ matched \in [Attempts -> Seq(Clients)]
  /\ recorded \in [Attempts -> SUBSET Clients]
  /\ TurnIsAPerson

LEMMA FailTyped == \A a \in Attempts : Typed /\ Fail(a) => SessionTyped'
BY AttemptsAssumption
   DEF Typed, TypeOK, SessionTyped, TurnIsAPerson, Fail, End, Turn, People, Running,
       TranscriptStatuses

\* Every step of Reconciliation keeps the types.
LEMMA TypedStep == Typed /\ [Next]_vars => Typed'
<1> SUFFICES ASSUME Typed, [Next]_vars PROVE Typed'
  OBVIOUS
<1> USE AttemptsAssumption, ClientsAssumption, KeysAssumption, BoundAssumption DEF Typed
<1>1. ASSUME NEW a \in Attempts, Begin(a) PROVE Typed'
  BY <1>1 DEF TypeOK, TurnIsAPerson, Begin, Go, Turn, People, Running
<1>2. ASSUME NEW a \in Attempts, Stop(a) PROVE Typed'
  BY <1>2 DEF TypeOK, TurnIsAPerson, Stop, Fail, End, Turn, People, Running, TranscriptStatuses
<1>3. ASSUME NEW a \in Attempts, ReadTranscript(a) PROVE Typed'
  BY <1>3 DEF TypeOK, TurnIsAPerson, ReadTranscript, rows, Go, Turn, People, Running, TranscriptStatuses
<1>4. ASSUME NEW a \in Attempts, ResetTranscript(a) PROVE Typed'
  <2>1. CASE Fail(a)
    BY <1>4, <2>1, FailTyped DEF TypeOK, SessionTyped, ResetTranscript, TranscriptStatuses
  <2>2. CASE ~Fail(a)
    BY <1>4, <2>2 DEF TypeOK, TurnIsAPerson, ResetTranscript, session, Go, Turn, People, Running, TranscriptStatuses
  <2>3. QED
    BY <1>4, <2>1, <2>2 DEF ResetTranscript
<1>5. ASSUME NEW a \in Attempts, Transcribe(a) PROVE Typed'
  BY <1>5 DEF TypeOK, TurnIsAPerson, Transcribe, session, Go, Turn, People, Running, TranscriptStatuses
<1>6. ASSUME NEW a \in Attempts, TranscribeFails(a) PROVE Typed'
  BY <1>6 DEF TypeOK, TurnIsAPerson, TranscribeFails, Fail, End, Turn, People, Running, TranscriptStatuses
<1>7. ASSUME NEW a \in Attempts, Persist(a) PROVE Typed'
  <2>1. CASE Fail(a)
    BY <1>7, <2>1, FailTyped DEF TypeOK, SessionTyped, Persist
  <2>2. CASE ~Fail(a)
    <3>1. memory' \in [Conversations -> BOOLEAN]
      BY <1>7, <2>2 DEF TypeOK, Persist
    <3>2. \E place \in {"finishing", "matching"} : pc' = [pc EXCEPT ![a] = place]
      BY <1>7, <2>2 DEF Persist, Go
    <3>3. TurnIsAPerson'
      BY <1>7, <2>2, <3>2 DEF TypeOK, TurnIsAPerson, Persist, session, Turn, People
    <3>4. QED
      BY <1>7, <2>2, <3>1, <3>2, <3>3 DEF TypeOK, Persist, session, Running
  <2>3. QED
    BY <1>7, <2>1, <2>2 DEF Persist
<1>8. ASSUME NEW a \in Attempts, Match(a) PROVE Typed'
  <2>1. hold' \in [Attempts -> Clients \cup {None}]
    BY <1>8 DEF TypeOK, Match, Candidates
  <2>2. pc' \in [Attempts -> Running \cup {"new", "ended"}]
    BY <1>8 DEF TypeOK, Match, Go, Running
  <2>3. TurnIsAPerson'
    BY <1>8 DEF TypeOK, TurnIsAPerson, Match, Go, Turn, People
  <2>4. QED
    BY <1>8, <2>1, <2>2, <2>3 DEF TypeOK, Match, rows
<1>9. ASSUME NEW a \in Attempts, Create(a) PROVE Typed'
  BY <1>9 DEF TypeOK, TurnIsAPerson, Create, Go, Turn, People, Running
<1>10. ASSUME NEW a \in Attempts, LinkPerson(a) PROVE Typed'
  <2>1. CASE ~MayRefer(Of[a], hold[a])
    BY <1>10, <2>1, FailTyped DEF TypeOK, SessionTyped, LinkPerson
  <2>2. CASE MayRefer(Of[a], hold[a])
    <3>1. hold[a] \in Clients
      BY <2>2 DEF MayRefer, Exists
    <3>2. matched' = [matched EXCEPT ![a] = Append(@, hold[a])]
      BY <1>10, <2>2 DEF LinkPerson
    <3>3. matched' \in [Attempts -> Seq(Clients)]
      BY <3>1, <3>2 DEF TypeOK
    <3>4. /\ DOMAIN person' = Conversations
          /\ \A c \in Conversations : person'[c] \in [People(c) -> Clients \cup {None}]
      <4>1. person' = [person EXCEPT ![Of[a]] = [@ EXCEPT ![Turn(a)] = hold[a]]]
        BY <1>10, <2>2 DEF LinkPerson
      <4>2. QED
        BY <3>1, <4>1 DEF TypeOK
    <3>5. pc' = [pc EXCEPT ![a] = "matching"]
      BY <1>10, <2>2 DEF LinkPerson, Go
    <3>6. TurnIsAPerson'
      BY <3>2, <3>5 DEF TypeOK, TurnIsAPerson, Turn, People
    <3>7. pc' \in [Attempts -> Running \cup {"new", "ended"}]
      BY <3>5 DEF TypeOK, Running
    <3>8. QED
      BY <1>10, <2>2, <3>3, <3>4, <3>6, <3>7 DEF TypeOK, LinkPerson
  <2>3. QED
    BY <1>10, <2>1, <2>2 DEF LinkPerson
<1>11. ASSUME NEW a \in Attempts, EndMatching(a) PROVE Typed'
  BY <1>11 DEF TypeOK, TurnIsAPerson, EndMatching, rows, session, Go, Turn, People, Running
<1>12. ASSUME NEW a \in Attempts, RecordFacts(a) PROVE Typed'
  <2>1. CASE Fail(a) /\ UNCHANGED facts
    BY <1>12, <2>1, FailTyped DEF TypeOK, SessionTyped, RecordFacts
  <2>2. ASSUME NEW cl \in Pending(a), MayRefer(Of[a], cl),
               facts' = [facts EXCEPT ![Of[a]][cl] = @ + 1],
               recorded' = [recorded EXCEPT ![a] = @ \cup {cl}],
               UNCHANGED <<status, pc, loaded, seen, hold, matched>>
        PROVE  Typed'
    <3>1. cl \in Clients
      BY <2>2 DEF MayRefer, Exists
    <3>2. facts' \in [Conversations -> [Clients -> Nat]]
      BY <2>2, <3>1 DEF TypeOK
    <3>3. recorded' \in [Attempts -> SUBSET Clients]
      BY <2>2, <3>1 DEF TypeOK
    <3>4. QED
      BY <1>12, <2>2, <3>2, <3>3 DEF TypeOK, TurnIsAPerson, RecordFacts, Turn, People
  <2>3. QED
    BY <1>12, <2>1, <2>2 DEF RecordFacts
<1>13. ASSUME NEW a \in Attempts, Assign(a) PROVE Typed'
  <2>1. CASE Fail(a) /\ UNCHANGED assigned
    BY <1>13, <2>1, FailTyped DEF TypeOK, SessionTyped, Assign
  <2>2. CASE /\ Exists(Head(matched[a]))
             /\ assigned' = [assigned EXCEPT ![Of[a]] = Head(matched[a])]
             /\ Go(a, "finishing")
             /\ UNCHANGED <<status, session>>
    <3>1. assigned' \in [Conversations -> Clients \cup {None}]
      BY <2>2 DEF TypeOK, Exists
    <3>2. pc' = [pc EXCEPT ![a] = "finishing"]
      BY <2>2 DEF Go
    <3>3. TurnIsAPerson'
      BY <2>2, <3>2 DEF TypeOK, TurnIsAPerson, session, Turn, People
    <3>4. QED
      BY <1>13, <2>2, <3>1, <3>2, <3>3 DEF TypeOK, Assign, session, Running
  <2>3. QED
    BY <1>13, <2>1, <2>2 DEF Assign
<1>14. ASSUME NEW a \in Attempts, Finish(a) PROVE Typed'
  BY <1>14 DEF TypeOK, TurnIsAPerson, Finish, End, Turn, People, Running, TranscriptStatuses
<1>15. ASSUME NEW c \in Conversations, NEW cl \in Clients, Link(c, cl) PROVE Typed'
  BY <1>15 DEF TypeOK, TurnIsAPerson, Link, MaySelect, session, Turn, People, Running
<1>16. ASSUME NEW c \in Conversations, Unlink(c) PROVE Typed'
  BY <1>16 DEF TypeOK, TurnIsAPerson, Unlink, MaySelect, session, Turn, People, Running
<1>17. ASSUME NEW c \in Conversations, Delete(c) PROVE Typed'
  BY <1>17 DEF TypeOK, TurnIsAPerson, Delete, NoLinks, NoFacts, session, Turn, People, Running, TranscriptStatuses
<1>18. CASE UNCHANGED vars
  BY <1>18 DEF TypeOK, TurnIsAPerson, vars, rows, session, Turn, People
<1>19. QED
  BY <1>1, <1>2, <1>3, <1>4, <1>5, <1>6, <1>7, <1>8, <1>9, <1>10, <1>11, <1>12, <1>13,
     <1>14, <1>15, <1>16, <1>17, <1>18 DEF Next, Attempt

\* TYPE CORRECTNESS: TypeOK is an invariant for all values of the constants.
THEOREM TypeCorrect == Spec => []TypeOK
<1>1. Init => Typed
  BY TypedInit
<1>2. Typed /\ [Next]_vars => Typed'
  BY TypedStep
<1>3. Typed => TypeOK
  BY DEF Typed
<1>4. QED
  BY <1>1, <1>2, <1>3, PTL DEF Spec

-----------------------------------------------------------------------------
(* Facts are recorded once *)

Live(a) == pc[a] \in Matching

\* One attempt of a conversation gets past the unique constraint.
OneMatches ==
  /\ \A a \in Attempts : Live(a) => memory[Of[a]] \/ ~Present(Of[a])
  /\ \A a, b \in Attempts : Live(a) /\ Live(b) /\ Of[a] = Of[b] => a = b

\* A deleted conversation has lost its memory.
MemoryIsPresent == \A c \in Conversations : memory[c] => Present(c)

FactsNeedMemory == \A c \in Conversations, cl \in Clients : facts[c][cl] > 0 => memory[c]

RecordedByTheOne ==
  \A a \in Attempts, cl \in Clients : Live(a) /\ facts[Of[a]][cl] > 0 => cl \in recorded[a]

FactsInv ==
  OneMatches /\ MemoryIsPresent /\ FactsNeedMemory /\ RecordedByTheOne /\ FactsOnce

\* No memory, no facts and nobody matching at first.
LEMMA FactsInit == Init => FactsInv
BY AttemptsAssumption
   DEF Init, FactsInv, OneMatches, MemoryIsPresent, FactsNeedMemory, RecordedByTheOne,
       FactsOnce, Live, Matching, Present, NoFacts

\* A step that leaves memories and facts alone, deletes nothing and lets no attempt
\* begin to match keeps the invariant.
LEMMA Quiet ==
  ASSUME Typed, FactsInv, UNCHANGED <<memory, facts>>,
         \A c \in Conversations : Present(c)' <=> Present(c),
         \A a \in Attempts : Live(a)' => Live(a) /\ recorded'[a] = recorded[a]
  PROVE  FactsInv'
BY AttemptsAssumption
   DEF FactsInv, OneMatches, MemoryIsPresent, FactsNeedMemory, RecordedByTheOne, FactsOnce

\* A failing attempt leaves memories and facts alone.
LEMMA FailIsQuiet ==
  ASSUME Typed, NEW a \in Attempts, Fail(a)
  PROVE  /\ \A c \in Conversations : Present(c)' <=> Present(c)
         /\ \A b \in Attempts : Live(b)' => Live(b) /\ recorded'[b] = recorded[b]
BY AttemptsAssumption DEF Typed, TypeOK, Fail, End, Present, Live, Matching

\* Storing the memory lets in one attempt, which has recorded nothing yet.
LEMMA PersistKeeps ==
  ASSUME Typed, FactsInv, NEW a \in Attempts, Persist(a)
  PROVE  FactsInv'
<1> USE AttemptsAssumption DEF Typed
<1>1. CASE Fail(a) /\ UNCHANGED memory
  BY <1>1, FailIsQuiet, Quiet DEF Persist
<1>2. CASE /\ MayPersist(Of[a])
           /\ memory' = [memory EXCEPT ![Of[a]] = TRUE]
           /\ Go(a, IF loaded[a] THEN "finishing" ELSE "matching")
           /\ UNCHANGED <<status, session>>
  <2>1. \A b \in Attempts : Of[b] = Of[a] => ~Live(b)
    BY <1>2 DEF FactsInv, OneMatches, MayPersist
  <2>2. \A cl \in Clients : ~(facts[Of[a]][cl] > 0)
    BY <1>2 DEF FactsInv, FactsNeedMemory, MayPersist
  <2>3. \A b \in Attempts : b # a => (Live(b)' <=> Live(b))
    BY <1>2 DEF TypeOK, Go, Live
  <2>4. OneMatches'
    BY <1>2, <2>1, <2>3 DEF TypeOK, FactsInv, OneMatches, Present
  <2>5. MemoryIsPresent'
    BY <1>2 DEF TypeOK, FactsInv, MemoryIsPresent, MayPersist, Present
  <2>6. FactsNeedMemory'
    BY <1>2 DEF TypeOK, FactsInv, FactsNeedMemory, Persist
  <2>7. RecordedByTheOne'
    BY <1>2, <2>2, <2>3 DEF FactsInv, RecordedByTheOne, Persist, session
  <2>8. FactsOnce'
    BY DEF FactsInv, FactsOnce, Persist
  <2>9. QED
    BY <2>4, <2>5, <2>6, <2>7, <2>8 DEF FactsInv
<1>3. QED
  BY <1>1, <1>2 DEF Persist

\* That attempt records the facts of a client it has not recorded.
LEMMA RecordKeeps ==
  ASSUME Typed, FactsInv, NEW a \in Attempts, RecordFacts(a)
  PROVE  FactsInv'
<1> USE AttemptsAssumption DEF Typed
<1>1. CASE Fail(a) /\ UNCHANGED facts
  BY <1>1, FailIsQuiet, Quiet DEF RecordFacts
<1>2. ASSUME NEW cl \in Pending(a), MayRefer(Of[a], cl),
             facts' = [facts EXCEPT ![Of[a]][cl] = @ + 1],
             recorded' = [recorded EXCEPT ![a] = @ \cup {cl}],
             UNCHANGED <<status, pc, loaded, seen, hold, matched>>
      PROVE  FactsInv'
  <2>1. cl \in Clients /\ memory[Of[a]] /\ cl \notin recorded[a]
    BY <1>2 DEF MayRefer, Exists, Pending
  <2>2. Live(a)
    BY DEF RecordFacts, Live, Matching
  <2>3. facts[Of[a]][cl] = 0
    BY <2>1, <2>2 DEF TypeOK, FactsInv, RecordedByTheOne
  <2>4. /\ facts'[Of[a]][cl] = 1
        /\ \A c \in Conversations, x \in Clients :
             <<c, x>> # <<Of[a], cl>> => facts'[c][x] = facts[c][x]
    BY <1>2, <2>1, <2>3 DEF TypeOK
  <2>5. \A b \in Attempts : Live(b)' <=> Live(b)
    BY <1>2 DEF Live
  <2>6. OneMatches' /\ MemoryIsPresent'
    BY <1>2, <2>5 DEF FactsInv, OneMatches, MemoryIsPresent, Present, RecordFacts
  <2>7. FactsNeedMemory' /\ FactsOnce'
    BY <2>1, <2>4 DEF FactsInv, FactsNeedMemory, FactsOnce, RecordFacts
  <2>8. RecordedByTheOne'
    <3> SUFFICES ASSUME NEW b \in Attempts, NEW x \in Clients, Live(b), facts'[Of[b]][x] > 0
                 PROVE  x \in recorded'[b]
      BY <2>5 DEF RecordedByTheOne
    <3>1. CASE b = a
      BY <1>2, <2>1, <2>4, <3>1 DEF TypeOK, FactsInv, RecordedByTheOne
    <3>2. CASE b # a
      <4>1. Of[b] # Of[a]
        BY <2>2, <3>2 DEF FactsInv, OneMatches
      <4>2. QED
        BY <1>2, <2>4, <3>2, <4>1 DEF TypeOK, FactsInv, RecordedByTheOne
    <3>3. QED
      BY <3>1, <3>2
  <2>9. QED
    BY <2>6, <2>7, <2>8 DEF FactsInv
<1>3. QED
  BY <1>1, <1>2 DEF RecordFacts

\* Deleting a conversation takes its memory and its facts together.
LEMMA DeleteKeeps ==
  ASSUME Typed, FactsInv, NEW c \in Conversations, Delete(c)
  PROVE  FactsInv'
<1> USE AttemptsAssumption DEF Typed
<1>1. /\ ~Present(c)' /\ ~memory'[c]
      /\ \A d \in Conversations : d # c => (Present(d)' <=> Present(d)) /\ memory'[d] = memory[d]
  BY DEF TypeOK, Delete, Present
<1>2. \A d \in Conversations, cl \in Clients :
        facts'[d][cl] = IF d = c THEN 0 ELSE facts[d][cl]
  BY DEF TypeOK, Delete, NoFacts
<1>3. \A a \in Attempts : (Live(a)' <=> Live(a)) /\ recorded'[a] = recorded[a]
  BY DEF Delete, session, Live
<1>4. OneMatches' /\ MemoryIsPresent'
  BY <1>1, <1>3 DEF FactsInv, OneMatches, MemoryIsPresent
<1>5. FactsNeedMemory'
  BY <1>1, <1>2 DEF FactsInv, FactsNeedMemory
<1>6. FactsOnce'
  <2>1. \A d \in Conversations, cl \in Clients : facts[d][cl] <= 1
    BY DEF FactsInv, FactsOnce
  <2>2. \A d \in Conversations, cl \in Clients : facts'[d][cl] <= 1
    BY <1>2, <2>1
  <2>3. QED
    BY <2>2 DEF FactsOnce
<1>7. RecordedByTheOne'
  <2> SUFFICES ASSUME NEW a \in Attempts, NEW cl \in Clients, Live(a)', facts'[Of[a]][cl] > 0
               PROVE  cl \in recorded'[a]
    BY DEF RecordedByTheOne
  <2>1. Of[a] \in Conversations /\ Of[a] # c
    BY <1>2
  <2>2. QED
    BY <1>2, <1>3, <2>1 DEF FactsInv, RecordedByTheOne
<1>8. QED
  BY <1>4, <1>5, <1>6, <1>7 DEF FactsInv

\* Every step keeps it.
LEMMA FactsStep == Typed /\ FactsInv /\ [Next]_vars => FactsInv'
<1> SUFFICES ASSUME Typed, FactsInv, [Next]_vars PROVE FactsInv'
  OBVIOUS
<1> USE AttemptsAssumption DEF Typed
<1>1. ASSUME NEW a \in Attempts, Begin(a) PROVE FactsInv'
  BY <1>1, Quiet DEF TypeOK, Begin, Go, Live, Matching, Present
<1>2. ASSUME NEW a \in Attempts, Stop(a) PROVE FactsInv'
  BY <1>2, FailIsQuiet, Quiet DEF Stop
<1>3. ASSUME NEW a \in Attempts, ReadTranscript(a) PROVE FactsInv'
  BY <1>3, Quiet DEF TypeOK, ReadTranscript, rows, Go, Live, Matching, Present
<1>4. ASSUME NEW a \in Attempts, ResetTranscript(a) PROVE FactsInv'
  <2>1. CASE Fail(a)
    BY <1>4, <2>1, FailIsQuiet, Quiet DEF ResetTranscript
  <2>2. CASE ~Fail(a)
    BY <1>4, <2>2, Quiet DEF TypeOK, ResetTranscript, session, Go, Live, Matching, Present
  <2>3. QED
    BY <2>1, <2>2
<1>5. ASSUME NEW a \in Attempts, Transcribe(a) PROVE FactsInv'
  BY <1>5, Quiet DEF TypeOK, Transcribe, session, Go, Live, Matching, Present
<1>6. ASSUME NEW a \in Attempts, TranscribeFails(a) PROVE FactsInv'
  BY <1>6, FailIsQuiet, Quiet DEF TranscribeFails
<1>7. ASSUME NEW a \in Attempts, Persist(a) PROVE FactsInv'
  BY <1>7, PersistKeeps
<1>8. ASSUME NEW a \in Attempts, Match(a) PROVE FactsInv'
  BY <1>8, Quiet DEF TypeOK, Match, rows, Go, Live, Matching, Present
<1>9. ASSUME NEW a \in Attempts, Create(a) PROVE FactsInv'
  BY <1>9, Quiet DEF TypeOK, Create, Go, Live, Matching, Present
<1>10. ASSUME NEW a \in Attempts, LinkPerson(a) PROVE FactsInv'
  <2>1. CASE Fail(a)
    BY <1>10, <2>1, FailIsQuiet, Quiet DEF LinkPerson
  <2>2. CASE ~Fail(a)
    BY <1>10, <2>2, Quiet DEF TypeOK, LinkPerson, Go, Live, Matching, Present
  <2>3. QED
    BY <2>1, <2>2
<1>11. ASSUME NEW a \in Attempts, EndMatching(a) PROVE FactsInv'
  BY <1>11, Quiet DEF TypeOK, EndMatching, rows, session, Go, Live, Matching, Present
<1>12. ASSUME NEW a \in Attempts, RecordFacts(a) PROVE FactsInv'
  BY <1>12, RecordKeeps
<1>13. ASSUME NEW a \in Attempts, Assign(a) PROVE FactsInv'
  <2>1. CASE Fail(a)
    BY <1>13, <2>1, FailIsQuiet, Quiet DEF Assign
  <2>2. CASE ~Fail(a)
    BY <1>13, <2>2, Quiet DEF TypeOK, Assign, session, Go, Live, Matching, Present
  <2>3. QED
    BY <2>1, <2>2
<1>14. ASSUME NEW a \in Attempts, Finish(a) PROVE FactsInv'
  BY <1>14, Quiet DEF TypeOK, Finish, End, Live, Matching, Present
<1>15. ASSUME NEW c \in Conversations, NEW cl \in Clients, Link(c, cl) PROVE FactsInv'
  BY <1>15, Quiet DEF Link, session, Live, Present
<1>16. ASSUME NEW c \in Conversations, Unlink(c) PROVE FactsInv'
  BY <1>16, Quiet DEF Unlink, session, Live, Present
<1>17. ASSUME NEW c \in Conversations, Delete(c) PROVE FactsInv'
  BY <1>17, DeleteKeeps
<1>18. CASE UNCHANGED vars
  BY <1>18, Quiet DEF vars, rows, session, Live, Present
<1>19. QED
  BY <1>1, <1>2, <1>3, <1>4, <1>5, <1>6, <1>7, <1>8, <1>9, <1>10, <1>11, <1>12, <1>13,
     <1>14, <1>15, <1>16, <1>17, <1>18 DEF Next, Attempt

\* FACTS ONCE: overlapping attempts, retries and failures never record the topics of a
\* conversation twice for one client.
THEOREM FactsAreRecordedOnce == Spec => []FactsOnce
<1>1. Init => Typed /\ FactsInv
  BY TypedInit, FactsInit
<1>2. Typed /\ FactsInv /\ [Next]_vars => (Typed /\ FactsInv)'
  BY TypedStep, FactsStep
<1>3. FactsInv => FactsOnce
  BY DEF FactsInv
<1>4. QED
  BY <1>1, <1>2, <1>3, PTL DEF Spec

-----------------------------------------------------------------------------
(* Deletion *)

(* What the others may still be doing for a conversation that is gone, they find  *)
(* no row of it to write to.                                                    *)
Gone(c) ==
  /\ ~memory[c] /\ transcript[c] = None /\ assigned[c] = None
  /\ facts[c] = NoFacts /\ person[c] = NoLinks(c)

\* Whatever stage an attempt is in, it finds no row of a deleted conversation to update
\* and may not insert one.
LEMMA GoneStays ==
  ASSUME Typed, [Next]_vars, NEW c \in Conversations, ~Present(c), Gone(c)
  PROVE  Gone(c)'
<1> USE AttemptsAssumption DEF Typed, TypeOK, Gone
<1>1. ASSUME NEW a \in Attempts,
             Begin(a) \/ Stop(a) \/ ReadTranscript(a) \/ Match(a) \/ Create(a) \/ EndMatching(a) \/ Finish(a)
      PROVE  Gone(c)'
  BY <1>1 DEF Begin, Stop, ReadTranscript, Match, Create, EndMatching, Finish, rows
<1>2. ASSUME NEW a \in Attempts, ResetTranscript(a) PROVE Gone(c)'
  BY <1>2 DEF ResetTranscript
<1>3. ASSUME NEW a \in Attempts, Transcribe(a) \/ TranscribeFails(a) PROVE Gone(c)'
  BY <1>3 DEF Transcribe, TranscribeFails
<1>4. ASSUME NEW a \in Attempts, Persist(a) PROVE Gone(c)'
  BY <1>4 DEF Persist, MayPersist
<1>5. ASSUME NEW a \in Attempts, LinkPerson(a) PROVE Gone(c)'
  BY <1>5 DEF LinkPerson, MayRefer
<1>6. ASSUME NEW a \in Attempts, RecordFacts(a) PROVE Gone(c)'
  BY <1>6 DEF RecordFacts, MayRefer
<1>7. ASSUME NEW a \in Attempts, Assign(a) PROVE Gone(c)'
  BY <1>7 DEF Assign
<1>8. ASSUME NEW d \in Conversations, Unlink(d) \/ \E cl \in Clients : Link(d, cl) PROVE Gone(c)'
  BY <1>8 DEF Unlink, Link, MaySelect
<1>9. ASSUME NEW d \in Conversations, Delete(d) PROVE Gone(c)'
  BY <1>9 DEF Delete
<1>10. CASE UNCHANGED vars
  BY <1>10 DEF vars, rows
<1> QED
  BY <1>1, <1>2, <1>3, <1>4, <1>5, <1>6, <1>7, <1>8, <1>9, <1>10 DEF Next, Attempt

\* Only its deletion makes a conversation absent.
LEMMA OnlyDeleted ==
  ASSUME Typed, [Next]_vars, NEW c \in Conversations, Present(c), ~Present(c)'
  PROVE  Delete(c)
<1> USE AttemptsAssumption DEF Typed, TypeOK, Present
<1>1. ASSUME NEW a \in Attempts, Begin(a) \/ Finish(a) \/ Fail(a) \/ UNCHANGED status PROVE FALSE
  BY <1>1 DEF Begin, Finish, Fail
<1>2. ASSUME NEW a \in Attempts, Attempt(a) PROVE FALSE
  BY <1>1, <1>2, Zenon
  DEF Attempt, Stop, ReadTranscript, ResetTranscript, Transcribe, TranscribeFails, Persist, Match, Create,
      LinkPerson, EndMatching, RecordFacts, Assign, rows
<1> QED
  BY <1>2 DEF Next, vars, rows, Unlink, Link, Delete

\* DELETED LEAVES NOTHING: what the running stages of any number of attempts write never
\* outlives the deletion of their conversation.
THEOREM DeletionIsFinal == Spec => []DeletedLeavesNothing
<1>1. Init => DeletedLeavesNothing
  BY DEF Init, DeletedLeavesNothing, Present
<1>2. DeletedLeavesNothing <=> \A c \in Conversations : ~Present(c) => Gone(c)
  BY DEF DeletedLeavesNothing, Gone
<1>3. Typed /\ DeletedLeavesNothing /\ [Next]_vars => DeletedLeavesNothing'
  <2> SUFFICES ASSUME Typed, DeletedLeavesNothing, [Next]_vars, NEW c \in Conversations, ~Present(c)'
               PROVE  Gone(c)'
    BY DEF DeletedLeavesNothing, Gone
  <2>1. CASE Present(c)
    <3>1. Delete(c)
      BY <2>1, OnlyDeleted
    <3> QED
      BY <3>1 DEF Delete, Gone, Typed, TypeOK
  <2>2. CASE ~Present(c)
    BY <1>2, <2>2, GoneStays
  <2> QED
    BY <2>1, <2>2
<1> QED
  BY <1>1, <1>3, TypedInit, TypedStep, PTL DEF Spec

-----------------------------------------------------------------------------
(* One attempt at a time *)

(* What the retry guard of Processing gives: one attempt of a conversation runs,  *)
(* and one that is going to transcribe has not found a completed transcript.     *)
SerialInv ==
  /\ \A a, b \in Attempts : pc[a] \in Running /\ pc[b] \in Running /\ Of[a] = Of[b] => a = b
  /\ \A a \in Attempts : pc[a] \in {"resetting", "transcribing"} => transcript[Of[a]] # "completed"

\* An attempt that writes transcripts is the one of its conversation.
LEMMA SerialStep ==
  ASSUME ~Overlap, Typed, SerialInv, [Next]_vars
  PROVE  SerialInv'
<1> USE AttemptsAssumption DEF SerialInv, Running
<1>0. pc \in [Attempts -> Running \cup {"new", "ended"}] /\ transcript \in [Conversations -> TranscriptStatuses]
  BY DEF Typed, TypeOK
<1>1. ASSUME NEW a \in Attempts, Begin(a) PROVE SerialInv'
  BY <1>0, <1>1 DEF Begin, Busy, Go
<1>2. ASSUME NEW a \in Attempts, ReadTranscript(a) PROVE SerialInv'
  BY <1>0, <1>2 DEF ReadTranscript, rows, Go
<1>3. ASSUME NEW a \in Attempts, ResetTranscript(a) PROVE SerialInv'
  BY <1>0, <1>3 DEF ResetTranscript, Fail, End, Go
<1>4. ASSUME NEW a \in Attempts, Transcribe(a) \/ TranscribeFails(a) PROVE SerialInv'
  BY <1>0, <1>4 DEF Transcribe, TranscribeFails, Fail, End, Go
<1>5. ASSUME NEW a \in Attempts, Stop(a) \/ Finish(a) PROVE SerialInv'
  BY <1>0, <1>5 DEF Stop, Finish, Fail, End
<1>6. ASSUME NEW a \in Attempts, Persist(a) \/ LinkPerson(a) \/ RecordFacts(a) \/ Assign(a) PROVE SerialInv'
  <2>1. /\ UNCHANGED transcript /\ pc[a] \in Running
        /\ \E place \in {"finishing", "matching", "recording", "ended"} : pc' = [pc EXCEPT ![a] = place]
    BY <1>0, <1>6 DEF Persist, LinkPerson, RecordFacts, Assign, Fail, End, Go, session
  <2> QED
    BY <1>0, <2>1
<1>7. ASSUME NEW a \in Attempts, Match(a) \/ Create(a) \/ EndMatching(a) PROVE SerialInv'
  <2>1. UNCHANGED transcript
    BY <1>7 DEF Match, Create, EndMatching, rows
  <2>2. /\ pc[a] \in Running
        /\ \E place \in {"linking", "creating", "finishing", "recording"} : pc' = [pc EXCEPT ![a] = place]
    BY <1>7 DEF Match, Create, EndMatching, Go
  <2>3. \A b \in Attempts :
          pc'[b] \in Running => pc[b] \in Running /\ (pc'[b] \in {"resetting", "transcribing"} => pc'[b] = pc[b])
    BY <1>0, <2>2
  <2> QED
    BY <2>1, <2>3
<1>8. ASSUME NEW c \in Conversations, Unlink(c) \/ Delete(c) \/ \E cl \in Clients : Link(c, cl) PROVE SerialInv'
  <2>1. UNCHANGED pc
    BY <1>8 DEF Unlink, Delete, Link, session
  <2>2. transcript' = transcript \/ transcript' = [transcript EXCEPT ![c] = None]
    BY <1>8 DEF Unlink, Delete, Link
  <2> QED
    BY <1>0, <2>1, <2>2 DEF None
<1>9. CASE UNCHANGED vars
  BY <1>0, <1>9 DEF vars, rows
<1> QED
  BY <1>1, <1>2, <1>3, <1>4, <1>5, <1>6, <1>7, <1>8, <1>9 DEF Next, Attempt

\* No step of an attempt that runs alone changes a completed transcript.
LEMMA TranscriptStep ==
  ASSUME ~Overlap, Typed, SerialInv, [Next]_vars, NEW c \in Conversations, transcript[c] = "completed", Present(c)'
  PROVE  transcript'[c] = "completed"
<1> USE AttemptsAssumption DEF Typed, TypeOK, SerialInv
<1>1. ASSUME NEW a \in Attempts, ResetTranscript(a) \/ Transcribe(a) \/ TranscribeFails(a) PROVE transcript'[c] = "completed"
  BY <1>1 DEF ResetTranscript, Transcribe, TranscribeFails
<1>2. ASSUME NEW d \in Conversations, Delete(d) PROVE transcript'[c] = "completed"
  BY <1>2 DEF Delete, Present
<1>3. ASSUME UNCHANGED transcript PROVE transcript'[c] = "completed"
  BY <1>3
<1>4. ASSUME NEW a \in Attempts, Attempt(a) PROVE transcript'[c] = "completed"
  BY <1>1, <1>3, <1>4, Zenon
  DEF Attempt, Begin, Stop, ReadTranscript, Persist, Match, Create, LinkPerson, EndMatching, RecordFacts,
      Assign, Finish, rows
<1> QED
  BY <1>2, <1>3, <1>4 DEF Next, vars, rows, Unlink, Link

\* TRANSCRIPT IS KEPT: while one attempt of a conversation runs at a time, a completed
\* transcript is not lost to a later attempt, however many attempts there are.
THEOREM TranscriptsAreKept == ASSUME ~Overlap PROVE Spec => TranscriptIsKept
<1>1. Init => SerialInv
  BY DEF Init, SerialInv, Running
<1>2. Typed /\ SerialInv /\ [Next]_vars =>
        [\A c \in Conversations :
           transcript[c] = "completed" /\ Present(c)' => transcript'[c] = "completed"]_vars
  BY TranscriptStep
<1> QED
  BY <1>1, <1>2, TypedInit, TypedStep, SerialStep, PTL DEF Spec, TranscriptIsKept

-----------------------------------------------------------------------------
(* The user's choice *)

(* What an attempt knows of the user's choice is so while it runs, and one that    *)
(* matches people knows of none.                                                *)
ChoiceInv ==
  /\ \A a \in Attempts : pc[a] \in Running /\ manual[Of[a]] => loaded[a]
  /\ \A a \in Attempts : Live(a) => ~loaded[a]

\* The choice does not change while an attempt runs, but with the conversation's end.
LEMMA ChoiceStep ==
  ASSUME ~SelectAnyTime, Typed, ChoiceInv, [Next]_vars
  PROVE  ChoiceInv'
<1> USE AttemptsAssumption DEF ChoiceInv, Running, Live, Matching
<1>0. /\ pc \in [Attempts -> Running \cup {"new", "ended"}] /\ loaded \in [Attempts -> BOOLEAN]
      /\ manual \in [Conversations -> BOOLEAN]
  BY DEF Typed, TypeOK
<1>1. ASSUME NEW a \in Attempts, Begin(a) PROVE ChoiceInv'
  BY <1>0, <1>1 DEF Begin, Go
<1>2. ASSUME NEW a \in Attempts, ReadTranscript(a) PROVE ChoiceInv'
  BY <1>0, <1>2 DEF ReadTranscript, rows, Go
<1>3. ASSUME NEW a \in Attempts, ResetTranscript(a) PROVE ChoiceInv'
  BY <1>0, <1>3 DEF ResetTranscript, Fail, End, Go, session
<1>4. ASSUME NEW a \in Attempts, Transcribe(a) \/ TranscribeFails(a) PROVE ChoiceInv'
  BY <1>0, <1>4 DEF Transcribe, TranscribeFails, Fail, End, Go, session
<1>5. ASSUME NEW a \in Attempts, Stop(a) \/ Finish(a) PROVE ChoiceInv'
  BY <1>0, <1>5 DEF Stop, Finish, Fail, End
<1>6. ASSUME NEW a \in Attempts, Persist(a) PROVE ChoiceInv'
  BY <1>0, <1>6 DEF Persist, Fail, End, Go, session
<1>7. ASSUME NEW a \in Attempts, LinkPerson(a) \/ RecordFacts(a) \/ Assign(a) PROVE ChoiceInv'
  BY <1>0, <1>7 DEF LinkPerson, RecordFacts, Assign, Fail, End, Go, session
<1>8. ASSUME NEW a \in Attempts, Match(a) \/ Create(a) \/ EndMatching(a) PROVE ChoiceInv'
  BY <1>0, <1>8 DEF Match, Create, EndMatching, Go, rows, session
<1>9. ASSUME NEW c \in Conversations, Unlink(c) \/ \E cl \in Clients : Link(c, cl) PROVE ChoiceInv'
  BY <1>0, <1>9 DEF Unlink, Link, MaySelect, Busy, session
<1>10. ASSUME NEW c \in Conversations, Delete(c) PROVE ChoiceInv'
  BY <1>0, <1>10 DEF Delete, session
<1>11. CASE UNCHANGED vars
  BY <1>0, <1>11 DEF vars, rows, session
<1> QED
  BY <1>1, <1>2, <1>3, <1>4, <1>5, <1>6, <1>7, <1>8, <1>9, <1>10, <1>11 DEF Next, Attempt

\* Only the last write of an attempt that matched people sets the client of a conversation.
LEMMA AssignStep ==
  ASSUME Typed, ChoiceInv, [Next]_vars, NEW c \in Conversations, manual[c], pc' # pc
  PROVE  assigned'[c] = assigned[c]
<1> USE AttemptsAssumption DEF Typed, TypeOK, ChoiceInv
<1>1. ASSUME NEW a \in Attempts, Assign(a) PROVE assigned'[c] = assigned[c]
  BY <1>1 DEF Assign, Running, Live, Matching
<1>2. ASSUME NEW a \in Attempts, Attempt(a), ~Assign(a) PROVE assigned'[c] = assigned[c]
  BY <1>2, Zenon
  DEF Attempt, Begin, Stop, ReadTranscript, ResetTranscript, Transcribe, TranscribeFails, Persist, Match, Create,
      LinkPerson, EndMatching, RecordFacts, Finish, rows
<1> QED
  BY <1>1, <1>2 DEF Next, vars, Unlink, Link, Delete

\* MANUAL SELECTION IS KEPT: as long as the user chooses between attempts, no step of the
\* pipeline replaces the choice; ReconcileLateChoice shows that the proviso is needed.
THEOREM SelectionsAreKept == ASSUME ~SelectAnyTime PROVE Spec => ManualSelectionIsKept
<1>1. Init => ChoiceInv
  BY DEF Init, ChoiceInv, Running, Live, Matching
<1>2. Typed /\ ChoiceInv /\ [Next]_vars =>
        [\A c \in Conversations : manual[c] /\ pc' # pc => assigned'[c] = assigned[c]]_vars
  BY AssignStep
<1> QED
  BY <1>1, <1>2, TypedInit, TypedStep, ChoiceStep, PTL DEF Spec, ManualSelectionIsKept

-----------------------------------------------------------------------------
(* Completed conversations *)

(* An attempt that has stored its memory; the silent conversations have none.    *)
Past(a) == (Live(a) \/ pc[a] = "finishing") /\ Of[a] \notin Silent

(* There is one such attempt, and it alone can complete its conversation.        *)
PastInv ==
  /\ \A a \in Attempts : Past(a) => memory[Of[a]] \/ ~Present(Of[a])
  /\ \A a, b \in Attempts : Past(a) /\ Past(b) /\ Of[a] = Of[b] => a = b
  /\ \A a \in Attempts : Live(a) \/ pc[a] = "extracting" => Of[a] \notin Silent
  /\ \A a \in Attempts : Past(a) => status[Of[a]] # "completed"
  /\ \A c \in Conversations : memory[c] => c \notin Silent
  /\ \A c \in Conversations : status[c] = "completed" /\ c \notin Silent => memory[c]

(* A choice that an attempt has seen was made.                                  *)
LoadedInv == \A a \in Attempts : loaded[a] => manual[Of[a]] \/ ~Present(Of[a])

\* The types that the proofs below need.
LEMMA PastTypes ==
  ASSUME Typed
  PROVE  /\ Of \in [Attempts -> Conversations]
         /\ pc \in [Attempts -> Running \cup {"new", "ended"}]
         /\ status \in [Conversations -> {"waiting", "processing", "completed", "failed", "deleted"}]
         /\ memory \in [Conversations -> BOOLEAN] /\ manual \in [Conversations -> BOOLEAN]
         /\ loaded \in [Attempts -> BOOLEAN]
BY AttemptsAssumption DEF Typed, TypeOK

\* Nothing has begun.
LEMMA PastInit == Init => PastInv
BY AttemptsAssumption DEF Init, PastInv, Past, Live, Matching, Present

\* A step that stores no memory, deletes nothing and completes nothing.
LEMMA PastQuiet ==
  ASSUME Typed, PastInv, UNCHANGED memory,
         \A c \in Conversations : Present(c)' <=> Present(c),
         \A c \in Conversations : status'[c] = "completed" => status[c] = "completed",
         \A a \in Attempts : Past(a)' => Past(a),
         \A a \in Attempts : (Live(a) \/ pc[a] = "extracting")' => Of[a] \notin Silent
  PROVE  PastInv'
BY PastTypes DEF PastInv

\* A failure is such a step.
LEMMA FailIsPastQuiet ==
  ASSUME Typed, PastInv, NEW a \in Attempts, Fail(a), UNCHANGED memory
  PROVE  PastInv'
<1>1. /\ \A c \in Conversations : Present(c)' <=> Present(c)
      /\ \A c \in Conversations : status'[c] = "completed" => status[c] = "completed"
  BY PastTypes DEF Fail, Present
<1>2. \A b \in Attempts : pc'[b] = pc[b] \/ pc'[b] = "ended"
  BY PastTypes DEF Fail, End
<1> QED
  BY <1>1, <1>2, PastQuiet DEF PastInv, Past, Live, Matching

\* Every step keeps it.
LEMMA PastStep ==
  ASSUME Typed, PastInv, [Next]_vars
  PROVE  PastInv'
<1> USE PastTypes DEF Go, Past, Live, Matching, Present
<1>1. ASSUME NEW a \in Attempts, Begin(a) PROVE PastInv'
  BY <1>1, PastQuiet DEF Begin, PastInv
<1>2. ASSUME NEW a \in Attempts, ReadTranscript(a) PROVE PastInv'
  BY <1>2, PastQuiet DEF ReadTranscript, rows, PastInv
<1>3. ASSUME NEW a \in Attempts, ResetTranscript(a), ~Fail(a) PROVE PastInv'
  BY <1>3, PastQuiet DEF ResetTranscript, session, PastInv
<1>4. ASSUME NEW a \in Attempts, Transcribe(a) PROVE PastInv'
  BY <1>4, PastQuiet DEF Transcribe, session, PastInv
<1>5. ASSUME NEW a \in Attempts, Persist(a), ~Fail(a) PROVE PastInv'
  <2>1. /\ MayPersist(Of[a]) /\ pc[a] = "extracting" /\ memory' = [memory EXCEPT ![Of[a]] = TRUE]
        /\ \E place \in {"finishing", "matching"} : pc' = [pc EXCEPT ![a] = place]
        /\ UNCHANGED status
    BY <1>5 DEF Persist, session
  <2>2. \A b \in Attempts : Of[b] = Of[a] => ~Past(b)
    BY <2>1 DEF MayPersist, PastInv
  <2> QED
    BY <2>1, <2>2 DEF MayPersist, PastInv
<1>6. ASSUME NEW a \in Attempts, Match(a) \/ Create(a) \/ EndMatching(a) PROVE PastInv'
  <2>1. UNCHANGED <<status, memory>>
    BY <1>6 DEF Match, Create, EndMatching, rows, session
  <2>2. /\ pc[a] \in {"matching", "creating"}
        /\ \E place \in {"linking", "creating", "recording", "finishing"} : pc' = [pc EXCEPT ![a] = place]
    BY <1>6 DEF Match, Create, EndMatching
  <2> QED
    BY <2>1, <2>2, PastQuiet DEF PastInv
<1>7. ASSUME NEW a \in Attempts, LinkPerson(a) \/ RecordFacts(a) \/ Assign(a), ~Fail(a) PROVE PastInv'
  <2>1. /\ UNCHANGED <<status, memory>> /\ pc[a] \in {"linking", "recording"}
        /\ \E place \in {"matching", "recording", "finishing"} : pc' = [pc EXCEPT ![a] = place]
    <3>1. CASE LinkPerson(a)
      BY <1>7, <3>1 DEF LinkPerson
    <3>2. CASE RecordFacts(a)
      BY <1>7, <3>2 DEF RecordFacts
    <3>3. CASE Assign(a)
      BY <1>7, <3>3 DEF Assign, session
    <3> QED
      BY <1>7, <3>1, <3>2, <3>3
  <2> QED
    BY <2>1, PastQuiet DEF PastInv
<1>8. ASSUME NEW a \in Attempts, Finish(a) PROVE PastInv'
  BY <1>8 DEF Finish, End, PastInv
<1>9. ASSUME NEW c \in Conversations, Unlink(c) \/ \E cl \in Clients : Link(c, cl) PROVE PastInv'
  BY <1>9, PastQuiet DEF Unlink, Link, session, PastInv
<1>10. ASSUME NEW c \in Conversations, Delete(c) PROVE PastInv'
  BY <1>10 DEF Delete, session, PastInv
<1>11. CASE UNCHANGED vars
  BY <1>11, PastQuiet DEF vars, rows, session, PastInv
<1>12. ASSUME NEW a \in Attempts, Attempt(a), Fail(a) PROVE PastInv'
  <2>1. CASE UNCHANGED memory
    BY <1>12, <2>1, FailIsPastQuiet
  <2>2. UNCHANGED memory
    BY <1>12
    DEF Fail, End, Attempt, Begin, Stop, ReadTranscript, ResetTranscript, Transcribe, TranscribeFails, Persist,
        Match, Create, LinkPerson, EndMatching, RecordFacts, Assign, Finish, rows
  <2> QED
    BY <2>1, <2>2
<1>13. ASSUME NEW a \in Attempts, Stop(a) \/ TranscribeFails(a) PROVE Fail(a)
  BY <1>13 DEF Stop, TranscribeFails
<1> QED
  BY <1>1, <1>2, <1>3, <1>4, <1>5, <1>6, <1>7, <1>8, <1>9, <1>10, <1>11, <1>12, <1>13 DEF Next, Attempt

LEMMA LoadedInit == Init => LoadedInv
BY AttemptsAssumption DEF Init, LoadedInv

\* An attempt sees the choice when it loads the row, and only a deletion takes it back.
LEMMA LoadedStep ==
  ASSUME Typed, LoadedInv, [Next]_vars
  PROVE  LoadedInv'
<1> USE PastTypes DEF LoadedInv, Present
<1>1. ASSUME NEW a \in Attempts, Attempt(a) PROVE LoadedInv'
  <2>1. /\ manual' = manual
        /\ \A c \in Conversations : status'[c] = "deleted" <=> status[c] = "deleted"
        /\ \A b \in Attempts : loaded'[b] => loaded[b] \/ manual[Of[b]]
    BY <1>1 DEF Attempt, Begin, Stop, ReadTranscript, ResetTranscript, Transcribe, TranscribeFails, Persist,
         Match, Create, LinkPerson, EndMatching, RecordFacts, Assign, Finish, Fail, End, Present, rows, session
  <2> QED
    BY <2>1
<1>2. ASSUME NEW c \in Conversations, Unlink(c) \/ Delete(c) \/ \E cl \in Clients : Link(c, cl) PROVE LoadedInv'
  <2>1. loaded' = loaded
    BY <1>2 DEF Unlink, Delete, Link, session
  <2>2. \A d \in Conversations : manual[d] \/ status[d] = "deleted" => manual'[d] \/ status'[d] = "deleted"
    BY <1>2 DEF Unlink, Delete, Link
  <2> QED
    BY <2>1, <2>2
<1>3. CASE UNCHANGED vars
  BY <1>3 DEF vars, rows, session
<1> QED
  BY <1>1, <1>2, <1>3 DEF Next

(* Everyone the conversation mentions has a client with the facts, and it has the first. *)
Whole(c) ==
  /\ \A i \in People(c) : person[c][i] # None /\ facts[c][person[c][i]] > 0
  /\ Mentions[c] # <<>> => assigned[c] = person[c][1]

(* How far an attempt that matches people has come is what the rows say.         *)
SoFar(a) ==
  /\ Len(matched[a]) <= Len(Mentions[Of[a]])
  /\ pc[a] = "recording" => Len(matched[a]) = Len(Mentions[Of[a]]) /\ matched[a] # <<>>
  /\ Present(Of[a]) =>
       /\ \A i \in DOMAIN matched[a] : person[Of[a]][i] = matched[a][i]
       /\ \A cl \in recorded[a] : facts[Of[a]][cl] > 0

WholeInv ==
  /\ \A a \in Attempts : Live(a) => SoFar(a)
  /\ \A a \in Attempts : ~Live(a) /\ pc[a] # "finishing" => matched[a] = <<>> /\ recorded[a] = {}
  /\ \A a \in Attempts :
       pc[a] = "finishing" /\ Of[a] \notin Silent /\ Present(Of[a]) /\ ~manual[Of[a]] => Whole(Of[a])
  /\ \A c \in Conversations : status[c] = "completed" /\ memory[c] /\ ~manual[c] => Whole(c)

\* The types of what they relate.
LEMMA WholeTypes ==
  ASSUME Typed
  PROVE  /\ matched \in [Attempts -> Seq(Clients)] /\ recorded \in [Attempts -> SUBSET Clients]
         /\ hold \in [Attempts -> Clients \cup {None}]
         /\ facts \in [Conversations -> [Clients -> Nat]]
         /\ assigned \in [Conversations -> Clients \cup {None}]
         /\ Mentions \in [Conversations -> Seq(Keys)]
         /\ DOMAIN person = Conversations
         /\ \A c \in Conversations : person[c] \in [1 .. Len(Mentions[c]) -> Clients \cup {None}]
         /\ \A c \in Conversations : People(c) = 1 .. Len(Mentions[c])
         /\ None \notin Clients
<1>1. Mentions \in [Conversations -> Seq(Keys)] /\ None \notin Clients
  BY KeysAssumption, ClientsAssumption
<1>2. \A c \in Conversations : People(c) = 1 .. Len(Mentions[c])
  BY <1>1 DEF People
<1> QED
  BY <1>1, <1>2 DEF Typed, TypeOK

\* At first nobody is matched.
LEMMA WholeInit == Init => WholeInv
BY AttemptsAssumption DEF Init, WholeInv, Live, Matching

\* A step that neither writes what Whole speaks of nor takes an attempt further.
LEMMA WholeQuiet ==
  ASSUME Typed, PastInv, WholeInv, UNCHANGED <<person, facts, assigned, memory, manual>>,
         \A c \in Conversations : Present(c)' <=> Present(c),
         \A c \in Conversations : status'[c] = "completed" => status[c] = "completed",
         \A a \in Attempts : Live(a)' => Live(a) /\ (pc'[a] = "recording" => pc[a] = "recording")
                                      /\ matched'[a] = matched[a] /\ recorded'[a] = recorded[a],
         \A a \in Attempts :
           ~Live(a)' /\ pc'[a] # "finishing" =>
             \/ matched'[a] = <<>> /\ recorded'[a] = {}
             \/ ~Live(a) /\ pc[a] # "finishing" /\ matched'[a] = matched[a] /\ recorded'[a] = recorded[a],
         \A a \in Attempts : pc'[a] = "finishing" /\ Of[a] \notin Silent => pc[a] = "finishing"
  PROVE  WholeInv'
<1>1. \A c \in Conversations : Whole(c)' <=> Whole(c)
  BY DEF Whole, People
<1>2. \A a \in Attempts : Live(a)' => SoFar(a)'
  BY PastTypes DEF WholeInv, SoFar
<1> QED
  BY <1>1, <1>2, PastTypes DEF WholeInv

\* A failure is such a step.
LEMMA FailIsWholeQuiet ==
  ASSUME Typed, PastInv, WholeInv, NEW a \in Attempts, Fail(a), UNCHANGED <<person, facts, assigned, memory, manual>>
  PROVE  WholeInv'
<1>1. /\ \A c \in Conversations : Present(c)' <=> Present(c)
      /\ \A c \in Conversations : status'[c] = "completed" => status[c] = "completed"
  BY PastTypes DEF Fail, Present
<1>2. /\ pc'[a] = "ended" /\ matched'[a] = <<>> /\ recorded'[a] = {}
      /\ \A b \in Attempts \ {a} : pc'[b] = pc[b] /\ matched'[b] = matched[b] /\ recorded'[b] = recorded[b]
  BY PastTypes, WholeTypes DEF Fail, End
<1> QED
  BY <1>1, <1>2, WholeQuiet DEF Live, Matching

\* Between the stages the rows that Whole speaks of do not change.
LEMMA WholeStages ==
  ASSUME Typed, PastInv, WholeInv, NEW a \in Attempts,
         \/ Begin(a) \/ ReadTranscript(a) \/ (ResetTranscript(a) /\ ~Fail(a)) \/ Transcribe(a)
         \/ Match(a) \/ Create(a)
  PROVE  WholeInv'
<1>1. UNCHANGED <<person, facts, assigned, memory, manual, matched, recorded>>
  BY DEF Begin, ReadTranscript, ResetTranscript, Transcribe, Match, Create, rows, session
<1>2. /\ \A c \in Conversations : Present(c)' <=> Present(c)
      /\ \A c \in Conversations : status'[c] = "completed" => status[c] = "completed"
  BY PastTypes DEF Begin, ReadTranscript, ResetTranscript, Transcribe, Match, Create, rows, Present
<1>3. \/ /\ pc[a] \in {"new", "reading", "resetting", "transcribing"}
         /\ \E place \in {"reading", "resetting", "transcribing", "extracting"} : pc' = [pc EXCEPT ![a] = place]
      \/ /\ pc[a] \in {"reading", "transcribing"} /\ Of[a] \in Silent /\ pc' = [pc EXCEPT ![a] = "finishing"]
      \/ /\ pc[a] \in {"matching", "creating"}
         /\ \E place \in {"creating", "linking"} : pc' = [pc EXCEPT ![a] = place]
  BY DEF Begin, ReadTranscript, ResetTranscript, Transcribe, Match, Create, Go
<1>4. \A b \in Attempts \ {a} : pc'[b] = pc[b]
  BY <1>3, PastTypes
<1> QED
  BY <1>1, <1>2, <1>3, <1>4, WholeQuiet, PastTypes DEF Live, Matching

\* A step of one attempt that changes no row Whole speaks of but the attempt's own place.
LEMMA WholeTurn ==
  ASSUME Typed, PastInv, WholeInv, NEW a \in Attempts, NEW place,
         pc' = [pc EXCEPT ![a] = place], place \in Matching \cup {"finishing"},
         UNCHANGED <<status, person, facts, assigned, manual, matched, recorded>>,
         \A c \in Conversations : memory'[c] => memory[c] \/ status[c] # "completed",
         place \in Matching => SoFar(a)',
         place = "finishing" /\ Present(Of[a]) /\ ~manual[Of[a]] => Whole(Of[a])
  PROVE  WholeInv'
<1>1. \A c \in Conversations : (Whole(c)' <=> Whole(c)) /\ (Present(c)' <=> Present(c))
  BY DEF Whole, People, Present
<1>2. pc'[a] = place /\ \A b \in Attempts \ {a} : pc'[b] = pc[b]
  BY PastTypes
<1>3. \A b \in Attempts : Live(b)' => SoFar(b)'
  BY <1>1, <1>2, PastTypes DEF WholeInv, SoFar, Live
<1> QED
  BY <1>1, <1>2, <1>3, PastTypes DEF WholeInv, Live, Matching

\* An attempt that has stored its memory has matched nobody, or need not.
LEMMA WholePersist ==
  ASSUME Typed, PastInv, LoadedInv, WholeInv, NEW a \in Attempts, Persist(a), ~Fail(a)
  PROVE  WholeInv'
<1>1. /\ MayPersist(Of[a]) /\ memory' = [memory EXCEPT ![Of[a]] = TRUE] /\ pc[a] = "extracting"
      /\ pc' = [pc EXCEPT ![a] = IF loaded[a] THEN "finishing" ELSE "matching"]
      /\ UNCHANGED <<status, person, facts, assigned, manual, matched, recorded>>
  BY DEF Persist, Go, session
<1>2. Of[a] \in Conversations /\ Of[a] \notin Silent /\ status[Of[a]] # "completed" /\ Present(Of[a])
  BY <1>1, PastTypes DEF MayPersist, PastInv
<1>3. loaded[a] => manual[Of[a]]
  BY <1>2 DEF LoadedInv
<1>4. ~loaded[a] => SoFar(a)'
  <2>1. matched[a] = <<>> /\ recorded[a] = {} /\ Mentions[Of[a]] \in Seq(Keys)
    BY <1>1, <1>2, WholeTypes DEF WholeInv, Live, Matching
  <2> QED
    BY <1>1, <2>1, PastTypes DEF SoFar
<1>5. \A c \in Conversations : memory'[c] => memory[c] \/ status[c] # "completed"
  BY <1>1, <1>2, PastTypes
<1> QED
  BY <1>1, <1>3, <1>4, <1>5, WholeTurn DEF Matching

\* When everybody had a turn the attempt has matched everybody, or nobody was mentioned.
LEMMA WholeEndMatching ==
  ASSUME Typed, PastInv, WholeInv, NEW a \in Attempts, EndMatching(a)
  PROVE  WholeInv'
<1>1. /\ pc[a] = "matching" /\ Turn(a) \notin People(Of[a])
      /\ pc' = [pc EXCEPT ![a] = IF matched[a] = <<>> THEN "finishing" ELSE "recording"]
      /\ UNCHANGED <<status, person, facts, assigned, memory, manual, matched, recorded>>
  BY DEF EndMatching, Go, rows, session
<1>2. /\ Of[a] \in Conversations /\ Mentions[Of[a]] \in Seq(Keys) /\ matched[a] \in Seq(Clients)
      /\ People(Of[a]) = 1 .. Len(Mentions[Of[a]]) /\ SoFar(a)
  BY <1>1, PastTypes, WholeTypes DEF WholeInv, Live, Matching
<1>3. Len(matched[a]) = Len(Mentions[Of[a]])
  BY <1>1, <1>2 DEF SoFar, Turn
<1>4. matched[a] = <<>> => Whole(Of[a])
  BY <1>2, <1>3 DEF Whole
<1>5. matched[a] # <<>> => SoFar(a)'
  BY <1>1, <1>2, <1>3 DEF SoFar, Present
<1> QED
  BY <1>1, <1>4, <1>5, PastTypes, WholeTurn DEF Matching

\* What an attempt writes it writes to a conversation that nobody else completes.
LEMMA WholeAlone ==
  ASSUME Typed, PastInv, NEW a \in Attempts, Live(a)
  PROVE  /\ Of[a] \in Conversations /\ status[Of[a]] # "completed"
         /\ \A b \in Attempts : Of[b] = Of[a] /\ b # a => ~Live(b) /\ pc[b] # "finishing"
BY PastTypes DEF PastInv, Past

\* A person is linked in turn.
LEMMA WholeLink ==
  ASSUME Typed, PastInv, WholeInv, NEW a \in Attempts, LinkPerson(a), ~Fail(a)
  PROVE  WholeInv'
<1> DEFINE c == Of[a]
           n == Len(matched[a]) + 1
<1>1. /\ pc[a] = "linking" /\ hold[a] \in Clients
      /\ person' = [person EXCEPT ![c] = [@ EXCEPT ![n] = hold[a]]]
      /\ matched' = [matched EXCEPT ![a] = Append(@, hold[a])]
      /\ pc' = [pc EXCEPT ![a] = "matching"]
      /\ UNCHANGED <<status, facts, assigned, memory, manual, recorded>>
  BY DEF LinkPerson, Go, MayRefer, Exists, Turn
<1>2. /\ Live(a) /\ SoFar(a) /\ c \in Conversations
      /\ Mentions[c] \in Seq(Keys) /\ matched[a] \in Seq(Clients) /\ n \in 1 .. Len(Mentions[c])
      /\ DOMAIN person = Conversations /\ person[c] \in [1 .. Len(Mentions[c]) -> Clients \cup {None}]
  BY <1>1, PastTypes, WholeTypes DEF WholeInv, Live, Matching, Typed, TurnIsAPerson, Turn
<1>3. /\ matched'[a] = Append(matched[a], hold[a]) /\ \A b \in Attempts \ {a} : matched'[b] = matched[b] /\ pc'[b] = pc[b]
      /\ pc'[a] = "matching"
      /\ person'[c] = [person[c] EXCEPT ![n] = hold[a]] /\ \A d \in Conversations \ {c} : person'[d] = person[d]
  BY <1>1, <1>2, PastTypes, WholeTypes
<1>4. SoFar(a)'
  <2>1. Len(matched'[a]) = n /\ DOMAIN matched'[a] = 1 .. n
    BY <1>1, <1>2, <1>3
  <2>2. ASSUME NEW i \in 1 .. n, Present(c) PROVE person'[c][i] = matched'[a][i]
    <3>1. i # n => person[c][i] = matched[a][i] /\ i \in DOMAIN matched[a]
      BY <1>2, <2>2 DEF SoFar
    <3> QED
      BY <1>1, <1>2, <1>3, <3>1
  <2> QED
    BY <1>1, <1>2, <1>3, <2>1, <2>2 DEF SoFar, Present
<1>5. \A d \in Conversations : d # c => (Whole(d)' <=> Whole(d))
  BY <1>1, <1>3 DEF Whole, People
<1>6. \A b \in Attempts : b # a /\ Live(b) => SoFar(b)'
  BY <1>1, <1>2, <1>3, WholeAlone, PastTypes DEF WholeInv, SoFar, Present
<1> QED
  BY <1>1, <1>2, <1>3, <1>4, <1>5, <1>6, WholeAlone, PastTypes DEF WholeInv, Live, Matching, Present

\* The facts of a client are recorded.
LEMMA WholeRecord ==
  ASSUME Typed, PastInv, WholeInv, NEW a \in Attempts, RecordFacts(a), ~Fail(a)
  PROVE  WholeInv'
<1> DEFINE c == Of[a]
<1>1. PICK cl \in Clients :
        /\ facts' = [facts EXCEPT ![c][cl] = @ + 1]
        /\ recorded' = [recorded EXCEPT ![a] = @ \cup {cl}]
  BY DEF RecordFacts, MayRefer, Exists
<1>2. /\ pc[a] = "recording"
      /\ UNCHANGED <<status, person, assigned, memory, manual, matched, pc>>
  BY DEF RecordFacts
<1>3. /\ Live(a) /\ c \in Conversations
      /\ \A d \in Conversations, x \in Clients : facts[d][x] \in Nat /\ (facts[d][x] > 0 => facts'[d][x] > 0)
      /\ facts'[c][cl] > 0
  <2>1. Live(a) /\ c \in Conversations /\ facts \in [Conversations -> [Clients -> Nat]]
    BY <1>2, PastTypes, WholeTypes DEF Live, Matching
  <2> QED
    BY <1>1, <2>1
<1>4. \A b \in Attempts : recorded[b] \subseteq Clients /\ recorded'[b] = IF b = a THEN recorded[a] \cup {cl} ELSE recorded[b]
  BY <1>1, WholeTypes
<1>5. \A b \in Attempts : Live(b) => SoFar(b)'
  BY <1>2, <1>3, <1>4, PastTypes DEF WholeInv, SoFar, Present
<1>6. \A d \in Conversations : Whole(d) => Whole(d)'
  <2> SUFFICES ASSUME NEW d \in Conversations, Whole(d), NEW i \in People(d)
               PROVE  person[d][i] # None /\ facts'[d][person[d][i]] > 0
    BY <1>2 DEF Whole, People
  <2>1. person[d][i] \in Clients
    BY WholeTypes DEF Whole
  <2> QED
    BY <1>3, <2>1 DEF Whole
<1> QED
  BY <1>2, <1>3, <1>4, <1>5, <1>6, PastTypes DEF WholeInv, Live, Present

\* The last write makes the conversation whole.
LEMMA WholeAssign ==
  ASSUME Typed, PastInv, WholeInv, NEW a \in Attempts, Assign(a), ~Fail(a)
  PROVE  WholeInv'
<1> DEFINE c == Of[a]
<1>1. /\ pc[a] = "recording" /\ Pending(a) = {} /\ Present(c)
      /\ assigned' = [assigned EXCEPT ![c] = Head(matched[a])]
      /\ pc' = [pc EXCEPT ![a] = "finishing"]
      /\ UNCHANGED <<status, person, facts, memory, manual, matched, recorded>>
  BY DEF Assign, Go, session
<1>2. /\ Live(a) /\ SoFar(a) /\ c \in Conversations
      /\ Mentions[c] \in Seq(Keys) /\ matched[a] \in Seq(Clients)
      /\ People(c) = 1 .. Len(Mentions[c])
  BY <1>1, PastTypes, WholeTypes DEF WholeInv, Live, Matching
<1>3. Whole(c)'
  <2>1. DOMAIN matched[a] = 1 .. Len(Mentions[c]) /\ Len(Mentions[c]) >= 1
    BY <1>1, <1>2 DEF SoFar
  <2>2. ASSUME NEW i \in People(c) PROVE person[c][i] # None /\ facts[c][person[c][i]] > 0
    <3>1. person[c][i] = matched[a][i] /\ matched[a][i] \in Clients
      BY <1>1, <1>2, <2>1 DEF SoFar
    <3>2. matched[a][i] \in recorded[a]
      BY <1>1, <1>2, <2>1 DEF Pending
    <3>3. facts[c][matched[a][i]] > 0
      BY <1>1, <1>2, <3>2 DEF SoFar
    <3> QED
      BY <3>1, <3>3, ClientsAssumption
  <2>3. assigned'[c] = person[c][1]
    <3>1. person[c][1] = matched[a][1]
      BY <1>1, <1>2, <2>1 DEF SoFar
    <3>2. assigned'[c] = Head(matched[a])
      BY <1>1, <1>2, WholeTypes
    <3> QED
      BY <1>2, <3>1, <3>2
  <2> QED
    BY <1>1, <2>2, <2>3 DEF Whole, People
<1>4. pc'[a] = "finishing" /\ \A b \in Attempts \ {a} : pc'[b] = pc[b]
  BY <1>1, PastTypes
<1>5. \A d \in Conversations : d # c => (Whole(d)' <=> Whole(d))
  BY <1>1, WholeTypes DEF Whole, People
<1>6. \A b \in Attempts : b # a /\ Live(b) => SoFar(b)'
  BY <1>1, <1>4, PastTypes DEF WholeInv, SoFar, Present
<1> QED
  BY <1>1, <1>2, <1>3, <1>4, <1>5, <1>6, WholeAlone, PastTypes DEF WholeInv, Live, Matching, Present

\* Every step keeps it.
LEMMA WholeStep ==
  ASSUME Typed, PastInv, LoadedInv, WholeInv, [Next]_vars
  PROVE  WholeInv'
<1>1. ASSUME NEW a \in Attempts, Attempt(a), Fail(a) PROVE WholeInv'
  <2>1. pc'[a] = "ended" /\ ~Begin(a)
    BY <1>1, PastTypes DEF Fail, End, Begin, Go
  <2>2. Stop(a) \/ ReadTranscript(a) \/ ResetTranscript(a) \/ Transcribe(a) \/ TranscribeFails(a) =>
          UNCHANGED <<person, facts, assigned, memory, manual>>
    BY DEF Stop, ReadTranscript, ResetTranscript, Transcribe, TranscribeFails, rows
  <2>3. Match(a) \/ Create(a) \/ EndMatching(a) \/ Finish(a) =>
          UNCHANGED <<person, facts, assigned, memory, manual>>
    BY DEF Match, Create, EndMatching, Finish, rows
  <2>4. Persist(a) \/ LinkPerson(a) =>
          UNCHANGED <<person, facts, assigned, memory, manual>>
    BY <2>1, PastTypes DEF Persist, LinkPerson, Go
  <2>5. RecordFacts(a) \/ Assign(a) =>
          UNCHANGED <<person, facts, assigned, memory, manual>>
    BY <2>1, PastTypes DEF RecordFacts, Assign, Go
  <2>6. UNCHANGED <<person, facts, assigned, memory, manual>>
    BY <1>1, <2>1, <2>2, <2>3, <2>4, <2>5 DEF Attempt
  <2> QED
    BY <1>1, <2>6, FailIsWholeQuiet
<1>2. ASSUME NEW a \in Attempts, Stop(a) \/ TranscribeFails(a) PROVE Fail(a)
  BY <1>2 DEF Stop, TranscribeFails
<1>3. ASSUME NEW a \in Attempts, Finish(a) PROVE WholeInv'
  <2> USE PastTypes DEF Live, Matching, Present
  <2>1. /\ pc[a] = "finishing" /\ pc'[a] = "ended" /\ matched'[a] = <<>> /\ recorded'[a] = {}
        /\ \A b \in Attempts \ {a} : pc'[b] = pc[b] /\ matched'[b] = matched[b] /\ recorded'[b] = recorded[b]
        /\ UNCHANGED <<person, facts, assigned, memory, manual>>
    BY <1>3, WholeTypes DEF Finish, End
  <2>2. /\ \A c \in Conversations : (Whole(c)' <=> Whole(c)) /\ (Present(c)' <=> Present(c))
        /\ \A c \in Conversations : status'[c] = "completed" =>
             status[c] = "completed" \/ (c = Of[a] /\ Present(c))
    BY <1>3, <2>1 DEF Finish, Whole, People
  <2>3. \A c \in Conversations : memory[c] => c \notin Silent
    BY DEF PastInv
  <2>4. \A b \in Attempts : Live(b)' => SoFar(b)'
    BY <2>1, <2>2 DEF WholeInv, SoFar
  <2> QED
    BY <2>1, <2>2, <2>3, <2>4 DEF WholeInv
<1>4. ASSUME NEW c \in Conversations, Unlink(c) \/ \E cl \in Clients : Link(c, cl) PROVE WholeInv'
  <2>1. /\ manual' = [manual EXCEPT ![c] = TRUE]
        /\ \E x \in Clients \cup {None} : assigned' = [assigned EXCEPT ![c] = x]
        /\ UNCHANGED <<status, person, facts, memory, pc, matched, recorded>>
    BY <1>4 DEF Unlink, Link, session
  <2>2. \A d \in Conversations : d # c => (Whole(d)' <=> Whole(d))
    BY <2>1, WholeTypes DEF Whole, People
  <2>3. \A b \in Attempts : SoFar(b)' <=> SoFar(b)
    BY <2>1 DEF SoFar, Present
  <2> QED
    BY <2>1, <2>2, <2>3, PastTypes DEF WholeInv, Live, Present
<1>5. ASSUME NEW c \in Conversations, Delete(c) PROVE WholeInv'
  <2>1. /\ ~Present(c)' /\ \A d \in Conversations : d # c => (Present(d)' <=> Present(d)) /\ status'[d] = status[d]
        /\ ~memory'[c] /\ \A d \in Conversations : d # c => memory'[d] = memory[d] /\ manual'[d] = manual[d]
        /\ UNCHANGED <<pc, matched, recorded>>
    BY <1>5, PastTypes DEF Delete, Present, session
  <2>2. \A d \in Conversations : d # c => person'[d] = person[d] /\ facts'[d] = facts[d] /\ assigned'[d] = assigned[d]
    BY <1>5, WholeTypes DEF Delete
  <2>3. \A d \in Conversations : d # c => (Whole(d)' <=> Whole(d))
    BY <2>1, <2>2 DEF Whole, People
  <2>4. \A b \in Attempts : SoFar(b) => SoFar(b)'
    BY <2>1, <2>2, PastTypes DEF SoFar
  <2> QED
    BY <2>1, <2>3, <2>4, PastTypes DEF WholeInv, Live
<1>6. CASE UNCHANGED vars
  BY <1>6, WholeQuiet DEF vars, rows, session, Live, Present
<1> QED
  BY <1>1, <1>2, <1>3, <1>4, <1>5, <1>6, WholeStages, WholePersist, WholeEndMatching, WholeLink, WholeRecord,
     WholeAssign DEF Next, Attempt

\* COMPLETED IS WHOLE: with any number of attempts, people and clients, overlapping or not, a
\* conversation that is presented as completed, and whose client the user has not chosen,
\* is matched as a whole.
THEOREM CompletionIsWhole == Spec => []CompletedIsWhole
<1>1. WholeInv => CompletedIsWhole
  BY DEF WholeInv, Whole, CompletedIsWhole
<1> QED
  BY <1>1, TypedInit, TypedStep, PastInit, PastStep, LoadedInit, LoadedStep, WholeInit, WholeStep, PTL DEF Spec

-----------------------------------------------------------------------------
(* Merges of clients, and their undo *)

\* The client that a merge leaves in place of another.
Left(audit, cl) == IF cl = audit.snapshot.source THEN audit.snapshot.target ELSE cl

\* The snapshot of an audit shows what its pair was linked with before the merge.
SnapshotOK(audit) ==
  LET old == audit.snapshot
      before == audit.before
      pair == {old.source, old.target}
  IN
  /\ pair \subseteq Clients /\ old.source # old.target /\ old.key \in Keys
  /\ old.reviews = pair \cap before.review
  /\ DOMAIN old.assigned = {c \in Conversations : before.assigned[c] \in pair}
  /\ \A c \in DOMAIN old.assigned : old.assigned[c] = before.assigned[c] /\ old.manual[c] = before.manual[c]
  /\ DOMAIN old.person = {p \in AllPeople : before.person[p[1]][p[2]] \in pair}
  /\ \A p \in DOMAIN old.person : old.person[p] = before.person[p[1]][p[2]]
  /\ \A c \in Conversations, cl \in pair : old.facts[c][cl] = before.facts[c][cl] /\ before.facts[c][cl] \in Nat
  /\ \A c \in Conversations : before.manual[c] \in BOOLEAN

\* Its fingerprint shows what the merge made of that.
AfterOK(audit) ==
  LET after == audit.after
      before == audit.before
      s == audit.snapshot.source
      t == audit.snapshot.target
  IN
  /\ after.conversations = {c \in Conversations : before.assigned[c] \in {s, t}}
  /\ DOMAIN after.people =
       {p \in AllPeople : Left(audit, before.person[p[1]][p[2]]) = t \/ Left(audit, before.assigned[p[1]]) = t}
  /\ \A p \in DOMAIN after.people :
       after.people[p] = <<Left(audit, before.person[p[1]][p[2]]), before.confirmed[p[1]][p[2]]>>
  /\ \A c \in Conversations : after.facts[c] = before.facts[c][s] + before.facts[c][t]

\* What was not written since is as manual as the merge left it.
ManualKept(audit) ==
  \A c \in Conversations \ audit.touched :
    manual[c] <=> audit.before.manual[c] \/ audit.before.assigned[c] = audit.snapshot.source

\* The shape of an audit.
IsAudit(audit) ==
  /\ audit = [snapshot |-> audit.snapshot, after |-> audit.after, touched |-> audit.touched,
              undone |-> audit.undone, before |-> audit.before]
  /\ audit.undone \in BOOLEAN

\* An audit in which rows are marked as written; the merge may have been undone as well.
Marked(audit, old, ids) ==
  /\ IsAudit(audit)
  /\ audit.snapshot = old.snapshot /\ audit.after = old.after /\ audit.before = old.before
  /\ audit.touched = old.touched \cup ids

AuditInv ==
  /\ audits \in Seq({audits[n] : n \in DOMAIN audits})
  /\ \A n \in DOMAIN audits :
       IsAudit(audits[n]) /\ SnapshotOK(audits[n]) /\ AfterOK(audits[n]) /\ ManualKept(audits[n])

MergeTyped == Typed /\ MergeTypeOK

-----------------------------------------------------------------------------
(* The audits *)

\* The types that the proofs need.
LEMMA MergeTypes ==
  ASSUME Typed
  PROVE  /\ assigned \in [Conversations -> Clients \cup {None}] /\ manual \in [Conversations -> BOOLEAN]
         /\ facts \in [Conversations -> [Clients -> Nat]]
         /\ key \in [Clients -> Keys \cup {Free, None}]
         /\ DOMAIN person = Conversations
         /\ \A c \in Conversations : person[c] \in [People(c) -> Clients \cup {None}]
         /\ None \notin Clients /\ None \notin Keys /\ Free \notin Keys
BY KeysAssumption, ClientsAssumption DEF Typed, TypeOK

\* A person is one of a conversation.
LEMMA PeopleAre ==
  \A p : p \in AllPeople <=> \E c \in Conversations : \E i \in People(c) : p = <<c, i>>
BY DEF AllPeople

\* What an audit says of its merge is in its snapshot, its fingerprint and what was before.
LEMMA SameAudit ==
  ASSUME NEW a, NEW b, a.snapshot = b.snapshot, a.after = b.after, a.before = b.before
  PROVE  (SnapshotOK(a) => SnapshotOK(b)) /\ (AfterOK(a) => AfterOK(b))
<1>1. SnapshotOK(a) => SnapshotOK(b)
  BY DEF SnapshotOK
<1>2. AfterOK(a) => AfterOK(b)
  BY DEF AfterOK, Left
<1> QED
  BY <1>1, <1>2

\* Marking rows as written changes no audit but in that.
LEMMA TouchIs ==
  ASSUME NEW ids, AuditInv
  PROVE  /\ DOMAIN Touch(ids) = DOMAIN audits /\ Len(Touch(ids)) = Len(audits)
         /\ DOMAIN audits = 1 .. Len(audits) /\ Len(audits) \in Nat
         /\ Touch(ids) \in Seq({Touch(ids)[n] : n \in DOMAIN audits})
         /\ \A n \in DOMAIN audits :
              Marked(Touch(ids)[n], audits[n], ids) /\ Touch(ids)[n].undone = audits[n].undone
<1>1. DOMAIN audits = 1 .. Len(audits) /\ Len(audits) \in Nat
  BY DEF AuditInv
<1>2. DOMAIN Touch(ids) = 1 .. Len(audits)
  BY <1>1 DEF Touch
<1>3. Touch(ids) \in Seq({Touch(ids)[n] : n \in DOMAIN audits})
  <2> DEFINE S == {Touch(ids)[n] : n \in DOMAIN audits}
  <2>1. \A n \in 1 .. Len(audits) : Touch(ids)[n] \in S
    BY <1>1
  <2>2. Touch(ids) \in [1 .. Len(audits) -> S]
    <3>1. Touch(ids) = [n \in 1 .. Len(audits) |-> Touch(ids)[n]]
      BY <1>1 DEF Touch
    <3> HIDE DEF S
    <3> QED
      BY <2>1, <3>1
  <2> HIDE DEF S
  <2>3. Touch(ids) \in Seq(S)
    BY <1>1, <2>2
  <2> QED
    BY <2>3 DEF S
<1>4. Len(Touch(ids)) = Len(audits)
  BY <1>1, <1>2, <1>3
<1>5. ASSUME NEW n \in DOMAIN audits
      PROVE  Marked(Touch(ids)[n], audits[n], ids) /\ Touch(ids)[n].undone = audits[n].undone
  <2> DEFINE audit == Touch(ids)[n]
             old == audits[n]
  <2>1. audit = [old EXCEPT !.touched = @ \cup ids]
    BY DEF Touch
  <2>2. IsAudit(old)
    BY DEF AuditInv
  <2> HIDE DEF audit, old
  <2>3. /\ audit.snapshot = old.snapshot /\ audit.after = old.after /\ audit.before = old.before
        /\ audit.touched = old.touched \cup ids /\ audit.undone = old.undone
    BY <2>1, <2>2 DEF IsAudit
  <2>4. IsAudit(audit)
    BY <2>1, <2>2 DEF IsAudit
  <2> QED
    BY <2>3, <2>4 DEF Marked, audit, old
<1> QED
  BY <1>1, <1>2, <1>3, <1>4, <1>5

\* What is marked says the same of its merge.
LEMMA MarkedSays ==
  ASSUME NEW audit, NEW old, NEW ids, Marked(audit, old, ids), SnapshotOK(old), AfterOK(old)
  PROVE  SnapshotOK(audit) /\ AfterOK(audit)
BY SameAudit DEF Marked

\* A conversation that no step writes is as manual as it was, so that marking the
\* rows that a step writes keeps what the audits say.
LEMMA TouchKeeps ==
  ASSUME AuditInv, NEW ids,
         \A c \in Conversations \ ids : manual'[c] = manual[c],
         DOMAIN audits' = DOMAIN audits,
         audits' \in Seq({audits'[n] : n \in DOMAIN audits}),
         \A n \in DOMAIN audits : Marked(audits'[n], audits[n], ids)
  PROVE  AuditInv'
<1>1. ASSUME NEW n \in DOMAIN audits
      PROVE  IsAudit(audits'[n]) /\ SnapshotOK(audits'[n]) /\ AfterOK(audits'[n]) /\ ManualKept(audits[n])'
  <2>1. SnapshotOK(audits[n]) /\ AfterOK(audits[n]) /\ ManualKept(audits[n])
    BY DEF AuditInv
  <2>2. SnapshotOK(audits'[n]) /\ AfterOK(audits'[n])
    BY <2>1, MarkedSays
  <2>3. ManualKept(audits[n])'
    BY <2>1 DEF ManualKept, Marked
  <2> QED
    BY <2>2, <2>3 DEF Marked
<1> QED
  BY <1>1 DEF AuditInv

LEMMA OnlyTouched ==
  ASSUME AuditInv, NEW ids, audits' = Touch(ids),
         \A c \in Conversations \ ids : manual'[c] = manual[c]
  PROVE  AuditInv'
<1>1. DOMAIN audits' = DOMAIN audits /\ audits' \in Seq({audits'[n] : n \in DOMAIN audits})
  BY TouchIs
<1>2. \A n \in DOMAIN audits : Marked(audits'[n], audits[n], ids)
  BY TouchIs
<1> QED
  BY <1>1, <1>2, TouchKeeps

-----------------------------------------------------------------------------
(* The types *)

LEMMA MergeTypedInit == MergeInit => MergeTyped /\ AuditInv
<1> SUFFICES ASSUME MergeInit PROVE MergeTyped /\ AuditInv
  OBVIOUS
<1>1. Typed
  BY TypedInit DEF MergeInit
<1>2. AuditInv
  BY DEF MergeInit, AuditInv
<1>3. Cardinality(preview) <= 1
  BY FS_EmptySet DEF MergeInit
<1>4. \A c \in Conversations : confirmed[c] \in [People(c) -> Clients \cup {None}]
  BY DEF MergeInit, NoLinks
<1>5. MergeTypeOK
  BY <1>1, <1>3, <1>4, MergeBoundsAssumption DEF MergeInit, MergeTypeOK, Typed
<1> QED
  BY <1>1, <1>2, <1>5 DEF MergeTyped

\* The types of what a merge and an undo write in the rows of Reconciliation.
LEMMA RowsTyped ==
  ASSUME Typed,
         UNCHANGED <<status, transcript, memory, pc, session, selections>>,
         assigned' \in [Conversations -> Clients \cup {None}],
         manual' \in [Conversations -> BOOLEAN],
         DOMAIN person' = Conversations,
         \A c \in Conversations : person'[c] \in [People(c) -> Clients \cup {None}],
         facts' \in [Conversations -> [Clients -> Nat]],
         key' \in [Clients -> Keys \cup {Free, None}]
  PROVE  Typed'
BY DEF Typed, TypeOK, TurnIsAPerson, Turn, People, session

LEMMA MergeRows ==
  ASSUME Typed, NEW s \in Clients, NEW t \in Clients, Merge(s, t)
  PROVE  Typed'
<1> DEFINE to(cl) == IF cl = s THEN t ELSE cl
<1>1. /\ UNCHANGED <<status, transcript, memory, pc, session, selections>>
      /\ assigned' = [c \in Conversations |-> to(assigned[c])]
      /\ manual' = [c \in Conversations |-> manual[c] \/ assigned[c] = s]
      /\ person' = [c \in Conversations |-> [i \in People(c) |-> to(person[c][i])]]
      /\ facts' = [c \in Conversations |-> [facts[c] EXCEPT ![t] = @ + facts[c][s], ![s] = 0]]
      /\ key' = [key EXCEPT ![s] = None]
  BY DEF Merge
<1>2. assigned' \in [Conversations -> Clients \cup {None}] /\ manual' \in [Conversations -> BOOLEAN]
  BY <1>1, MergeTypes
<1>3. DOMAIN person' = Conversations /\ \A c \in Conversations : person'[c] \in [People(c) -> Clients \cup {None}]
  BY <1>1, MergeTypes
<1>4. facts' \in [Conversations -> [Clients -> Nat]]
  BY <1>1, MergeTypes
<1>5. key' \in [Clients -> Keys \cup {Free, None}]
  BY <1>1, MergeTypes
<1> QED
  BY <1>1, <1>2, <1>3, <1>4, <1>5, RowsTyped

\* What an undo requires of the facts of the retained client: they are those of the two.
LEMMA UndoFacts ==
  ASSUME AuditInv, NEW n \in DOMAIN audits, Unchanged(audits[n]), NEW c \in Conversations
  PROVE  LET old == audits[n].snapshot
             before == audits[n].before IN
         /\ old.facts[c][old.source] = before.facts[c][old.source]
         /\ before.facts[c][old.source] \in Nat /\ before.facts[c][old.target] \in Nat
         /\ facts[c][old.target] = before.facts[c][old.source] + before.facts[c][old.target]
<1> DEFINE old == audits[n].snapshot
           before == audits[n].before
<1>1. SnapshotOK(audits[n]) /\ AfterOK(audits[n])
  BY DEF AuditInv
<1>2. /\ old.facts[c][old.source] = before.facts[c][old.source]
      /\ before.facts[c][old.source] \in Nat /\ before.facts[c][old.target] \in Nat
  BY <1>1 DEF SnapshotOK
<1>3. MergedState(old.target).facts[c] = facts[c][old.target]
  BY DEF MergedState
<1>4. audits[n].after.facts[c] = before.facts[c][old.source] + before.facts[c][old.target]
  BY <1>1 DEF AfterOK
<1> QED
  BY <1>2, <1>3, <1>4 DEF Unchanged

LEMMA UndoRows ==
  ASSUME Typed, AuditInv, NEW n \in DOMAIN audits, Undo(n)
  PROVE  Typed'
<1> DEFINE old == audits[n].snapshot
           moved == Moved(old)
           mentioned == {p \in DOMAIN old.person : old.person[p] = old.source}
<1>1. /\ UNCHANGED <<status, transcript, memory, pc, session, selections>>
      /\ key' = [key EXCEPT ![old.source] = old.key]
      /\ assigned' = [c \in Conversations |-> IF c \in moved THEN old.source ELSE assigned[c]]
      /\ manual' = [c \in Conversations |-> RestoredManual(old, c)]
      /\ person' = [c \in Conversations |-> [i \in People(c) |->
                      IF <<c, i>> \in mentioned THEN old.source ELSE person[c][i]]]
      /\ facts' = [c \in Conversations |->
                     [facts[c] EXCEPT ![old.source] = old.facts[c][old.source],
                                      ![old.target] = @ - old.facts[c][old.source]]]
      /\ Unchanged(audits[n])
  BY DEF Undo
<1>2. /\ old.source \in Clients /\ old.target \in Clients /\ old.source # old.target /\ old.key \in Keys
      /\ \A c \in moved : c \in Conversations /\ old.manual[c] \in BOOLEAN
  BY DEF AuditInv, SnapshotOK, Moved
<1> HIDE DEF moved, mentioned, old
<1>3. assigned' \in [Conversations -> Clients \cup {None}]
  BY <1>1, <1>2, MergeTypes
<1>4. manual' \in [Conversations -> BOOLEAN]
  BY <1>1, <1>2, MergeTypes DEF RestoredManual, moved
<1>5. DOMAIN person' = Conversations /\ \A c \in Conversations : person'[c] \in [People(c) -> Clients \cup {None}]
  BY <1>1, <1>2, MergeTypes
<1>6. facts' \in [Conversations -> [Clients -> Nat]]
  <2>1. ASSUME NEW c \in Conversations
        PROVE  [facts[c] EXCEPT ![old.source] = old.facts[c][old.source],
                                ![old.target] = @ - old.facts[c][old.source]] \in [Clients -> Nat]
    <3>1. old.facts[c][old.source] \in Nat /\ facts[c][old.target] - old.facts[c][old.source] \in Nat
      BY <1>1, UndoFacts DEF old
    <3>2. facts[c] \in [Clients -> Nat]
      BY MergeTypes
    <3> QED
      BY <1>2, <3>1, <3>2
  <2> QED
    BY <1>1, <2>1
<1>7. key' \in [Clients -> Keys \cup {Free, None}]
  BY <1>1, <1>2, MergeTypes
<1> QED
  BY <1>1, <1>3, <1>4, <1>5, <1>6, <1>7, RowsTyped

-----------------------------------------------------------------------------
(* What the steps write in the audits *)

\* What a step outside the pair of a merge keeps of the audits' types.
AuditTyped(audit) ==
  /\ audit.touched \subseteq Conversations \cup Clients
  /\ audit.undone \in BOOLEAN
  /\ {audit.snapshot.source, audit.snapshot.target} \subseteq Clients

\* Rows that are written are marked, and nothing else changes in an audit.
LEMMA TouchTyped ==
  ASSUME MergeTyped, AuditInv, NEW ids, ids \subseteq Conversations \cup Clients
  PROVE  /\ Len(Touch(ids)) <= MaxMerges
         /\ \A n \in DOMAIN Touch(ids) : AuditTyped(Touch(ids)[n])
<1>1. \A n \in DOMAIN audits : AuditTyped(audits[n])
  BY DEF MergeTyped, MergeTypeOK, AuditTyped
<1>2. Len(audits) <= MaxMerges
  BY DEF MergeTyped, MergeTypeOK
<1>3. ASSUME NEW n \in DOMAIN audits PROVE AuditTyped(Touch(ids)[n])
  <2>1. Marked(Touch(ids)[n], audits[n], ids)
    BY TouchIs
  <2> QED
    BY <1>1, <2>1 DEF AuditTyped, Marked, IsAudit
<1> QED
  BY <1>2, <1>3, TouchIs

\* The merge's own audit.
AuditOf(s, t) ==
  [snapshot |-> Snapshot(s, t), after |-> MergedState(t)',
   touched |-> {}, undone |-> FALSE, before |-> Before]

\* What the audit says, and that the merge made the assignments it moved manual.
SaysMerge(audit, s, t) ==
  /\ IsAudit(audit) /\ SnapshotOK(audit) /\ AfterOK(audit)
  /\ \A c \in Conversations :
       manual'[c] <=> audit.before.manual[c] \/ audit.before.assigned[c] = audit.snapshot.source
  /\ audit.touched = {} /\ audit.undone = FALSE
  /\ audit.snapshot.source = s /\ audit.snapshot.target = t

\* A snapshot beside the rows it was taken of.
LEMMA SnapshotIs ==
  ASSUME Typed, NEW s \in Clients, NEW t \in Clients, MayMerge(s, t),
         NEW record, record.snapshot = Snapshot(s, t), record.before = Before
  PROVE  SnapshotOK(record) /\ record.snapshot.source = s /\ record.snapshot.target = t
<1>1. /\ s # t /\ key[s] \in Keys /\ manual \in [Conversations -> BOOLEAN]
      /\ facts \in [Conversations -> [Clients -> Nat]]
  BY MergeTypes DEF MayMerge, Exists
<1>2. /\ Snapshot(s, t).source = s /\ Snapshot(s, t).target = t /\ Snapshot(s, t).key = key[s]
      /\ Snapshot(s, t).reviews = {s, t} \cap review
      /\ Snapshot(s, t).assigned = [c \in LinkedConversations({s, t}) |-> assigned[c]]
      /\ Snapshot(s, t).manual = [c \in LinkedConversations({s, t}) |-> manual[c]]
      /\ Snapshot(s, t).person = [p \in LinkedPeople({s, t}) |-> ClientOf(p)]
      /\ Snapshot(s, t).facts = [c \in Conversations |-> [cl \in {s, t} |-> facts[c][cl]]]
  BY DEF Snapshot
<1>3. /\ Before.assigned = assigned /\ Before.manual = manual /\ Before.person = person
      /\ Before.facts = facts /\ Before.review = review
  BY DEF Before
<1> QED
  BY <1>1, <1>2, <1>3 DEF SnapshotOK, LinkedConversations, LinkedPeople, ClientOf

LEMMA NewAudit ==
  ASSUME Typed, NEW s \in Clients, NEW t \in Clients, Merge(s, t),
         NEW new, new = AuditOf(s, t)
  PROVE  SaysMerge(new, s, t)
<1> DEFINE to(cl) == IF cl = s THEN t ELSE cl
<1>0. new = [snapshot |-> Snapshot(s, t), after |-> MergedState(t)',
             touched |-> {}, undone |-> FALSE, before |-> Before]
  BY DEF AuditOf
<1>1. /\ s # t /\ Exists(s)
      /\ assigned' = [c \in Conversations |-> to(assigned[c])]
      /\ manual' = [c \in Conversations |-> manual[c] \/ assigned[c] = s]
      /\ person' = [c \in Conversations |-> [i \in People(c) |-> to(person[c][i])]]
      /\ facts' = [c \in Conversations |-> [facts[c] EXCEPT ![t] = @ + facts[c][s], ![s] = 0]]
      /\ confirmed' = confirmed
  BY DEF Merge, MayMerge
<1>2. new.snapshot.source = s /\ new.snapshot.target = t /\ new.touched = {} /\ new.undone = FALSE
  BY <1>0 DEF Snapshot
<1>3. IsAudit(new)
  BY <1>0 DEF IsAudit
<1>4. SnapshotOK(new)
  BY <1>0, SnapshotIs DEF Merge
<1>5. AfterOK(new)
  <2>1. /\ Before.assigned = assigned /\ Before.person = person /\ Before.confirmed = confirmed
        /\ Before.facts = facts
    BY DEF Before
  <2>2. \A cl : Left(new, cl) = to(cl)
    BY <1>2 DEF Left
  <2>3. \A c \in Conversations : assigned'[c] = to(assigned[c]) /\ \A i \in People(c) : person'[c][i] = to(person[c][i])
    BY <1>1
  <2>4. new.after = MergedState(t)' /\ new.before = Before
    BY <1>0
  <2>5. \A c \in Conversations : facts'[c][t] = facts[c][s] + facts[c][t]
    BY <1>1, MergeTypes
  <2>6. \A p \in AllPeople : p[1] \in Conversations /\ p[2] \in People(p[1])
    BY PeopleAre
  <2>7. \A p \in AllPeople : person'[p[1]][p[2]] = to(person[p[1]][p[2]]) /\ assigned'[p[1]] = to(assigned[p[1]])
    BY <2>3, <2>6
  <2>8. MergedState(t)'.conversations = {c \in Conversations : assigned'[c] = t}
    BY DEF MergedState, LinkedConversations
  <2>9. MergedState(t)'.people =
          [p \in {p \in AllPeople : person'[p[1]][p[2]] = t \/ assigned'[p[1]] = t} |->
             <<person'[p[1]][p[2]], confirmed'[p[1]][p[2]]>>]
    BY DEF MergedState, ClientOf
  <2>10. \A c \in Conversations : MergedState(t)'.facts[c] = facts'[c][t]
    BY DEF MergedState
  <2>11. new.after.conversations = {c \in Conversations : Before.assigned[c] \in {s, t}}
    BY <2>1, <2>3, <2>4, <2>8
  <2> DEFINE kept == {p \in AllPeople : person'[p[1]][p[2]] = t \/ assigned'[p[1]] = t}
  <2>people. new.after.people = [p \in kept |-> <<person'[p[1]][p[2]], confirmed'[p[1]][p[2]]>>]
    BY <2>4, <2>9
  <2>kept. kept = {p \in AllPeople : Left(new, Before.person[p[1]][p[2]]) = t \/ Left(new, Before.assigned[p[1]]) = t}
    <3>1. ASSUME NEW p \in AllPeople
          PROVE  p \in kept <=> Left(new, Before.person[p[1]][p[2]]) = t \/ Left(new, Before.assigned[p[1]]) = t
      <4>1. /\ person'[p[1]][p[2]] = Left(new, Before.person[p[1]][p[2]])
            /\ assigned'[p[1]] = Left(new, Before.assigned[p[1]])
        BY <2>1, <2>2, <2>7
      <4> QED
        BY <4>1
    <3> HIDE DEF to
    <3> QED
      BY <3>1
  <2>12. DOMAIN new.after.people =
           {p \in AllPeople : Left(new, Before.person[p[1]][p[2]]) = t \/ Left(new, Before.assigned[p[1]]) = t}
    BY <2>people, <2>kept
  <2>13. \A p \in DOMAIN new.after.people :
           new.after.people[p] = <<Left(new, Before.person[p[1]][p[2]]), Before.confirmed[p[1]][p[2]]>>
    <3>1. \A p \in DOMAIN new.after.people :
            p \in AllPeople /\ new.after.people[p] = <<person'[p[1]][p[2]], confirmed'[p[1]][p[2]]>>
      BY <2>people
    <3> QED
      <4> SUFFICES ASSUME NEW p \in DOMAIN new.after.people
                   PROVE  new.after.people[p] = <<Left(new, Before.person[p[1]][p[2]]), Before.confirmed[p[1]][p[2]]>>
        OBVIOUS
      <4>1. person'[p[1]][p[2]] = Left(new, Before.person[p[1]][p[2]])
        BY <2>1, <2>2, <2>7, <3>1
      <4>2. confirmed'[p[1]][p[2]] = Before.confirmed[p[1]][p[2]]
        BY <1>1, <2>1
      <4> QED
        BY <3>1, <4>1, <4>2
  <2>14. \A c \in Conversations : new.after.facts[c] = Before.facts[c][s] + Before.facts[c][t]
    BY <2>1, <2>4, <2>5, <2>10
  <2> HIDE DEF to
  <2> QED
    BY <1>2, <2>4, <2>11, <2>12, <2>13, <2>14 DEF AfterOK
<1>6. \A c \in Conversations :
        manual'[c] <=> new.before.manual[c] \/ new.before.assigned[c] = new.snapshot.source
  <2>1. new.before.manual = manual /\ new.before.assigned = assigned
    BY <1>0 DEF Before
  <2> QED
    BY <1>1, <1>2, <2>1
<1> QED
  BY <1>2, <1>3, <1>4, <1>5, <1>6 DEF SaysMerge

\* The shape of the audits after a merge: those that were there, marked, and its own.
LEMMA Appended ==
  ASSUME AuditInv, NEW ids, NEW new, audits' = Append(Touch(ids), new)
  PROVE  /\ DOMAIN audits' = 1 .. Len(audits) + 1 /\ Len(audits') = Len(audits) + 1
         /\ \A n \in DOMAIN audits : audits'[n] = Touch(ids)[n]
         /\ audits'[Len(audits) + 1] = new
         /\ audits' \in Seq({audits'[n] : n \in DOMAIN audits'})
<1> DEFINE T == Touch(ids)
           S == {audits'[n] : n \in DOMAIN audits'}
<1>1. Len(audits) \in Nat /\ DOMAIN audits = 1 .. Len(audits) /\ Len(T) = Len(audits)
  BY TouchIs
<1>2. T \in Seq({T[n] : n \in DOMAIN audits})
  BY TouchIs
<1> DEFINE U == {T[n] : n \in DOMAIN audits} \cup {new}
<1>3. T \in Seq(U) /\ new \in U
  <2>1. \A n \in 1 .. Len(T) : T[n] \in U
    BY <1>1
  <2> HIDE DEF U
  <2>2. T \in [1 .. Len(T) -> U]
    BY <1>1, <1>2, <2>1
  <2>3. Len(T) \in Nat
    BY <1>1
  <2> QED
    BY <2>2, <2>3 DEF U
<1> HIDE DEF U, T
<1>4. /\ audits' \in Seq(U) /\ Len(audits') = Len(audits) + 1
      /\ \A n \in DOMAIN audits : audits'[n] = T[n]
      /\ audits'[Len(audits) + 1] = new
  BY <1>1, <1>3 DEF T
<1>5. DOMAIN audits' = 1 .. Len(audits) + 1
  BY <1>1, <1>4
<1>6. \A n \in 1 .. Len(audits') : audits'[n] \in S
  BY <1>4, <1>5
<1> HIDE DEF S
<1>7. audits' \in Seq(S)
  BY <1>1, <1>4, <1>5, <1>6
<1> QED
  BY <1>4, <1>5, <1>7 DEF S, T

LEMMA MergeAudits ==
  ASSUME MergeTyped, AuditInv, NEW s \in Clients, NEW t \in Clients, Merge(s, t)
  PROVE  /\ AuditInv' /\ Len(audits') <= MaxMerges
         /\ \A n \in DOMAIN audits' : AuditTyped(audits'[n])
<1> DEFINE ids == {t} \cup Written
<1>new. PICK new : new = AuditOf(s, t)
  OBVIOUS
<1>1. audits' = Append(Touch(ids), new) /\ Len(audits) < MaxMerges
  BY <1>new DEF Merge, AuditOf
<1>2. /\ IsAudit(new) /\ SnapshotOK(new) /\ AfterOK(new)
      /\ \A c \in Conversations :
           manual'[c] <=> new.before.manual[c] \/ new.before.assigned[c] = new.snapshot.source
      /\ new.touched = {} /\ new.undone = FALSE
      /\ new.snapshot.source = s /\ new.snapshot.target = t
  <2>1. Typed
    BY DEF MergeTyped
  <2>2. SaysMerge(new, s, t)
    BY <1>new, <2>1, NewAudit
  <2> QED
    BY <2>2 DEF SaysMerge
<1>3. ids \subseteq Conversations \cup Clients
  BY DEF Written
<1>4. \A c \in Conversations \ ids : manual'[c] = manual[c]
  BY DEF Written
<1> HIDE DEF ids
<1>kept. /\ DOMAIN audits' = 1 .. Len(audits) + 1
         /\ \A n \in DOMAIN audits : audits'[n] = Touch(ids)[n]
         /\ audits'[Len(audits) + 1] = new
  BY <1>1, Appended
<1>5. Len(audits) \in Nat /\ DOMAIN audits = 1 .. Len(audits)
  BY TouchIs
<1>6. ASSUME NEW n \in DOMAIN audits' 
      PROVE  /\ IsAudit(audits'[n]) /\ SnapshotOK(audits'[n]) /\ AfterOK(audits'[n]) /\ ManualKept(audits[n])'
             /\ AuditTyped(audits'[n])
  <2>1. CASE n \in DOMAIN audits
    <3>1. Marked(audits'[n], audits[n], ids)
      BY <1>kept, <2>1, TouchIs
    <3>2. SnapshotOK(audits[n]) /\ AfterOK(audits[n]) /\ ManualKept(audits[n])
      BY <2>1 DEF AuditInv
    <3>3. SnapshotOK(audits'[n]) /\ AfterOK(audits'[n])
      BY <3>1, <3>2, MarkedSays
    <3>4. IsAudit(audits'[n])
      BY <3>1 DEF Marked
    <3>5. ManualKept(audits[n])'
      BY <1>4, <3>1, <3>2 DEF ManualKept, Marked
    <3>6. AuditTyped(audits'[n])
      BY <1>3, <1>kept, <2>1, TouchTyped, TouchIs
    <3> QED
      BY <3>3, <3>4, <3>5, <3>6
  <2>2. CASE n \notin DOMAIN audits
    <3>1. audits'[n] = new
      BY <1>kept, <1>5, <2>2
    <3>2. ManualKept(audits[n])'
      BY <1>2, <3>1 DEF ManualKept
    <3>3. AuditTyped(audits'[n])
      BY <1>2, <3>1 DEF AuditTyped
    <3> QED
      BY <1>2, <3>1, <3>2, <3>3
  <2> QED
    BY <2>1, <2>2
<1>7. audits' \in Seq({audits'[n] : n \in DOMAIN audits'}) /\ Len(audits') = Len(audits) + 1
  BY <1>1, Appended
<1>8. AuditInv'
  BY <1>6, <1>7 DEF AuditInv
<1>9. Len(audits') <= MaxMerges
  BY <1>1, <1>5, <1>7, MergeBoundsAssumption
<1> QED
  BY <1>6, <1>8, <1>9

LEMMA UndoAudits ==
  ASSUME MergeTyped, AuditInv, NEW n \in DOMAIN audits, Undo(n)
  PROVE  /\ AuditInv' /\ Len(audits') <= MaxMerges
         /\ \A m \in DOMAIN audits' : AuditTyped(audits'[m])
<1> DEFINE ids == {audits[n].snapshot.source, audits[n].snapshot.target} \cup Written
<1>1. audits' = [Touch(ids) EXCEPT ![n].undone = TRUE]
  BY DEF Undo
<1>2. ids \subseteq Conversations \cup Clients
  BY DEF Written, MergeTyped, MergeTypeOK
<1>3. \A c \in Conversations \ ids : manual'[c] = manual[c]
  BY DEF Written
<1> HIDE DEF ids
<1>4. /\ DOMAIN Touch(ids) = DOMAIN audits /\ Len(Touch(ids)) = Len(audits)
      /\ Len(audits) \in Nat /\ DOMAIN audits = 1 .. Len(audits)
      /\ \A m \in DOMAIN audits : Marked(Touch(ids)[m], audits[m], ids)
  BY TouchIs
<1>5. DOMAIN audits' = DOMAIN audits /\ \A m \in DOMAIN audits : Marked(audits'[m], audits[m], ids)
  <2> DEFINE T == Touch(ids)
  <2>1. audits' = [T EXCEPT ![n] = [T[n] EXCEPT !.undone = TRUE]]
    BY <1>1
  <2>2. DOMAIN T = DOMAIN audits /\ \A m \in DOMAIN audits : Marked(T[m], audits[m], ids)
    BY <1>4
  <2> HIDE DEF T
  <2>3. DOMAIN audits' = DOMAIN audits
    BY <2>1, <2>2
  <2>4. \A m \in DOMAIN audits : m # n => audits'[m] = T[m]
    BY <2>1, <2>2
  <2>5. Marked(audits'[n], audits[n], ids)
    <3> DEFINE audit == audits'[n]
               marked == T[n]
    <3>1. audit = [marked EXCEPT !.undone = TRUE]
      BY <2>1, <2>2
    <3>2. Marked(marked, audits[n], ids)
      BY <2>2
    <3> HIDE DEF audit, marked
    <3>3. /\ audit.snapshot = marked.snapshot /\ audit.after = marked.after
          /\ audit.before = marked.before /\ audit.touched = marked.touched
      BY <3>1, <3>2 DEF Marked, IsAudit
    <3>4. IsAudit(audit)
      BY <3>1, <3>2 DEF Marked, IsAudit
    <3> QED
      BY <3>2, <3>3, <3>4 DEF Marked, audit
  <2> QED
    BY <2>2, <2>3, <2>4, <2>5
<1>6. audits' \in Seq({audits'[m] : m \in DOMAIN audits})
  <2> DEFINE S == {audits'[m] : m \in DOMAIN audits}
  <2>1. \A m \in 1 .. Len(audits) : audits'[m] \in S
    BY <1>4
  <2>2. audits' = [m \in 1 .. Len(audits) |-> audits'[m]]
    BY <1>1, <1>4
  <2> HIDE DEF S
  <2>3. audits' \in [1 .. Len(audits) -> S]
    BY <2>1, <2>2
  <2>4. audits' \in Seq(S)
    BY <1>4, <2>3
  <2> QED
    BY <2>4 DEF S
<1>7. \A m \in DOMAIN audits : AuditTyped(audits[m])
  BY DEF MergeTyped, MergeTypeOK, AuditTyped
<1>9. AuditInv'
  BY <1>3, <1>5, <1>6, TouchKeeps
<1>10. Len(audits') = Len(audits)
  BY <1>4, <1>5, <1>6
<1>11. \A m \in DOMAIN audits' : AuditTyped(audits'[m])
  BY <1>2, <1>5, <1>7 DEF AuditTyped, Marked, IsAudit
<1> QED
  BY <1>9, <1>10, <1>11 DEF MergeTyped, MergeTypeOK

\* A step that only marks rows keeps both.
LEMMA MarkKeeps ==
  ASSUME MergeTyped, AuditInv, Typed', NEW ids, ids \subseteq Conversations \cup Clients,
         audits' = Touch(ids),
         \A c \in Conversations \ ids : manual'[c] = manual[c],
         DOMAIN confirmed' = Conversations,
         \A c \in Conversations : confirmed'[c] \in [People(c) -> Clients \cup {None}],
         review' \subseteq Clients, preview' = preview, edits' \in 0 .. MaxEdits
  PROVE  MergeTyped' /\ AuditInv'
<1>1. AuditInv'
  BY OnlyTouched
<1>2. Len(audits') <= MaxMerges /\ \A n \in DOMAIN audits' : AuditTyped(audits'[n])
  BY TouchTyped
<1>3. MergeTypeOK'
  BY <1>2 DEF MergeTyped, MergeTypeOK, Typed, AuditTyped
<1> QED
  BY <1>1, <1>3 DEF MergeTyped

\* Every step of ClientMerge keeps the types and what the audits say.
LEMMA MergeStep == MergeTyped /\ AuditInv /\ [MergeNext]_mergeVars => MergeTyped' /\ AuditInv'
<1> SUFFICES ASSUME MergeTyped, AuditInv, [MergeNext]_mergeVars PROVE MergeTyped' /\ AuditInv'
  OBVIOUS
<1> USE MergeBoundsAssumption
<1>types. /\ Typed /\ DOMAIN confirmed = Conversations
          /\ \A c \in Conversations : confirmed[c] \in [People(c) -> Clients \cup {None}]
          /\ review \subseteq Clients /\ Cardinality(preview) <= 1 /\ edits \in 0 .. MaxEdits
  BY DEF MergeTyped, MergeTypeOK
<1>written. Written \subseteq Conversations \cup Clients
  BY DEF Written
<1>1. CASE Reconcile
  <2>1. Typed' 
    BY <1>1, <1>types, TypedStep DEF Reconcile
  <2>2. \A c \in Conversations \ Written : manual'[c] = manual[c]
    BY DEF Written
  <2>3. DOMAIN confirmed' = Conversations /\ \A c \in Conversations : confirmed'[c] \in [People(c) -> Clients \cup {None}]
    BY <1>1, <1>types DEF Reconcile, NoLinks
  <2> QED
    BY <1>1, <1>types, <1>written, <2>1, <2>2, <2>3, MarkKeeps DEF Reconcile
<1>2. ASSUME NEW s \in Clients, NEW t \in Clients, Preview(s, t) PROVE MergeTyped' /\ AuditInv'
  <2>1. /\ UNCHANGED <<vars, confirmed, review, audits, edits>> /\ preview' = {[snapshot |-> Snapshot(s, t), before |-> Before]}
    BY <1>2 DEF Preview
  <2>2. Typed'
    BY <1>types, <2>1, TypedStep
  <2>3. Cardinality(preview') <= 1
    <3>1. PICK new : new = [snapshot |-> Snapshot(s, t), before |-> Before]
      OBVIOUS
    <3>2. preview' = {new}
      BY <2>1, <3>1
    <3>3. Cardinality({new}) = 1
      BY FS_Singleton
    <3> QED
      BY <3>2, <3>3
  <2>4. AuditInv'
    BY <2>1 DEF AuditInv, ManualKept, vars, rows
  <2>5. MergeTypeOK'
    BY <1>types, <2>1, <2>2, <2>3 DEF MergeTyped, MergeTypeOK, Typed
  <2> QED
    BY <2>2, <2>4, <2>5 DEF MergeTyped
<1>3. ASSUME NEW s \in Clients, NEW t \in Clients, Merge(s, t) PROVE MergeTyped' /\ AuditInv'
  <2>1. Typed'
    BY <1>3, <1>types, MergeRows
  <2>2. AuditInv' /\ Len(audits') <= MaxMerges /\ \A n \in DOMAIN audits' : AuditTyped(audits'[n])
    BY <1>3, MergeAudits
  <2>3. Cardinality(preview') <= 1 
    BY <1>3, FS_EmptySet DEF Merge
  <2>4. confirmed' = confirmed /\ edits' = edits /\ review' \subseteq Clients
    BY <1>3, <1>types DEF Merge
  <2>5. MergeTypeOK'
    BY <1>types, <2>1, <2>2, <2>3, <2>4 DEF MergeTypeOK, Typed, AuditTyped
  <2> QED
    BY <2>1, <2>2, <2>5 DEF MergeTyped
<1>4. ASSUME NEW n \in DOMAIN audits, Undo(n) PROVE MergeTyped' /\ AuditInv'
  <2>1. Typed'
    BY <1>4, <1>types, UndoRows
  <2>2. AuditInv' /\ Len(audits') <= MaxMerges /\ \A m \in DOMAIN audits' : AuditTyped(audits'[m])
    BY <1>4, UndoAudits
  <2>3. preview' = preview /\ confirmed' = confirmed /\ edits' = edits
    BY <1>4 DEF Undo
  <2>4. review' \subseteq Clients
    <3>1. audits[n].snapshot.reviews \subseteq Clients
      BY DEF AuditInv, SnapshotOK
    <3> QED
      BY <1>4, <1>types, <3>1 DEF Undo
  <2>5. MergeTypeOK'
    BY <1>types, <2>1, <2>2, <2>3, <2>4 DEF MergeTypeOK, Typed, AuditTyped
  <2> QED
    BY <2>1, <2>2, <2>5 DEF MergeTyped
<1>5. ASSUME NEW p \in AllPeople, NEW cl \in Clients \cup {None}, Confirm(p[1], p[2], cl)
      PROVE  MergeTyped' /\ AuditInv'
  <2>1. /\ person' = [person EXCEPT ![p[1]][p[2]] = cl]
        /\ confirmed' = [confirmed EXCEPT ![p[1]][p[2]] = cl]
        /\ UNCHANGED <<status, assigned, manual, transcript, memory, facts, key, pc, session,
                 selections, review, preview, audits>>
        /\ edits < MaxEdits /\ edits' = edits + 1
    BY <1>5 DEF Confirm, MayEdit
  <2>2. p[1] \in Conversations /\ p[2] \in People(p[1])
    BY PeopleAre
  <2>3. DOMAIN person' = Conversations /\ \A c \in Conversations : person'[c] \in [People(c) -> Clients \cup {None}]
    BY <1>types, <2>1, <2>2, MergeTypes
  <2>4. Typed'
    BY <1>types, <2>1, <2>3, MergeTypes, RowsTyped
  <2>5. DOMAIN confirmed' = Conversations /\ \A c \in Conversations : confirmed'[c] \in [People(c) -> Clients \cup {None}]
    BY <1>types, <2>1, <2>2
  <2>6. AuditInv'
    BY <2>1 DEF AuditInv, ManualKept
  <2>7. MergeTypeOK'
    BY <1>types, <2>1, <2>4, <2>5 DEF MergeTyped, MergeTypeOK, Typed
  <2> QED
    BY <2>4, <2>6, <2>7 DEF MergeTyped
<1>6. ASSUME NEW cl \in Clients, Review(cl) PROVE MergeTyped' /\ AuditInv'
  <2>1. /\ UNCHANGED <<vars, confirmed, preview>> /\ audits' = Touch({cl})
        /\ review' = review \cup {cl} /\ edits < MaxEdits /\ edits' = edits + 1
    BY <1>6 DEF Review, MayEdit
  <2>2. Typed' /\ manual' = manual
    BY <1>types, <2>1, TypedStep DEF vars, rows
  <2>3. {cl} \subseteq Conversations \cup Clients /\ review' \subseteq Clients /\ edits' \in 0 .. MaxEdits
    BY <1>types, <2>1
  <2> QED
    BY <1>types, <2>1, <2>2, <2>3, MarkKeeps
<1>7. ASSUME NEW c \in Conversations, Edit(c) PROVE MergeTyped' /\ AuditInv'
  <2>1. /\ UNCHANGED <<vars, confirmed, review, preview>> /\ audits' = Touch({c})
        /\ edits < MaxEdits /\ edits' = edits + 1
    BY <1>7 DEF Edit, MayEdit
  <2>2. Typed' /\ manual' = manual
    BY <1>types, <2>1, TypedStep DEF vars, rows
  <2>3. {c} \subseteq Conversations \cup Clients /\ edits' \in 0 .. MaxEdits
    BY <1>types, <2>1
  <2> QED
    BY <1>types, <2>1, <2>2, <2>3, MarkKeeps
<1>8. CASE UNCHANGED mergeVars
  <2>1. UNCHANGED <<vars, confirmed, review, preview, audits, edits>>
    BY <1>8 DEF mergeVars, mergeRows
  <2>2. Typed'
    BY <1>types, <2>1, TypedStep
  <2>3. AuditInv'
    BY <2>1 DEF AuditInv, ManualKept, vars, rows
  <2>4. MergeTypeOK'
    BY <1>types, <2>1, <2>2 DEF MergeTyped, MergeTypeOK, Typed
  <2> QED
    BY <2>2, <2>3, <2>4 DEF MergeTyped
<1> QED
  BY <1>1, <1>2, <1>3, <1>4, <1>5, <1>6, <1>7, <1>8 DEF MergeNext

\* The types of the merge's rows hold in every reachable state.
THEOREM MergeTypeCorrect == MergeSpec => []MergeTypeOK
<1>1. MergeInit => MergeTyped /\ AuditInv
  BY MergeTypedInit
<1>2. MergeTyped /\ AuditInv /\ [MergeNext]_mergeVars => (MergeTyped /\ AuditInv)'
  BY MergeStep
<1>3. MergeTyped /\ AuditInv => MergeTypeOK
  BY DEF MergeTyped
<1> QED
  BY <1>1, <1>2, <1>3, PTL DEF MergeSpec

-----------------------------------------------------------------------------
(* Every link names a client *)

\* A client that is there stays, and a new one is there: a processing step frees no id.
LEMMA NextKeepsClients ==
  ASSUME Typed, Next, NEW cl \in Clients, Exists(cl)
  PROVE  Exists(cl)'
<1> USE MergeTypes, KeysAssumption DEF Exists
<1>1. ASSUME NEW a \in Attempts, Create(a) PROVE Exists(cl)'
  BY <1>1 DEF Create
<1>2. CASE UNCHANGED key
  BY <1>2
<1>3. ASSUME NEW a \in Attempts, Attempt(a), ~Create(a) PROVE UNCHANGED key
  BY <1>3 DEF Attempt, Begin, Stop, ReadTranscript, ResetTranscript, Transcribe, TranscribeFails,
       Persist, Match, LinkPerson, EndMatching, RecordFacts, Assign, Finish, rows
<1>4. ASSUME NEW c \in Conversations, NEW d \in Clients, Unlink(c) \/ Delete(c) \/ Link(c, d)
      PROVE  UNCHANGED key
  BY <1>4 DEF Unlink, Delete, Link
<1> QED
  BY <1>1, <1>2, <1>3, <1>4 DEF Next

\* A link that a processing step or the user makes is to a client that is there.
LEMMA NextLinksClients ==
  ASSUME Typed, LinksNameClients, Next, NEW c \in Conversations
  PROVE  /\ assigned'[c] = None \/ Exists(assigned'[c])
         /\ \A i \in People(c) : person'[c][i] = None \/ Exists(person'[c][i])
         /\ \A cl \in Clients : facts'[c][cl] > 0 => Exists(cl)
<1> DEFINE Linked ==
         /\ assigned'[c] = None \/ Exists(assigned'[c])
         /\ \A i \in People(c) : person'[c][i] = None \/ Exists(person'[c][i])
         /\ \A cl \in Clients : facts'[c][cl] > 0 => Exists(cl)
<1>0. /\ assigned[c] = None \/ Exists(assigned[c])
      /\ \A i \in People(c) : person[c][i] = None \/ Exists(person[c][i])
      /\ \A cl \in Clients : facts[c][cl] > 0 => Exists(cl)
  BY DEF LinksNameClients
<1>1. ASSUME NEW a \in Attempts, LinkPerson(a) PROVE Linked
  <2>1. CASE UNCHANGED person
    BY <1>0, <1>1, <2>1 DEF LinkPerson
  <2>2. CASE MayRefer(Of[a], hold[a]) /\ person' = [person EXCEPT ![Of[a]][Turn(a)] = hold[a]]
    <3>1. Exists(hold[a]) /\ Of[a] \in Conversations
      BY <2>2, AttemptsAssumption DEF MayRefer
    <3>2. \A i \in People(c) : person'[c][i] = None \/ Exists(person'[c][i])
      BY <1>0, <2>2, <3>1, MergeTypes
    <3> QED
      BY <1>0, <1>1, <3>2 DEF LinkPerson
  <2> QED
    BY <1>1, <2>1, <2>2 DEF LinkPerson
<1>2. ASSUME NEW a \in Attempts, RecordFacts(a) PROVE Linked
  <2>1. CASE UNCHANGED facts
    BY <1>0, <1>2, <2>1 DEF RecordFacts
  <2>2. ASSUME NEW cl, MayRefer(Of[a], cl), facts' = [facts EXCEPT ![Of[a]][cl] = @ + 1]
        PROVE  Linked
    <3>1. Exists(cl)
      BY <2>2 DEF MayRefer
    <3>2. \A d \in Clients : facts'[c][d] > 0 => Exists(d)
      BY <1>0, <2>2, <3>1, MergeTypes
    <3> QED
      BY <1>0, <1>2, <3>2 DEF RecordFacts
  <2> QED
    BY <1>2, <2>1, <2>2 DEF RecordFacts
<1>3. ASSUME NEW a \in Attempts, Assign(a) PROVE Linked
  <2>1. \/ assigned' = assigned
        \/ Exists(Head(matched[a])) /\ assigned' = [assigned EXCEPT ![Of[a]] = Head(matched[a])]
    BY <1>3 DEF Assign
  <2>2. assigned'[c] = None \/ Exists(assigned'[c])
    BY <1>0, <2>1, MergeTypes
  <2> QED
    BY <1>0, <1>3, <2>2 DEF Assign
<1>4. ASSUME NEW a \in Attempts, Attempt(a), ~LinkPerson(a), ~RecordFacts(a), ~Assign(a) PROVE Linked
  <2>1. UNCHANGED <<assigned, person, facts>>
    BY <1>4 DEF Attempt, Begin, Stop, ReadTranscript, ResetTranscript, Transcribe, TranscribeFails,
         Persist, Match, Create, EndMatching, Finish, rows
  <2> QED
    BY <1>0, <2>1
<1>5. ASSUME NEW d \in Conversations, Unlink(d) PROVE Linked
  <2>1. assigned'[c] = None \/ Exists(assigned'[c])
    BY <1>0, <1>5, MergeTypes DEF Unlink
  <2> QED
    BY <1>0, <1>5, <2>1 DEF Unlink
<1>6. ASSUME NEW d \in Conversations, NEW cl \in Clients, Link(d, cl) PROVE Linked
  <2>1. assigned'[c] = None \/ Exists(assigned'[c])
    BY <1>0, <1>6, MergeTypes DEF Link
  <2> QED
    BY <1>0, <1>6, <2>1 DEF Link
<1>7. ASSUME NEW d \in Conversations, Delete(d) PROVE Linked
  BY <1>0, <1>7, MergeTypes DEF Delete, NoLinks, NoFacts
<1> QED
  BY <1>1, <1>2, <1>3, <1>4, <1>5, <1>6, <1>7 DEF Next

LEMMA LinksStep ==
  MergeTyped /\ AuditInv /\ LinksNameClients /\ [MergeNext]_mergeVars => LinksNameClients'
<1> SUFFICES ASSUME MergeTyped, AuditInv, LinksNameClients, [MergeNext]_mergeVars PROVE LinksNameClients'
  OBVIOUS
<1>typed. Typed
  BY DEF MergeTyped
<1>0. \A c \in Conversations :
      /\ assigned[c] = None \/ Exists(assigned[c])
      /\ \A i \in People(c) : person[c][i] = None \/ Exists(person[c][i])
      /\ \A cl \in Clients : facts[c][cl] > 0 => Exists(cl)
  BY DEF LinksNameClients
<1>none. None \notin Clients
  BY <1>typed, MergeTypes
<1>1. CASE Reconcile
  <2>1. \A cl : Exists(cl) => Exists(cl)'
    <3>1. \A cl : Exists(cl) => cl \in Clients
      BY DEF Exists
    <3> QED
      BY <1>1, <1>typed, <3>1, NextKeepsClients DEF Reconcile
  <2>2. ASSUME NEW c \in Conversations
        PROVE  /\ assigned'[c] = None \/ Exists(assigned'[c])
               /\ \A i \in People(c) : person'[c][i] = None \/ Exists(person'[c][i])
               /\ \A cl \in Clients : facts'[c][cl] > 0 => Exists(cl)
    BY <1>1, <1>typed, NextLinksClients DEF Reconcile
  <2> QED
    BY <2>1, <2>2 DEF LinksNameClients, Exists
<1>2. ASSUME NEW s \in Clients, NEW t \in Clients, Merge(s, t) PROVE LinksNameClients'
  <2> DEFINE to(cl) == IF cl = s THEN t ELSE cl
  <2>1. /\ s # t /\ Exists(t)
        /\ assigned' = [c \in Conversations |-> to(assigned[c])]
        /\ person' = [c \in Conversations |-> [i \in People(c) |-> to(person[c][i])]]
        /\ facts' = [c \in Conversations |-> [facts[c] EXCEPT ![t] = @ + facts[c][s], ![s] = 0]]
        /\ key' = [key EXCEPT ![s] = None]
    BY <1>2 DEF Merge, MayMerge
  <2>2. \A cl : Exists(cl) => Exists(to(cl))'
    BY <1>typed, <2>1, MergeTypes DEF Exists
  <2>3. to(None) = None
    BY <1>none
  <2>4. ASSUME NEW c \in Conversations, NEW cl \in Clients, facts'[c][cl] > 0 PROVE Exists(cl)'
    <3>1. cl # s
      BY <1>typed, <2>1, <2>4, MergeTypes
    <3>2. to(cl) = cl
      BY <3>1
    <3>3. Exists(cl)
      BY <1>0, <1>typed, <2>1, <2>4, <3>1, MergeTypes
    <3> QED
      BY <2>2, <3>2, <3>3
  <2> HIDE DEF to
  <2>5. ASSUME NEW c \in Conversations
        PROVE  /\ assigned'[c] = None \/ Exists(assigned[c])'
               /\ \A i \in People(c) : person'[c][i] = None \/ Exists(person[c][i])'
    <3>1. assigned'[c] = to(assigned[c]) /\ \A i \in People(c) : person'[c][i] = to(person[c][i])
      BY <2>1
    <3> QED
      BY <1>0, <2>2, <2>3, <3>1 DEF Exists
  <2> QED
    BY <2>4, <2>5 DEF LinksNameClients
<1>3. ASSUME NEW n \in DOMAIN audits, Undo(n) PROVE LinksNameClients'
  <2> DEFINE old == audits[n].snapshot
             moved == Moved(old)
             mentioned == {p \in DOMAIN old.person : old.person[p] = old.source}
  <2>1. /\ key' = [key EXCEPT ![old.source] = old.key]
        /\ assigned' = [c \in Conversations |-> IF c \in moved THEN old.source ELSE assigned[c]]
        /\ person' = [c \in Conversations |-> [i \in People(c) |->
                        IF <<c, i>> \in mentioned THEN old.source ELSE person[c][i]]]
        /\ facts' = [c \in Conversations |->
                       [facts[c] EXCEPT ![old.source] = old.facts[c][old.source],
                                        ![old.target] = @ - old.facts[c][old.source]]]
        /\ Exists(old.target)
    BY <1>3 DEF Undo, MayUndo
  <2>2. PICK s \in Clients, t \in Clients : s = old.source /\ t = old.target /\ s # t /\ old.key \in Keys
    BY DEF AuditInv, SnapshotOK
  <2> HIDE DEF moved, mentioned, old
  <2>3. (\A cl : Exists(cl) => Exists(cl)') /\ Exists(s)'
    BY <1>typed, <2>1, <2>2, MergeTypes DEF Exists
  <2>4. ASSUME NEW c \in Conversations, NEW cl \in Clients, facts'[c][cl] > 0 PROVE Exists(cl)'
    <3>1. cl # s /\ cl # t => Exists(cl)
      BY <1>0, <1>typed, <2>1, <2>2, <2>4, MergeTypes
    <3> QED
      BY <2>1, <2>2, <2>3, <3>1
  <2>5. ASSUME NEW c \in Conversations
        PROVE  /\ assigned'[c] = None \/ Exists(assigned[c])'
               /\ \A i \in People(c) : person'[c][i] = None \/ Exists(person[c][i])'
    <3>1. /\ assigned'[c] = s \/ assigned'[c] = assigned[c]
          /\ \A i \in People(c) : person'[c][i] = s \/ person'[c][i] = person[c][i]
      BY <2>1, <2>2
    <3> QED
      BY <1>0, <2>3, <3>1 DEF Exists
  <2> QED
    BY <2>4, <2>5 DEF LinksNameClients
<1>4. ASSUME NEW p \in AllPeople, NEW cl \in Clients \cup {None}, Confirm(p[1], p[2], cl)
      PROVE  LinksNameClients'
  <2>1. /\ person' = [person EXCEPT ![p[1]][p[2]] = cl] /\ (cl = None \/ Exists(cl))
        /\ UNCHANGED <<assigned, facts, key>>
    BY <1>4 DEF Confirm
  <2>2. \A c \in Conversations : \A i \in People(c) : person'[c][i] = cl \/ person'[c][i] = person[c][i]
    BY <1>typed, <2>1, MergeTypes
  <2> QED
    BY <1>0, <2>1, <2>2 DEF LinksNameClients, Exists
<1>5. CASE UNCHANGED <<assigned, person, facts, key>>
  BY <1>0, <1>5 DEF LinksNameClients, Exists
<1>6. ASSUME NEW s \in Clients, NEW t \in Clients, Preview(s, t) PROVE UNCHANGED <<assigned, person, facts, key>>
  BY <1>6 DEF Preview, vars, rows
<1>7. ASSUME NEW cl \in Clients, Review(cl) PROVE UNCHANGED <<assigned, person, facts, key>>
  BY <1>7 DEF Review, vars, rows
<1>8. ASSUME NEW c \in Conversations, Edit(c) PROVE UNCHANGED <<assigned, person, facts, key>>
  BY <1>8 DEF Edit, vars, rows
<1>9. CASE UNCHANGED mergeVars
  BY <1>5, <1>9 DEF mergeVars, vars, rows
<1> QED
  BY <1>1, <1>2, <1>3, <1>4, <1>5, <1>6, <1>7, <1>8, <1>9 DEF MergeNext

\* Whatever merges, undos, processing steps and users do in whatever order, no link and
\* no fact names a client that is gone.
THEOREM LinksStayValid == MergeSpec => []LinksNameClients
<1>1. MergeInit => LinksNameClients
  <2> SUFFICES ASSUME MergeInit PROVE LinksNameClients
    OBVIOUS
  <2>1. /\ assigned \in [Conversations -> Existing \cup {None}]
        /\ person = [c \in Conversations |-> NoLinks(c)] /\ facts = [c \in Conversations |-> NoFacts]
        /\ key = [cl \in Clients |-> IF cl \in Existing THEN KeyOf[cl] ELSE Free]
    BY DEF MergeInit, Init
  <2>2. \A cl \in Existing : Exists(cl)
    BY <2>1, KeysAssumption, ClientsAssumption DEF Exists
  <2> QED
    BY <2>1, <2>2 DEF LinksNameClients, NoLinks, NoFacts
<1>2. MergeInit => MergeTyped /\ AuditInv
  BY MergeTypedInit
<1>3. MergeTyped /\ AuditInv /\ LinksNameClients /\ [MergeNext]_mergeVars
        => (MergeTyped /\ AuditInv /\ LinksNameClients)'
  BY MergeStep, LinksStep
<1> QED
  BY <1>1, <1>2, <1>3, PTL DEF MergeSpec

-----------------------------------------------------------------------------
(* The undo *)

\* Only its undo marks an audit as undone.
LEMMA OnlyUndo ==
  ASSUME MergeTyped, AuditInv, [MergeNext]_mergeVars, NEW n \in DOMAIN audits, IsUndo(n)
  PROVE  Undo(n)
<1>0. audits'[n].undone # audits[n].undone
  BY DEF IsUndo
<1>same. ASSUME NEW ids PROVE DOMAIN Touch(ids) = DOMAIN audits /\ Touch(ids)[n].undone = audits[n].undone
  BY TouchIs
<1>1. ASSUME NEW ids, audits' = Touch(ids) PROVE FALSE
  BY <1>0, <1>1, <1>same
<1>2. ASSUME UNCHANGED audits PROVE FALSE
  BY <1>0, <1>2
<1>3. ASSUME NEW s \in Clients, NEW t \in Clients, Merge(s, t) PROVE FALSE
  <2>1. PICK new : audits' = Append(Touch({t} \cup Written), new)
    BY <1>3 DEF Merge
  <2>2. audits'[n] = Touch({t} \cup Written)[n]
    BY <2>1, Appended
  <2> QED
    BY <1>0, <1>same, <2>2
<1>4. ASSUME NEW m \in DOMAIN audits, Undo(m), m # n PROVE FALSE
  <2> DEFINE T == Touch({audits[m].snapshot.source, audits[m].snapshot.target} \cup Written)
  <2>1. audits' = [T EXCEPT ![m].undone = TRUE]
    BY <1>4 DEF Undo
  <2>2. DOMAIN T = DOMAIN audits /\ T[n].undone = audits[n].undone
    BY <1>same
  <2> HIDE DEF T
  <2>3. audits'[n] = T[n]
    BY <1>4, <2>1, <2>2
  <2> QED
    BY <1>0, <2>2, <2>3
<1>5. ASSUME NEW s \in Clients, NEW t \in Clients, Preview(s, t) PROVE FALSE
  BY <1>2, <1>5 DEF Preview
<1>6. ASSUME NEW c, NEW i, NEW cl, Confirm(c, i, cl) PROVE FALSE
  BY <1>2, <1>6 DEF Confirm
<1>7. CASE UNCHANGED mergeVars
  BY <1>2, <1>7 DEF mergeVars, mergeRows
<1> QED
  BY <1>1, <1>3, <1>4, <1>5, <1>6, <1>7 DEF MergeNext, Reconcile, Review, Edit

\* What an undo finds: nothing of the retained client was written since the merge, and
\* every conversation and person of the pair is where the merge left it.
LEMMA UndoFinds ==
  ASSUME Typed, AuditInv, NEW n \in DOMAIN audits, Unchanged(audits[n])
  PROVE  LET old == audits[n].snapshot
             before == audits[n].before
             pair == {old.source, old.target}
         IN
         /\ old.source # old.target
         /\ \A c \in Conversations : 
              (before.assigned[c] \in pair) <=> (assigned[c] = old.target)
         /\ \A c \in Conversations : before.assigned[c] \in pair =>
              /\ c \notin audits[n].touched /\ before.manual[c] \in BOOLEAN
              /\ manual[c] <=> (before.manual[c] \/ before.assigned[c] = old.source)
         /\ \A p \in AllPeople : before.person[p[1]][p[2]] \in pair =>
              /\ ClientOf(p) = old.target
              /\ confirmed[p[1]][p[2]] = before.confirmed[p[1]][p[2]]
         /\ old.target \notin audits[n].touched
<1> DEFINE old == audits[n].snapshot
           before == audits[n].before
           after == audits[n].after
           pair == {old.source, old.target}
<1>1. SnapshotOK(audits[n]) /\ AfterOK(audits[n]) /\ ManualKept(audits[n])
  BY DEF AuditInv
<1>2. Unwritten(audits[n]) /\ MergedState(old.target) = after
  BY DEF Unchanged
<1>3. old.source # old.target /\ \A c \in Conversations : before.manual[c] \in BOOLEAN
  BY <1>1 DEF SnapshotOK
<1>4. after.conversations = {c \in Conversations : before.assigned[c] \in pair}
  BY <1>1 DEF AfterOK
<1>5. MergedState(old.target).conversations = {c \in Conversations : assigned[c] = old.target}
  BY DEF MergedState, LinkedConversations
<1>6. \A c \in Conversations : (before.assigned[c] \in pair) <=> (assigned[c] = old.target)
  BY <1>2, <1>4, <1>5
<1>7. \A c \in Conversations : assigned[c] = old.target => c \notin audits[n].touched
  BY <1>2 DEF Unwritten, LinkedConversations
<1>8. \A c \in Conversations \ audits[n].touched :
        manual[c] <=> before.manual[c] \/ before.assigned[c] = old.source
  BY <1>1 DEF ManualKept
<1>9. old.target \notin audits[n].touched
  BY <1>2 DEF Unwritten
<1>10. ASSUME NEW p \in AllPeople, before.person[p[1]][p[2]] \in pair
       PROVE  /\ ClientOf(p) = old.target
              /\ confirmed[p[1]][p[2]] = before.confirmed[p[1]][p[2]]
  <2>1. Left(audits[n], before.person[p[1]][p[2]]) = old.target
    BY <1>10 DEF Left
  <2>2. p \in DOMAIN after.people /\ after.people[p] = <<old.target, before.confirmed[p[1]][p[2]]>>
    BY <1>1, <2>1 DEF AfterOK
  <2> DEFINE people == {q \in AllPeople : ClientOf(q) = old.target \/ assigned[q[1]] = old.target}
  <2>3. MergedState(old.target).people = [q \in people |-> <<ClientOf(q), confirmed[q[1]][q[2]]>>]
    BY DEF MergedState
  <2> HIDE DEF people
  <2>4. after.people[p] = <<ClientOf(p), confirmed[p[1]][p[2]]>>
    BY <1>2, <2>2, <2>3
  <2> QED
    BY <2>2, <2>4
<1> HIDE DEF before, old, after
<1> QED
  BY <1>3, <1>6, <1>7, <1>8, <1>9, <1>10 DEF before, old

\* What an undo does.
LEMMA UndoIs ==
  ASSUME Typed, AuditInv, NEW n \in DOMAIN audits, Undo(n)
  PROVE  LET old == audits[n].snapshot
             before == audits[n].before
             pair == {old.source, old.target}
         IN
         /\ Unchanged(audits[n])
         /\ confirmed' = confirmed
         /\ \A c \in Conversations :
              IF before.assigned[c] = old.source
              THEN assigned'[c] = old.source /\ manual'[c] = before.manual[c]
              ELSE assigned'[c] = assigned[c] /\ manual'[c] = manual[c]
         /\ \A p \in AllPeople :
              ClientOf(p)' = IF before.person[p[1]][p[2]] = old.source THEN old.source ELSE ClientOf(p)
         /\ review' \cap pair = before.review \cap pair
         /\ \A c \in Conversations : \A cl \in pair : facts'[c][cl] = before.facts[c][cl]
<1> DEFINE old == audits[n].snapshot
           before == audits[n].before
           pair == {old.source, old.target}
           moved == Moved(old)
           mentioned == {p \in DOMAIN old.person : old.person[p] = old.source}
<1>1. /\ assigned' = [c \in Conversations |-> IF c \in moved THEN old.source ELSE assigned[c]]
      /\ manual' = [c \in Conversations |-> IF c \in moved THEN old.manual[c] ELSE manual[c]]
      /\ person' = [c \in Conversations |-> [i \in People(c) |->
                      IF <<c, i>> \in mentioned THEN old.source ELSE person[c][i]]]
      /\ facts' = [c \in Conversations |->
                     [facts[c] EXCEPT ![old.source] = old.facts[c][old.source],
                                      ![old.target] = @ - old.facts[c][old.source]]]
      /\ review' = (review \ pair) \cup old.reviews
      /\ Unchanged(audits[n]) /\ confirmed' = confirmed
  BY DEF Undo, RestoredManual
<1>2. /\ old.source \in Clients /\ old.target \in Clients /\ old.source # old.target
      /\ old.reviews = pair \cap before.review
      /\ \A c \in Conversations : c \in moved <=> before.assigned[c] = old.source
      /\ \A c \in moved : old.manual[c] = before.manual[c]
      /\ \A p \in AllPeople : p \in mentioned <=> before.person[p[1]][p[2]] = old.source
  BY DEF AuditInv, SnapshotOK, Moved
<1>3. ASSUME NEW c \in Conversations, NEW cl \in pair PROVE facts'[c][cl] = before.facts[c][cl]
  <2>1. /\ old.facts[c][old.source] = before.facts[c][old.source]
        /\ before.facts[c][old.source] \in Nat /\ before.facts[c][old.target] \in Nat
        /\ facts[c][old.target] = before.facts[c][old.source] + before.facts[c][old.target]
    BY <1>1, UndoFacts
  <2>2. facts'[c] = [facts[c] EXCEPT ![old.source] = old.facts[c][old.source],
                                     ![old.target] = @ - old.facts[c][old.source]]
    BY <1>1
  <2>3. facts[c] \in [Clients -> Nat]
    BY MergeTypes
  <2> HIDE DEF old, before
  <2> QED
    BY <1>2, <2>1, <2>2, <2>3
<1>4. ASSUME NEW p \in AllPeople
      PROVE  ClientOf(p)' = IF before.person[p[1]][p[2]] = old.source THEN old.source ELSE ClientOf(p)
  <2>1. PICK c \in Conversations : \E i \in People(c) : p = <<c, i>>
    BY PeopleAre
  <2>2. PICK i \in People(c) : p = <<c, i>>
    BY <2>1
  <2>3. person'[c][i] = IF p \in mentioned THEN old.source ELSE person[c][i]
    BY <1>1, <2>2
  <2> QED
    BY <1>2, <2>2, <2>3 DEF ClientOf
<1> HIDE DEF moved, mentioned
<1>5. ASSUME NEW c \in Conversations
      PROVE  IF before.assigned[c] = old.source
              THEN assigned'[c] = old.source /\ manual'[c] = before.manual[c]
              ELSE assigned'[c] = assigned[c] /\ manual'[c] = manual[c]
  BY <1>1, <1>2
<1>6. review' \cap pair = before.review \cap pair
  BY <1>1, <1>2
<1> HIDE DEF old, before
<1> QED
  BY <1>1, <1>3, <1>4, <1>5, <1>6 DEF old, before

\* An undo puts every conversation, person, fact and review of the pair back where it
\* was before the merge, however much happened in between.
THEOREM UndoIsFaithful == MergeSpec => UndoRestores
<1> DEFINE pair(n) == {audits[n].snapshot.source, audits[n].snapshot.target}
           Restored(n) ==
             LET before == audits[n].before IN
             /\ review' \cap pair(n) = before.review \cap pair(n)
             /\ \A c \in Conversations :
                  /\ \A cl \in pair(n) : facts'[c][cl] = before.facts[c][cl]
                  /\ before.assigned[c] \in pair(n) =>
                       <<assigned[c], manual[c]>>' = <<before.assigned[c], before.manual[c]>>
                  /\ \A i \in People(c) :
                       before.person[c][i] \in pair(n) => person'[c][i] = before.person[c][i]
           Step == \A n \in DOMAIN audits : IsUndo(n) => Restored(n)
<1>1. MergeTyped /\ AuditInv /\ [MergeNext]_mergeVars => Step
  <2> SUFFICES ASSUME MergeTyped, AuditInv, [MergeNext]_mergeVars,
                      NEW n \in DOMAIN audits, IsUndo(n)
               PROVE  Restored(n)
    OBVIOUS
  <2> DEFINE old == audits[n].snapshot
             before == audits[n].before
  <2>1. Typed /\ Undo(n)
    BY OnlyUndo DEF MergeTyped
  <2>2. /\ Unchanged(audits[n])
        /\ \A c \in Conversations :
             IF before.assigned[c] = old.source
             THEN assigned'[c] = old.source /\ manual'[c] = before.manual[c]
             ELSE assigned'[c] = assigned[c] /\ manual'[c] = manual[c]
        /\ \A p \in AllPeople :
             ClientOf(p)' = IF before.person[p[1]][p[2]] = old.source THEN old.source ELSE ClientOf(p)
        /\ review' \cap pair(n) = before.review \cap pair(n)
        /\ \A c \in Conversations : \A cl \in pair(n) : facts'[c][cl] = before.facts[c][cl]
    BY <2>1, UndoIs
  <2>3. /\ old.source # old.target
        /\ \A c \in Conversations :
              before.assigned[c] \in pair(n) <=> (assigned[c] = old.target)
        /\ \A c \in Conversations : before.assigned[c] \in pair(n) =>
              /\ before.manual[c] \in BOOLEAN
              /\ manual[c] <=> (before.manual[c] \/ before.assigned[c] = old.source)
        /\ \A p \in AllPeople : before.person[p[1]][p[2]] \in pair(n) => ClientOf(p) = old.target
    BY <2>1, <2>2, UndoFinds
  <2>4. ASSUME NEW c \in Conversations, before.assigned[c] \in pair(n)
        PROVE  assigned'[c] = before.assigned[c] /\ manual'[c] = before.manual[c]
    <3>1. CASE before.assigned[c] = old.source
      BY <2>2, <3>1
    <3>2. CASE before.assigned[c] # old.source
      <4>1. assigned'[c] = assigned[c] /\ manual'[c] = manual[c]
        BY <2>2, <3>2
      <4>2. manual[c] \in BOOLEAN /\ before.manual[c] \in BOOLEAN /\ (manual[c] <=> before.manual[c])
        BY <2>1, <2>3, <2>4, <3>2, MergeTypes
      <4>3. manual[c] = before.manual[c]
        BY <4>2
      <4>4. assigned[c] = before.assigned[c]
        BY <2>3, <2>4, <3>2
      <4> QED
        BY <4>1, <4>3, <4>4
    <3> QED
      BY <3>1, <3>2
  <2>5. ASSUME NEW c \in Conversations, NEW i \in People(c), before.person[c][i] \in pair(n)
        PROVE  person'[c][i] = before.person[c][i]
    <3> DEFINE p == <<c, i>>
    <3>1. p \in AllPeople /\ p[1] = c /\ p[2] = i
      BY PeopleAre
    <3>2. ClientOf(p) = person[c][i] /\ ClientOf(p)' = person'[c][i]
      BY DEF ClientOf
    <3> HIDE DEF p
    <3>3. ClientOf(p) = old.target /\ before.person[p[1]][p[2]] = before.person[c][i]
      BY <2>3, <2>5, <3>1
    <3>4. ClientOf(p)' = IF before.person[c][i] = old.source THEN old.source ELSE ClientOf(p)
      BY <2>2, <3>1
    <3> QED
      BY <2>5, <3>2, <3>3, <3>4
  <2> QED
    BY <2>2, <2>4, <2>5
<1>2. MergeInit => MergeTyped /\ AuditInv
  BY MergeTypedInit
<1>3. MergeTyped /\ AuditInv /\ [MergeNext]_mergeVars => (MergeTyped /\ AuditInv)'
  BY MergeStep
<1>4. MergeSpec => [][Step]_mergeVars
  <2> HIDE DEF Step
  <2> QED
    BY <1>1, <1>2, <1>3, PTL DEF MergeSpec
<1> QED
  BY <1>4 DEF UndoRestores

\* An undo never overwrites what was written after the merge.
THEOREM UndoKeepsNewerWork == MergeSpec => NewerWorkIsKept
<1> DEFINE Kept(n) ==
             LET old == audits[n].snapshot
                 before == audits[n].before
                 left(cl) == IF cl = old.source THEN old.target ELSE cl
             IN
             /\ \A c \in audits[n].touched \cap Conversations :
                  <<assigned[c], manual[c]>>' = <<assigned[c], manual[c]>>
             /\ old.target \in audits[n].touched =>
                  review' \cap {old.target} = review \cap {old.target}
             /\ \A p \in AllPeople :
                  \/ ClientOf(p)' = ClientOf(p)
                  \/ /\ ClientOf(p) = left(before.person[p[1]][p[2]])
                     /\ confirmed[p[1]][p[2]] = before.confirmed[p[1]][p[2]]
           Step == \A n \in DOMAIN audits : IsUndo(n) => Kept(n)
<1>1. MergeTyped /\ AuditInv /\ [MergeNext]_mergeVars => Step
  <2> SUFFICES ASSUME MergeTyped, AuditInv, [MergeNext]_mergeVars,
                      NEW n \in DOMAIN audits, IsUndo(n)
               PROVE  Kept(n)
    OBVIOUS
  <2> DEFINE old == audits[n].snapshot
             before == audits[n].before
             pair == {old.source, old.target}
  <2>1. Typed /\ Undo(n)
    BY OnlyUndo DEF MergeTyped
  <2>2. /\ Unchanged(audits[n])
        /\ \A c \in Conversations :
             IF before.assigned[c] = old.source
             THEN assigned'[c] = old.source /\ manual'[c] = before.manual[c]
             ELSE assigned'[c] = assigned[c] /\ manual'[c] = manual[c]
        /\ \A p \in AllPeople :
             ClientOf(p)' = IF before.person[p[1]][p[2]] = old.source THEN old.source ELSE ClientOf(p)
    BY <2>1, UndoIs
  <2>3. /\ old.source # old.target
        /\ \A c \in Conversations : before.assigned[c] \in pair => c \notin audits[n].touched
        /\ \A p \in AllPeople : before.person[p[1]][p[2]] \in pair =>
              /\ ClientOf(p) = old.target
              /\ confirmed[p[1]][p[2]] = before.confirmed[p[1]][p[2]]
        /\ old.target \notin audits[n].touched
    BY <2>1, <2>2, UndoFinds
  <2> QED
    BY <2>2, <2>3
<1>2. MergeInit => MergeTyped /\ AuditInv
  BY MergeTypedInit
<1>3. MergeTyped /\ AuditInv /\ [MergeNext]_mergeVars => (MergeTyped /\ AuditInv)'
  BY MergeStep
<1>4. MergeSpec => [][Step]_mergeVars
  <2> HIDE DEF Step
  <2> QED
    BY <1>1, <1>2, <1>3, PTL DEF MergeSpec
<1> QED
  BY <1>4 DEF NewerWorkIsKept

-----------------------------------------------------------------------------
(* The merge *)

\* Only a merge adds an audit.
LEMMA OnlyMerge ==
  ASSUME AuditInv, [MergeNext]_mergeVars, Len(audits') > Len(audits)
  PROVE  \E s, t \in Clients : Merge(s, t)
<1>same. ASSUME NEW ids PROVE Len(Touch(ids)) = Len(audits) /\ Len(audits) \in Nat
  BY TouchIs
<1>1. ASSUME NEW ids, audits' = Touch(ids) PROVE FALSE
  BY <1>1, <1>same
<1>2. ASSUME UNCHANGED audits PROVE FALSE
  BY <1>2, <1>same
<1>3. ASSUME NEW m \in DOMAIN audits, Undo(m) PROVE FALSE
  <2> DEFINE T == Touch({audits[m].snapshot.source, audits[m].snapshot.target} \cup Written)
  <2>1. audits' = [T EXCEPT ![m].undone = TRUE]
    BY <1>3 DEF Undo
  <2>2. T \in Seq({T[n] : n \in DOMAIN audits}) /\ DOMAIN T = DOMAIN audits
        /\ Len(T) = Len(audits) /\ Len(audits) \in Nat /\ DOMAIN audits = 1 .. Len(audits)
    BY TouchIs
  <2> HIDE DEF T
  <2>3. DOMAIN audits' = 1 .. Len(audits)
    BY <2>1, <2>2
  <2>4. Len(audits') = Len(audits)
    BY <2>2, <2>3
  <2> QED
    BY <2>2, <2>4
<1>4. ASSUME NEW s \in Clients, NEW t \in Clients, Preview(s, t) PROVE FALSE
  BY <1>2, <1>4 DEF Preview
<1>5. ASSUME NEW c, NEW i, NEW cl, Confirm(c, i, cl) PROVE FALSE
  BY <1>2, <1>5 DEF Confirm
<1>6. CASE UNCHANGED mergeVars
  BY <1>2, <1>6 DEF mergeVars, mergeRows
<1> QED
  BY <1>1, <1>3, <1>4, <1>5, <1>6 DEF MergeNext, Reconcile, Review, Edit

\* What the user was last shown is what the rows were then.
PreviewInv == \A p \in preview : SnapshotOK(p)

LEMMA PreviewStep == MergeTyped /\ PreviewInv /\ [MergeNext]_mergeVars => PreviewInv'
<1> SUFFICES ASSUME MergeTyped, PreviewInv, [MergeNext]_mergeVars PROVE PreviewInv'
  OBVIOUS
<1>1. ASSUME NEW s \in Clients, NEW t \in Clients, Preview(s, t) PROVE PreviewInv'
  <2>1. PICK new : new = [snapshot |-> Snapshot(s, t), before |-> Before]
    OBVIOUS
  <2>2. preview' = {new} /\ MayMerge(s, t) /\ new.snapshot = Snapshot(s, t) /\ new.before = Before
    BY <1>1, <2>1 DEF Preview
  <2>3. SnapshotOK(new)
    BY <2>2, SnapshotIs DEF MergeTyped
  <2> QED
    BY <2>2, <2>3 DEF PreviewInv
<1>2. ASSUME NEW s \in Clients, NEW t \in Clients, Merge(s, t) PROVE PreviewInv'
  BY <1>2 DEF Merge, PreviewInv
<1>3. ASSUME preview' = preview PROVE PreviewInv'
  BY <1>3 DEF PreviewInv
<1>4. ASSUME NEW n \in DOMAIN audits, Undo(n) PROVE preview' = preview
  BY <1>4 DEF Undo
<1>5. ASSUME NEW c, NEW i, NEW cl, Confirm(c, i, cl) PROVE preview' = preview
  BY <1>5 DEF Confirm
<1>6. CASE UNCHANGED mergeVars
  BY <1>3, <1>6 DEF mergeVars, mergeRows
<1> QED
  BY <1>1, <1>2, <1>3, <1>4, <1>5, <1>6 DEF MergeNext, Reconcile, Review, Edit

\* Rows of two times agree on a pair of clients.
Agree(one, other, pair) ==
  /\ pair \cap one.review = pair \cap other.review
  /\ \A c \in Conversations :
       /\ one.assigned[c] \in pair <=> other.assigned[c] \in pair
       /\ one.assigned[c] \in pair =>
            one.assigned[c] = other.assigned[c] /\ one.manual[c] = other.manual[c]
       /\ \A cl \in pair : one.facts[c][cl] = other.facts[c][cl]
  /\ \A x \in AllPeople :
       /\ one.person[x[1]][x[2]] \in pair <=> other.person[x[1]][x[2]] \in pair
       /\ one.person[x[1]][x[2]] \in pair => one.person[x[1]][x[2]] = other.person[x[1]][x[2]]

\* They do if the same snapshot was taken of both.
LEMMA SameSnapshot ==
  ASSUME NEW p, NEW q, SnapshotOK(p), SnapshotOK(q), p.snapshot = q.snapshot,
         NEW s, NEW t, p.snapshot.source = s, p.snapshot.target = t
  PROVE  Agree(p.before, q.before, {s, t})
<1>1. PICK old : old = p.snapshot /\ old = q.snapshot
  OBVIOUS
<1>2. /\ DOMAIN old.assigned = {c \in Conversations : p.before.assigned[c] \in {s, t}}
      /\ DOMAIN old.assigned = {c \in Conversations : q.before.assigned[c] \in {s, t}}
      /\ \A c \in DOMAIN old.assigned : old.assigned[c] = p.before.assigned[c] /\ old.manual[c] = p.before.manual[c]
      /\ \A c \in DOMAIN old.assigned : old.assigned[c] = q.before.assigned[c] /\ old.manual[c] = q.before.manual[c]
  BY <1>1 DEF SnapshotOK
<1>3. /\ DOMAIN old.person = {x \in AllPeople : p.before.person[x[1]][x[2]] \in {s, t}}
      /\ DOMAIN old.person = {x \in AllPeople : q.before.person[x[1]][x[2]] \in {s, t}}
      /\ \A x \in DOMAIN old.person : old.person[x] = p.before.person[x[1]][x[2]]
      /\ \A x \in DOMAIN old.person : old.person[x] = q.before.person[x[1]][x[2]]
  BY <1>1 DEF SnapshotOK
<1>4. /\ {s, t} \cap p.before.review = {s, t} \cap q.before.review
      /\ \A c \in Conversations, cl \in {s, t} : p.before.facts[c][cl] = q.before.facts[c][cl]
  BY <1>1 DEF SnapshotOK
<1>5. ASSUME NEW c \in Conversations
      PROVE  /\ p.before.assigned[c] \in {s, t} <=> q.before.assigned[c] \in {s, t}
             /\ p.before.assigned[c] \in {s, t} =>
                  /\ p.before.assigned[c] = q.before.assigned[c]
                  /\ p.before.manual[c] = q.before.manual[c]
  BY <1>2
<1>6. ASSUME NEW x \in AllPeople
      PROVE  /\ p.before.person[x[1]][x[2]] \in {s, t} <=> q.before.person[x[1]][x[2]] \in {s, t}
             /\ p.before.person[x[1]][x[2]] \in {s, t} =>
                  p.before.person[x[1]][x[2]] = q.before.person[x[1]][x[2]]
  BY <1>3
<1> QED
  BY <1>4, <1>5, <1>6 DEF Agree

\* What the user was shown of the pair is what the merge finds.
LEMMA ShownIsFound ==
  ASSUME Typed, PreviewInv, NEW s \in Clients, NEW t \in Clients, Merge(s, t)
  PROVE  \E p \in preview :
           p.snapshot.source = s /\ p.snapshot.target = t /\ Agree(p.before, Before, {s, t})
<1>1. PICK p \in preview : p.snapshot = Snapshot(s, t)
  BY DEF Merge, Fresh
<1>2. PICK now : now = [snapshot |-> Snapshot(s, t), before |-> Before]
  OBVIOUS
<1>3. now.snapshot = Snapshot(s, t) /\ now.before = Before
  BY <1>2
<1>4. MayMerge(s, t)
  BY DEF Merge
<1>5. SnapshotOK(now) /\ now.snapshot.source = s /\ now.snapshot.target = t
  BY <1>3, <1>4, SnapshotIs
<1>6. SnapshotOK(p) /\ p.snapshot = now.snapshot
  BY <1>1, <1>3 DEF PreviewInv
<1>7. p.snapshot.source = s /\ p.snapshot.target = t
  BY <1>5, <1>6
<1>8. Agree(p.before, now.before, {s, t})
  BY <1>5, <1>6, <1>7, SameSnapshot
<1> QED
  BY <1>3, <1>7, <1>8

\* A merge of s into t does to the rows what was shown of them.
AsShown(shown, s, t) ==
  /\ review \ review' = shown.review \cap {s, t}
  /\ \A c \in Conversations :
       /\ assigned'[c] # assigned[c] => shown.assigned[c] = s
       /\ shown.assigned[c] \in {s, t} =>
            /\ assigned'[c] = t
            /\ manual'[c] = (shown.manual[c] \/ shown.assigned[c] = s)
       /\ \A i \in People(c) :
            /\ person'[c][i] # person[c][i] => shown.person[c][i] = s
            /\ shown.person[c][i] \in {s, t} => person'[c][i] = t
       /\ facts'[c] = [facts[c] EXCEPT ![s] = 0, ![t] = shown.facts[c][s] + shown.facts[c][t]]

LEMMA MergesAgreed ==
  ASSUME Typed, NEW s \in Clients, NEW t \in Clients, Merge(s, t), NEW shown, Agree(shown, Before, {s, t})
  PROVE  AsShown(shown, s, t)
<1>1. /\ Before.assigned = assigned /\ Before.manual = manual /\ Before.person = person
      /\ Before.facts = facts /\ Before.review = review
  BY DEF Before
<1>2. /\ s # t /\ review' = review \ {s, t}
      /\ assigned' = [c \in Conversations |-> IF assigned[c] = s THEN t ELSE assigned[c]]
      /\ manual' = [c \in Conversations |-> manual[c] \/ assigned[c] = s]
      /\ person' = [c \in Conversations |-> [i \in People(c) |-> IF person[c][i] = s THEN t ELSE person[c][i]]]
      /\ facts' = [c \in Conversations |-> [facts[c] EXCEPT ![t] = @ + facts[c][s], ![s] = 0]]
  BY DEF Merge, MayMerge
<1>3. review \ review' = shown.review \cap {s, t}
  BY <1>1, <1>2 DEF Agree
<1>4. ASSUME NEW c \in Conversations
      PROVE  /\ assigned'[c] # assigned[c] => shown.assigned[c] = s
             /\ shown.assigned[c] \in {s, t} =>
                  /\ assigned'[c] = t
                  /\ manual'[c] = (shown.manual[c] \/ shown.assigned[c] = s)
  <2>1. /\ assigned'[c] = (IF assigned[c] = s THEN t ELSE assigned[c])
        /\ manual'[c] = (manual[c] \/ assigned[c] = s)
    BY <1>2
  <2>2. /\ shown.assigned[c] \in {s, t} <=> assigned[c] \in {s, t}
        /\ shown.assigned[c] \in {s, t} => shown.assigned[c] = assigned[c] /\ shown.manual[c] = manual[c]
    BY <1>1 DEF Agree
  <2> QED
    BY <2>1, <2>2
<1>5. ASSUME NEW c \in Conversations, NEW i \in People(c)
      PROVE  /\ person'[c][i] # person[c][i] => shown.person[c][i] = s
             /\ shown.person[c][i] \in {s, t} => person'[c][i] = t
  <2>1. person'[c][i] = (IF person[c][i] = s THEN t ELSE person[c][i])
    BY <1>2
  <2>2. <<c, i>> \in AllPeople
    BY PeopleAre
  <2>3. /\ shown.person[c][i] \in {s, t} <=> person[c][i] \in {s, t}
        /\ shown.person[c][i] \in {s, t} => shown.person[c][i] = person[c][i]
    BY <1>1, <2>2 DEF Agree
  <2> QED
    BY <2>1, <2>3
<1>6. ASSUME NEW c \in Conversations
      PROVE  facts'[c] = [facts[c] EXCEPT ![s] = 0, ![t] = shown.facts[c][s] + shown.facts[c][t]]
  <2>1. facts[c] \in [Clients -> Nat]
    BY MergeTypes
  <2>2. facts'[c] = [facts[c] EXCEPT ![t] = @ + facts[c][s], ![s] = 0]
    BY <1>2
  <2>3. shown.facts[c][s] = facts[c][s] /\ shown.facts[c][t] = facts[c][t]
    BY <1>1 DEF Agree
  <2> QED
    BY <1>2, <2>1, <2>2, <2>3
<1> QED
  BY <1>3, <1>4, <1>5, <1>6 DEF AsShown

\* What a merge does to the rows of the time of its preview is what the user was shown:
\* conversations, people, facts and reviews, whatever happened since (client/merge.py 94-116).
THEOREM MergesAreAsShown == MergeSpec => MergeIsAsShown
<1> DEFINE Step ==
      Len(audits') > Len(audits) =>
       LET s == audits'[Len(audits')].snapshot.source
           t == audits'[Len(audits')].snapshot.target
       IN
       \E p \in preview :
         p.snapshot.source = s /\ p.snapshot.target = t /\ AsShown(p.before, s, t)
<1> DEFINE Says ==
      Len(audits') > Len(audits) =>
       LET s == audits'[Len(audits')].snapshot.source
           t == audits'[Len(audits')].snapshot.target
       IN
       \E p \in preview :
         LET shown == p.before IN
         /\ p.snapshot.source = s /\ p.snapshot.target = t
         /\ review \ review' = shown.review \cap {s, t}
         /\ \A c \in Conversations :
              /\ assigned'[c] # assigned[c] => shown.assigned[c] = s
              /\ shown.assigned[c] \in {s, t} =>
                   /\ assigned'[c] = t
                   /\ manual'[c] = (shown.manual[c] \/ shown.assigned[c] = s)
              /\ \A i \in People(c) :
                   /\ person'[c][i] # person[c][i] => shown.person[c][i] = s
                   /\ shown.person[c][i] \in {s, t} => person'[c][i] = t
              /\ facts'[c] = [facts[c] EXCEPT ![s] = 0, ![t] = shown.facts[c][s] + shown.facts[c][t]]
<1>0. Step => Says
  BY DEF AsShown
<1>1. MergeTyped /\ AuditInv /\ PreviewInv /\ [MergeNext]_mergeVars => Step
  <2> SUFFICES ASSUME MergeTyped, AuditInv, PreviewInv, [MergeNext]_mergeVars, Len(audits') > Len(audits)
               PROVE  Step
    BY DEF Step
  <2>1. PICK s \in Clients, t \in Clients : Merge(s, t)
    BY OnlyMerge
  <2>2. Typed
    BY DEF MergeTyped
  <2>3. PICK new : new = AuditOf(s, t)
    OBVIOUS
  <2>4. audits' = Append(Touch({t} \cup Written), new)
    BY <2>1, <2>3 DEF Merge, AuditOf
  <2>5. SaysMerge(new, s, t)
    BY <2>1, <2>2, <2>3, NewAudit
  <2>6. audits'[Len(audits')] = new
    BY <2>4, Appended
  <2>7. audits'[Len(audits')].snapshot.source = s /\ audits'[Len(audits')].snapshot.target = t
    BY <2>5, <2>6 DEF SaysMerge
  <2>8. PICK p \in preview :
          p.snapshot.source = s /\ p.snapshot.target = t /\ Agree(p.before, Before, {s, t})
    BY <2>1, <2>2, ShownIsFound
  <2>9. AsShown(p.before, s, t)
    BY <2>1, <2>2, <2>8, MergesAgreed
  <2>10. \E q \in preview : q.snapshot.source = s /\ q.snapshot.target = t /\ AsShown(q.before, s, t)
    BY <2>8, <2>9
  <2> QED
    BY <2>7, <2>10
<1>2. MergeInit => MergeTyped /\ AuditInv /\ PreviewInv
  BY MergeTypedInit DEF MergeInit, PreviewInv
<1>3. MergeTyped /\ AuditInv /\ PreviewInv /\ [MergeNext]_mergeVars => (MergeTyped /\ AuditInv /\ PreviewInv)'
  BY MergeStep, PreviewStep
<1>4. MergeSpec => [][Says]_mergeVars
  <2> HIDE DEF Step, Says
  <2> QED
    BY <1>0, <1>1, <1>2, <1>3, PTL DEF MergeSpec
<1> QED
  BY <1>4 DEF MergeIsAsShown

-----------------------------------------------------------------------------
(* Merges of completed conversations *)

SourceOf(n) == audits[n].snapshot.source
TargetOf(n) == audits[n].snapshot.target
Open(n) == ~audits[n].undone

(* An id that was in a merge is never new again, and the clients that are merged   *)
(* away are as many as the merges that were not undone.                          *)
SourcesInv ==
  /\ \A n \in DOMAIN audits : key[SourceOf(n)] # Free /\ key[TargetOf(n)] # Free
  /\ \A n \in DOMAIN audits : Open(n) => key[SourceOf(n)] = None
  /\ \A n, m \in DOMAIN audits : Open(n) /\ Open(m) /\ SourceOf(n) = SourceOf(m) => n = m

(* Has an attempt linked the person yet? If so the client is the person's still,  *)
(* or is merged away.                                                           *)
Turned(a, i) == i \in DOMAIN matched[a]
Traced(a, i) ==
  IF Turned(a, i)
  THEN /\ person[Of[a]][i] # None /\ key[matched[a][i]] # Free
       /\ Exists(matched[a][i]) => person[Of[a]][i] = matched[a][i]
  ELSE person[Of[a]][i] = None

MatchedInv ==
  /\ \A a \in Attempts : Live(a) =>
       /\ Len(matched[a]) <= Len(Mentions[Of[a]])
       /\ pc[a] = "recording" => Len(matched[a]) = Len(Mentions[Of[a]])
       /\ pc[a] # "recording" => recorded[a] = {}
  /\ \A a \in Attempts : ~Live(a) /\ pc[a] # "finishing" => matched[a] = <<>> /\ recorded[a] = {}
  /\ \A a \in Attempts : Live(a) /\ Present(Of[a]) => \A i \in People(Of[a]) : Traced(a, i)
  /\ \A c \in Conversations : Present(c) /\ ~memory[c] => \A i \in People(c) : person[c][i] = None

(* What the undo of a merge will give back to its source is the source's in the    *)
(* attempts that run as well.                                                   *)
Foreseen(audit, a, i) ==
  LET s == audit.snapshot.source
      t == audit.snapshot.target
      was == audit.before.person[Of[a]][i]
  IN  IF Turned(a, i)
      THEN (matched[a][i] = s => was = s) /\ (matched[a][i] = t => was # s)
      ELSE was # s

ForeseenInv ==
  \A n \in DOMAIN audits : Open(n) =>
    /\ \A a \in Attempts : Live(a) /\ Present(Of[a]) =>
         \A i \in People(Of[a]) : Foreseen(audits[n], a, i)
    /\ \A c \in Conversations : Present(c) /\ ~memory[c] =>
         \A i \in People(c) : audits[n].before.person[c][i] # SourceOf(n)

(* A merge whose retained client was not written since: it has only gained facts.   *)
Standing(audit) ==
  ~audit.undone /\ audit.snapshot.target \notin audit.touched /\ Exists(audit.snapshot.target)

GainedInv ==
  \A n \in DOMAIN audits : Standing(audits[n]) =>
    \A c \in Conversations : Present(c) => facts[c][TargetOf(n)] >= audits[n].after.facts[c]

(* A choice of the user's, which no undo takes back: not what a merge made manual.  *)
Kept(audit, c) ==
  ~audit.undone /\ c \notin audit.touched /\ audit.before.assigned[c] = audit.snapshot.source
Firm(c) == manual[c] /\ \A n \in DOMAIN audits : Kept(audits[n], c) => audits[n].before.manual[c]

FirmInv ==
  /\ \A a \in Attempts : loaded[a] /\ Present(Of[a]) => Firm(Of[a])
  /\ \A n \in DOMAIN audits, c \in Conversations :
       Kept(audits[n], c) => status[c] \in {"completed", "failed"}

(* Whose facts were recorded for the conversation, while its attempt goes on or ends *)
(* and when it has completed it.                                                *)
Recorded(c, i) ==
  \E a \in Attempts : Of[a] = c /\ Live(a) /\ Turned(a, i) /\ matched[a][i] \in recorded[a]
Ending(c) == c \notin Silent /\ \E a \in Attempts : Of[a] = c /\ pc[a] = "finishing"
Done(c) == status[c] = "completed" /\ memory[c]
Told(c, i) == Present(c) /\ (Recorded(c, i) \/ ((Ending(c) \/ Done(c)) /\ ~Firm(c)))

ToldHasFacts == \A c \in Conversations : \A i \in People(c) :
  Told(c, i) => person[c][i] # None /\ facts[c][person[c][i]] > 0

(* A person of the retained client whose facts were recorded had them before the     *)
(* merge, unless more were recorded since.                                      *)
HadFacts(audit, c, i) ==
  LET was == audit.before.person[c][i] IN
  was \in {audit.snapshot.source, audit.snapshot.target} /\ audit.before.facts[c][was] > 0

ToldHadFacts ==
  \A n \in DOMAIN audits : Standing(audits[n]) =>
    \A c \in Conversations : \A i \in People(c) :
      Told(c, i) /\ person[c][i] = TargetOf(n) /\ facts[c][TargetOf(n)] <= audits[n].after.facts[c]
        => HadFacts(audits[n], c, i)

UneditedInv ==
  SourcesInv /\ MatchedInv /\ ForeseenInv /\ GainedInv /\ FirmInv /\ ToldHasFacts /\ ToldHadFacts

\* At first there are no merges and nobody is matched.
LEMMA UneditedInit == MergeInit => UneditedInv
<1> SUFFICES ASSUME MergeInit PROVE UneditedInv
  OBVIOUS
<1>1. /\ audits = <<>> /\ Init
      /\ \A c \in Conversations : status[c] = "waiting" /\ ~memory[c] /\ person[c] = NoLinks(c)
      /\ \A a \in Attempts : pc[a] = "new" /\ ~loaded[a] /\ matched[a] = <<>> /\ recorded[a] = {}
  BY DEF MergeInit, Init
<1>2. SourcesInv /\ ForeseenInv /\ GainedInv /\ ToldHadFacts /\ FirmInv
  BY <1>1, AttemptsAssumption DEF SourcesInv, ForeseenInv, GainedInv, ToldHadFacts, FirmInv
<1>3. MatchedInv
  BY <1>1, AttemptsAssumption DEF MatchedInv, Live, Matching, NoLinks
<1>4. ToldHasFacts
  BY <1>1 DEF ToldHasFacts, Told, Recorded, Ending, Done, Live, Matching
<1> QED
  BY <1>2, <1>3, <1>4 DEF UneditedInv

-----------------------------------------------------------------------------
(* What a step does to the audits *)

(* An audit that is as it was, but for the rows that are marked.                *)
Carried(n, ids) == Marked(audits'[n], audits[n], ids) /\ audits'[n].undone = audits[n].undone

\* It says the same of the same clients.
LEMMA CarriedSays ==
  ASSUME NEW n, NEW ids, Carried(n, ids)
  PROVE  /\ SourceOf(n)' = SourceOf(n) /\ TargetOf(n)' = TargetOf(n) /\ (Open(n)' <=> Open(n))
         /\ audits'[n].after = audits[n].after /\ audits'[n].before = audits[n].before
         /\ Standing(audits[n])' <=>
              Open(n) /\ TargetOf(n) \notin audits[n].touched \cup ids /\ Exists(TargetOf(n))'
         /\ \A c : Kept(audits[n], c)' <=> Kept(audits[n], c) /\ c \notin ids
BY DEF Carried, Marked, SourceOf, TargetOf, Open, Standing, Kept, Exists

\* Marking rows carries every audit.
LEMMA TouchCarries ==
  ASSUME AuditInv, NEW ids, audits' = Touch(ids)
  PROVE  DOMAIN audits' = DOMAIN audits /\ \A n \in DOMAIN audits : Carried(n, ids)
BY TouchIs DEF Carried

\* A merge adds its own audit.
LEMMA MergeCarries ==
  ASSUME Typed, AuditInv, NEW s \in Clients, NEW t \in Clients, Merge(s, t)
  PROVE  LET N == Len(audits) + 1 IN
         /\ DOMAIN audits' = DOMAIN audits \cup {N} /\ N \notin DOMAIN audits
         /\ \A n \in DOMAIN audits : Carried(n, {t} \cup Written)
         /\ SaysMerge(audits'[N], s, t) /\ audits'[N].before = Before
<1> DEFINE ids == {t} \cup Written
           new == AuditOf(s, t)
<1>1. audits' = Append(Touch(ids), new)
  BY DEF Merge, AuditOf
<1>2. SaysMerge(new, s, t)
  BY NewAudit
<1>3. new.before = Before
  BY DEF AuditOf
<1> HIDE DEF ids, new
<1>4. Len(audits) \in Nat /\ DOMAIN audits = 1 .. Len(audits)
  BY TouchIs
<1>5. /\ DOMAIN audits' = 1 .. Len(audits) + 1 /\ audits'[Len(audits) + 1] = new
      /\ \A n \in DOMAIN audits : audits'[n] = Touch(ids)[n]
  BY <1>1, Appended
<1>6. \A n \in DOMAIN audits : Carried(n, ids)
  BY <1>5, TouchIs DEF Carried
<1>7. DOMAIN audits' = DOMAIN audits \cup {Len(audits) + 1} /\ Len(audits) + 1 \notin DOMAIN audits
  BY <1>4, <1>5
<1> QED
  BY <1>2, <1>3, <1>5, <1>6, <1>7 DEF ids

\* An undo closes its audit.
LEMMA UndoCarries ==
  ASSUME AuditInv, NEW n \in DOMAIN audits, Undo(n)
  PROVE  LET ids == {SourceOf(n), TargetOf(n)} \cup Written IN
         /\ DOMAIN audits' = DOMAIN audits /\ audits'[n].undone
         /\ Marked(audits'[n], audits[n], ids)
         /\ \A m \in DOMAIN audits \ {n} : Carried(m, ids)
<1> DEFINE ids == {SourceOf(n), TargetOf(n)} \cup Written
           T == Touch(ids)
<1>1. audits' = [T EXCEPT ![n] = [T[n] EXCEPT !.undone = TRUE]]
  BY DEF Undo, SourceOf, TargetOf
<1>2. DOMAIN T = DOMAIN audits /\ \A m \in DOMAIN audits : Marked(T[m], audits[m], ids) /\ T[m].undone = audits[m].undone
  BY TouchIs
<1> HIDE DEF T
<1>3. DOMAIN audits' = DOMAIN audits /\ \A m \in DOMAIN audits \ {n} : audits'[m] = T[m]
  BY <1>1, <1>2
<1>4. Marked(audits'[n], audits[n], ids) /\ audits'[n].undone
  <2> DEFINE audit == audits'[n]
             marked == T[n]
  <2>1. audit = [marked EXCEPT !.undone = TRUE]
    BY <1>1, <1>2
  <2>2. Marked(marked, audits[n], ids)
    BY <1>2
  <2> HIDE DEF audit, marked, ids
  <2>3. /\ audit.snapshot = marked.snapshot /\ audit.after = marked.after
        /\ audit.before = marked.before /\ audit.touched = marked.touched
        /\ audit.undone /\ IsAudit(audit)
    BY <2>1, <2>2 DEF Marked, IsAudit
  <2> QED
    BY <2>2, <2>3 DEF Marked, audit
<1>5. \A m \in DOMAIN audits \ {n} : Carried(m, ids)
  BY <1>2, <1>3 DEF Carried
<1> QED
  BY <1>3, <1>4, <1>5

-----------------------------------------------------------------------------
(* What a processing step does to the rows *)

\* No step of an attempt or of the user brings back a conversation or changes a client.
LEMMA NextKeeps ==
  ASSUME Typed, Next
  PROVE  /\ \A cl \in Clients : key[cl] # Free => key'[cl] = key[cl]
         /\ \A c \in Conversations : Present(c)' => Present(c)
         /\ \A c \in Conversations : Present(c)' => (memory[c] => memory'[c]) /\ (manual[c] => manual'[c])
<1> USE MergeTypes, PastTypes DEF Present
<1>1. ASSUME NEW a \in Attempts, Attempt(a)
      PROVE  /\ \A c \in Conversations : status'[c] # "deleted" => status[c] # "deleted"
             /\ manual' = manual
    BY <1>1 DEF Attempt, Begin, Stop, ReadTranscript, ResetTranscript, Transcribe, TranscribeFails, Persist,
         Match, Create, LinkPerson, EndMatching, RecordFacts, Assign, Finish, Fail, End, rows
<1>2. ASSUME NEW a \in Attempts, Create(a)
      PROVE  memory' = memory /\ \A cl \in Clients : key[cl] # Free => key'[cl] = key[cl]
  BY <1>2 DEF Create
<1>3. ASSUME NEW a \in Attempts, Persist(a)
      PROVE  key' = key /\ \A c \in Conversations : memory[c] => memory'[c]
  BY <1>3 DEF Persist
<1>4. ASSUME NEW a \in Attempts, Attempt(a), ~Create(a), ~Persist(a) PROVE key' = key /\ memory' = memory
  BY <1>4 DEF Attempt, Begin, Stop, ReadTranscript, ResetTranscript, Transcribe, TranscribeFails,
       Match, LinkPerson, EndMatching, RecordFacts, Assign, Finish, rows
<1>5. ASSUME NEW c \in Conversations, Unlink(c) \/ \E cl \in Clients : Link(c, cl)
      PROVE  key' = key /\ memory' = memory /\ status' = status /\ \A d \in Conversations : manual[d] => manual'[d]
  BY <1>5 DEF Unlink, Link
<1>6. ASSUME NEW c \in Conversations, Delete(c)
      PROVE  /\ key' = key /\ status'[c] = "deleted"
             /\ \A d \in Conversations \ {c} : status'[d] = status[d] /\ memory'[d] = memory[d] /\ manual'[d] = manual[d]
  BY <1>6 DEF Delete
<1>7. ASSUME NEW a \in Attempts, Attempt(a)
      PROVE  /\ \A cl \in Clients : key[cl] # Free => key'[cl] = key[cl]
             /\ \A c \in Conversations : memory[c] => memory'[c]
  BY <1>2, <1>3, <1>4, <1>7
<1>8. CASE \E a \in Attempts : Attempt(a)
  BY <1>1, <1>7, <1>8
<1>9. CASE \E c \in Conversations : Unlink(c) \/ \E cl \in Clients : Link(c, cl)
  BY <1>5, <1>9
<1>10. CASE \E c \in Conversations : Delete(c)
  BY <1>6, <1>10
<1> QED
  BY <1>8, <1>9, <1>10 DEF Next

\* A person of an attempt that matches stays as it was, is linked in its turn, or is of a
\* memory that has just been stored.
LEMMA MatchGoes ==
  ASSUME Typed, PastInv, MatchedInv, Next,
         NEW a \in Attempts, Live(a)', Present(Of[a])', NEW i \in People(Of[a])
  PROVE  LET linked == person'[Of[a]][i] IN
         \/ /\ Live(a) /\ (Turned(a, i)' <=> Turned(a, i)) /\ linked = person[Of[a]][i]
            /\ Turned(a, i) => matched'[a][i] = matched[a][i]
         \/ /\ Live(a) /\ ~Turned(a, i) /\ Turned(a, i)'
            /\ Exists(matched'[a][i]) /\ linked = matched'[a][i]
         \/ ~memory[Of[a]] /\ ~Turned(a, i)' /\ linked = person[Of[a]][i]
<1> DEFINE c == Of[a]
           Still == Live(a) /\ matched'[a] = matched[a] /\ person'[c][i] = person[c][i]
           Same == /\ Live(a) /\ (Turned(a, i)' <=> Turned(a, i)) /\ person'[c][i] = person[c][i]
                   /\ Turned(a, i) => matched'[a][i] = matched[a][i]
           Linked == /\ Live(a) /\ ~Turned(a, i) /\ Turned(a, i)'
                     /\ Exists(matched'[a][i]) /\ person'[c][i] = matched'[a][i]
           Stored == ~memory[c] /\ ~Turned(a, i)' /\ person'[c][i] = person[c][i]
<1>0. Still => Same
  BY DEF Turned
<1>c. c \in Conversations
  BY PastTypes
<1>1. ASSUME NEW b \in Attempts, Attempt(b), Fail(b) PROVE Still
  <2>1. /\ pc'[b] = "ended" /\ \A d \in Attempts \ {b} : pc'[d] = pc[d] /\ matched'[d] = matched[d]
    BY <1>1, PastTypes, WholeTypes DEF Fail, End
  <2>2. ~Begin(b) /\ ~Match(b) /\ ~Create(b) /\ ~EndMatching(b)
    BY <2>1, PastTypes DEF Begin, Match, Create, EndMatching, Go
  <2>3. UNCHANGED person
    BY <1>1, <2>1, <2>2, PastTypes
       DEF Attempt, Stop, ReadTranscript, ResetTranscript, Transcribe, TranscribeFails, Persist,
         LinkPerson, RecordFacts, Assign, Finish, Go, rows
  <2> QED
    BY <2>1, <2>3 DEF Live, Matching
<1>2. ASSUME NEW b \in Attempts, Begin(b) \/ ReadTranscript(b) \/ (ResetTranscript(b) /\ ~Fail(b)) \/ Transcribe(b)
      PROVE  Still
  <2>1. UNCHANGED <<person, matched>>
    BY <1>2 DEF Begin, ReadTranscript, ResetTranscript, Transcribe, rows, session
  <2>2. \E place \in {"reading", "resetting", "transcribing", "extracting", "finishing"} : pc' = [pc EXCEPT ![b] = place]
    BY <1>2 DEF Begin, ReadTranscript, ResetTranscript, Transcribe, Go
  <2> QED
    BY <2>1, <2>2, PastTypes DEF Live, Matching
<1>3. ASSUME NEW b \in Attempts, Persist(b), ~Fail(b) PROVE Still \/ Stored
  <2>1. /\ UNCHANGED <<person, matched>> /\ ~memory[Of[b]] /\ pc[b] = "extracting"
        /\ \E place \in {"finishing", "matching"} : pc' = [pc EXCEPT ![b] = place]
    BY <1>3 DEF Persist, MayPersist, Go, session
  <2>2. CASE b = a
    <3>1. matched[a] = <<>>
      BY <2>1, <2>2 DEF MatchedInv, Live, Matching
    <3> QED
      BY <2>1, <2>2, <3>1 DEF Turned
  <2>3. CASE b # a
    BY <2>1, <2>3, PastTypes DEF Live
  <2> QED
    BY <2>2, <2>3
<1>4. ASSUME NEW b \in Attempts, Match(b) \/ Create(b) \/ EndMatching(b) \/ (RecordFacts(b) /\ ~Fail(b)) PROVE Still
  <2>1. UNCHANGED <<person, matched>>
    BY <1>4 DEF Match, Create, EndMatching, RecordFacts, rows, session
  <2>2. pc[b] \in {"matching", "creating", "recording"} /\ \E place : pc' = [pc EXCEPT ![b] = place]
    BY <1>4, PastTypes DEF Match, Create, EndMatching, RecordFacts, Go
  <2> QED
    BY <2>1, <2>2, PastTypes DEF Live, Matching
<1>5. ASSUME NEW b \in Attempts, LinkPerson(b), ~Fail(b) PROVE Same \/ Linked
  <2> DEFINE n == Len(matched[b]) + 1
  <2>1. /\ person' = [person EXCEPT ![Of[b]] = [@ EXCEPT ![n] = hold[b]]]
        /\ matched' = [matched EXCEPT ![b] = Append(@, hold[b])]
        /\ pc[b] = "linking" /\ pc' = [pc EXCEPT ![b] = "matching"] /\ key' = key
        /\ Exists(hold[b]) /\ hold[b] \in Clients
    BY <1>5 DEF LinkPerson, MayRefer, Exists, Go, Turn
  <2>2. CASE b # a
    <3>1. Live(a) /\ Live(b)
      BY <2>1, <2>2, PastTypes DEF Live, Matching
    <3>2. Of[b] # c
      BY <2>2, <3>1, WholeAlone
    <3> QED
      BY <1>0, <2>1, <2>2, <3>1, <3>2, WholeTypes, PastTypes
  <2>3. CASE b = a
    <3>1. Live(a) /\ matched[a] \in Seq(Clients) /\ matched'[a] = Append(matched[a], hold[a])
      BY <2>1, <2>3, WholeTypes DEF Live, Matching
    <3>2. person'[c] = [person[c] EXCEPT ![n] = hold[a]] /\ person[c] \in [People(c) -> Clients \cup {None}]
      BY <1>c, <2>1, <2>3, WholeTypes
    <3>3. CASE i = n
      <4>1. i \notin DOMAIN matched[a] /\ i \in DOMAIN matched'[a] /\ matched'[a][i] = hold[a]
        BY <2>1, <2>3, <3>1, <3>3
      <4>2. person'[c][i] = hold[a]
        BY <3>2, <3>3
      <4> QED
        BY <2>1, <2>3, <3>1, <4>1, <4>2 DEF Turned
    <3>4. CASE i # n
      <4>1. person'[c][i] = person[c][i]
        BY <3>2, <3>4
      <4>2. /\ i \in DOMAIN matched'[a] <=> i \in DOMAIN matched[a]
            /\ i \in DOMAIN matched[a] => matched'[a][i] = matched[a][i]
        BY <2>1, <2>3, <3>1, <3>4, <1>c, WholeTypes
      <4> QED
        BY <3>1, <4>1, <4>2 DEF Turned
    <3> HIDE DEF Same, Linked
    <3> QED
      BY <3>3, <3>4
  <2> QED
    BY <2>2, <2>3
<1>6. ASSUME NEW b \in Attempts, (Assign(b) /\ ~Fail(b)) \/ Finish(b) PROVE Still
  <2>1. /\ UNCHANGED person /\ \A d \in Attempts \ {b} : pc'[d] = pc[d] /\ matched'[d] = matched[d]
        /\ pc'[b] \in {"finishing", "ended"}
    BY <1>6, PastTypes, WholeTypes DEF Assign, Finish, End, Go, session
  <2> QED
    BY <2>1 DEF Live, Matching
<1>7. ASSUME NEW d \in Conversations, Unlink(d) \/ Delete(d) \/ \E cl \in Clients : Link(d, cl) PROVE Still
  <2>1. /\ UNCHANGED <<pc, matched>>
        /\ person' = person \/ (person' = [person EXCEPT ![d] = NoLinks(d)] /\ status'[d] = "deleted")
    BY <1>7, PastTypes DEF Unlink, Delete, Link, session
  <2> QED
    BY <1>c, <2>1, WholeTypes DEF Live, Present
<1>8. ASSUME NEW b \in Attempts, Stop(b) \/ TranscribeFails(b) PROVE Fail(b)
  BY <1>8 DEF Stop, TranscribeFails
<1> HIDE DEF Still, Same, Linked, Stored
<1>9. Same \/ Linked \/ Stored
  BY <1>0, <1>1, <1>2, <1>3, <1>4, <1>5, <1>6, <1>7, <1>8 DEF Next, Attempt
<1> QED
  BY <1>9 DEF Same, Linked, Stored

\* Only an attempt whose memory is stored changes the clients of a conversation's people.
LEMMA PersonNext ==
  ASSUME Typed, Next, NEW c \in Conversations, Present(c)', person'[c] # person[c]
  PROVE  memory[c] /\ \E a \in Attempts : Of[a] = c /\ Live(a)
<1>1. ASSUME NEW a \in Attempts, LinkPerson(a) PROVE Of[a] = c /\ memory[c] /\ Live(a)
  <2>1. /\ pc[a] = "linking" /\ MayRefer(Of[a], hold[a])
        /\ person' = [person EXCEPT ![Of[a]][Turn(a)] = hold[a]]
    BY <1>1 DEF LinkPerson
  <2> QED
    BY <2>1, WholeTypes DEF MayRefer, Live, Matching
<1>2. ASSUME NEW a \in Attempts, Attempt(a), ~LinkPerson(a) PROVE FALSE
  BY <1>2 DEF Attempt, Begin, Stop, ReadTranscript, ResetTranscript, Transcribe, TranscribeFails, Persist,
       Match, Create, EndMatching, RecordFacts, Assign, Finish, rows
<1>3. ASSUME NEW d \in Conversations, Unlink(d) \/ \E cl \in Clients : Link(d, cl) PROVE FALSE
  BY <1>3 DEF Unlink, Link
<1>4. ASSUME NEW d \in Conversations, Delete(d) PROVE FALSE
  BY <1>4, PastTypes, WholeTypes DEF Delete, Present
<1> QED
  BY <1>1, <1>2, <1>3, <1>4 DEF Next

\* How far an attempt has come.
Far(a) ==
  /\ Live(a) =>
       /\ Len(matched[a]) <= Len(Mentions[Of[a]])
       /\ pc[a] = "recording" => Len(matched[a]) = Len(Mentions[Of[a]])
       /\ pc[a] # "recording" => recorded[a] = {}
  /\ ~Live(a) /\ pc[a] # "finishing" => matched[a] = <<>> /\ recorded[a] = {}

\* Attempts match in the order of the mentions, and record only when they have matched all.
LEMMA FarNext ==
  ASSUME Typed, Next, \A a \in Attempts : Far(a), NEW a \in Attempts
  PROVE  Far(a)'
<1> DEFINE Same(b) == pc'[b] = pc[b] /\ matched'[b] = matched[b] /\ recorded'[b] = recorded[b]
<1>0. Same(a) => Far(a)'
  BY DEF Far, Live
<1>1. ASSUME NEW b \in Attempts, Fail(b) \/ Finish(b) PROVE Far(a)'
  <2>1. pc'[b] = "ended" /\ matched'[b] = <<>> /\ recorded'[b] = {} /\ \A d \in Attempts \ {b} : Same(d)
    BY <1>1, PastTypes, WholeTypes DEF Fail, Finish, End
  <2> QED
    BY <1>0, <2>1 DEF Far, Live, Matching
<1>2. ASSUME NEW b \in Attempts, Begin(b) \/ ReadTranscript(b) \/ (ResetTranscript(b) /\ ~Fail(b)) \/ Transcribe(b)
      PROVE  Far(a)'
  <2>1. UNCHANGED <<recorded, matched>>
    BY <1>2 DEF Begin, ReadTranscript, ResetTranscript, Transcribe, rows, session
  <2>2. /\ pc[b] \in {"new", "reading", "resetting", "transcribing"}
        /\ \E place \in {"reading", "resetting", "transcribing", "extracting", "finishing"} : pc' = [pc EXCEPT ![b] = place]
    BY <1>2 DEF Begin, ReadTranscript, ResetTranscript, Transcribe, Go
  <2> QED
    BY <1>0, <2>1, <2>2, PastTypes DEF Far, Live, Matching
<1>3. ASSUME NEW b \in Attempts, Persist(b), ~Fail(b) PROVE Far(a)'
  <2>1. /\ UNCHANGED <<recorded, matched>> /\ pc[b] = "extracting"
        /\ \E place \in {"finishing", "matching"} : pc' = [pc EXCEPT ![b] = place]
    BY <1>3 DEF Persist, Go, session
  <2>2. matched[b] = <<>> /\ recorded[b] = {} /\ Mentions[Of[b]] \in Seq(Keys)
    BY <2>1, PastTypes, WholeTypes DEF Far, Live, Matching
  <2> QED
    BY <1>0, <2>1, <2>2, PastTypes DEF Far, Live, Matching
<1>4. ASSUME NEW b \in Attempts, Match(b) \/ Create(b) PROVE Far(a)'
  <2>1. /\ UNCHANGED <<recorded, matched>> /\ pc[b] \in {"matching", "creating"}
        /\ \E place \in {"linking", "creating"} : pc' = [pc EXCEPT ![b] = place]
    BY <1>4 DEF Match, Create, Go, rows, session
  <2> QED
    BY <1>0, <2>1, PastTypes DEF Far, Live, Matching
<1>5. ASSUME NEW b \in Attempts, EndMatching(b) PROVE Far(a)'
  <2>1. /\ UNCHANGED <<recorded, matched>> /\ pc[b] = "matching" /\ Turn(b) \notin People(Of[b])
        /\ \E place \in {"finishing", "recording"} : pc' = [pc EXCEPT ![b] = place]
    BY <1>5 DEF EndMatching, Go, rows, session
  <2>2. /\ matched[b] \in Seq(Clients) /\ Mentions[Of[b]] \in Seq(Keys)
        /\ Len(matched[b]) <= Len(Mentions[Of[b]]) /\ Len(matched[b]) + 1 \notin 1 .. Len(Mentions[Of[b]])
    BY <2>1, PastTypes, WholeTypes DEF Far, Live, Matching, Turn
  <2>3. Len(matched[b]) = Len(Mentions[Of[b]])
    BY <2>2
  <2> QED
    BY <1>0, <2>1, <2>3, PastTypes DEF Far, Live, Matching
<1>6. ASSUME NEW b \in Attempts, LinkPerson(b), ~Fail(b) PROVE Far(a)'
  <2>1. /\ matched' = [matched EXCEPT ![b] = Append(@, hold[b])] /\ hold[b] \in Clients
        /\ pc[b] = "linking" /\ pc' = [pc EXCEPT ![b] = "matching"] /\ recorded' = recorded
    BY <1>6 DEF LinkPerson, MayRefer, Exists, Go
  <2>2. /\ matched[b] \in Seq(Clients) /\ Mentions[Of[b]] \in Seq(Keys)
        /\ Len(matched[b]) + 1 \in 1 .. Len(Mentions[Of[b]]) /\ recorded[b] = {}
    BY <2>1, PastTypes, WholeTypes DEF Far, Live, Matching, Typed, TurnIsAPerson, Turn
  <2>3. Len(matched'[b]) <= Len(Mentions[Of[b]]) /\ pc'[b] = "matching" /\ \A d \in Attempts \ {b} : Same(d)
    BY <2>1, <2>2, PastTypes, WholeTypes
  <2> QED
    BY <1>0, <2>1, <2>2, <2>3 DEF Far, Live, Matching
<1>7. ASSUME NEW b \in Attempts, RecordFacts(b), ~Fail(b) PROVE Far(a)'
  <2>1. /\ UNCHANGED <<pc, matched>> /\ pc[b] = "recording"
        /\ \E cl : recorded' = [recorded EXCEPT ![b] = @ \cup {cl}]
    BY <1>7 DEF RecordFacts
  <2> QED
    BY <1>0, <2>1, WholeTypes DEF Far, Live, Matching
<1>8. ASSUME NEW b \in Attempts, Assign(b), ~Fail(b) PROVE Far(a)'
  <2>1. UNCHANGED <<recorded, matched>> /\ pc' = [pc EXCEPT ![b] = "finishing"]
    BY <1>8 DEF Assign, Go, session
  <2> QED
    BY <1>0, <2>1, PastTypes DEF Far, Live, Matching
<1>9. ASSUME NEW d \in Conversations, Unlink(d) \/ Delete(d) \/ \E cl \in Clients : Link(d, cl) PROVE Far(a)'
  BY <1>0, <1>9 DEF Unlink, Delete, Link, session
<1>10. ASSUME NEW b \in Attempts, Stop(b) \/ TranscribeFails(b) PROVE Fail(b)
  BY <1>10 DEF Stop, TranscribeFails
<1> QED
  BY <1>1, <1>2, <1>3, <1>4, <1>5, <1>6, <1>7, <1>8, <1>9, <1>10 DEF Next, Attempt

\* A processing step keeps whom the attempts have matched in step with the rows.
LEMMA MatchedNext ==
  ASSUME Typed, PastInv, MatchedInv, Next
  PROVE  MatchedInv'
<1>1. \A a \in Attempts : Far(a)
  BY DEF MatchedInv, Far
<1>2. \A a \in Attempts : Far(a)'
  BY <1>1, FarNext
<1>3. ASSUME NEW a \in Attempts, Live(a)', Present(Of[a])', NEW i \in People(Of[a]) PROVE Traced(a, i)'
  <2> DEFINE c == Of[a]
  <2>1. Present(c) /\ c \in Conversations
    BY <1>3, NextKeeps, PastTypes
  <2>2. \A cl \in Clients : key[cl] # Free => key'[cl] = key[cl]
    BY NextKeeps
  <2>3. CASE /\ Live(a) /\ (Turned(a, i)' <=> Turned(a, i)) /\ person'[c][i] = person[c][i]
             /\ Turned(a, i) => matched'[a][i] = matched[a][i]
    <3>1. Traced(a, i)
      BY <2>1, <2>3 DEF MatchedInv
    <3>2. Turned(a, i) => matched[a][i] \in Clients
      BY WholeTypes DEF Turned
    <3> QED
      BY <2>2, <2>3, <3>1, <3>2 DEF Traced, Exists
  <2>4. CASE Turned(a, i)' /\ Exists(matched'[a][i]) /\ person'[c][i] = matched'[a][i]
    BY <2>2, <2>4, MergeTypes DEF Traced, Exists
  <2>5. CASE ~memory[c] /\ ~Turned(a, i)' /\ person'[c][i] = person[c][i]
    BY <2>1, <2>5 DEF MatchedInv, Traced
  <2> QED
    BY <1>3, <2>3, <2>4, <2>5, MatchGoes
<1>4. ASSUME NEW c \in Conversations, Present(c)', ~memory'[c], NEW i \in People(c) PROVE person'[c][i] = None
  <2>1. Present(c) /\ ~memory[c]
    BY <1>4, NextKeeps
  <2>2. person'[c] = person[c]
    BY <1>4, <2>1, PersonNext
  <2> QED
    BY <2>1, <2>2 DEF MatchedInv
<1> QED
  BY <1>2, <1>3, <1>4 DEF MatchedInv, Far

\* An attempt never matches a client that a merge took away.
LEMMA ForeseenNext ==
  ASSUME Typed, PastInv, AuditInv, MatchedInv, SourcesInv, ForeseenInv, Reconcile
  PROVE  ForeseenInv'
<1> DEFINE ids == Written
<1>0. Next /\ DOMAIN audits' = DOMAIN audits /\ \A n \in DOMAIN audits : Carried(n, ids)
  BY TouchCarries DEF Reconcile
<1> SUFFICES ASSUME NEW n \in DOMAIN audits, Open(n)'
             PROVE  /\ \A a \in Attempts : Live(a)' /\ Present(Of[a])' =>
                         \A i \in People(Of[a]) : Foreseen(audits[n], a, i)'
                    /\ \A c \in Conversations : Present(c)' /\ ~memory'[c] =>
                         \A i \in People(c) : audits'[n].before.person[c][i] # SourceOf(n)'
  BY <1>0 DEF ForeseenInv, Open
<1>1. /\ Open(n) /\ audits'[n].before = audits[n].before
      /\ SourceOf(n)' = SourceOf(n) /\ TargetOf(n)' = TargetOf(n)
  BY <1>0, CarriedSays
<1>2. key[SourceOf(n)] = None
  BY <1>1 DEF SourcesInv
<1>3. /\ \A a \in Attempts : Live(a) /\ Present(Of[a]) =>
            \A i \in People(Of[a]) : Foreseen(audits[n], a, i)
      /\ \A c \in Conversations : Present(c) /\ ~memory[c] =>
            \A i \in People(c) : audits[n].before.person[c][i] # SourceOf(n)
  BY <1>1 DEF ForeseenInv
<1>4. ASSUME NEW a \in Attempts, Live(a)', Present(Of[a])', NEW i \in People(Of[a]) PROVE Foreseen(audits[n], a, i)'
  <2> DEFINE c == Of[a]
  <2>1. Present(c) /\ c \in Conversations
    BY <1>0, <1>4, NextKeeps, PastTypes
  <2> USE <1>1 DEF Foreseen, SourceOf, TargetOf
  <2>2. CASE /\ Live(a) /\ (Turned(a, i)' <=> Turned(a, i))
             /\ Turned(a, i) => matched'[a][i] = matched[a][i]
    BY <1>3, <2>1, <2>2
  <2>3. CASE Live(a) /\ ~Turned(a, i) /\ Turned(a, i)' /\ Exists(matched'[a][i])
    <3>1. matched'[a][i] # SourceOf(n)
      BY <1>2, <2>3, MergeTypes DEF Exists
    <3> QED
      BY <1>3, <2>1, <2>3, <3>1
  <2>4. CASE ~memory[c] /\ ~Turned(a, i)'
    BY <1>3, <2>1, <2>4
  <2> QED
    BY <1>0, <1>4, <2>2, <2>3, <2>4, MatchGoes
<1>5. ASSUME NEW c \in Conversations, Present(c)', ~memory'[c], NEW i \in People(c)
      PROVE  audits'[n].before.person[c][i] # SourceOf(n)'
  BY <1>0, <1>1, <1>3, <1>5, NextKeeps
<1> QED
  BY <1>4, <1>5
\* A processing step marks what it writes.
LEMMA ReconcileCarries ==
  ASSUME AuditInv, Reconcile
  PROVE  Next /\ DOMAIN audits' = DOMAIN audits /\ \A n \in DOMAIN audits : Carried(n, Written)
BY TouchCarries DEF Reconcile

\* The clients of an audit.
LEMMA PairIs ==
  ASSUME AuditInv, NEW n \in DOMAIN audits
  PROVE  SourceOf(n) \in Clients /\ TargetOf(n) \in Clients /\ SourceOf(n) # TargetOf(n)
BY DEF AuditInv, SnapshotOK, SourceOf, TargetOf

\* The fingerprint's facts are those of the two clients together.
LEMMA AfterNat ==
  ASSUME AuditInv, NEW n \in DOMAIN audits, NEW c \in Conversations
  PROVE  /\ audits[n].before.facts[c][SourceOf(n)] \in Nat /\ audits[n].before.facts[c][TargetOf(n)] \in Nat
         /\ audits[n].after.facts[c] =
              audits[n].before.facts[c][SourceOf(n)] + audits[n].before.facts[c][TargetOf(n)]
         /\ audits[n].after.facts[c] \in Nat
<1> DEFINE audit == audits[n]
<1>1. SnapshotOK(audit) /\ AfterOK(audit)
  BY DEF AuditInv
<1> HIDE DEF audit
<1>2. /\ audit.before.facts[c][audit.snapshot.source] \in Nat
      /\ audit.before.facts[c][audit.snapshot.target] \in Nat
  BY <1>1 DEF SnapshotOK
<1>3. audit.after.facts[c] =
        audit.before.facts[c][audit.snapshot.source] + audit.before.facts[c][audit.snapshot.target]
  BY <1>1 DEF AfterOK
<1> QED
  BY <1>2, <1>3 DEF audit, SourceOf, TargetOf

\* A processing step uses no id again.
LEMMA SourcesNext ==
  ASSUME Typed, AuditInv, SourcesInv, Reconcile
  PROVE  SourcesInv'
<1>1. ASSUME NEW n \in DOMAIN audits
      PROVE  /\ SourceOf(n)' = SourceOf(n) /\ TargetOf(n)' = TargetOf(n) /\ (Open(n)' <=> Open(n))
             /\ key'[SourceOf(n)] = key[SourceOf(n)] /\ key'[TargetOf(n)] = key[TargetOf(n)]
  BY <1>1, ReconcileCarries, CarriedSays, PairIs, NextKeeps DEF SourcesInv
<1> QED
  BY <1>1, ReconcileCarries DEF SourcesInv

\* Facts are recorded, and go only with their conversation.
LEMMA FactsNext ==
  ASSUME Typed, Next, NEW c \in Conversations, Present(c)', NEW cl \in Clients
  PROVE  facts[c][cl] \in Nat /\ facts'[c][cl] \in Nat /\ facts'[c][cl] >= facts[c][cl]
<1>0. facts \in [Conversations -> [Clients -> Nat]] /\ facts' \in [Conversations -> [Clients -> Nat]]
  BY TypedStep DEF Typed, TypeOK
<1>1. ASSUME NEW a \in Attempts, RecordFacts(a), facts' # facts PROVE facts'[c][cl] >= facts[c][cl]
  <2>1. PICK x \in Clients : facts' = [facts EXCEPT ![Of[a]][x] = @ + 1]
    BY <1>1 DEF RecordFacts, MayRefer, Exists
  <2>2. facts'[c][cl] = facts[c][cl] + 1 \/ facts'[c][cl] = facts[c][cl]
    BY <1>0, <2>1, PastTypes
  <2> QED
    BY <1>0, <2>2
<1>2. ASSUME NEW a \in Attempts, Attempt(a), ~RecordFacts(a) PROVE facts' = facts
  BY <1>2 DEF Attempt, Begin, Stop, ReadTranscript, ResetTranscript, Transcribe, TranscribeFails, Persist,
       Match, Create, LinkPerson, EndMatching, Assign, Finish, rows
<1>3. ASSUME NEW d \in Conversations, Unlink(d) \/ \E x \in Clients : Link(d, x) PROVE facts' = facts
  BY <1>3 DEF Unlink, Link
<1>4. ASSUME NEW d \in Conversations, Delete(d) PROVE facts'[c] = facts[c]
  BY <1>0, <1>4, PastTypes DEF Delete, Present
<1>5. ASSUME facts'[c] = facts[c] PROVE facts'[c][cl] >= facts[c][cl]
  BY <1>0, <1>5
<1> QED
  BY <1>0, <1>1, <1>2, <1>3, <1>4, <1>5 DEF Next

\* A retained client that nothing was written in was there before.
LEMMA StandingNext ==
  ASSUME Typed, AuditInv, SourcesInv, Reconcile, NEW n \in DOMAIN audits, Standing(audits[n])'
  PROVE  Standing(audits[n]) /\ TargetOf(n)' = TargetOf(n) /\ audits'[n].after = audits[n].after
<1>1. /\ Open(n) /\ TargetOf(n) \notin audits[n].touched /\ Exists(TargetOf(n))'
      /\ TargetOf(n)' = TargetOf(n) /\ audits'[n].after = audits[n].after
  BY ReconcileCarries, CarriedSays
<1>2. key'[TargetOf(n)] = key[TargetOf(n)] /\ TargetOf(n) \in Clients
  BY PairIs, ReconcileCarries, NextKeeps DEF SourcesInv
<1> QED
  BY <1>1, <1>2 DEF Standing, Exists, Open, TargetOf

\* A retained client only gains facts in it.
LEMMA GainedNext ==
  ASSUME Typed, AuditInv, SourcesInv, GainedInv, Reconcile
  PROVE  GainedInv'
<1> SUFFICES ASSUME NEW n \in DOMAIN audits, Standing(audits[n])', NEW c \in Conversations, Present(c)'
             PROVE  facts'[c][TargetOf(n)'] >= audits'[n].after.facts[c]
  BY ReconcileCarries DEF GainedInv
<1>1. Standing(audits[n]) /\ TargetOf(n)' = TargetOf(n) /\ audits'[n].after = audits[n].after
  BY StandingNext
<1>2. Present(c)
  BY ReconcileCarries, NextKeeps
<1>3. facts[c][TargetOf(n)] >= audits[n].after.facts[c]
  BY <1>1, <1>2 DEF GainedInv
<1>4. /\ facts[c][TargetOf(n)] \in Nat /\ facts'[c][TargetOf(n)] \in Nat
      /\ facts'[c][TargetOf(n)] >= facts[c][TargetOf(n)]
  BY PairIs, FactsNext, ReconcileCarries
<1>5. audits[n].after.facts[c] \in Nat
  BY AfterNat
<1> QED
  BY <1>1, <1>3, <1>4, <1>5

\* A choice of the user's stays one.
LEMMA FirmStays ==
  ASSUME Typed, AuditInv, Reconcile, NEW c \in Conversations, Present(c)', Firm(c)
  PROVE  Firm(c)'
<1>1. manual'[c]
  BY ReconcileCarries, NextKeeps, PastTypes DEF Firm
<1>2. ASSUME NEW n \in DOMAIN audits, Kept(audits[n], c)' PROVE audits'[n].before.manual[c]
  BY <1>2, ReconcileCarries, CarriedSays DEF Firm
<1> QED
  BY <1>1, <1>2, ReconcileCarries DEF Firm

\* A choice that an attempt has seen is the user's: what a merge makes manual does not run.
LEMMA FirmNext ==
  ASSUME Typed, AuditInv, FirmInv, Reconcile
  PROVE  FirmInv'
<1>0. Next /\ DOMAIN audits' = DOMAIN audits
  BY ReconcileCarries
<1>1. ASSUME NEW n \in DOMAIN audits, NEW c \in Conversations, Kept(audits[n], c)'
      PROVE  Kept(audits[n], c) /\ audits'[n].before = audits[n].before /\ status'[c] = status[c]
  <2>1. Kept(audits[n], c) /\ audits'[n].before = audits[n].before /\ c \notin Written
    BY <1>1, ReconcileCarries, CarriedSays
  <2> QED
    BY <2>1 DEF Written
<1>2. ASSUME NEW n \in DOMAIN audits, NEW c \in Conversations, Kept(audits[n], c)'
      PROVE  status'[c] \in {"completed", "failed"}
  BY <1>1, <1>2 DEF FirmInv
<1>3. ASSUME NEW a \in Attempts, loaded'[a], Present(Of[a])' PROVE Firm(Of[a])'
  <2>1. CASE Begin(a)
    <3>1. loaded'[a] = manual[Of[a]] /\ manual' = manual /\ status'[Of[a]] = "processing"
      BY <2>1, PastTypes DEF Begin
    <3>2. \A n \in DOMAIN audits : ~Kept(audits[n], Of[a])'
      BY <1>2, <3>1, PastTypes
    <3> QED
      BY <1>0, <1>3, <3>1, <3>2 DEF Firm
  <2>2. CASE loaded[a]
    <3>1. Present(Of[a]) /\ Of[a] \in Conversations
      BY <1>0, <1>3, NextKeeps, PastTypes
    <3> QED
      BY <1>3, <2>2, <3>1, FirmStays DEF FirmInv
  <2>3. Begin(a) \/ loaded[a]
    <3>1. ASSUME NEW b \in Attempts, Begin(b), b # a PROVE loaded'[a] = loaded[a]
      BY <3>1, PastTypes DEF Begin
    <3>2. ASSUME NEW b \in Attempts, Attempt(b), ~Begin(b) PROVE loaded'[a] => loaded[a]
      BY <3>2, PastTypes
      DEF Attempt, Stop, ReadTranscript, ResetTranscript, Transcribe, TranscribeFails, Persist, Match, Create,
          LinkPerson, EndMatching, RecordFacts, Assign, Finish, Fail, End, session
    <3>3. ASSUME NEW d \in Conversations, Unlink(d) \/ Delete(d) \/ \E x \in Clients : Link(d, x)
          PROVE  loaded' = loaded
      BY <3>3 DEF Unlink, Delete, Link, session
    <3> QED
      BY <1>0, <1>3, <3>1, <3>2, <3>3 DEF Next
  <2> QED
    BY <2>1, <2>2, <2>3
<1> QED
  BY <1>0, <1>2, <1>3 DEF FirmInv

\* Facts that an attempt has recorded were recorded before, or are recorded in this step
\* of a client that is there.
LEMMA RecordedNext ==
  ASSUME Typed, Next, MatchedInv, MatchedInv', NEW a \in Attempts, Live(a)', recorded'[a] # {}
  PROVE  /\ Live(a) /\ matched'[a] = matched[a] /\ recorded[a] \subseteq recorded'[a]
         /\ \A cl \in recorded'[a] : cl \in recorded[a] \/
              (Exists(cl) /\ facts'[Of[a]][cl] = facts[Of[a]][cl] + 1)
<1> DEFINE Same == Live(a) /\ matched'[a] = matched[a] /\ recorded'[a] = recorded[a]
<1>0. pc'[a] = "recording"
  BY DEF MatchedInv
<1>1. ASSUME NEW b \in Attempts, Fail(b) \/ Finish(b) PROVE Same
  <2>1. pc'[b] = "ended" /\ \A d \in Attempts \ {b} : pc'[d] = pc[d] /\ matched'[d] = matched[d] /\ recorded'[d] = recorded[d]
    BY <1>1, PastTypes, WholeTypes DEF Fail, Finish, End
  <2> QED
    BY <1>0, <2>1 DEF Live, Matching
<1>2. ASSUME NEW b \in Attempts, \E place \in Running \ {"recording"} : pc' = [pc EXCEPT ![b] = place],
             \A d \in Attempts \ {b} : matched'[d] = matched[d] /\ recorded'[d] = recorded[d]
      PROVE  Same
  BY <1>0, <1>2, PastTypes DEF Live, Matching, Running
<1>3. ASSUME NEW b \in Attempts, Begin(b) \/ ReadTranscript(b) \/ (ResetTranscript(b) /\ ~Fail(b)) \/ Transcribe(b)
      PROVE  Same
  <2>1. UNCHANGED <<recorded, matched>>
    BY <1>3 DEF Begin, ReadTranscript, ResetTranscript, Transcribe, rows, session
  <2>2. \E place \in Running \ {"recording"} : pc' = [pc EXCEPT ![b] = place]
    BY <1>3 DEF Begin, ReadTranscript, ResetTranscript, Transcribe, Go, Running
  <2> QED
    BY <1>2, <2>1, <2>2
<1>4. ASSUME NEW b \in Attempts, Match(b) \/ Create(b) \/ (Persist(b) /\ ~Fail(b)) PROVE Same
  <2>1. UNCHANGED <<recorded, matched>>
    BY <1>4 DEF Match, Create, Persist, rows, session
  <2>2. \E place \in Running \ {"recording"} : pc' = [pc EXCEPT ![b] = place]
    BY <1>4 DEF Match, Create, Persist, Go, Running
  <2> QED
    BY <1>2, <2>1, <2>2
<1>5. ASSUME NEW b \in Attempts, (LinkPerson(b) \/ Assign(b)) /\ ~Fail(b) PROVE Same
  <2>1. \A d \in Attempts \ {b} : matched'[d] = matched[d] /\ recorded'[d] = recorded[d]
    BY <1>5, WholeTypes DEF LinkPerson, Assign, session
  <2>2. \E place \in Running \ {"recording"} : pc' = [pc EXCEPT ![b] = place]
    BY <1>5 DEF LinkPerson, Assign, Go, Running
  <2> QED
    BY <1>2, <2>1, <2>2
<1>6. ASSUME NEW b \in Attempts, EndMatching(b) PROVE Same
  <2>1. UNCHANGED <<recorded, matched>> /\ pc[b] = "matching" /\ \E place : pc' = [pc EXCEPT ![b] = place]
    BY <1>6 DEF EndMatching, Go, rows, session
  <2>2. recorded[b] = {}
    BY <2>1 DEF MatchedInv, Live, Matching
  <2>3. b # a
    BY <2>1, <2>2
  <2> QED
    BY <1>0, <2>1, <2>3, PastTypes DEF Live, Matching
<1>7. ASSUME NEW b \in Attempts, RecordFacts(b), ~Fail(b)
      PROVE  Same \/ /\ Live(a) /\ matched'[a] = matched[a]
                     /\ \E cl : /\ recorded'[a] = recorded[a] \cup {cl}
                                /\ Exists(cl) /\ facts'[Of[a]][cl] = facts[Of[a]][cl] + 1
  <2>1. PICK cl : /\ Exists(cl) /\ facts' = [facts EXCEPT ![Of[b]][cl] = @ + 1]
                  /\ recorded' = [recorded EXCEPT ![b] = @ \cup {cl}]
    BY <1>7 DEF RecordFacts, MayRefer
  <2>2. UNCHANGED <<pc, matched>>
    BY <1>7 DEF RecordFacts
  <2>3. Live(a)
    BY <1>0, <2>2 DEF Live, Matching
  <2>4. CASE b = a
    <3>1. facts'[Of[a]][cl] = facts[Of[a]][cl] + 1
      BY <2>1, <2>4, PastTypes, WholeTypes DEF Exists
    <3>2. recorded'[a] = recorded[a] \cup {cl}
      BY <2>1, <2>4, WholeTypes
    <3> QED
      BY <2>1, <2>2, <2>3, <3>1, <3>2
  <2>5. CASE b # a
    BY <2>1, <2>2, <2>3, <2>5
  <2> QED
    BY <2>4, <2>5
<1>8. ASSUME NEW d \in Conversations, Unlink(d) \/ Delete(d) \/ \E cl \in Clients : Link(d, cl) PROVE Same
  <2>1. UNCHANGED <<pc, matched, recorded>>
    BY <1>8 DEF Unlink, Delete, Link, session
  <2> QED
    BY <1>0, <2>1 DEF Live, Matching
<1>9. ASSUME NEW b \in Attempts, Stop(b) \/ TranscribeFails(b) PROVE Fail(b)
  BY <1>9 DEF Stop, TranscribeFails
<1>10. Same \/ /\ Live(a) /\ matched'[a] = matched[a]
               /\ \E cl : /\ recorded'[a] = recorded[a] \cup {cl}
                          /\ Exists(cl) /\ facts'[Of[a]][cl] = facts[Of[a]][cl] + 1
  BY <1>1, <1>3, <1>4, <1>5, <1>6, <1>7, <1>8, <1>9 DEF Next, Attempt
<1> QED
  BY <1>10

\* How an attempt comes to its last commit.
LEMMA EndingNext ==
  ASSUME Typed, Next, NEW a \in Attempts, pc'[a] = "finishing", pc[a] # "finishing"
  PROVE  \/ Of[a] \in Silent \/ loaded[a]
         \/ EndMatching(a) /\ matched[a] = <<>>
         \/ /\ Live(a) /\ pc[a] = "recording" /\ Pending(a) = {}
            /\ person' = person
<1>1. ASSUME NEW b \in Attempts, Fail(b) \/ Finish(b) PROVE FALSE
  BY <1>1, PastTypes DEF Fail, Finish, End
<1>2. ASSUME NEW b \in Attempts, Begin(b) \/ Match(b) \/ Create(b) PROVE FALSE
  BY <1>2, PastTypes DEF Begin, Match, Create, Go
<1>3. ASSUME NEW b \in Attempts, (ResetTranscript(b) \/ LinkPerson(b) \/ RecordFacts(b)) /\ ~Fail(b) PROVE FALSE
  BY <1>3, PastTypes DEF ResetTranscript, LinkPerson, RecordFacts, Go
<1>4. ASSUME NEW b \in Attempts, ReadTranscript(b) \/ Transcribe(b) PROVE Of[a] \in Silent
  BY <1>4, PastTypes DEF ReadTranscript, Transcribe, Go
<1>5. ASSUME NEW b \in Attempts, Persist(b), ~Fail(b) PROVE loaded[a]
  BY <1>5, PastTypes DEF Persist, Go
<1>6. ASSUME NEW b \in Attempts, EndMatching(b) PROVE b = a /\ matched[a] = <<>>
  BY <1>6, PastTypes DEF EndMatching, Go
<1>7. ASSUME NEW b \in Attempts, Assign(b), ~Fail(b)
      PROVE  Live(a) /\ pc[a] = "recording" /\ Pending(a) = {} /\ person' = person
  <2>1. pc[b] = "recording" /\ Pending(b) = {} /\ person' = person /\ pc' = [pc EXCEPT ![b] = "finishing"]
    BY <1>7 DEF Assign, Go
  <2>2. b = a
    BY <2>1, PastTypes
  <2> QED
    BY <2>1, <2>2 DEF Live, Matching
<1>8. ASSUME NEW d \in Conversations, Unlink(d) \/ Delete(d) \/ \E cl \in Clients : Link(d, cl) PROVE FALSE
  BY <1>8 DEF Unlink, Delete, Link
<1>9. ASSUME NEW b \in Attempts, Stop(b) \/ TranscribeFails(b) PROVE Fail(b)
  BY <1>9 DEF Stop, TranscribeFails
<1> QED
  BY <1>1, <1>2, <1>3, <1>4, <1>5, <1>6, <1>7, <1>8, <1>9 DEF Next, Attempt

\* Only the last commit of an attempt completes a conversation.
LEMMA DoneNext ==
  ASSUME Typed, Next, NEW c \in Conversations, status'[c] = "completed", status[c] # "completed"
  PROVE  \E a \in Attempts : Of[a] = c /\ pc[a] = "finishing"
<1>1. ASSUME NEW a \in Attempts, Finish(a) PROVE Of[a] = c /\ pc[a] = "finishing"
  BY <1>1, PastTypes DEF Finish
<1>2. ASSUME NEW a \in Attempts, Fail(a) \/ Begin(a) PROVE FALSE
  BY <1>2, PastTypes DEF Fail, Begin
<1>3. ASSUME NEW a \in Attempts, Attempt(a), ~Finish(a), ~Begin(a), ~Fail(a) PROVE FALSE
  BY <1>3 DEF Attempt, Stop, ReadTranscript, ResetTranscript, Transcribe, TranscribeFails, Persist, Match,
       Create, LinkPerson, EndMatching, RecordFacts, Assign, rows
<1>4. ASSUME NEW d \in Conversations, Unlink(d) \/ Delete(d) \/ \E cl \in Clients : Link(d, cl) PROVE FALSE
  BY <1>4, PastTypes DEF Unlink, Delete, Link
<1> QED
  BY <1>1, <1>2, <1>3, <1>4 DEF Next

\* Whose facts are recorded after a processing step had them before it, or they are recorded
\* in it; and stays the same client.
LEMMA ToldNext ==
  ASSUME Typed, AuditInv, PastInv, MatchedInv, FirmInv, Reconcile,
         NEW c \in Conversations, NEW i \in People(c), Told(c, i)'
  PROVE  /\ person'[c][i] = person[c][i]
         /\ \/ Told(c, i)
            \/ /\ Exists(person[c][i])
               /\ facts'[c][person[c][i]] = facts[c][person[c][i]] + 1
<1>0. Next /\ Present(c)' /\ Present(c) /\ MatchedInv' /\ Typed'
  BY ReconcileCarries, NextKeeps, MatchedNext, TypedStep DEF Told
<1>p. PastInv'
  BY <1>0, PastStep
<1>1. CASE Recorded(c, i)'
  <2>1. PICK a \in Attempts : Of[a] = c /\ Live(a)' /\ Turned(a, i)' /\ matched'[a][i] \in recorded'[a]
    BY <1>1 DEF Recorded
  <2>2. /\ Live(a) /\ matched'[a] = matched[a]
        /\ matched'[a][i] \in recorded[a] \/
             (Exists(matched'[a][i]) /\ facts'[c][matched'[a][i]] = facts[c][matched'[a][i]] + 1)
    BY <1>0, <2>1, RecordedNext
  <2>3. Turned(a, i)
    BY <2>1, <2>2 DEF Turned
  <2>4. person'[c][i] = person[c][i]
    BY <1>0, <2>1, <2>3, MatchGoes
  <2>5. CASE matched[a][i] \in recorded[a]
    BY <1>0, <2>1, <2>2, <2>3, <2>4, <2>5 DEF Told, Recorded
  <2>6. CASE Exists(matched[a][i]) /\ facts'[c][matched[a][i]] = facts[c][matched[a][i]] + 1
    <3>1. person[c][i] = matched[a][i]
      BY <1>0, <2>1, <2>2, <2>3, <2>6 DEF MatchedInv, Traced
    <3> QED
      BY <2>4, <2>6, <3>1
  <2> QED
    BY <2>2, <2>5, <2>6
<1>2. CASE (Ending(c)' \/ Done(c)') /\ ~Firm(c)'
  <2>1. ~Firm(c)
    BY <1>0, <1>2, FirmStays
  <2>2. c \notin Silent
    BY <1>2, <1>p DEF Ending, Done, PastInv
  <2>3. CASE \E a \in Attempts : Of[a] = c /\ pc[a] = "finishing"
    <3>1. PICK a \in Attempts : Of[a] = c /\ pc[a] = "finishing"
      BY <2>3
    <3>2. \A b \in Attempts : Of[b] = c => ~Live(b)
      BY <3>1, WholeAlone DEF Live, Matching
    <3>3. person'[c] = person[c]
      BY <1>0, <3>2, PersonNext
    <3> QED
      BY <1>0, <2>1, <2>2, <2>3, <3>3 DEF Told, Ending
  <2>4. CASE status[c] = "completed"
    <3>1. memory[c]
      BY <2>2, <2>4 DEF PastInv
    <3>2. \A b \in Attempts : Of[b] = c => ~Live(b)
      BY <2>4, WholeAlone
    <3>3. person'[c] = person[c]
      BY <1>0, <3>2, PersonNext
    <3> QED
      BY <1>0, <2>1, <2>4, <3>1, <3>3 DEF Told, Done
  <2>5. CASE status'[c] = "completed" /\ status[c] # "completed"
    BY <1>0, <2>3, <2>5, DoneNext
  <2>6. ASSUME NEW a \in Attempts, Of[a] = c, pc'[a] = "finishing", pc[a] # "finishing"
        PROVE  person' = person /\ Told(c, i)
    <3>1. ~loaded[a]
      BY <1>0, <2>1, <2>6 DEF FirmInv
    <3>2. CASE EndMatching(a) /\ matched[a] = <<>>
      BY <2>6, <3>2, WholeTypes DEF EndMatching, Turn
    <3>3. CASE Live(a) /\ pc[a] = "recording" /\ Pending(a) = {} /\ person' = person
      <4>1. /\ matched[a] \in Seq(Clients) /\ Mentions[c] \in Seq(Keys) /\ People(c) = 1 .. Len(Mentions[c])
            /\ Len(matched[a]) = Len(Mentions[c])
        BY <2>6, <3>3, WholeTypes DEF MatchedInv
      <4>2. Turned(a, i)
        BY <4>1 DEF Turned
      <4>3. matched[a][i] \in recorded[a]
        BY <3>3, <4>2 DEF Pending, Turned
      <4> QED
        BY <1>0, <2>6, <3>3, <4>2, <4>3 DEF Told, Recorded
    <3> QED
      BY <1>0, <2>2, <2>6, <3>1, <3>2, <3>3, EndingNext
  <2> QED
    BY <1>2, <2>3, <2>4, <2>5, <2>6 DEF Ending, Done
<1> QED
  BY <1>1, <1>2 DEF Told

\* So everyone who is told of has facts,
LEMMA ToldHasFactsNext ==
  ASSUME Typed, AuditInv, PastInv, MatchedInv, FirmInv, ToldHasFacts, Reconcile
  PROVE  ToldHasFacts'
<1> SUFFICES ASSUME NEW c \in Conversations, NEW i \in People(c), Told(c, i)'
             PROVE  person'[c][i] # None /\ facts'[c][person'[c][i]] > 0
  BY DEF ToldHasFacts, People
<1> DEFINE cl == person[c][i]
<1>1. /\ person'[c][i] = cl
      /\ \/ Told(c, i)
         \/ Exists(cl) /\ facts'[c][cl] = facts[c][cl] + 1
  BY ToldNext
<1>2. cl \in Clients \cup {None} /\ None \notin Clients
  BY MergeTypes
<1>3. Present(c)' /\ Next
  BY ReconcileCarries DEF Told
<1>4. CASE Told(c, i)
  <2>1. cl \in Clients /\ facts[c][cl] > 0
    BY <1>2, <1>4 DEF ToldHasFacts
  <2>2. facts[c][cl] \in Nat /\ facts'[c][cl] \in Nat /\ facts'[c][cl] >= facts[c][cl]
    BY <1>3, <2>1, FactsNext
  <2> QED
    BY <1>1, <1>2, <2>1, <2>2
<1>5. CASE Exists(cl) /\ facts'[c][cl] = facts[c][cl] + 1
  <2>1. cl \in Clients
    BY <1>5 DEF Exists
  <2>2. facts[c][cl] \in Nat
    BY <2>1, MergeTypes
  <2> QED
    BY <1>1, <1>2, <1>5, <2>1, <2>2
<1> QED
  BY <1>1, <1>4, <1>5

\* and what was recorded before a merge is told apart from what was recorded since.
LEMMA ToldHadFactsNext ==
  ASSUME Typed, AuditInv, PastInv, SourcesInv, MatchedInv, GainedInv, FirmInv, ToldHadFacts, Reconcile
  PROVE  ToldHadFacts'
<1> SUFFICES ASSUME NEW n \in DOMAIN audits, Standing(audits[n])',
                    NEW c \in Conversations, NEW i \in People(c), Told(c, i)',
                    person'[c][i] = TargetOf(n)', facts'[c][TargetOf(n)'] <= audits'[n].after.facts[c]
             PROVE  HadFacts(audits[n], c, i)'
  BY ReconcileCarries DEF ToldHadFacts, People
<1>1. Standing(audits[n]) /\ TargetOf(n)' = TargetOf(n) /\ audits'[n].after = audits[n].after
  BY StandingNext
<1>2. Present(c) /\ Present(c)' /\ Next
  BY ReconcileCarries, NextKeeps DEF Told
<1>3. facts[c][TargetOf(n)] >= audits[n].after.facts[c] /\ audits[n].after.facts[c] \in Nat
  BY <1>1, <1>2, AfterNat DEF GainedInv
<1>4. /\ facts[c][TargetOf(n)] \in Nat /\ facts'[c][TargetOf(n)] \in Nat
      /\ facts'[c][TargetOf(n)] >= facts[c][TargetOf(n)]
  BY <1>2, PairIs, FactsNext
<1>5. facts[c][TargetOf(n)] = facts'[c][TargetOf(n)] /\ facts[c][TargetOf(n)] <= audits[n].after.facts[c]
  BY <1>1, <1>3, <1>4
<1>6. person[c][i] = TargetOf(n) /\ Told(c, i)
  <2>1. /\ person[c][i] = TargetOf(n)
        /\ Told(c, i) \/ facts'[c][TargetOf(n)] = facts[c][TargetOf(n)] + 1
    BY <1>1, ToldNext
  <2> QED
    BY <1>4, <1>5, <2>1
<1>7. HadFacts(audits[n], c, i)
  BY <1>1, <1>5, <1>6 DEF ToldHadFacts
<1>8. Carried(n, Written)
  BY ReconcileCarries
<1> QED
  BY <1>7, <1>8 DEF HadFacts, Carried, Marked

\* A processing step keeps all of it.
LEMMA UneditedNext ==
  ASSUME Typed, AuditInv, PastInv, UneditedInv, Reconcile
  PROVE  UneditedInv'
BY SourcesNext, MatchedNext, ForeseenNext, GainedNext, FirmNext, ToldHasFactsNext, ToldHadFactsNext,
   ReconcileCarries DEF UneditedInv

-----------------------------------------------------------------------------
(* What a merge does to the rows *)

LEMMA MergeIs ==
  ASSUME Typed, NEW s \in Clients, NEW t \in Clients, Merge(s, t)
  PROVE  /\ s # t /\ Exists(s) /\ Exists(t)
         /\ UNCHANGED <<status, memory, pc, loaded, matched, recorded, edits>>
         /\ \A c \in Conversations : manual'[c] <=> manual[c] \/ assigned[c] = s
         /\ \A c \in Conversations : assigned[c] = s => status[c] \in {"completed", "failed"}
         /\ \A c \in Conversations : \A i \in People(c) :
              person'[c][i] = IF person[c][i] = s THEN t ELSE person[c][i]
         /\ \A c \in Conversations :
              /\ facts'[c][t] = facts[c][t] + facts[c][s]
              /\ \A cl \in Clients \ {s, t} : facts'[c][cl] = facts[c][cl]
         /\ key'[s] = None /\ \A cl \in Clients \ {s} : key'[cl] = key[cl]
         /\ \A cl : Exists(cl)' <=> Exists(cl) /\ cl # s
<1>1. /\ s # t /\ Exists(s) /\ Exists(t)
      /\ UNCHANGED <<status, memory, pc, loaded, matched, recorded, edits>>
      /\ \A c \in LinkedConversations({s, t}) : status[c] \in {"completed", "failed"}
      /\ manual' = [c \in Conversations |-> manual[c] \/ assigned[c] = s]
      /\ person' = [c \in Conversations |-> [i \in People(c) |-> IF person[c][i] = s THEN t ELSE person[c][i]]]
      /\ facts' = [c \in Conversations |-> [facts[c] EXCEPT ![t] = @ + facts[c][s], ![s] = 0]]
      /\ key' = [key EXCEPT ![s] = None]
  BY DEF Merge, MayMerge, session
<1>2. \A c \in Conversations : assigned[c] = s => status[c] \in {"completed", "failed"}
  BY <1>1 DEF LinkedConversations
<1>3. ASSUME NEW c \in Conversations
      PROVE  /\ facts'[c][t] = facts[c][t] + facts[c][s]
             /\ \A cl \in Clients \ {s, t} : facts'[c][cl] = facts[c][cl]
  <2>1. facts'[c] = [facts[c] EXCEPT ![t] = @ + facts[c][s], ![s] = 0] /\ facts[c] \in [Clients -> Nat]
    BY <1>1, MergeTypes
  <2> QED
    BY <1>1, <2>1
<1>4. key'[s] = None /\ \A cl \in Clients \ {s} : key'[cl] = key[cl]
  BY <1>1, MergeTypes
<1>5. \A cl : Exists(cl)' <=> Exists(cl) /\ cl # s
  BY <1>4, MergeTypes DEF Exists
<1>6. /\ \A c \in Conversations : manual'[c] <=> manual[c] \/ assigned[c] = s
      /\ \A c \in Conversations : \A i \in People(c) :
           person'[c][i] = IF person[c][i] = s THEN t ELSE person[c][i]
  BY <1>1
<1> QED
  BY <1>1, <1>2, <1>3, <1>4, <1>5, <1>6

\* What its own audit says.
LEMMA MergeSays ==
  ASSUME Typed, AuditInv, NEW s \in Clients, NEW t \in Clients, Merge(s, t)
  PROVE  LET new == audits'[Len(audits) + 1] IN
         /\ new.snapshot.source = s /\ new.snapshot.target = t
         /\ new.before.person = person /\ new.before.facts = facts
         /\ new.before.manual = manual /\ new.before.assigned = assigned
         /\ \A c \in Conversations : new.after.facts[c] = facts[c][s] + facts[c][t]
<1> DEFINE new == audits'[Len(audits) + 1]
<1>1. SaysMerge(new, s, t) /\ new.before = Before
  BY MergeCarries
<1> HIDE DEF new
<1>2. /\ new.before.person = person /\ new.before.facts = facts
      /\ new.before.manual = manual /\ new.before.assigned = assigned
  BY <1>1 DEF Before
<1>3. new.snapshot.source = s /\ new.snapshot.target = t /\ AfterOK(new)
  BY <1>1 DEF SaysMerge
<1>4. \A c \in Conversations : new.after.facts[c] = facts[c][s] + facts[c][t]
  BY <1>2, <1>3 DEF AfterOK
<1> QED
  BY <1>2, <1>3, <1>4 DEF new

\* The source of a new merge is there, so it is not that of an earlier one.
LEMMA SourcesMerge ==
  ASSUME Typed, AuditInv, SourcesInv, NEW s \in Clients, NEW t \in Clients, Merge(s, t)
  PROVE  SourcesInv'
<1>n. PICK N : N = Len(audits) + 1
  OBVIOUS
<1>1. /\ DOMAIN audits' = DOMAIN audits \cup {N} /\ N \notin DOMAIN audits
      /\ \A n \in DOMAIN audits : Carried(n, {t} \cup Written)
  BY <1>n, MergeCarries
<1>2. SourceOf(N)' = s /\ TargetOf(N)' = t
  BY <1>n, MergeSays DEF SourceOf, TargetOf
<1>3. key[s] \in Keys /\ key[t] \in Keys /\ s # t /\ key'[s] = None /\ \A cl \in Clients \ {s} : key'[cl] = key[cl]
  BY MergeIs DEF Exists
<1>4. None # Free /\ None \notin Keys /\ Free \notin Keys
  BY KeysAssumption DEF None, Free
<1>5. ASSUME NEW n \in DOMAIN audits
      PROVE  /\ SourceOf(n)' = SourceOf(n) /\ TargetOf(n)' = TargetOf(n) /\ (Open(n)' <=> Open(n))
             /\ SourceOf(n) \in Clients /\ TargetOf(n) \in Clients
             /\ key[SourceOf(n)] # Free /\ key[TargetOf(n)] # Free
             /\ Open(n) => key[SourceOf(n)] = None
  BY <1>1, <1>5, CarriedSays, PairIs DEF SourcesInv
<1>6. ASSUME NEW n \in DOMAIN audits' PROVE key'[SourceOf(n)'] # Free /\ key'[TargetOf(n)'] # Free
  BY <1>1, <1>2, <1>3, <1>4, <1>5
<1>7. ASSUME NEW n \in DOMAIN audits', Open(n)' PROVE key'[SourceOf(n)'] = None
  BY <1>1, <1>2, <1>3, <1>5, <1>7
<1>8. ASSUME NEW n \in DOMAIN audits', NEW m \in DOMAIN audits', Open(n)', Open(m)', SourceOf(n)' = SourceOf(m)'
      PROVE  n = m
  <2>1. CASE n \in DOMAIN audits /\ m \in DOMAIN audits
    BY <1>5, <1>8, <2>1 DEF SourcesInv
  <2>2. CASE n = N /\ m \in DOMAIN audits
    BY <1>2, <1>3, <1>4, <1>5, <1>8, <2>2
  <2>3. CASE m = N /\ n \in DOMAIN audits
    BY <1>2, <1>3, <1>4, <1>5, <1>8, <2>3
  <2> QED
    BY <1>1, <2>1, <2>2, <2>3
<1> QED
  BY <1>6, <1>7, <1>8 DEF SourcesInv

\* A merge moves the people of an attempt that runs, but not whom it has matched.
LEMMA MatchedMerge ==
  ASSUME Typed, MatchedInv, NEW s \in Clients, NEW t \in Clients, Merge(s, t)
  PROVE  MatchedInv'
<1>1. /\ s # t /\ UNCHANGED <<status, memory, pc, matched, recorded>>
      /\ \A c \in Conversations : \A i \in People(c) :
           person'[c][i] = IF person[c][i] = s THEN t ELSE person[c][i]
      /\ key'[s] = None /\ \A cl \in Clients \ {s} : key'[cl] = key[cl]
      /\ \A cl : Exists(cl)' <=> Exists(cl) /\ cl # s
  BY MergeIs
<1>2. None # Free /\ None \notin Clients
  BY MergeTypes DEF None, Free
<1>3. ASSUME NEW a \in Attempts, Live(a)', Present(Of[a])', NEW i \in People(Of[a]) PROVE Traced(a, i)'
  <2>1. Traced(a, i) /\ (Turned(a, i)' <=> Turned(a, i)) /\ Of[a] \in Conversations
    BY <1>1, <1>3, PastTypes DEF MatchedInv, Live, Present, Turned
  <2>2. Turned(a, i) => matched[a][i] \in Clients
    BY WholeTypes DEF Turned
  <2> QED
    BY <1>1, <1>2, <2>1, <2>2 DEF Traced
<1>4. ASSUME NEW c \in Conversations, Present(c)', ~memory'[c], NEW i \in People(c) PROVE person'[c][i] = None
  BY <1>1, <1>2, <1>4 DEF MatchedInv, Present
<1>5. \A a \in Attempts : Far(a)'
  BY <1>1 DEF MatchedInv, Far, Live
<1> QED
  BY <1>3, <1>4, <1>5 DEF MatchedInv, Far

\* What a merge says was before is what the attempts have matched.
LEMMA ForeseenMerge ==
  ASSUME Typed, AuditInv, MatchedInv, ForeseenInv, NEW s \in Clients, NEW t \in Clients, Merge(s, t)
  PROVE  ForeseenInv'
<1>n. PICK N : N = Len(audits) + 1
  OBVIOUS
<1>1. /\ DOMAIN audits' = DOMAIN audits \cup {N}
      /\ \A n \in DOMAIN audits : Carried(n, {t} \cup Written)
  BY <1>n, MergeCarries
<1>2. /\ audits'[N].snapshot.source = s /\ audits'[N].snapshot.target = t /\ audits'[N].before.person = person
  BY <1>n, MergeSays
<1>3. UNCHANGED <<status, memory, pc, matched>> /\ s # t /\ Exists(s) /\ Exists(t)
  BY MergeIs
<1>4. None \notin Clients
  BY MergeTypes
<1>5. ASSUME NEW n \in DOMAIN audits, Open(n)'
      PROVE  /\ Open(n) /\ audits'[n].before = audits[n].before /\ SourceOf(n)' = SourceOf(n)
             /\ \A a, i : Foreseen(audits[n], a, i)' <=> Foreseen(audits[n], a, i)
  <2>1. /\ Open(n) /\ audits'[n].before = audits[n].before
        /\ SourceOf(n)' = SourceOf(n) /\ TargetOf(n)' = TargetOf(n)
    BY <1>1, <1>5, CarriedSays
  <2> QED
    BY <1>3, <2>1 DEF Foreseen, SourceOf, TargetOf, Turned
<1>6. ASSUME NEW a \in Attempts, Live(a)', Present(Of[a])', NEW i \in People(Of[a]) PROVE Foreseen(audits[N], a, i)'
  <2>1. Traced(a, i)
    BY <1>3, <1>6 DEF MatchedInv, Live, Present
  <2> QED
    BY <1>2, <1>3, <1>4, <2>1 DEF Foreseen, Traced, Turned
<1>7. ASSUME NEW c \in Conversations, Present(c)', ~memory'[c], NEW i \in People(c) PROVE person[c][i] # s
  BY <1>3, <1>4, <1>7 DEF MatchedInv, Present
<1> SUFFICES ASSUME NEW n \in DOMAIN audits', Open(n)'
             PROVE  /\ \A a \in Attempts : Live(a)' /\ Present(Of[a])' =>
                         \A i \in People(Of[a]) : Foreseen(audits[n], a, i)'
                    /\ \A c \in Conversations : Present(c)' /\ ~memory'[c] =>
                         \A i \in People(c) : audits'[n].before.person[c][i] # SourceOf(n)'
  BY DEF ForeseenInv, Open
<1>8. CASE n \in DOMAIN audits
  <2>1. /\ \A a \in Attempts : Live(a) /\ Present(Of[a]) => \A i \in People(Of[a]) : Foreseen(audits[n], a, i)
        /\ \A c \in Conversations : Present(c) /\ ~memory[c] =>
              \A i \in People(c) : audits[n].before.person[c][i] # SourceOf(n)
    BY <1>5, <1>8 DEF ForeseenInv
  <2> QED
    BY <1>3, <1>5, <1>8, <2>1 DEF Live, Present
<1>9. CASE n = N
  BY <1>2, <1>6, <1>7, <1>9 DEF SourceOf
<1> QED
  BY <1>1, <1>8, <1>9

\* A retained client that stands is not one of the pair.
LEMMA StandingMerge ==
  ASSUME Typed, AuditInv, NEW s \in Clients, NEW t \in Clients, Merge(s, t),
         NEW n \in DOMAIN audits, Standing(audits[n])'
  PROVE  /\ Standing(audits[n]) /\ TargetOf(n)' = TargetOf(n) /\ audits'[n].after = audits[n].after
         /\ TargetOf(n) \in Clients \ {s, t}
<1>1. Carried(n, {t} \cup Written)
  BY MergeCarries
<1>2. /\ Open(n) /\ TargetOf(n) \notin audits[n].touched /\ TargetOf(n) # t /\ Exists(TargetOf(n))'
      /\ TargetOf(n)' = TargetOf(n) /\ audits'[n].after = audits[n].after
  BY <1>1, CarriedSays
<1>3. \A cl : Exists(cl)' <=> Exists(cl) /\ cl # s
  BY MergeIs
<1> QED
  BY <1>2, <1>3, PairIs DEF Standing, Exists, Open, TargetOf

\* The retained client has the facts of both.
LEMMA GainedMerge ==
  ASSUME Typed, AuditInv, GainedInv, NEW s \in Clients, NEW t \in Clients, Merge(s, t)
  PROVE  GainedInv'
<1>n. PICK N : N = Len(audits) + 1
  OBVIOUS
<1>1. DOMAIN audits' = DOMAIN audits \cup {N}
  BY <1>n, MergeCarries
<1>2. /\ TargetOf(N)' = t /\ \A c \in Conversations : audits'[N].after.facts[c] = facts[c][s] + facts[c][t]
  BY <1>n, MergeSays DEF TargetOf
<1>3. /\ UNCHANGED status
      /\ \A c \in Conversations :
              /\ facts'[c][t] = facts[c][t] + facts[c][s]
              /\ \A cl \in Clients \ {s, t} : facts'[c][cl] = facts[c][cl]
  BY MergeIs
<1> SUFFICES ASSUME NEW n \in DOMAIN audits', Standing(audits[n])', NEW c \in Conversations, Present(c)'
             PROVE  facts'[c][TargetOf(n)'] >= audits'[n].after.facts[c]
  BY DEF GainedInv
<1>4. CASE n \in DOMAIN audits
  <2>1. /\ Standing(audits[n]) /\ TargetOf(n)' = TargetOf(n) /\ audits'[n].after = audits[n].after
        /\ TargetOf(n) \in Clients \ {s, t}
    BY <1>4, StandingMerge
  <2>2. facts[c][TargetOf(n)] >= audits[n].after.facts[c]
    BY <1>3, <1>4, <2>1 DEF GainedInv, Present
  <2> QED
    BY <1>3, <2>1, <2>2
<1>5. CASE n = N
  <2>1. facts[c][s] \in Nat /\ facts[c][t] \in Nat
    BY MergeTypes
  <2> QED
    BY <1>2, <1>3, <1>5, <2>1
<1> QED
  BY <1>1, <1>4, <1>5

\* A merge takes back no choice and makes none.
LEMMA FirmMerge ==
  ASSUME Typed, AuditInv, FirmInv, NEW s \in Clients, NEW t \in Clients, Merge(s, t)
  PROVE  FirmInv' /\ \A c \in Conversations : Firm(c) => Firm(c)'
<1>n. PICK N : N = Len(audits) + 1
  OBVIOUS
<1>1. /\ DOMAIN audits' = DOMAIN audits \cup {N}
      /\ \A n \in DOMAIN audits : Carried(n, {t} \cup Written)
  BY <1>n, MergeCarries
<1>2. /\ audits'[N].snapshot.source = s /\ audits'[N].before.manual = manual /\ audits'[N].before.assigned = assigned
  BY <1>n, MergeSays
<1>3. /\ UNCHANGED <<status, loaded>>
      /\ \A c \in Conversations : manual'[c] <=> manual[c] \/ assigned[c] = s
      /\ \A c \in Conversations : assigned[c] = s => status[c] \in {"completed", "failed"}
  BY MergeIs
<1>4. ASSUME NEW n \in DOMAIN audits, NEW c, Kept(audits[n], c)'
      PROVE  Kept(audits[n], c) /\ audits'[n].before = audits[n].before
  BY <1>1, <1>4, CarriedSays
<1>5. ASSUME NEW c \in Conversations, Firm(c) PROVE Firm(c)'
  <2>1. manual[c] /\ manual'[c]
    BY <1>3, <1>5 DEF Firm
  <2>2. ASSUME NEW n \in DOMAIN audits', Kept(audits[n], c)' PROVE audits'[n].before.manual[c]
    BY <1>1, <1>2, <1>4, <1>5, <2>1, <2>2 DEF Firm
  <2> QED
    BY <2>1, <2>2 DEF Firm
<1>6. ASSUME NEW n \in DOMAIN audits', NEW c \in Conversations, Kept(audits[n], c)'
      PROVE  status'[c] \in {"completed", "failed"}
  <2>1. CASE n \in DOMAIN audits
    BY <1>3, <1>4, <1>6, <2>1 DEF FirmInv
  <2>2. CASE n = N
    BY <1>2, <1>3, <1>6, <2>2 DEF Kept
  <2> QED
    BY <1>1, <2>1, <2>2
<1>7. ASSUME NEW a \in Attempts, loaded'[a], Present(Of[a])' PROVE Firm(Of[a])'
  BY <1>3, <1>5, <1>7, PastTypes DEF FirmInv, Present
<1> QED
  BY <1>5, <1>6, <1>7 DEF FirmInv

\* A merge completes nothing and records nothing.
LEMMA ToldMerge ==
  ASSUME Typed, AuditInv, FirmInv, NEW s \in Clients, NEW t \in Clients, Merge(s, t),
         NEW c \in Conversations, NEW i, Told(c, i)'
  PROVE  Told(c, i)
<1>1. UNCHANGED <<status, memory, pc, matched, recorded>>
  BY MergeIs
<1>2. Firm(c) => Firm(c)'
  BY FirmMerge
<1>3. /\ Recorded(c, i)' <=> Recorded(c, i)
      /\ Ending(c)' <=> Ending(c)
      /\ Done(c)' <=> Done(c)
      /\ Present(c)' <=> Present(c)
  BY <1>1 DEF Recorded, Ending, Done, Present, Live, Turned
<1> QED
  BY <1>2, <1>3 DEF Told

\* The people of the source have their facts with the target.
LEMMA ToldFactsMerge ==
  ASSUME Typed, AuditInv, FirmInv, ToldHasFacts, ToldHadFacts, NEW s \in Clients, NEW t \in Clients, Merge(s, t)
  PROVE  ToldHasFacts' /\ ToldHadFacts'
<1>n. PICK N : N = Len(audits) + 1
  OBVIOUS
<1>1. /\ DOMAIN audits' = DOMAIN audits \cup {N}
      /\ \A n \in DOMAIN audits : Carried(n, {t} \cup Written)
  BY <1>n, MergeCarries
<1>2. /\ audits'[N].snapshot.source = s /\ audits'[N].snapshot.target = t
      /\ audits'[N].before.person = person /\ audits'[N].before.facts = facts
  BY <1>n, MergeSays
<1>3. /\ s # t
      /\ \A c \in Conversations : \A i \in People(c) :
              person'[c][i] = IF person[c][i] = s THEN t ELSE person[c][i]
      /\ \A c \in Conversations :
              /\ facts'[c][t] = facts[c][t] + facts[c][s]
              /\ \A cl \in Clients \ {s, t} : facts'[c][cl] = facts[c][cl]
  BY MergeIs
<1>4. /\ None \notin Clients
      /\ \A c \in Conversations : facts[c][s] \in Nat /\ facts[c][t] \in Nat
      /\ \A c \in Conversations : \A i \in People(c) : person[c][i] \in Clients \cup {None}
  BY MergeTypes
<1>5. ASSUME NEW c \in Conversations, NEW i \in People(c), Told(c, i)'
      PROVE  person[c][i] \in Clients /\ facts[c][person[c][i]] > 0 /\ Told(c, i)
  <2>1. Told(c, i)
    BY <1>5, ToldMerge
  <2> QED
    BY <1>4, <2>1 DEF ToldHasFacts
<1>6. ASSUME NEW c \in Conversations, NEW i \in People(c), Told(c, i)'
      PROVE  person'[c][i] # None /\ facts'[c][person'[c][i]] > 0
  <2>1. CASE person[c][i] \in {s, t}
    <3>1. person'[c][i] = t /\ facts[c][s] + facts[c][t] > 0
      BY <1>3, <1>4, <1>5, <1>6, <2>1
    <3> QED
      BY <1>3, <1>4, <3>1
  <2>2. CASE person[c][i] \notin {s, t}
    BY <1>3, <1>4, <1>5, <1>6, <2>2
  <2> QED
    BY <2>1, <2>2
<1>7. ASSUME NEW n \in DOMAIN audits', Standing(audits[n])',
             NEW c \in Conversations, NEW i \in People(c), Told(c, i)',
             person'[c][i] = TargetOf(n)', facts'[c][TargetOf(n)'] <= audits'[n].after.facts[c]
      PROVE  HadFacts(audits[n], c, i)'
  <2>1. person[c][i] \in Clients /\ facts[c][person[c][i]] > 0 /\ Told(c, i)
    BY <1>5, <1>7
  <2>2. CASE n \in DOMAIN audits
    <3>1. /\ Standing(audits[n]) /\ TargetOf(n)' = TargetOf(n) /\ audits'[n].after = audits[n].after
          /\ TargetOf(n) \in Clients \ {s, t}
      BY <1>7, <2>2, StandingMerge
    <3>2. person[c][i] = TargetOf(n) /\ facts[c][TargetOf(n)] <= audits[n].after.facts[c]
      BY <1>3, <1>7, <3>1
    <3>3. HadFacts(audits[n], c, i)
      BY <2>1, <2>2, <3>1, <3>2 DEF ToldHadFacts
    <3>4. Carried(n, {t} \cup Written)
      BY <1>1, <2>2
    <3> QED
      BY <3>3, <3>4 DEF HadFacts, Carried, Marked
  <2>3. CASE n = N
    <3>1. TargetOf(n)' = t
      BY <1>2, <2>3 DEF TargetOf
    <3>2. person[c][i] \in {s, t}
      BY <1>3, <1>7, <3>1
    <3> QED
      BY <1>2, <2>1, <2>3, <3>2 DEF HadFacts
  <2> QED
    BY <1>1, <2>2, <2>3
<1> QED
  BY <1>6, <1>7 DEF ToldHasFacts, ToldHadFacts, People

\* A merge keeps all of it.
LEMMA UneditedMerge ==
  ASSUME Typed, AuditInv, UneditedInv, NEW s \in Clients, NEW t \in Clients, Merge(s, t)
  PROVE  UneditedInv'
BY SourcesMerge, MatchedMerge, ForeseenMerge, GainedMerge, FirmMerge, ToldFactsMerge DEF UneditedInv

-----------------------------------------------------------------------------
(* What an undo does to the rows *)

LEMMA UndoDoes ==
  ASSUME Typed, AuditInv, NEW m \in DOMAIN audits, Undo(m),
         NEW s, NEW t, s = SourceOf(m), t = TargetOf(m)
  PROVE  LET before == audits[m].before IN
         /\ s \in Clients /\ t \in Clients /\ s # t
         /\ Open(m) /\ ~Exists(s) /\ Exists(t) /\ Standing(audits[m])
         /\ UNCHANGED <<status, memory, pc, loaded, matched, recorded, edits>>
         /\ key'[s] \in Keys /\ \A cl \in Clients \ {s} : key'[cl] = key[cl]
         /\ \A cl : Exists(cl)' <=> Exists(cl) \/ cl = s
         /\ \A c \in Conversations :
              manual'[c] = IF before.assigned[c] = s THEN before.manual[c] ELSE manual[c]
         /\ \A c \in Conversations : before.assigned[c] = s => Kept(audits[m], c)
         /\ \A c \in Conversations : \A i \in People(c) :
              /\ person'[c][i] = IF before.person[c][i] = s THEN s ELSE person[c][i]
              /\ before.person[c][i] \in {s, t} => person[c][i] = t
         /\ \A c \in Conversations :
              /\ facts'[c][s] = before.facts[c][s] /\ facts'[c][t] = before.facts[c][t]
              /\ facts[c][t] = audits[m].after.facts[c]
              /\ \A cl \in Clients \ {s, t} : facts'[c][cl] = facts[c][cl]
<1> DEFINE old == audits[m].snapshot
           before == audits[m].before
<1>1. s = old.source /\ t = old.target
  BY DEF SourceOf, TargetOf
<1>2. /\ ~audits[m].undone /\ Exists(t) /\ ~Exists(s) /\ Unchanged(audits[m])
      /\ UNCHANGED <<status, memory, pc, loaded, matched, recorded, edits>>
      /\ key' = [key EXCEPT ![s] = old.key]
      /\ facts' = [c \in Conversations |->
                     [facts[c] EXCEPT ![s] = old.facts[c][s], ![t] = @ - old.facts[c][s]]]
  BY <1>1 DEF Undo, MayUndo, session
<1>3. s \in Clients /\ t \in Clients /\ s # t /\ old.key \in Keys
  BY <1>1 DEF AuditInv, SnapshotOK
<1>4. key'[s] \in Keys /\ \A cl \in Clients \ {s} : key'[cl] = key[cl]
  BY <1>2, <1>3, MergeTypes
<1>5. \A cl : Exists(cl)' <=> Exists(cl) \/ cl = s
  BY <1>3, <1>4 DEF Exists
<1>6. /\ \A c \in Conversations :
           IF before.assigned[c] = s THEN manual'[c] = before.manual[c] ELSE manual'[c] = manual[c]
      /\ \A p \in AllPeople : ClientOf(p)' = IF before.person[p[1]][p[2]] = s THEN s ELSE ClientOf(p)
      /\ \A c \in Conversations : facts'[c][s] = before.facts[c][s] /\ facts'[c][t] = before.facts[c][t]
  BY <1>1, UndoIs
<1>7. /\ \A c \in Conversations : before.assigned[c] = s => c \notin audits[m].touched
      /\ \A p \in AllPeople : before.person[p[1]][p[2]] \in {s, t} => ClientOf(p) = t
      /\ t \notin audits[m].touched
  BY <1>1, <1>2, UndoFinds
<1>8. ASSUME NEW c \in Conversations, NEW i \in People(c)
      PROVE  /\ person'[c][i] = IF before.person[c][i] = s THEN s ELSE person[c][i]
             /\ before.person[c][i] \in {s, t} => person[c][i] = t
  <2> DEFINE p == <<c, i>>
  <2>1. p \in AllPeople /\ p[1] = c /\ p[2] = i /\ ClientOf(p) = person[c][i] /\ ClientOf(p)' = person'[c][i]
    BY PeopleAre DEF ClientOf
  <2> HIDE DEF p, before
  <2> QED
    BY <1>6, <1>7, <2>1
<1>9. ASSUME NEW c \in Conversations, NEW cl \in Clients \ {s, t} PROVE facts'[c][cl] = facts[c][cl]
  BY <1>2, MergeTypes
<1>10. ASSUME NEW c \in Conversations PROVE facts[c][t] = audits[m].after.facts[c]
  BY <1>1, <1>2 DEF Unchanged, MergedState
<1>11. Standing(audits[m]) /\ Open(m) /\ \A c \in Conversations : before.assigned[c] = s => Kept(audits[m], c)
  BY <1>1, <1>2, <1>7 DEF Standing, Kept, Open
<1> HIDE DEF before, old
<1> QED
  BY <1>2, <1>3, <1>4, <1>5, <1>6, <1>8, <1>9, <1>10, <1>11 DEF before

\* The audits of other merges go on; its own says the same, and is closed.
LEMMA UndoCloses ==
  ASSUME AuditInv, NEW m \in DOMAIN audits, Undo(m),
         NEW s, NEW t, s = SourceOf(m), t = TargetOf(m)
  PROVE  /\ DOMAIN audits' = DOMAIN audits /\ ~Open(m)'
         /\ SourceOf(m)' = SourceOf(m) /\ TargetOf(m)' = TargetOf(m)
         /\ \A c : ~Kept(audits[m], c)'
         /\ ~Standing(audits[m])'
         /\ \A n \in DOMAIN audits \ {m} : Carried(n, {s, t} \cup Written)
BY UndoCarries DEF Open, SourceOf, TargetOf, Kept, Standing, Marked

\* An undo gives the id of its source back to its source alone.
LEMMA SourcesUndo ==
  ASSUME Typed, AuditInv, SourcesInv, NEW m \in DOMAIN audits, Undo(m)
  PROVE  SourcesInv'
<1>0. PICK s, t : s = SourceOf(m) /\ t = TargetOf(m)
  OBVIOUS
<1>1. /\ Open(m) /\ key'[s] \in Keys /\ \A cl \in Clients \ {s} : key'[cl] = key[cl]
  BY <1>0, UndoDoes
<1>2. /\ DOMAIN audits' = DOMAIN audits /\ ~Open(m)'
      /\ SourceOf(m)' = SourceOf(m) /\ TargetOf(m)' = TargetOf(m)
      /\ \A n \in DOMAIN audits \ {m} : Carried(n, {s, t} \cup Written)
  BY <1>0, UndoCloses
<1>3. Free \notin Keys
  BY MergeTypes
<1>4. ASSUME NEW n \in DOMAIN audits
      PROVE  /\ SourceOf(n)' = SourceOf(n) /\ TargetOf(n)' = TargetOf(n) /\ (Open(n)' => Open(n) /\ n # m)
             /\ SourceOf(n) \in Clients /\ TargetOf(n) \in Clients
             /\ key[SourceOf(n)] # Free /\ key[TargetOf(n)] # Free
  <2>1. SourceOf(n) \in Clients /\ TargetOf(n) \in Clients /\ key[SourceOf(n)] # Free /\ key[TargetOf(n)] # Free
    BY PairIs DEF SourcesInv
  <2>2. CASE n = m
    BY <1>2, <2>1, <2>2
  <2>3. CASE n # m
    BY <1>2, <2>1, <2>3, CarriedSays
  <2> QED
    BY <2>2, <2>3
<1>5. ASSUME NEW n \in DOMAIN audits PROVE key'[SourceOf(n)'] # Free /\ key'[TargetOf(n)'] # Free
  BY <1>1, <1>3, <1>4
<1>6. ASSUME NEW n \in DOMAIN audits, Open(n)' PROVE key'[SourceOf(n)'] = None
  <2>1. Open(n) /\ n # m /\ SourceOf(n) # s /\ key[SourceOf(n)] = None
    BY <1>0, <1>1, <1>4, <1>6 DEF SourcesInv
  <2> QED
    BY <1>1, <1>4, <2>1
<1>7. ASSUME NEW n \in DOMAIN audits, NEW k \in DOMAIN audits, Open(n)', Open(k)', SourceOf(n)' = SourceOf(k)'
      PROVE  n = k
  BY <1>4, <1>7 DEF SourcesInv
<1> QED
  BY <1>2, <1>5, <1>6, <1>7 DEF SourcesInv

\* The people it gives back are those the attempts have matched with the source.
LEMMA MatchedUndo ==
  ASSUME Typed, AuditInv, MatchedInv, ForeseenInv, NEW m \in DOMAIN audits, Undo(m)
  PROVE  MatchedInv'
<1>0. PICK s, t : s = SourceOf(m) /\ t = TargetOf(m)
  OBVIOUS
<1> DEFINE was(c, i) == audits[m].before.person[c][i]
<1>1. /\ s \in Clients /\ t \in Clients /\ s # t /\ Open(m) /\ ~Exists(s)
      /\ UNCHANGED <<status, memory, pc, matched, recorded>>
      /\ key'[s] \in Keys /\ \A cl \in Clients \ {s} : key'[cl] = key[cl]
      /\ \A cl : Exists(cl)' <=> Exists(cl) \/ cl = s
      /\ \A c \in Conversations : \A i \in People(c) :
              /\ person'[c][i] = IF was(c, i) = s THEN s ELSE person[c][i]
              /\ was(c, i) \in {s, t} => person[c][i] = t
  BY <1>0, UndoDoes
<1>2. Free \notin Keys /\ None \notin Clients
  BY MergeTypes
<1>3. ASSUME NEW a \in Attempts, Live(a)', Present(Of[a])', NEW i \in People(Of[a]) PROVE Traced(a, i)'
  <2> DEFINE c == Of[a]
  <2>1. Traced(a, i) /\ Foreseen(audits[m], a, i) /\ (Turned(a, i)' <=> Turned(a, i)) /\ c \in Conversations
    BY <1>1, <1>3, PastTypes DEF MatchedInv, ForeseenInv, Live, Present, Turned
  <2>2. /\ person'[c][i] = IF was(c, i) = s THEN s ELSE person[c][i]
        /\ was(c, i) \in {s, t} => person[c][i] = t
    BY <1>1, <2>1
  <2>3. IF Turned(a, i) THEN (matched[a][i] = s => was(c, i) = s) /\ (matched[a][i] = t => was(c, i) # s)
                        ELSE was(c, i) # s
    BY <1>0, <2>1 DEF Foreseen, SourceOf, TargetOf
  <2>4. CASE Turned(a, i)
    <3>1. matched[a][i] \in Clients /\ matched'[a][i] = matched[a][i]
      BY <1>1, <2>4, WholeTypes DEF Turned
    <3>2. /\ person[c][i] # None /\ key[matched[a][i]] # Free
          /\ Exists(matched[a][i]) => person[c][i] = matched[a][i]
      BY <2>1, <2>4 DEF Traced
    <3> HIDE DEF was
    <3>3. person'[c][i] # None /\ key'[matched[a][i]] # Free
      BY <1>1, <1>2, <2>2, <3>1, <3>2
    <3>4. Exists(matched[a][i])' => person'[c][i] = matched[a][i]
      BY <1>1, <2>2, <2>3, <2>4, <3>1, <3>2
    <3> QED
      BY <2>1, <2>4, <3>1, <3>3, <3>4 DEF Traced, Exists
  <2>5. CASE ~Turned(a, i)
    BY <2>1, <2>2, <2>3, <2>5 DEF Traced
  <2> QED
    BY <2>4, <2>5
<1>4. ASSUME NEW c \in Conversations, Present(c)', ~memory'[c], NEW i \in People(c) PROVE person'[c][i] = None
  <2>1. person[c][i] = None /\ was(c, i) # s
    BY <1>0, <1>1, <1>4 DEF MatchedInv, ForeseenInv, Present
  <2> HIDE DEF was
  <2> QED
    BY <1>1, <2>1
<1>5. \A a \in Attempts : Far(a)'
  BY <1>1 DEF MatchedInv, Far, Live
<1> QED
  BY <1>3, <1>4, <1>5 DEF MatchedInv, Far

\* It says nothing else of the merges that stay.
LEMMA ForeseenUndo ==
  ASSUME Typed, AuditInv, ForeseenInv, NEW m \in DOMAIN audits, Undo(m)
  PROVE  ForeseenInv'
<1>0. PICK s, t : s = SourceOf(m) /\ t = TargetOf(m)
  OBVIOUS
<1>1. UNCHANGED <<status, memory, pc, matched>>
  BY <1>0, UndoDoes
<1>2. /\ DOMAIN audits' = DOMAIN audits /\ ~Open(m)'
      /\ \A n \in DOMAIN audits \ {m} : Carried(n, {s, t} \cup Written)
  BY <1>0, UndoCloses
<1>3. ASSUME NEW n \in DOMAIN audits, Open(n)'
      PROVE  /\ Open(n) /\ audits'[n].before = audits[n].before /\ SourceOf(n)' = SourceOf(n)
             /\ \A a, i : Foreseen(audits[n], a, i)' <=> Foreseen(audits[n], a, i)
  <2>1. /\ Open(n) /\ audits'[n].before = audits[n].before
        /\ SourceOf(n)' = SourceOf(n) /\ TargetOf(n)' = TargetOf(n)
    BY <1>2, <1>3, CarriedSays
  <2> QED
    BY <1>1, <2>1 DEF Foreseen, SourceOf, TargetOf, Turned
<1> SUFFICES ASSUME NEW n \in DOMAIN audits, Open(n)'
             PROVE  /\ \A a \in Attempts : Live(a)' /\ Present(Of[a])' =>
                         \A i \in People(Of[a]) : Foreseen(audits[n], a, i)'
                    /\ \A c \in Conversations : Present(c)' /\ ~memory'[c] =>
                         \A i \in People(c) : audits'[n].before.person[c][i] # SourceOf(n)'
  BY <1>2 DEF ForeseenInv, Open
<1>4. /\ \A a \in Attempts : Live(a) /\ Present(Of[a]) => \A i \in People(Of[a]) : Foreseen(audits[n], a, i)
      /\ \A c \in Conversations : Present(c) /\ ~memory[c] =>
            \A i \in People(c) : audits[n].before.person[c][i] # SourceOf(n)
  BY <1>3 DEF ForeseenInv
<1> QED
  BY <1>1, <1>3, <1>4 DEF Live, Present

\* Another retained client that stands after an undo is not one of the pair.
LEMMA StandingUndo ==
  ASSUME Typed, AuditInv, NEW m \in DOMAIN audits, Undo(m),
         NEW s, NEW t, s = SourceOf(m), t = TargetOf(m),
         NEW n \in DOMAIN audits, Standing(audits[n])'
  PROVE  /\ Standing(audits[n]) /\ TargetOf(n)' = TargetOf(n) /\ audits'[n].after = audits[n].after
         /\ TargetOf(n) \in Clients \ {s, t} /\ n # m
<1>1. n # m /\ Carried(n, {s, t} \cup Written)
  BY UndoCloses
<1>2. /\ Open(n) /\ TargetOf(n) \notin audits[n].touched \cup {s, t} /\ Exists(TargetOf(n))'
      /\ TargetOf(n)' = TargetOf(n) /\ audits'[n].after = audits[n].after
  BY <1>1, CarriedSays
<1>3. \A cl : Exists(cl)' <=> Exists(cl) \/ cl = s
  BY UndoDoes
<1> QED
  BY <1>1, <1>2, <1>3, PairIs DEF Standing, Exists, Open, TargetOf

\* It takes facts from its own pair alone.
LEMMA GainedUndo ==
  ASSUME Typed, AuditInv, GainedInv, NEW m \in DOMAIN audits, Undo(m)
  PROVE  GainedInv'
<1>0. PICK s, t : s = SourceOf(m) /\ t = TargetOf(m)
  OBVIOUS
<1>1. UNCHANGED status /\ \A c \in Conversations : \A cl \in Clients \ {s, t} : facts'[c][cl] = facts[c][cl]
  BY <1>0, UndoDoes
<1>2. DOMAIN audits' = DOMAIN audits
  BY <1>0, UndoCloses
<1> SUFFICES ASSUME NEW n \in DOMAIN audits, Standing(audits[n])', NEW c \in Conversations, Present(c)'
             PROVE  facts'[c][TargetOf(n)'] >= audits'[n].after.facts[c]
  BY <1>2 DEF GainedInv
<1>3. /\ Standing(audits[n]) /\ TargetOf(n)' = TargetOf(n) /\ audits'[n].after = audits[n].after
      /\ TargetOf(n) \in Clients \ {s, t}
  BY <1>0, StandingUndo
<1>4. facts[c][TargetOf(n)] >= audits[n].after.facts[c]
  BY <1>1, <1>3 DEF GainedInv, Present
<1> QED
  BY <1>1, <1>3, <1>4

\* An undo gives back what the merge made manual, and no choice.
LEMMA FirmUndo ==
  ASSUME Typed, AuditInv, FirmInv, NEW m \in DOMAIN audits, Undo(m)
  PROVE  FirmInv' /\ \A c \in Conversations : Firm(c) => Firm(c)'
<1>0. PICK s, t : s = SourceOf(m) /\ t = TargetOf(m)
  OBVIOUS
<1> DEFINE before == audits[m].before
<1>1. /\ UNCHANGED <<status, loaded>>
      /\ \A c \in Conversations :
              manual'[c] = IF before.assigned[c] = s THEN before.manual[c] ELSE manual[c]
      /\ \A c \in Conversations : before.assigned[c] = s => Kept(audits[m], c)
  BY <1>0, UndoDoes
<1>2. /\ DOMAIN audits' = DOMAIN audits
      /\ \A n \in DOMAIN audits : \A c : Kept(audits[n], c)' => Kept(audits[n], c) /\ audits'[n].before = audits[n].before
  <2>1. /\ DOMAIN audits' = DOMAIN audits /\ \A c : ~Kept(audits[m], c)'
        /\ \A n \in DOMAIN audits \ {m} : Carried(n, {s, t} \cup Written)
    BY <1>0, UndoCloses
  <2> QED
    BY <2>1, CarriedSays
<1>3. ASSUME NEW c \in Conversations, Firm(c) PROVE Firm(c)'
  <2>1. manual'[c]
    BY <1>1, <1>3 DEF Firm
  <2> QED
    BY <1>2, <1>3, <2>1 DEF Firm
<1>4. ASSUME NEW n \in DOMAIN audits, NEW c \in Conversations, Kept(audits[n], c)'
      PROVE  status'[c] \in {"completed", "failed"}
  BY <1>1, <1>2, <1>4 DEF FirmInv
<1>5. ASSUME NEW a \in Attempts, loaded'[a], Present(Of[a])' PROVE Firm(Of[a])'
  BY <1>1, <1>3, <1>5, PastTypes DEF FirmInv, Present
<1> QED
  BY <1>2, <1>3, <1>4, <1>5 DEF FirmInv

\* An undo completes nothing and records nothing.
LEMMA ToldUndo ==
  ASSUME Typed, AuditInv, FirmInv, NEW m \in DOMAIN audits, Undo(m),
         NEW c \in Conversations, NEW i, Told(c, i)'
  PROVE  Told(c, i)
<1>1. UNCHANGED <<status, memory, pc, matched, recorded>>
  BY UndoDoes
<1>2. Firm(c) => Firm(c)'
  BY FirmUndo
<1>3. /\ Recorded(c, i)' <=> Recorded(c, i)
      /\ Ending(c)' <=> Ending(c)
      /\ Done(c)' <=> Done(c)
      /\ Present(c)' <=> Present(c)
  BY <1>1 DEF Recorded, Ending, Done, Present, Live, Turned
<1> QED
  BY <1>2, <1>3 DEF Told

\* Whoever stays with the target, or goes back to the source, had facts before the merge.
LEMMA ToldFactsUndo ==
  ASSUME Typed, AuditInv, LinksNameClients, FirmInv, ToldHasFacts, ToldHadFacts,
         NEW m \in DOMAIN audits, Undo(m)
  PROVE  ToldHasFacts' /\ ToldHadFacts'
<1>0. PICK s, t : s = SourceOf(m) /\ t = TargetOf(m)
  OBVIOUS
<1> DEFINE before == audits[m].before
<1>1. /\ s \in Clients /\ t \in Clients /\ s # t /\ ~Exists(s) /\ Standing(audits[m])
      /\ \A c \in Conversations : \A i \in People(c) :
              person'[c][i] = IF before.person[c][i] = s THEN s ELSE person[c][i]
      /\ \A c \in Conversations : \A i \in People(c) :
              before.person[c][i] \in {s, t} => person[c][i] = t
      /\ \A c \in Conversations :
              /\ facts'[c][s] = before.facts[c][s] /\ facts'[c][t] = before.facts[c][t]
              /\ facts[c][t] = audits[m].after.facts[c]
              /\ \A cl \in Clients \ {s, t} : facts'[c][cl] = facts[c][cl]
  BY <1>0, UndoDoes
<1>2. /\ DOMAIN audits' = DOMAIN audits
      /\ \A n \in DOMAIN audits \ {m} : Carried(n, {s, t} \cup Written)
  BY <1>0, UndoCloses
<1>3. /\ None \notin Clients
      /\ \A c \in Conversations : facts[c][t] \in Nat
      /\ \A c \in Conversations : \A i \in People(c) : person[c][i] \in Clients \cup {None}
  BY <1>1, MergeTypes
<1>4. ASSUME NEW c \in Conversations, NEW i \in People(c), Told(c, i)'
      PROVE  person[c][i] \in Clients \ {s} /\ facts[c][person[c][i]] > 0 /\ Told(c, i)
  <2>1. Told(c, i)
    BY <1>4, ToldUndo
  <2>2. person[c][i] \in Clients /\ facts[c][person[c][i]] > 0
    BY <1>3, <2>1 DEF ToldHasFacts
  <2>3. person[c][i] # s
    BY <1>1, <1>3, <2>2 DEF LinksNameClients
  <2> QED
    BY <2>1, <2>2, <2>3
<1>5. ASSUME NEW c \in Conversations, NEW i \in People(c), Told(c, i)', person[c][i] = t
      PROVE  before.person[c][i] \in {s, t} /\ before.facts[c][before.person[c][i]] > 0
  <2>1. facts[c][t] <= audits[m].after.facts[c] /\ TargetOf(m) = t /\ Told(c, i)
    BY <1>0, <1>1, <1>3, <1>4, <1>5
  <2>2. HadFacts(audits[m], c, i)
    BY <1>1, <1>5, <2>1 DEF ToldHadFacts
  <2> QED
    BY <1>0, <2>2 DEF HadFacts, SourceOf, TargetOf
<1>6. ASSUME NEW c \in Conversations, NEW i \in People(c), Told(c, i)'
      PROVE  person'[c][i] # None /\ facts'[c][person'[c][i]] > 0
  <2> HIDE DEF before
  <2>1. CASE person[c][i] = t
    BY <1>1, <1>3, <1>5, <1>6, <2>1
  <2>2. CASE person[c][i] # t
    BY <1>1, <1>3, <1>4, <1>6, <2>2
  <2> QED
    BY <2>1, <2>2
<1>7. ASSUME NEW n \in DOMAIN audits, Standing(audits[n])',
             NEW c \in Conversations, NEW i \in People(c), Told(c, i)',
             person'[c][i] = TargetOf(n)', facts'[c][TargetOf(n)'] <= audits'[n].after.facts[c]
      PROVE  HadFacts(audits[n], c, i)'
  <2>1. /\ Standing(audits[n]) /\ TargetOf(n)' = TargetOf(n) /\ audits'[n].after = audits[n].after
        /\ TargetOf(n) \in Clients \ {s, t} /\ n # m
    BY <1>0, <1>7, StandingUndo
  <2>2. person[c][i] = TargetOf(n) /\ facts[c][TargetOf(n)] <= audits[n].after.facts[c]
    BY <1>1, <1>7, <2>1
  <2>3. HadFacts(audits[n], c, i)
    BY <1>4, <1>7, <2>1, <2>2 DEF ToldHadFacts
  <2>4. Carried(n, {s, t} \cup Written)
    BY <1>2, <2>1
  <2> QED
    BY <2>3, <2>4 DEF HadFacts, Carried, Marked
<1> QED
  BY <1>2, <1>6, <1>7 DEF ToldHasFacts, ToldHadFacts, People

\* An undo keeps all of it.
LEMMA UneditedUndo ==
  ASSUME Typed, AuditInv, LinksNameClients, UneditedInv, NEW m \in DOMAIN audits, Undo(m)
  PROVE  UneditedInv'
BY SourcesUndo, MatchedUndo, ForeseenUndo, GainedUndo, FirmUndo, ToldFactsUndo DEF UneditedInv

-----------------------------------------------------------------------------
(* Until users edit *)

\* What shows a merge changes nothing of it.
LEMMA UneditedSame ==
  ASSUME UneditedInv, UNCHANGED <<vars, audits>>
  PROVE  UneditedInv'
<1>1. UNCHANGED <<status, manual, memory, person, facts, key, pc, loaded, matched, recorded, audits>>
  BY DEF vars, rows, session
<1>2. SourcesInv'
  BY <1>1 DEF UneditedInv, SourcesInv, SourceOf, TargetOf, Open
<1>3. MatchedInv'
  BY <1>1 DEF UneditedInv, MatchedInv, Live, Present, Traced, Turned, Exists, People
<1>4. ForeseenInv'
  BY <1>1 DEF UneditedInv, ForeseenInv, Live, Present, Foreseen, Turned, SourceOf, Open, People
<1>5. \A n \in DOMAIN audits : Standing(audits[n])' <=> Standing(audits[n])
  BY <1>1 DEF Standing, Exists
<1>6. \A c : Firm(c)' <=> Firm(c)
  BY <1>1 DEF Firm, Kept
<1>7. GainedInv' /\ FirmInv'
  BY <1>1, <1>5, <1>6 DEF UneditedInv, GainedInv, FirmInv, Present, TargetOf, Kept
<1>8. \A c, i : Told(c, i)' <=> Told(c, i)
  BY <1>1, <1>6 DEF Told, Recorded, Ending, Done, Present, Live, Turned
<1>9. ToldHasFacts' /\ ToldHadFacts'
  BY <1>1, <1>5, <1>8 DEF UneditedInv, ToldHasFacts, ToldHadFacts, HadFacts, TargetOf, People
<1> QED
  BY <1>2, <1>3, <1>4, <1>7, <1>9 DEF UneditedInv

\* Every step keeps it until users edit.
LEMMA UneditedStep ==
  MergeTyped /\ AuditInv /\ LinksNameClients /\ PastInv /\ (edits = 0 => UneditedInv) /\ [MergeNext]_mergeVars
    => (edits' = 0 => UneditedInv')
<1> SUFFICES ASSUME MergeTyped, AuditInv, LinksNameClients, PastInv, edits = 0 => UneditedInv,
                    [MergeNext]_mergeVars, edits' = 0
             PROVE  UneditedInv'
  OBVIOUS
<1>0. Typed /\ edits \in Nat
  BY MergeBoundsAssumption DEF MergeTyped, MergeTypeOK
<1>1. CASE Reconcile
  <2>1. edits' = edits
    BY <1>1 DEF Reconcile
  <2> QED
    BY <1>0, <1>1, <2>1, UneditedNext
<1>2. ASSUME NEW s \in Clients, NEW t \in Clients, Merge(s, t) PROVE UneditedInv'
  BY <1>0, <1>2, MergeIs, UneditedMerge
<1>3. ASSUME NEW m \in DOMAIN audits, Undo(m) PROVE UneditedInv'
  BY <1>0, <1>3, UndoDoes, UneditedUndo
<1>4. ASSUME NEW s \in Clients, NEW t \in Clients, Preview(s, t) PROVE UneditedInv'
  BY <1>4, UneditedSame DEF Preview
<1>5. ASSUME MayEdit PROVE FALSE
  BY <1>0, <1>5 DEF MayEdit
<1>6. CASE UNCHANGED mergeVars
  BY <1>6, UneditedSame DEF mergeVars, mergeRows
<1> QED
  BY <1>1, <1>2, <1>3, <1>4, <1>5, <1>6 DEF MergeNext, Confirm, Review, Edit

\* Merges, undos and edits take no attempt further and complete nothing.
LEMMA PastMerge ==
  MergeTyped /\ PastInv /\ [MergeNext]_mergeVars => PastInv'
<1> SUFFICES ASSUME MergeTyped, PastInv, [MergeNext]_mergeVars PROVE PastInv'
  OBVIOUS
<1>0. Typed
  BY DEF MergeTyped
<1>1. CASE Reconcile
  BY <1>0, <1>1, PastStep DEF Reconcile
<1>2. CASE ~Reconcile
  <2>1. UNCHANGED <<status, memory, pc>>
    BY <1>2 DEF MergeNext, Preview, Merge, Undo, Confirm, Review, Edit, mergeVars, vars, rows
  <2> QED
    BY <1>0, <2>1, PastQuiet DEF PastInv, Past, Live, Present
<1> QED
  BY <1>1, <1>2

\* MERGED IS WHOLE: with any number of merges and undos between the steps of any number of
\* attempts, until users edit, everyone whom a completed conversation mentions, and whose
\* client the user has not chosen, is linked with a client that has its facts.
THEOREM MergesKeepWhole == MergeSpec => []MergedIsWhole
<1> DEFINE Unedited == edits = 0 => UneditedInv
<1>1. MergeInit => MergeTyped /\ AuditInv /\ PastInv /\ Unedited
  BY MergeTypedInit, PastInit, UneditedInit DEF MergeInit
<1>2. MergeTyped /\ AuditInv /\ LinksNameClients /\ PastInv /\ Unedited /\ [MergeNext]_mergeVars
        => MergeTyped' /\ AuditInv' /\ PastInv' /\ Unedited'
  BY MergeStep, PastMerge, UneditedStep
<1>3. Unedited => MergedIsWhole
  <2> SUFFICES ASSUME UneditedInv, NEW c \in Conversations, status[c] = "completed", memory[c], ~manual[c],
                      NEW i \in People(c)
               PROVE  person[c][i] # None /\ facts[c][person[c][i]] > 0
    BY DEF MergedIsWhole
  <2>1. Told(c, i)
    BY DEF Told, Present, Done, Firm
  <2> QED
    BY <2>1 DEF UneditedInv, ToldHasFacts
<1> HIDE DEF Unedited
<1> QED
  BY <1>1, <1>2, <1>3, LinksStayValid, PTL DEF MergeSpec
=============================================================================
