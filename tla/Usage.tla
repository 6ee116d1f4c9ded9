------------------------------- MODULE Usage -------------------------------
(***************************************************************************)
(* The pilot allowance of one account (usage/service.py) and the requests  *)
(* that are admitted against it: uploads, calls of the AI provider, manual *)
(* retries. PostgreSQL's advisory lock serializes admissions; the ledger   *)
(* of a UTC day and the conversation rows are what they are checked        *)
(* against, and the deletion of a recording and midnight come whenever     *)
(* they like.                                                              *)
(*                                                                         *)
(* Accounts share nothing here, so one is enough. A request that dies, or  *)
(* that its caller abandons, loses its transaction and with it the lock.   *)
(***************************************************************************)
EXTENDS Naturals, FiniteSets, Functions

CONSTANTS
  Uploads,       \* POST /conversations requests
  AiCalls,       \* requests that call the provider: reviews, briefings, previews, drafts
  Retries,       \* POST /conversations/{id}/retry requests
  Existing,      \* recordings the account had when the limits were switched on
  Size,          \* bytes of each upload and each existing recording
  Seconds,       \* the durations a recording may decode to
  DailyLimit,    \* LIMITS: uploads, audio_seconds, ai, retries
  MaxRecordings, \* LIMITS["recordings"]
  MaxBytes,      \* LIMITS["storage_bytes"]
  LastDay        \* the days a run looks at are 1 to LastDay

Requests == Uploads \cup AiCalls \cup Retries
Daily == {"uploads", "audio_seconds", "ai", "retries"}
Days == 1 .. LastDay

ASSUME KindsAssumption ==
  /\ Uploads \cap (AiCalls \cup Retries) = {}
  /\ AiCalls \cap Retries = {}
  /\ Existing \cap Requests = {}
ASSUME SizeAssumption == \A u \in Uploads \cup Existing : Size[u] \in Nat
ASSUME SecondsAssumption == Seconds \subseteq Nat
ASSUME LimitsAssumption ==
  /\ DailyLimit \in [Daily -> Nat]
  /\ MaxRecordings \in Nat
  /\ MaxBytes \in Nat
ASSUME DaysAssumption == LastDay \in Nat \ {0}
ASSUME FiniteAssumption == IsFiniteSet(Uploads) /\ IsFiniteSet(Existing)

VARIABLES
  today,      \* the UTC day of the database clock
  ledger,     \* pilot_usage: what is charged to each day
  recordings, \* the account's conversation rows
  pc,         \* how far each request is
  day,        \* the day its admission has read
  seconds     \* the decoded duration of each upload, zero before it is known

vars == <<today, ledger, recordings, pc, day, seconds>>

\* A request waits for the lock, has it, is checked, decodes, has reserved, and ends.
Places ==
  {"new", "waiting", "locked", "decoding", "measured", "reserved",
   "committed", "called", "refused", "failed"}

TypeOK ==
  /\ today \in Days
  /\ ledger \in [Days -> [Daily -> Nat]]
  /\ recordings \subseteq Uploads \cup Existing
  /\ pc \in [Requests -> Places]
  /\ day \in [Requests -> Days]
  /\ seconds \in [Uploads -> Seconds \cup {0}]

Init ==
  /\ today = 1
  /\ ledger = [d \in Days |-> [k \in Daily |-> 0]]
  /\ recordings = Existing
  /\ pc = [r \in Requests |-> "new"]
  /\ day = [r \in Requests |-> 1]
  /\ seconds = [u \in Uploads |-> 0]

-----------------------------------------------------------------------------
(* Helpers *)

Kind(r) ==
  IF r \in Uploads THEN "uploads" ELSE IF r \in AiCalls THEN "ai" ELSE "retries"

\* What an admission adds to the ledger of its day.
Charge(r) ==
  [k \in Daily |-> IF k = Kind(r) THEN 1
                   ELSE IF r \in Uploads /\ k = "audio_seconds" THEN seconds[r] ELSE 0]

\* The daily counters an admission looks at.
Checked(r) == {Kind(r)} \cup {k \in {"audio_seconds"} : r \in Uploads}

Bytes(rs) == SumFunctionOnSet(Size, rs)

FitsDayBeforeIt(r) == \* mutant: used > limit, the request itself is not counted
  \A k \in Checked(r) : ledger[day[r]][k] <= DailyLimit[k]

FitsDay(r) == \A k \in Checked(r) : ledger[day[r]][k] + Charge(r)[k] <= DailyLimit[k]

FitsAccount(r) ==
  r \in Uploads =>
    /\ Cardinality(recordings) + 1 <= MaxRecordings
    /\ Bytes(recordings) + Size[r] <= MaxBytes

\* The snapshot leaves room for request r.
Fits(r) == FitsDay(r) /\ FitsAccount(r)

HoldsUntilReserved(r) == pc[r] \in {"locked", "decoding", "measured"} \* mutant

HoldsWhenRefused(r) == \* mutant: a refusal leaves its transaction open
  pc[r] \in {"locked", "decoding", "measured", "reserved", "refused"}

\* pg_advisory_xact_lock lasts until the transaction ends.
Holds(r) == pc[r] \in {"locked", "decoding", "measured", "reserved"}

-----------------------------------------------------------------------------

Ask(r) ==
  /\ pc[r] = "new"
  /\ pc' = [pc EXCEPT ![r] = "waiting"]
  /\ UNCHANGED <<today, ledger, recordings, day, seconds>>

\* admit: the lock, then the first query of the snapshot, which reads the clock.
Lock(r) ==
  /\ pc[r] = "waiting"
  /\ \A s \in Requests : ~Holds(s)
  /\ pc' = [pc EXCEPT ![r] = "locked"]
  /\ day' = [day EXCEPT ![r] = today]
  /\ UNCHANGED <<today, ledger, recordings, seconds>>

\* An upload is first admitted with reserve=False, before its audio is decoded.
Precheck(r) ==
  /\ pc[r] = "locked"
  /\ r \in Uploads
  /\ Fits(r)
  /\ pc' = [pc EXCEPT ![r] = "decoding"]
  /\ UNCHANGED <<today, ledger, recordings, day, seconds>>

\* audio_seconds returns, and the second admission reads the clock again.
Measure(r) ==
  /\ pc[r] = "decoding"
  /\ \E s \in Seconds : seconds' = [seconds EXCEPT ![r] = s]
  /\ day' = [day EXCEPT ![r] = today]
  /\ pc' = [pc EXCEPT ![r] = "measured"]
  /\ UNCHANGED <<today, ledger, recordings>>

\* The second admission of an upload, or the only one of the others: the update of the
\* ledger is made, and nobody sees it before the commit.
Reserve(r) ==
  /\ pc[r] = IF r \in Uploads THEN "measured" ELSE "locked"
  /\ Fits(r)
  /\ pc' = [pc EXCEPT ![r] = "reserved"]
  /\ UNCHANGED <<today, ledger, recordings, day, seconds>>

\* 429: the exception ends the transaction.
Refuse(r) ==
  /\ pc[r] \in {"locked", "measured"}
  /\ ~Fits(r)
  /\ pc' = [pc EXCEPT ![r] = "refused"]
  /\ UNCHANGED <<today, ledger, recordings, day, seconds>>

\* The commit of consume_ai, of the retried conversation's transition to QUEUED, or of
\* the new conversation once its file is stored.
Commit(r) ==
  /\ pc[r] = "reserved"
  /\ ledger' = [ledger EXCEPT ![day[r]] = [k \in Daily |-> @[k] + Charge(r)[k]]]
  /\ recordings' = recordings \cup ({r} \cap Uploads)
  /\ pc' = [pc EXCEPT ![r] = "committed"]
  /\ UNCHANGED <<today, day, seconds>>

CallOnReserve(r) == \* mutant: the charge is committed with the provider's answer
  /\ pc[r] = "reserved"
  /\ r \in AiCalls
  /\ pc' = [pc EXCEPT ![r] = "called"]
  /\ UNCHANGED <<today, ledger, recordings, day, seconds>>

\* The provider is called after the commit; its errors change nothing here.
Call(r) ==
  /\ pc[r] = "committed"
  /\ r \in AiCalls
  /\ pc' = [pc EXCEPT ![r] = "called"]
  /\ UNCHANGED <<today, ledger, recordings, day, seconds>>

\* Unreadable audio, a storage, queue or database error, or the end of the process.
Abandon(r) ==
  /\ Holds(r)
  /\ pc' = [pc EXCEPT ![r] = "failed"]
  /\ UNCHANGED <<today, ledger, recordings, day, seconds>>

DeleteRefunding(c) == \* mutant: deletion gives back the daily upload as well
  /\ c \in recordings
  /\ recordings' = recordings \ {c}
  /\ ledger' = [ledger EXCEPT ![today]["uploads"] = IF @ > 0 THEN @ - 1 ELSE 0]
  /\ UNCHANGED <<today, pc, day, seconds>>

\* DELETE /conversations/{id}, which asks for no lock.
Delete(c) ==
  /\ c \in recordings
  /\ recordings' = recordings \ {c}
  /\ UNCHANGED <<today, ledger, pc, day, seconds>>

Midnight ==
  /\ today < LastDay
  /\ today' = today + 1
  /\ UNCHANGED <<ledger, recordings, pc, day, seconds>>

Admission(r) ==
  Lock(r) \/ Precheck(r) \/ Measure(r) \/ Reserve(r) \/ Refuse(r) \/ Commit(r) \/ Call(r)

Next ==
  \/ \E r \in Requests : Ask(r) \/ Admission(r) \/ Abandon(r)
  \/ \E c \in Uploads \cup Existing : Delete(c)
  \/ Midnight

Spec == Init /\ [][Next]_vars

\* The database grants a free lock, and handlers run on.
Fairness == \A r \in Requests : WF_vars(Admission(r))

-----------------------------------------------------------------------------
(* Properties *)

\* No day is ever charged more than the pilot allows, however admissions, midnight,
\* failures and deletions interleave.
DailyWithinLimits == \A d \in Days, k \in Daily : ledger[d][k] <= DailyLimit[k]

\* A new recording never takes the account beyond its slots or its storage, even when
\* it was beyond them before the limits were switched on.
GrowsWithinLimits ==
  [][~(recordings' \subseteq recordings) =>
       Cardinality(recordings') <= MaxRecordings /\ Bytes(recordings') <= MaxBytes]_vars

\* Each day is charged exactly for the admissions committed under it: nothing for a
\* request that was refused, failed or rolled back, nothing back for a deletion.
LedgerIsExact ==
  \A d \in Days :
    LET Charged == {r \in Requests : pc[r] \in {"committed", "called"} /\ day[r] = d}
    IN  \A k \in Daily : ledger[d][k] = SumFunction([r \in Charged |-> Charge(r)[k]])

\* "AI admission commits before provider calls" (docs/features/pilot-allowance-rollout.md):
\* the provider is never called more often than was paid for.
CallsArePaid ==
  Cardinality({r \in AiCalls : pc[r] = "called"}) <= SumFunction([d \in Days |-> ledger[d]["ai"]])

\* Every request that waits for the lock is answered.
RequestsEnd ==
  \A r \in Requests : pc[r] = "waiting" ~> pc[r] \in {"committed", "called", "refused", "failed"}
=============================================================================
