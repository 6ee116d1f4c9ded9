----------------------------- MODULE Processing -----------------------------
(***************************************************************************)
(* One conversation and everything that moves its processing state: the    *)
(* upload request (conversation/api.py), the manual retry requests         *)
(* (conversation/service.py), the ARQ jobs they dispatch                   *)
(* (processing/queue.py, processing/worker.py) and the delete request.     *)
(*                                                                         *)
(* Conversations never share a row, a lock or a job, so one is enough.     *)
(*                                                                         *)
(* What is abstracted:                                                     *)
(*  - the pipeline (transcription, extraction, reconciliation) is one      *)
(*    period, pc = "stages", that ends well, ends with an exception, or    *)
(*    ends with an exception that also left the database session unusable; *)
(*  - of processing_error and processing_completed_at only whether they    *)
(*    are null; processing_started_at is left out;                         *)
(*  - a 429 of the pilot allowance is a refusal that may always happen.    *)
(*                                                                         *)
(* Row locks are derived, not stored: FOR UPDATE lasts as long as its      *)
(* transaction, and which transactions are open follows from the places    *)
(* the requests and the deliveries have reached (see RowFree).             *)
(***************************************************************************)
EXTENDS Naturals, FiniteSets

CONSTANTS
  Upload,    \* the job the upload request dispatches
  Requests,  \* POST /conversations/{id}/retry calls; each has a job of its own
  MaxTries,  \* settings.processing_max_tries
  Mode,      \* settings.processing_mode, "queue" or "inline"
  Faults,    \* the failures a run admits, see FaultKinds
  MaxHidden  \* bound: how many of them may hide a start, see Hide

FaultKinds ==
  { "upload_dispatch", \* the upload's enqueue raises though Redis has the job
    "worker_crash",    \* a worker dies or is restarted; ARQ delivers again
    "start_error",     \* the commit that starts an attempt fails
    "job_timeout",     \* ARQ cancels the delivery and drops the job
    "api_crash" }      \* the API process, or its database, fails amid an upload

ASSUME UploadAssumption == Upload \notin Requests
ASSUME MaxTriesAssumption == MaxTries \in Nat \ {0}
ASSUME ModeAssumption == Mode \in {"queue", "inline"}
ASSUME FaultsAssumption == Faults \subseteq FaultKinds /\ MaxHidden \in Nat

Jobs == Requests \cup {Upload}

Statuses == {"UPLOADED", "QUEUED", "PROCESSING", "COMPLETED", "FAILED"}
Terminal == {"COMPLETED", "FAILED"}

\* Of the message and of the time a row records only whether they are there.
Columns == {"null", "set"}

Row == [status: Statuses, attempts: Nat, error: Columns, completed: Columns]

NewRow == [status |-> "UPLOADED", attempts |-> 0, error |-> "null", completed |-> "null"]

VARIABLES
  exists,   \* the conversation row is in the table
  row,      \* its committed columns
  api,      \* how far the upload request is
  req,      \* how far each retry request is
  queue,    \* what Redis holds of each job
  try,      \* ARQ's job_try of each job
  baseline, \* the retry_attempts argument of each retry job
  pc,       \* how far the current delivery of each job is
  mem,      \* the row as the session of that delivery has it in memory
  hidden    \* history: failures after which an attempt may start that the row does not ask for

vars == <<exists, row, api, req, queue, try, baseline, pc, mem, hidden>>

ApiStates == {"receiving", "saved", "enqueued", "refused", "inline", "done"}
ReqStates == {"new", "locked", "dispatched", "accepted", "rejected", "unavailable"}
QueueStates == {"absent", "inflight", "ready", "running", "done"}
Places == {"idle", "guard", "setup", "start", "stages", "failed", "mark", "ending"}

TypeOK ==
  /\ exists \in BOOLEAN
  /\ row \in Row
  /\ api \in ApiStates
  /\ req \in [Requests -> ReqStates]
  /\ queue \in [Jobs -> QueueStates]
  /\ try \in [Jobs -> Nat]
  /\ baseline \in [Requests -> Nat]
  /\ pc \in [Jobs -> Places]
  /\ mem \in [Jobs -> Row]
  /\ hidden \in Nat

Init ==
  /\ exists = FALSE
  /\ row = NewRow
  /\ api = "receiving"
  /\ req = [r \in Requests |-> "new"]
  /\ queue = [j \in Jobs |-> "absent"]
  /\ try = [j \in Jobs |-> 0]
  /\ baseline = [r \in Requests |-> 0]
  /\ pc = [j \in Jobs |-> "idle"]
  /\ mem = [j \in Jobs |-> NewRow]
  /\ hidden = 0

-----------------------------------------------------------------------------
(* Helpers *)

\* The first delivery of a retry job is the one that checks its baseline.
Guarded(j) == j \in Requests /\ try[j] = 1

\* Transactions that hold the row FOR UPDATE.
RequestHolds(r) == req[r] \in {"locked", "dispatched"}
DeliveryHoldsUntilLoad(j) == Guarded(j) /\ pc[j] = "setup" \* mutant: a commit in between
DeliveryHolds(j) == Guarded(j) /\ pc[j] \in {"setup", "start"}

RowFreeForRequest ==
  /\ \A r \in Requests : ~RequestHolds(r)
  /\ \A j \in Jobs : ~DeliveryHolds(j)

\* An UPDATE or SELECT ... FOR UPDATE of delivery j does not have to wait.
RowFree(j) ==
  /\ \A r \in Requests : ~RequestHolds(r)
  /\ \A k \in Jobs \ {j} : ~DeliveryHolds(k)

\* A flush of the ORM session writes the columns whose value in memory changed,
\* whatever the other columns of the row have become meanwhile.
Flush(old, new) ==
  [ status    |-> IF new.status = old.status THEN row.status ELSE new.status,
    attempts  |-> IF new.attempts = old.attempts THEN row.attempts ELSE new.attempts,
    error     |-> IF new.error = old.error THEN row.error ELSE new.error,
    completed |-> IF new.completed = old.completed THEN row.completed ELSE new.completed ]

\* The columns that finish_processing assigns.
Finished(old, status, error) ==
  [old EXCEPT !.status = status, !.error = error,
              !.completed = IF status \in Terminal THEN "set" ELSE "null"]

\* Inline processing: the upload request runs the orchestrator itself.
Inline(j) == Mode = "inline" /\ j = Upload

\* A failure of which the row knows nothing, and after which a job is delivered unchecked.
Hide(fault) ==
  /\ fault \in Faults
  /\ hidden < MaxHidden
  /\ hidden' = hidden + 1

-----------------------------------------------------------------------------
(* The upload request *)

\* ConversationService.upload: the file is stored, the row inserted and committed.
UploadCommit ==
  /\ api = "receiving"
  /\ api' = "saved"
  /\ exists' = TRUE
  /\ UNCHANGED <<row, req, queue, try, baseline, pc, mem, hidden>>

\* enqueue_conversation_processing returns.
UploadEnqueue ==
  /\ api = "saved"
  /\ api' = "enqueued"
  /\ queue' = [queue EXCEPT ![Upload] = "ready"]
  /\ UNCHANGED <<exists, row, req, try, baseline, pc, mem, hidden>>

\* The request builds and runs the orchestrator itself.
UploadRunInline ==
  /\ api = "saved"
  /\ api' = "inline"
  /\ pc' = [pc EXCEPT ![Upload] = "setup"]
  /\ UNCHANGED <<exists, row, req, queue, try, baseline, mem, hidden>>

\* What the setting says.
UploadDispatch == IF Mode = "queue" THEN UploadEnqueue ELSE UploadRunInline

\* enqueue_conversation_processing raises. Redis may have the job all the same.
UploadEnqueueFails ==
  /\ Mode = "queue"
  /\ api = "saved"
  /\ api' = "refused"
  /\ \/ UNCHANGED <<queue, hidden>>
     \/ Hide("upload_dispatch") /\ queue' = [queue EXCEPT ![Upload] = "ready"]
  /\ UNCHANGED <<exists, row, req, try, baseline, pc, mem>>

\* update_status(QUEUED) with the row as the request's session first saw it. The
\* worker may have it already. If the row is gone, the call and the handler's
\* finish_processing both raise.
UploadMarkQueued ==
  /\ api = "enqueued"
  /\ RowFreeForRequest
  /\ row' = IF exists THEN Flush(NewRow, [NewRow EXCEPT !.status = "QUEUED"]) ELSE row
  /\ api' = "done"
  /\ UNCHANGED <<exists, req, queue, try, baseline, pc, mem, hidden>>

\* The handler's finish_processing(FAILED) after the dispatch raised.
UploadMarkFailed ==
  /\ api = "refused"
  /\ RowFreeForRequest
  /\ row' = IF exists THEN Flush(NewRow, Finished(NewRow, "FAILED", "set")) ELSE row
  /\ api' = "done"
  /\ UNCHANGED <<exists, req, queue, try, baseline, pc, mem, hidden>>

-----------------------------------------------------------------------------
(* The manual retry request r: ConversationService.retry_conversation *)

RetryLockAnyStatus(r) == \* mutant: no 409
  /\ req[r] = "new"
  /\ RowFreeForRequest
  /\ exists
  /\ req' = [req EXCEPT ![r] = "locked"]
  /\ UNCHANGED <<exists, row, api, queue, try, baseline, pc, mem, hidden>>

\* SELECT ... FOR UPDATE finds a FAILED row; the update to QUEUED is flushed, which
\* nobody sees before the commit.
RetryLock(r) ==
  /\ req[r] = "new"
  /\ RowFreeForRequest
  /\ exists
  /\ row.status = "FAILED"
  /\ req' = [req EXCEPT ![r] = "locked"]
  /\ UNCHANGED <<exists, row, api, queue, try, baseline, pc, mem, hidden>>

\* 404, 409, or 429 of the pilot allowance: the transaction rolls back.
RetryReject(r) ==
  /\ req[r] = "new"
  /\ RowFreeForRequest
  /\ req' = [req EXCEPT ![r] = "rejected"]
  /\ UNCHANGED <<exists, row, api, queue, try, baseline, pc, mem, hidden>>

\* enqueue_conversation_retry returns a job, within ten seconds.
RetryDispatch(r) ==
  /\ req[r] = "locked"
  /\ req' = [req EXCEPT ![r] = "dispatched"]
  /\ queue' = [queue EXCEPT ![r] = "ready"]
  /\ baseline' = [baseline EXCEPT ![r] = row.attempts]
  /\ UNCHANGED <<exists, row, api, try, pc, mem, hidden>>

RetryDispatchFailsKept(r) == \* mutant: the update to QUEUED is committed before the dispatch
  /\ req[r] = "locked"
  /\ req' = [req EXCEPT ![r] = "unavailable"]
  /\ row' = [row EXCEPT !.status = "QUEUED"]
  /\ UNCHANGED <<exists, api, queue, try, baseline, pc, mem, hidden>>

\* It raises or times out, and the transaction rolls back: 503. Redis may have the
\* job, may get it later, or never.
RetryDispatchFails(r) ==
  /\ req[r] = "locked"
  /\ req' = [req EXCEPT ![r] = "unavailable"]
  /\ \E q \in {"absent", "inflight", "ready"} : queue' = [queue EXCEPT ![r] = q]
  /\ baseline' = [baseline EXCEPT ![r] = row.attempts]
  /\ UNCHANGED <<exists, row, api, try, pc, mem, hidden>>

RetryCommit(r) ==
  /\ req[r] = "dispatched"
  /\ req' = [req EXCEPT ![r] = "accepted"]
  /\ row' = [row EXCEPT !.status = "QUEUED", !.error = "null", !.completed = "null"]
  /\ UNCHANGED <<exists, api, queue, try, baseline, pc, mem, hidden>>

\* The commit fails after the job was dispatched: 503.
RetryCommitFails(r) ==
  /\ req[r] = "dispatched"
  /\ req' = [req EXCEPT ![r] = "unavailable"]
  /\ UNCHANGED <<exists, row, api, queue, try, baseline, pc, mem, hidden>>

-----------------------------------------------------------------------------
(* Delete: delete_by_id; the audio file is not part of this module. *)

DeleteRow ==
  /\ exists
  /\ RowFreeForRequest
  /\ exists' = FALSE
  /\ UNCHANGED <<row, api, req, queue, try, baseline, pc, mem, hidden>>

-----------------------------------------------------------------------------
(* Redis and ARQ *)

\* The write of a timed-out dispatch reaches Redis after all.
LateArrival(r) ==
  /\ queue[r] = "inflight"
  /\ queue' = [queue EXCEPT ![r] = "ready"]
  /\ UNCHANGED <<exists, row, api, req, try, baseline, pc, mem, hidden>>

\* ARQ counts the delivery and calls process_conversation, which opens a session;
\* past max_tries it fails the job without calling it.
Deliver(j) ==
  /\ queue[j] = "ready"
  /\ try' = [try EXCEPT ![j] = @ + 1]
  /\ IF try[j] < MaxTries
     THEN /\ queue' = [queue EXCEPT ![j] = "running"]
          /\ pc' = [pc EXCEPT ![j] = IF j \in Requests /\ try[j] = 0 THEN "guard" ELSE "setup"]
     ELSE /\ queue' = [queue EXCEPT ![j] = "done"]
          /\ UNCHANGED pc
  /\ UNCHANGED <<exists, row, api, req, baseline, mem, hidden>>

\* The session closes, and what it had in memory is gone.
Close(j) ==
  /\ pc' = [pc EXCEPT ![j] = "idle"]
  /\ mem' = [mem EXCEPT ![j] = NewRow]

\* The delivery is over. For an inline run it is the upload request that ends.
End(j) ==
  /\ Close(j)
  /\ IF Inline(j)
     THEN api' = "done" /\ UNCHANGED queue
     ELSE queue' = [queue EXCEPT ![j] = "done"] /\ UNCHANGED api

Finish(j) ==
  /\ pc[j] = "ending"
  /\ End(j)
  /\ UNCHANGED <<exists, row, req, try, baseline, hidden>>

\* The upload request ends without its last writes.
UploadDies ==
  /\ "api_crash" \in Faults
  /\ api \in {"saved", "enqueued", "refused", "inline"}
  /\ api' = "done"
  /\ IF Mode = "inline" THEN Close(Upload) ELSE UNCHANGED <<pc, mem>>
  /\ UNCHANGED <<exists, row, req, queue, try, baseline, hidden>>

\* asyncio cancellation is not an Exception: no handler of the worker runs.
JobTimeout(j) ==
  /\ "job_timeout" \in Faults
  /\ ~Inline(j)
  /\ pc[j] # "idle"
  /\ End(j)
  /\ UNCHANGED <<exists, row, req, try, baseline, hidden>>

WorkerCrash(j) ==
  /\ Hide("worker_crash")
  /\ ~Inline(j)
  /\ pc[j] # "idle"
  /\ Close(j)
  /\ queue' = [queue EXCEPT ![j] = "ready"]
  /\ UNCHANGED <<exists, row, api, req, try, baseline>>

-----------------------------------------------------------------------------
(* A delivery: _process_conversation and the orchestrator's run *)

GuardByBaseline(j) == \* mutant: asks for the baseline only, not for QUEUED
  /\ pc[j] = "guard"
  /\ RowFree(j)
  /\ IF exists /\ row.attempts = baseline[j]
     THEN pc' = [pc EXCEPT ![j] = "setup"] /\ UNCHANGED <<api, queue, mem>>
     ELSE End(j)
  /\ UNCHANGED <<exists, row, req, try, baseline, hidden>>

\* The first delivery of a retry job locks the row and gives up unless the row is
\* QUEUED at this job's baseline.
Guard(j) ==
  /\ pc[j] = "guard"
  /\ RowFree(j)
  /\ IF exists /\ row.status = "QUEUED" /\ row.attempts = baseline[j]
     THEN pc' = [pc EXCEPT ![j] = "setup"] /\ UNCHANGED <<api, queue, mem>>
     ELSE End(j)
  /\ UNCHANGED <<exists, row, req, try, baseline, hidden>>

\* The storage, the providers or the orchestrator cannot be built. The worker's
\* mark_processing_failed is one UPDATE statement; an inline upload uses
\* finish_processing, which raises when the row is gone.
SetupFails(j) ==
  /\ pc[j] = "setup"
  /\ RowFree(j)
  /\ row' = IF exists THEN Finished(row, "FAILED", "set") ELSE row
  /\ pc' = [pc EXCEPT ![j] = "ending"]
  /\ UNCHANGED <<exists, api, req, queue, try, baseline, mem, hidden>>

\* An exception the orchestrator does not record: the worker rolls back, an inline
\* upload answers with an error.
Raise(j) == pc' = [pc EXCEPT ![j] = IF Inline(j) THEN "ending" ELSE "failed"]

\* run: get_conversation, without a lock unless the guard has taken it.
Load(j) ==
  /\ pc[j] = "setup"
  /\ IF exists
     THEN mem' = [mem EXCEPT ![j] = row] /\ pc' = [pc EXCEPT ![j] = "start"]
     ELSE Raise(j) /\ UNCHANGED mem
  /\ UNCHANGED <<exists, row, api, req, queue, try, baseline, hidden>>

\* start_processing_attempt, from the row as it was loaded.
Started(old) ==
  [status |-> "PROCESSING", attempts |-> old.attempts + 1, error |-> "null", completed |-> "null"]

Start(j) ==
  /\ pc[j] = "start"
  /\ exists
  /\ RowFree(j)
  /\ row' = Flush(mem[j], Started(mem[j]))
  /\ mem' = [mem EXCEPT ![j] = Started(mem[j])]
  /\ pc' = [pc EXCEPT ![j] = "stages"]
  /\ UNCHANGED <<exists, api, req, queue, try, baseline, hidden>>

\* The row was deleted since it was loaded, or the database refuses the commit.
StartFails(j) ==
  /\ pc[j] = "start"
  /\ \/ ~exists /\ UNCHANGED hidden
     \/ Hide("start_error")
  /\ Raise(j)
  /\ UNCHANGED <<exists, row, api, req, queue, try, baseline, mem>>

\* The pipeline succeeds: finish_processing(COMPLETED).
Succeed(j) ==
  LET new == Finished(mem[j], "COMPLETED", "null") IN
  /\ pc[j] = "stages"
  /\ exists
  /\ RowFree(j)
  /\ row' = Flush(mem[j], new)
  /\ mem' = [mem EXCEPT ![j] = new]
  /\ pc' = [pc EXCEPT ![j] = "ending"]
  /\ UNCHANGED <<exists, api, req, queue, try, baseline, hidden>>

StageFailsTerminal(j) == \* mutant: terminal_failure is true for a delivery too
  LET new == Finished(mem[j], "FAILED", "set") IN
  /\ pc[j] = "stages"
  /\ exists
  /\ RowFree(j)
  /\ row' = Flush(mem[j], new)
  /\ mem' = [mem EXCEPT ![j] = new]
  /\ Raise(j)
  /\ UNCHANGED <<exists, api, req, queue, try, baseline, hidden>>

\* A stage raises: finish_processing with its message, FAILED for an inline run
\* (terminal_failure) and PROCESSING for a delivery, then the exception.
StageFails(j) ==
  LET new == Finished(mem[j], IF Inline(j) THEN "FAILED" ELSE "PROCESSING", "set") IN
  /\ pc[j] = "stages"
  /\ exists
  /\ RowFree(j)
  /\ row' = Flush(mem[j], new)
  /\ mem' = [mem EXCEPT ![j] = new]
  /\ Raise(j)
  /\ UNCHANGED <<exists, api, req, queue, try, baseline, hidden>>

\* A stage raises with a database error, or the row is gone: finish_processing
\* raises too and records nothing.
StageBreaks(j) ==
  /\ pc[j] = "stages"
  /\ Raise(j)
  /\ UNCHANGED <<exists, row, api, req, queue, try, baseline, mem, hidden>>

RetryLaterOnceMore(j) == \* mutant: job_try <= max_tries
  /\ pc[j] = "failed"
  /\ try[j] <= MaxTries
  /\ Close(j)
  /\ queue' = [queue EXCEPT ![j] = "ready"]
  /\ UNCHANGED <<exists, row, api, req, try, baseline, hidden>>

\* The worker rolled back. Tries are left: ARQ will deliver again, without a guard.
RetryLater(j) ==
  /\ pc[j] = "failed"
  /\ try[j] < MaxTries
  /\ Close(j)
  /\ queue' = [queue EXCEPT ![j] = "ready"]
  /\ UNCHANGED <<exists, row, api, req, try, baseline, hidden>>

\* No tries are left: mark_failed reads the row again, then writes FAILED.
MarkRead(j) ==
  /\ pc[j] = "failed"
  /\ try[j] >= MaxTries
  /\ mem' = [mem EXCEPT ![j] = row]
  /\ pc' = [pc EXCEPT ![j] = IF exists THEN "mark" ELSE "ending"]
  /\ UNCHANGED <<exists, row, api, req, queue, try, baseline, hidden>>

MarkFailedSilently(j) == \* mutant: the message is left as the attempt left it
  /\ pc[j] = "mark"
  /\ RowFree(j)
  /\ row' = IF exists THEN Flush(mem[j], Finished(mem[j], "FAILED", mem[j].error)) ELSE row
  /\ pc' = [pc EXCEPT ![j] = "ending"]
  /\ UNCHANGED <<exists, api, req, queue, try, baseline, mem, hidden>>

\* A read or a write that raises ends the job and leaves the row: JobTimeout has this step.
MarkFailed(j) ==
  /\ pc[j] = "mark"
  /\ RowFree(j)
  /\ row' = IF exists THEN Flush(mem[j], Finished(mem[j], "FAILED", "set")) ELSE row
  /\ pc' = [pc EXCEPT ![j] = "ending"]
  /\ UNCHANGED <<exists, api, req, queue, try, baseline, mem, hidden>>

-----------------------------------------------------------------------------

UploadStep ==
  \/ UploadCommit \/ UploadDispatch \/ UploadEnqueueFails
  \/ UploadMarkQueued \/ UploadMarkFailed

\* The steps of a retry request that has the lock; opening one is the user's choice.
RetryStep(r) ==
  RetryDispatch(r) \/ RetryDispatchFails(r) \/ RetryCommit(r) \/ RetryCommitFails(r)

Pipeline(j) == Succeed(j) \/ StageFails(j) \/ StageBreaks(j)

DeliveryStep(j) ==
  \/ Guard(j) \/ SetupFails(j) \/ Load(j) \/ Start(j) \/ StartFails(j)
  \/ Pipeline(j) \/ RetryLater(j) \/ MarkRead(j) \/ MarkFailed(j) \/ Finish(j)

Next ==
  \/ UploadStep \/ UploadDies \/ DeleteRow
  \/ \E r \in Requests : RetryLock(r) \/ RetryReject(r) \/ RetryStep(r) \/ LateArrival(r)
  \/ \E j \in Jobs : Deliver(j) \/ DeliveryStep(j) \/ JobTimeout(j) \/ WorkerCrash(j)

Spec == Init /\ [][Next]_vars

\* Workers poll Redis and run what they took; request handlers run to their end. No
\* fairness for users, for faults, or for a write that was cut off.
Fairness ==
  /\ WF_vars(UploadStep)
  /\ \A r \in Requests : WF_vars(RetryStep(r))
  /\ \A j \in Jobs : WF_vars(Deliver(j)) /\ WF_vars(DeliveryStep(j))

FairSpec == Spec /\ Fairness
-----------------------------------------------------------------------------
(* Properties *)

\* No attempt may have been started, or may yet be, that the row does not ask for.
NoHiddenStart == hidden = 0

\* Delivery j is inside the pipeline, between its start and its result.
Attempting(j) == pc[j] = "stages"

\* Job j will run the pipeline, or is running it, without asking the row again.
Entitled(j) ==
  \/ queue[j] = "ready" /\ try[j] < MaxTries /\ (j = Upload \/ try[j] >= 1)
  \/ pc[j] \in {"setup", "start", "stages", "failed", "mark"}

\* Until a failure hides a start, two deliveries never process the conversation at once,
\* whatever was dispatched, lost, delayed or dispatched twice: "This prevents concurrent
\* processing" (docs/features/processing-visibility.md, worker.py's guard and retry's lock).
OneAttemptAtATime ==
  NoHiddenStart => \A i, j \in Jobs : Attempting(i) /\ Attempting(j) => i = j

\* "Only exhausted attempts become FAILED; manual retry cannot overlap automatic
\* backoff": while the row says FAILED, and Retry is offered, no job is left that
\* would still process it on its own.
FailedIsExhausted ==
  NoHiddenStart /\ exists /\ row.status = "FAILED" => \A j \in Jobs : ~Entitled(j)

\* processing_attempts counts every attempt: an increment computed from a row loaded
\* earlier never swallows another one, so a baseline is consumed at most once.
EveryStartIsCounted ==
  [][\A j \in Jobs :
       NoHiddenStart /\ pc[j] = "start" /\ pc'[j] = "stages" => row'.attempts = row.attempts + 1]_vars

\* "The lock lasts until the attempt increment commits": what the first delivery of a
\* retry job checked is still so when its attempt starts, under every failure.
GuardHoldsAtStart ==
  [][\A r \in Requests :
       pc[r] = "start" /\ pc'[r] = "stages" /\ Guarded(r) =>
         /\ row.status = "QUEUED"
         /\ row.attempts = baseline[r]
         /\ row'.attempts = baseline[r] + 1]_vars

\* A queued conversation has a job that will process it: an Entitled one, or a retry
\* job yet to be delivered for the first time whose baseline is the row's.
QueuedHasJob ==
  exists /\ row.status = "QUEUED" =>
    \E j \in Jobs :
      \/ Entitled(j)
      \/ /\ j \in Requests
         /\ queue[j] \in {"ready", "running"}
         /\ try[j] = 0 \/ pc[j] = "guard"
         /\ baseline[j] = row.attempts

\* A conversation moves from QUEUED to PROCESSING to a result and goes back to QUEUED
\* only from FAILED.
QueuedOnlyFromRest ==
  [][row.status \in {"PROCESSING", "COMPLETED"} => row'.status # "QUEUED"]_vars

\* Until then a completed conversation shows no error, and a failed one shows one.
ErrorMatchesResult ==
  NoHiddenStart =>
    /\ row.status = "COMPLETED" => row.error = "null"
    /\ row.status = "FAILED" => row.error = "set"

\* The lifecycle, read off the row and the deliveries inside the pipeline.
Presence == IF api = "receiving" THEN "none" ELSE IF exists THEN "here" ELSE "deleted"
Active == \E j \in Jobs : Attempting(j)

Lifecycle == INSTANCE ProcessingLifecycle WITH
  presence <- Presence, status <- row.status, attempts <- row.attempts, active <- Active

\* With inline uploads the requests, the jobs and the sessions together do nothing
\* the lifecycle does not allow: a retry, whenever and however often its job is
\* delivered, is one QUEUED conversation and one chain of attempts.
ImplementsLifecycle == Lifecycle!Spec

\* An accepted retry, however its attempts fail, ends with a result.
AcceptedRetryEnds ==
  (\E r \in Requests : req[r] = "accepted") ~> ~exists \/ row.status \in Terminal
=============================================================================
