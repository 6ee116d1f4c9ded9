-------------------------- MODULE ProcessingProofs --------------------------
(***************************************************************************)
(* Theorems on Processing, for every set of retry requests, every number   *)
(* of tries, both modes, and the failures each theorem names; and on the   *)
(* page that follows a conversation (ConversationPage), for any number of  *)
(* retry requests of other tabs. A retry of the page that was accepted     *)
(* stays so, and from the moment the button hears of its end, the GET      *)
(* under way is one that was sent after it: what was sent before has been  *)
(* cancelled.                                                              *)
(***************************************************************************)
EXTENDS ConversationPage, TLAPS

(* Which jobs a request has, and when: a job is dispatched at most once, is   *)
(* delivered by one worker at a time, and counts its deliveries from zero.    *)
JobInv ==
  /\ \A r \in Requests :
       /\ req[r] \in {"new", "locked", "rejected"} => queue[r] = "absent"
       /\ queue[r] \in {"absent", "inflight"} => try[r] = 0
       /\ pc[r] # "idle" => queue[r] = "running" /\ try[r] >= 1
       /\ pc[r] = "guard" => try[r] = 1
  /\ pc[Upload] # "guard"
  /\ Mode = "queue" =>
       /\ pc[Upload] # "idle" => queue[Upload] = "running"
       /\ api \in {"receiving", "saved"} => queue[Upload] = "absent"
  /\ Mode = "inline" =>
       /\ queue[Upload] = "absent"
       /\ pc[Upload] # "idle" => api = "inline"
       /\ pc[Upload] \notin {"failed", "mark"}

(* The row lock: one transaction holds it at a time, and what the first        *)
(* delivery of a retry job has seen under it stays so.                         *)
LockInv ==
  /\ \A r, s \in Requests : RequestHolds(r) /\ RequestHolds(s) => r = s
  /\ \A r \in Requests, j \in Jobs : ~(RequestHolds(r) /\ DeliveryHolds(j))
  /\ \A j, k \in Jobs : DeliveryHolds(j) /\ DeliveryHolds(k) => j = k
  /\ \A r \in Requests : DeliveryHolds(r) =>
       /\ exists
       /\ row.status = "QUEUED"
       /\ row.attempts = baseline[r]
       /\ pc[r] = "start" => mem[r] = row

(* A retry job that has yet to check its baseline. *)
Pending(r) ==
  \/ queue[r] \in {"inflight", "ready"} /\ try[r] = 0
  \/ pc[r] = "guard"

NoRetryYet == \A r \in Requests : req[r] \in {"new", "rejected"}

(* At most one job may process the conversation on its own.                    *)
OneEntitled == \A i, j \in Jobs : Entitled(i) /\ Entitled(j) => i = j

(* It leaves no room for a manual retry, nor a manual retry for it.            *)
EntitledShutsRetry ==
  \A j \in Jobs : Entitled(j) => row.status # "FAILED" /\ \A r \in Requests : ~RequestHolds(r)

LockedIsFailed == \A r \in Requests : RequestHolds(r) => row.status = "FAILED"

(* No retry is accepted before the upload's own job has run out.               *)
UploadComesFirst ==
  /\ api \in {"receiving", "saved", "refused"} \/ Entitled(Upload) =>
       NoRetryYet /\ row.status # "FAILED"
  /\ api \in {"receiving", "saved", "refused"} => queue[Upload] = "absent" /\ pc[Upload] = "idle"

(* Once an attempt has started, every other retry job finds its baseline consumed. *)
PendingIsStale ==
  /\ \A r \in Requests : baseline[r] <= row.attempts
  /\ \A i, r \in Requests :
       Entitled(i) /\ ~DeliveryHolds(i) /\ r # i /\ Pending(r) => baseline[r] < row.attempts

(* A session that is about to start an attempt has the count the row has.      *)
StartIsFresh == \A j \in Jobs : pc[j] = "start" => mem[j].attempts = row.attempts

ExclusionInv ==
  /\ OneEntitled
  /\ EntitledShutsRetry
  /\ LockedIsFailed
  /\ UploadComesFirst
  /\ PendingIsStale
  /\ StartIsFresh

-----------------------------------------------------------------------------
(* Type correctness *)

\* Sessions change their copy of the row within its type.
LEMMA RowTypes ==
  ASSUME NEW old \in Row
  PROVE  /\ NewRow \in Row
         /\ Started(old) \in Row
         /\ Started(old).status = "PROCESSING"
         /\ Started(old).attempts = old.attempts + 1
<1>1. NewRow \in Row
  BY DEF NewRow, Row, Statuses, Columns
<1>2. Started(old) \in Row
  BY DEF Started, Row, Statuses, Columns
<1> QED
  BY <1>1, <1>2 DEF Started

\* So does the end of an attempt.
LEMMA FinishedTypes ==
  ASSUME NEW old \in Row, NEW error \in Columns, NEW status \in Statuses
  PROVE  /\ Finished(old, status, error) \in Row
         /\ Finished(old, status, error).status = status
         /\ Finished(old, status, error).attempts = old.attempts
<1>1. Finished(old, status, error) \in Row
  BY DEF Row, Finished, Columns
<1>2. Finished(old, status, error).status = status
  BY DEF Row, Finished
<1>3. Finished(old, status, error).attempts = old.attempts
  BY DEF Row, Finished
<1> QED
  BY <1>1, <1>2, <1>3

\* A flush yields a row again; a column that did not change in memory keeps the
\* value the table has.
LEMMA FlushTypes ==
  ASSUME row \in Row, NEW old \in Row, NEW new \in Row
  PROVE  /\ Flush(old, new) \in Row
         /\ Flush(old, new).status \in {row.status, new.status}
         /\ new.attempts = old.attempts => Flush(old, new).attempts = row.attempts
         /\ new.attempts # old.attempts => Flush(old, new).attempts = new.attempts
<1>1. Flush(old, new) \in Row
  BY DEF Row, Flush
<1>2. Flush(old, new).status \in {row.status, new.status}
  BY DEF Row, Flush
<1>3. /\ new.attempts = old.attempts => Flush(old, new).attempts = row.attempts
      /\ new.attempts # old.attempts => Flush(old, new).attempts = new.attempts
  BY DEF Row, Flush
<1> QED
  BY <1>1, <1>2, <1>3

\* The row of a new recording is a row.
LEMMA TypeInit == Init => TypeOK
<1> SUFFICES ASSUME Init PROVE TypeOK
  OBVIOUS
<1>1. exists \in BOOLEAN
  BY Zenon DEF Init
<1>2. row \in Row /\ mem \in [Jobs -> Row]
  BY DEF Init, NewRow, Row, Statuses, Columns
<1>3. /\ req \in [Requests -> ReqStates]
      /\ queue \in [Jobs -> QueueStates]
      /\ pc \in [Jobs -> Places]
  BY DEF Init, ReqStates, QueueStates, Places
<1>4. /\ try \in [Jobs -> Nat] /\ baseline \in [Requests -> Nat]
      /\ api \in ApiStates /\ hidden \in Nat
  BY DEF Init, ApiStates
<1> QED
  BY <1>1, <1>2, <1>3, <1>4, Zenon DEF TypeOK

\* The types, one lemma for each actor: the upload request,
LEMMA TypeUpload ==
  ASSUME TypeOK, UploadStep \/ UploadDies \/ DeleteRow
  PROVE  TypeOK'
<1> USE DEF TypeOK, ApiStates, QueueStates, Places
<1>1. Upload \in Jobs
  BY DEF Jobs
<1>2. CASE UploadCommit
  BY <1>2 DEF UploadCommit
<1>3. CASE UploadEnqueue \/ UploadEnqueueFails
  BY <1>1, <1>3 DEF UploadEnqueue, UploadEnqueueFails, Hide
<1>4. CASE UploadMarkQueued
  <2>1. NewRow \in Row /\ [NewRow EXCEPT !.status = "QUEUED"] \in Row
    BY DEF NewRow, Row, Statuses, Columns
  <2>2. row' \in Row
    BY <1>4, <2>1, FlushTypes DEF UploadMarkQueued
  <2> QED
    BY <1>4, <2>2 DEF UploadMarkQueued
<1>5. CASE UploadMarkFailed
  <2>1. NewRow \in Row /\ Finished(NewRow, "FAILED", "set") \in Row
    BY FinishedTypes DEF NewRow, Row, Statuses, Columns
  <2>2. row' \in Row
    BY <1>5, <2>1, FlushTypes DEF UploadMarkFailed
  <2> QED
    BY <1>5, <2>2 DEF UploadMarkFailed
<1>6. CASE Mode # "queue" /\ UploadRunInline
  BY <1>1, <1>6 DEF UploadRunInline
<1>7. CASE UploadDies
  <2>1. NewRow \in Row
    BY DEF NewRow, Row, Statuses, Columns
  <2> QED
    BY <1>1, <1>7, <2>1 DEF UploadDies, Close
<1>8. CASE DeleteRow
  BY <1>8 DEF DeleteRow
<1> QED
  BY <1>2, <1>3, <1>4, <1>5, <1>6, <1>7, <1>8 DEF UploadStep, UploadDispatch

\* the retry requests,
LEMMA TypeRetry ==
  ASSUME TypeOK, NEW r \in Requests, RetryLock(r) \/ RetryReject(r) \/ RetryStep(r) \/ LateArrival(r)
  PROVE  TypeOK'
<1> USE DEF TypeOK, ReqStates, QueueStates
<1>1. r \in Jobs /\ row.attempts \in Nat
  BY DEF Jobs, Row
<1>2. CASE RetryLock(r) \/ RetryReject(r)
  BY <1>2 DEF RetryLock, RetryReject
<1>3. CASE RetryDispatch(r) \/ RetryDispatchFails(r)
  BY <1>1, <1>3 DEF RetryDispatch, RetryDispatchFails
<1>4. CASE RetryCommit(r) \/ RetryCommitFails(r)
  BY <1>4 DEF RetryCommit, RetryCommitFails, Row, Statuses, Columns
<1>5. CASE LateArrival(r)
  BY <1>1, <1>5 DEF LateArrival
<1> QED
  BY <1>2, <1>3, <1>4, <1>5 DEF RetryStep

\* a delivery whose session closes,
LEMMA TypeClose ==
  ASSUME TypeOK, NEW j \in Jobs, Close(j) \/ End(j)
  PROVE  /\ pc' \in [Jobs -> Places]
         /\ mem' \in [Jobs -> Row]
         /\ End(j) => queue' \in [Jobs -> QueueStates] /\ api' \in ApiStates
<1>1. NewRow \in Row
  BY DEF NewRow, Row, Statuses, Columns
<1>2. pc' \in [Jobs -> Places]
  BY DEF TypeOK, Close, End, Places
<1>3. mem' \in [Jobs -> Row]
  BY <1>1 DEF TypeOK, Close, End
<1>4. End(j) => queue' \in [Jobs -> QueueStates] /\ api' \in ApiStates
  BY DEF TypeOK, End, ApiStates, QueueStates
<1> QED
  BY <1>2, <1>3, <1>4

\* and every step of a delivery.
LEMMA TypeDelivery ==
  ASSUME TypeOK, NEW j \in Jobs, Deliver(j) \/ DeliveryStep(j) \/ JobTimeout(j) \/ WorkerCrash(j)
  PROVE  TypeOK'
<1> USE DEF TypeOK, QueueStates, Places
<1>1. row \in Row /\ mem[j] \in Row
  OBVIOUS
<1>2. CASE Deliver(j)
  BY <1>2 DEF Deliver
<1>3. CASE Guard(j)
  <2>1. CASE End(j)
    BY <1>3, <2>1, TypeClose DEF Guard
  <2>2. CASE pc' = [pc EXCEPT ![j] = "setup"] /\ UNCHANGED <<api, queue, mem>>
    BY <1>3, <2>2 DEF Guard
  <2> QED
    BY <1>3, <2>1, <2>2 DEF Guard
<1>4. CASE SetupFails(j)
  <2>1. row' \in Row
    BY <1>1, <1>4, FinishedTypes DEF SetupFails, Statuses, Columns
  <2> QED
    BY <1>4, <2>1 DEF SetupFails
<1>5. CASE Load(j) \/ StartFails(j) \/ StageBreaks(j)
  BY <1>5 DEF Load, StartFails, StageBreaks, Raise, Hide
<1>6. CASE Start(j)
  <2>1. Started(mem[j]) \in Row
    BY <1>1, RowTypes DEF Statuses, Columns
  <2>2. row' \in Row
    BY <1>1, <1>6, <2>1, FlushTypes DEF Start
  <2> QED
    BY <1>6, <2>1, <2>2 DEF Start
<1>7. CASE Succeed(j)
  <2>1. Finished(mem[j], "COMPLETED", "null") \in Row
    BY <1>1, FinishedTypes DEF Statuses, Columns
  <2>2. row' \in Row
    BY <1>1, <1>7, <2>1, FlushTypes DEF Succeed
  <2> QED
    BY <1>7, <2>1, <2>2 DEF Succeed
<1>8. CASE StageFails(j)
  <2>1. Finished(mem[j], IF Inline(j) THEN "FAILED" ELSE "PROCESSING", "set") \in Row
    BY <1>1, FinishedTypes DEF Statuses, Columns
  <2>2. row' \in Row
    BY <1>1, <1>8, <2>1, FlushTypes DEF StageFails
  <2> QED
    BY <1>8, <2>1, <2>2 DEF StageFails, Raise
<1>9. CASE RetryLater(j) \/ Finish(j) \/ JobTimeout(j) \/ WorkerCrash(j)
  <2>1. CASE Finish(j) \/ JobTimeout(j)
    BY <2>1, TypeClose DEF Finish, JobTimeout
  <2>2. CASE RetryLater(j) \/ WorkerCrash(j)
    BY <2>2, TypeClose DEF RetryLater, WorkerCrash, Hide
  <2> QED
    BY <1>9, <2>1, <2>2
<1>10. CASE MarkRead(j)
  BY <1>10 DEF MarkRead
<1>11. CASE MarkFailed(j)
  <2>1. Finished(mem[j], "FAILED", "set") \in Row
    BY <1>1, FinishedTypes DEF Statuses, Columns
  <2>2. row' \in Row
    BY <1>1, <1>11, <2>1, FlushTypes DEF MarkFailed
  <2> QED
    BY <1>11, <2>2 DEF MarkFailed
<1> QED
  BY <1>2, <1>3, <1>4, <1>5, <1>6, <1>7, <1>8, <1>9, <1>10, <1>11 DEF DeliveryStep, Pipeline

\* Every step keeps the types.
LEMMA TypeStep == TypeOK /\ [Next]_vars => TypeOK'
<1>1. CASE UNCHANGED vars
  BY <1>1 DEF TypeOK, vars
<1> QED
  BY <1>1, TypeUpload, TypeRetry, TypeDelivery DEF Next

\* The row, the jobs, the requests and the sessions stay within their types.
THEOREM TypeCorrect == Spec => []TypeOK
BY TypeInit, TypeStep, PTL DEF Spec

-----------------------------------------------------------------------------
(* Jobs and deliveries *)

\* Nothing has been dispatched at first.
LEMMA JobInit == Init => JobInv
BY UploadAssumption DEF Init, JobInv, Jobs

\* The upload dispatches its job once.
LEMMA JobUpload ==
  ASSUME TypeOK, JobInv, UploadStep \/ UploadDies \/ DeleteRow
  PROVE  JobInv'
<1> USE UploadAssumption, ModeAssumption DEF TypeOK, JobInv, Jobs
<1>1. CASE UploadCommit \/ UploadMarkQueued \/ UploadMarkFailed \/ DeleteRow
  BY <1>1 DEF UploadCommit, UploadMarkQueued, UploadMarkFailed, DeleteRow
<1>2. CASE Mode = "queue" /\ UploadEnqueue
  BY <1>2 DEF UploadEnqueue
<1>3. CASE UploadEnqueueFails
  BY <1>3 DEF UploadEnqueueFails
<1>4. CASE Mode # "queue" /\ UploadRunInline
  BY <1>4 DEF UploadRunInline
<1>5. CASE UploadDies
  BY <1>5 DEF UploadDies, Close
<1> QED
  BY <1>1, <1>2, <1>3, <1>4, <1>5 DEF UploadStep, UploadDispatch

\* A retry request dispatches its own job, once.
LEMMA JobRetry ==
  ASSUME TypeOK, JobInv, NEW r \in Requests,
         RetryLock(r) \/ RetryReject(r) \/ RetryStep(r) \/ LateArrival(r)
  PROVE  JobInv'
<1> USE UploadAssumption, ModeAssumption DEF TypeOK, JobInv, Jobs
<1>1. CASE RetryLock(r) \/ RetryReject(r)
  BY <1>1 DEF RetryLock, RetryReject
<1>2. CASE RetryDispatch(r)
  BY <1>2 DEF RetryDispatch
<1>3. CASE RetryDispatchFails(r)
  BY <1>3 DEF RetryDispatchFails
<1>4. CASE RetryCommit(r) \/ RetryCommitFails(r)
  BY <1>4 DEF RetryCommit, RetryCommitFails
<1>5. CASE LateArrival(r)
  BY <1>5 DEF LateArrival
<1> QED
  BY <1>1, <1>2, <1>3, <1>4, <1>5 DEF RetryStep

\* A delivery moves its own job only, and leaves the session open or ends it.
LEMMA JobDelivery ==
  ASSUME TypeOK, JobInv, NEW j \in Jobs, Deliver(j) \/ DeliveryStep(j) \/ JobTimeout(j) \/ WorkerCrash(j)
  PROVE  JobInv'
<1> USE UploadAssumption, ModeAssumption DEF TypeOK, JobInv, Jobs
<1>1. CASE Deliver(j)
  BY <1>1 DEF Deliver
<1>2. CASE Guard(j)
  BY <1>2 DEF Guard, End, Close, Inline
<1>3. CASE SetupFails(j) \/ Load(j) \/ Start(j) \/ StartFails(j) \/ Pipeline(j) \/ MarkRead(j) \/ MarkFailed(j)
  <2>1. /\ pc[j] # "idle"
        /\ \E p \in Places \ {"guard"} :
             /\ pc' = [pc EXCEPT ![j] = p]
             /\ Inline(j) /\ pc[j] \notin {"failed", "mark"} => p \notin {"failed", "mark"}
        /\ UNCHANGED <<api, req, queue, try>>
    BY <1>3 DEF SetupFails, Load, Start, StartFails, Pipeline, Succeed, StageFails, StageBreaks,
                MarkRead, MarkFailed, Raise, Places
  <2> QED
    BY <2>1 DEF Inline
<1>4. CASE RetryLater(j)
  BY <1>4 DEF RetryLater, Close
<1>5. CASE Finish(j) \/ JobTimeout(j)
  BY <1>5 DEF Finish, JobTimeout, End, Close, Inline
<1>6. CASE WorkerCrash(j)
  BY <1>6 DEF WorkerCrash, Close, Inline
<1> QED
  BY <1>1, <1>2, <1>3, <1>4, <1>5, <1>6 DEF DeliveryStep

\* Every step keeps what is said of jobs.
LEMMA JobStep == TypeOK /\ JobInv /\ [Next]_vars => JobInv'
<1>1. CASE UNCHANGED vars
  BY <1>1 DEF JobInv, vars
<1> QED
  BY <1>1, JobUpload, JobRetry, JobDelivery DEF Next

-----------------------------------------------------------------------------
(* The row lock *)

\* Nobody holds the row lock at first.
LEMMA LockInit == Init => LockInv
BY DEF Init, LockInv, RequestHolds, DeliveryHolds, Jobs

\* The upload takes no lock.
LEMMA LockUpload ==
  ASSUME TypeOK, JobInv, LockInv, UploadStep \/ UploadDies \/ DeleteRow
  PROVE  LockInv'
<1> USE UploadAssumption DEF TypeOK, LockInv, RequestHolds, DeliveryHolds, Guarded, Jobs
<1>1. CASE UploadCommit
  BY <1>1 DEF UploadCommit
<1>2. CASE UploadEnqueue \/ UploadEnqueueFails
  BY <1>2 DEF UploadEnqueue, UploadEnqueueFails
<1>3. CASE UploadMarkQueued \/ UploadMarkFailed \/ DeleteRow
  BY <1>3 DEF UploadMarkQueued, UploadMarkFailed, DeleteRow, RowFreeForRequest
<1>4. CASE UploadRunInline \/ UploadDies
  BY <1>4 DEF UploadRunInline, UploadDies, Close
<1> QED
  BY <1>1, <1>2, <1>3, <1>4 DEF UploadStep, UploadDispatch

\* A retry request checks and commits under the lock.
LEMMA LockRetry ==
  ASSUME TypeOK, JobInv, LockInv, NEW r \in Requests,
         RetryLock(r) \/ RetryReject(r) \/ RetryStep(r) \/ LateArrival(r)
  PROVE  LockInv'
<1> USE UploadAssumption DEF TypeOK, LockInv, RequestHolds, DeliveryHolds, Guarded, Jobs
<1>1. CASE RetryLock(r) \/ RetryReject(r)
  BY <1>1 DEF RetryLock, RetryReject, RowFreeForRequest
<1>2. CASE RetryDispatch(r) \/ RetryDispatchFails(r)
  BY <1>2 DEF RetryDispatch, RetryDispatchFails, JobInv
<1>3. CASE RetryCommit(r) \/ RetryCommitFails(r)
  BY <1>3 DEF RetryCommit, RetryCommitFails
<1>4. CASE LateArrival(r)
  BY <1>4 DEF LateArrival
<1> QED
  BY <1>1, <1>2, <1>3, <1>4 DEF RetryStep

\* The first delivery of a retry job holds the lock until it has started.
LEMMA LockDelivery ==
  ASSUME TypeOK, JobInv, LockInv, NEW j \in Jobs,
         Deliver(j) \/ DeliveryStep(j) \/ JobTimeout(j) \/ WorkerCrash(j)
  PROVE  LockInv'
<1> USE UploadAssumption DEF TypeOK, LockInv, RequestHolds, DeliveryHolds, Guarded, Jobs
<1>1. CASE Deliver(j)
  BY <1>1 DEF Deliver, JobInv
<1>2. CASE Guard(j)
  BY <1>2 DEF Guard, RowFree, End, Close
<1>3. CASE SetupFails(j) \/ Start(j)
  BY <1>3 DEF SetupFails, Start, RowFree
<1>4. CASE Load(j)
  BY <1>4 DEF Load, Raise, Row
<1>5. CASE StartFails(j) \/ StageBreaks(j)
  BY <1>5 DEF StartFails, StageBreaks, Raise
<1>6. CASE Succeed(j) \/ StageFails(j) \/ MarkFailed(j)
  BY <1>6 DEF Succeed, StageFails, MarkFailed, RowFree, Raise
<1>7. CASE RetryLater(j) \/ MarkRead(j) \/ WorkerCrash(j)
  BY <1>7 DEF RetryLater, MarkRead, WorkerCrash, Close
<1>8. CASE Finish(j) \/ JobTimeout(j)
  BY <1>8 DEF Finish, JobTimeout, End, Close
<1> QED
  BY <1>1, <1>2, <1>3, <1>4, <1>5, <1>6, <1>7, <1>8 DEF DeliveryStep, Pipeline

\* Every step keeps what is said of the lock.
LEMMA LockStep == TypeOK /\ JobInv /\ LockInv /\ [Next]_vars => LockInv'
<1>1. CASE UNCHANGED vars
  BY <1>1 DEF LockInv, vars, RequestHolds, DeliveryHolds, Guarded
<1> QED
  BY <1>1, LockUpload, LockRetry, LockDelivery DEF Next

\* So the three hold in every behaviour, under every failure.
LEMMA LockCorrect == Spec => [](TypeOK /\ JobInv /\ LockInv)
BY TypeInit, JobInit, LockInit, TypeStep, JobStep, LockStep, PTL DEF Spec

-----------------------------------------------------------------------------
(* What a retry job checked is so when its attempt starts *)

\* Only Start moves a delivery into the pipeline.
LEMMA IntoStages ==
  ASSUME TypeOK, Next, NEW j \in Jobs, pc[j] = "start", pc'[j] = "stages"
  PROVE  Start(j)
<1> USE DEF TypeOK, Jobs
<1>1. CASE UploadStep \/ UploadDies \/ DeleteRow
  BY <1>1 DEF UploadStep, UploadDispatch, UploadCommit, UploadEnqueue, UploadEnqueueFails, UploadMarkQueued,
              UploadMarkFailed, UploadRunInline, UploadDies, DeleteRow, Close
<1>2. ASSUME NEW r \in Requests, RetryLock(r) \/ RetryReject(r) \/ RetryStep(r) \/ LateArrival(r)
      PROVE  FALSE
  BY <1>2 DEF RetryLock, RetryReject, RetryStep, RetryDispatch, RetryDispatchFails, RetryCommit,
              RetryCommitFails, LateArrival
<1>3. ASSUME NEW k \in Jobs, Deliver(k) \/ DeliveryStep(k) \/ JobTimeout(k) \/ WorkerCrash(k)
      PROVE  Start(j)
  <2>1. CASE Deliver(k) \/ JobTimeout(k) \/ WorkerCrash(k)
    BY <1>3, <2>1 DEF Deliver, JobTimeout, WorkerCrash, End, Close
  <2>2. CASE Guard(k) \/ SetupFails(k) \/ Load(k) \/ StartFails(k)
    BY <1>3, <2>2 DEF Guard, SetupFails, Load, StartFails, End, Close, Raise
  <2>3. CASE Start(k)
    BY <1>3, <2>3 DEF Start
  <2>4. CASE Pipeline(k) \/ RetryLater(k) \/ MarkRead(k) \/ MarkFailed(k) \/ Finish(k)
    BY <1>3, <2>4 DEF Pipeline, Succeed, StageFails, StageBreaks, RetryLater, MarkRead, MarkFailed,
                      Finish, End, Close, Raise
  <2> QED
    BY <1>3, <2>1, <2>2, <2>3, <2>4 DEF DeliveryStep
<1> QED
  BY <1>1, <1>2, <1>3 DEF Next

\* Under every failure the model has, the status and the count that the first delivery
\* of a retry job found under the row lock are those its attempt starts from.
LEMMA GuardHoldsStep ==
  ASSUME TypeOK, LockInv, Next, NEW r \in Requests, pc[r] = "start", pc'[r] = "stages", Guarded(r)
  PROVE  row.status = "QUEUED" /\ row.attempts = baseline[r] /\ row'.attempts = baseline[r] + 1
<1>1. Start(r)
  BY IntoStages DEF Jobs
<1>2. row.status = "QUEUED" /\ row.attempts = baseline[r] /\ mem[r] = row
  BY DEF LockInv, DeliveryHolds, Jobs
<1>3. row'.attempts = row.attempts + 1
  <2>1. row \in Row /\ row.attempts \in Nat
    BY DEF TypeOK, Row
  <2> QED
    BY <1>1, <1>2, <2>1, RowTypes, FlushTypes DEF Start
<1> QED
  BY <1>2, <1>3

\* Under every failure, what the first delivery of a retry job checked under
\* the row lock is still so when its attempt starts.
THEOREM GuardHolds == Spec => GuardHoldsAtStart
<1>1. TypeOK /\ JobInv /\ LockInv /\ [Next]_vars =>
        [\A r \in Requests :
           pc[r] = "start" /\ pc'[r] = "stages" /\ Guarded(r) =>
             /\ row.status = "QUEUED"
             /\ row.attempts = baseline[r]
             /\ row'.attempts = baseline[r] + 1]_vars
  BY GuardHoldsStep
<1> QED
  BY <1>1, LockCorrect, PTL DEF Spec, GuardHoldsAtStart

-----------------------------------------------------------------------------
(* One attempt at a time *)

\* A new recording has no attempt, and no retry can be asked for yet.
LEMMA ExclusionInit == Init => ExclusionInv
<1> SUFFICES ASSUME Init PROVE ExclusionInv
  OBVIOUS
<1>1. \A j \in Jobs : ~Entitled(j)
  BY DEF Init, Entitled
<1> QED
  BY <1>1 DEF Init, ExclusionInv, OneEntitled, EntitledShutsRetry, LockedIsFailed, UploadComesFirst,
              PendingIsStale, StartIsFresh, RequestHolds, NoRetryYet, NewRow, Jobs

\* Before any retry request has the lock, no retry job is entitled or pending.
LEMMA EarlyRetries ==
  ASSUME TypeOK, JobInv, NoRetryYet
  PROVE  \A r \in Requests : ~Entitled(r) /\ ~RequestHolds(r) /\ ~DeliveryHolds(r) /\ pc[r] = "idle" /\ queue[r] = "absent"
BY UploadAssumption DEF TypeOK, JobInv, NoRetryYet, Entitled, RequestHolds, DeliveryHolds, Jobs

\* What the upload's step leaves of every retry job.
LEMMA ExclusionUpload ==
  ASSUME TypeOK, JobInv, LockInv, ExclusionInv, NoHiddenStart', UploadStep \/ UploadDies \/ DeleteRow
  PROVE  ExclusionInv'
<1> USE UploadAssumption, ModeAssumption, EarlyRetries
    DEF TypeOK, ExclusionInv, OneEntitled, EntitledShutsRetry, LockedIsFailed, UploadComesFirst,
        PendingIsStale, StartIsFresh, Entitled, NoRetryYet, Pending, RequestHolds, DeliveryHolds, Guarded, Jobs
<1>1. CASE UploadCommit \/ DeleteRow
  BY <1>1 DEF UploadCommit, DeleteRow
<1>2. CASE Mode = "queue" /\ UploadEnqueue
  BY <1>2 DEF UploadEnqueue
<1>3. CASE UploadEnqueueFails
  BY <1>3 DEF UploadEnqueueFails, Hide, NoHiddenStart
<1>4. CASE UploadMarkQueued
  <2>1. row'.attempts = row.attempts /\ row'.status \in {row.status, "QUEUED"}
    <3>1. /\ NewRow \in Row /\ [NewRow EXCEPT !.status = "QUEUED"] \in Row
          /\ [NewRow EXCEPT !.status = "QUEUED"].attempts = NewRow.attempts
          /\ [NewRow EXCEPT !.status = "QUEUED"].status = "QUEUED"
      BY DEF NewRow, Row, Statuses, Columns
    <3> QED
      BY <1>4, <3>1, FlushTypes DEF UploadMarkQueued
  <2> QED
    BY <1>4, <2>1 DEF UploadMarkQueued, RowFreeForRequest
<1>5. CASE UploadMarkFailed
  <2>1. row'.attempts = row.attempts
    <3>1. /\ NewRow \in Row /\ Finished(NewRow, "FAILED", "set") \in Row
          /\ Finished(NewRow, "FAILED", "set").attempts = NewRow.attempts
      <4>1. NewRow \in Row
        BY DEF NewRow, Row, Statuses, Columns
      <4> QED
        BY <4>1, FinishedTypes DEF Statuses, Columns
    <3> QED
      BY <1>5, <3>1, FlushTypes DEF UploadMarkFailed
  <2>2. \A j \in Jobs : ~Entitled(j)'
    BY <1>5 DEF UploadMarkFailed
  <2> QED
    BY <1>5, <2>1, <2>2 DEF UploadMarkFailed, RowFreeForRequest
<1>6. CASE Mode # "queue" /\ UploadRunInline
  BY <1>6 DEF UploadRunInline
<1>7. CASE UploadDies
  BY <1>7 DEF UploadDies, Close
<1> QED
  BY <1>1, <1>2, <1>3, <1>4, <1>5, <1>6, <1>7 DEF UploadStep, UploadDispatch

\* A retry request is accepted when nobody is entitled, and makes its own job so.
LEMMA ExclusionRetry ==
  ASSUME TypeOK, JobInv, LockInv, ExclusionInv, NoHiddenStart', NEW r \in Requests,
         RetryLock(r) \/ RetryReject(r) \/ RetryStep(r) \/ LateArrival(r)
  PROVE  ExclusionInv'
<1> USE UploadAssumption, ModeAssumption, EarlyRetries
    DEF TypeOK, ExclusionInv, OneEntitled, EntitledShutsRetry, LockedIsFailed, UploadComesFirst,
        PendingIsStale, StartIsFresh, Entitled, NoRetryYet, Pending, RequestHolds, DeliveryHolds, Guarded, Jobs
<1>1. r \in Jobs /\ r # Upload /\ row.attempts \in Nat
  BY DEF Row
<1>2. CASE RetryLock(r)
  BY <1>2 DEF RetryLock
<1>3. CASE RetryReject(r)
  BY <1>3 DEF RetryReject
<1>4. CASE RetryDispatch(r)
  BY <1>1, <1>4 DEF RetryDispatch, JobInv
<1>5. CASE RetryDispatchFails(r)
  BY <1>1, <1>5 DEF RetryDispatchFails, JobInv
<1>6. CASE RetryCommit(r)
  BY <1>1, <1>6 DEF RetryCommit, LockInv, Row
<1>7. CASE RetryCommitFails(r)
  BY <1>7 DEF RetryCommitFails
<1>8. CASE LateArrival(r)
  BY <1>1, <1>8 DEF LateArrival, JobInv
<1> QED
  BY <1>2, <1>3, <1>4, <1>5, <1>6, <1>7, <1>8 DEF RetryStep

\* A delivery that ends, whatever it wrote, leaves nobody entitled if its job was, and
\* nothing the others rely on.
LEMMA ExclusionOver ==
  ASSUME TypeOK, JobInv, ExclusionInv, NEW j \in Jobs, Entitled(j), ~Entitled(j)',
         \A k \in Jobs \ {j} : Entitled(k)' => Entitled(k),
         \A k \in Jobs \ {j} : pc'[k] = pc[k],
         pc'[j] # "start",
         UNCHANGED <<req, baseline>>,
         row'.attempts = row.attempts,
         api' \in {"receiving", "saved", "refused"} => api' = api
  PROVE  ExclusionInv'
<1> USE UploadAssumption, EarlyRetries DEF Jobs
<1>1. \A k \in Jobs : ~Entitled(k)'
  BY DEF ExclusionInv, OneEntitled
<1>2. \A r \in Requests : ~RequestHolds(r)'
  BY DEF ExclusionInv, EntitledShutsRetry, RequestHolds
<1>3. UploadComesFirst'
  <2>1. api' \in {"receiving", "saved", "refused"} => FALSE
    BY DEF ExclusionInv, UploadComesFirst, Entitled, JobInv, NoRetryYet
  <2> QED
    BY <1>1, <2>1 DEF UploadComesFirst
<1>4. PendingIsStale'
  BY <1>1 DEF ExclusionInv, PendingIsStale
<1>5. \A k \in Jobs : pc'[k] # "start"
  BY <1>1 DEF Entitled
<1> QED
  BY <1>1, <1>2, <1>3, <1>4, <1>5 DEF ExclusionInv, OneEntitled, EntitledShutsRetry, LockedIsFailed, StartIsFresh

\* A delivery that goes on, and stays entitled or not, where the lock it may have had
\* is still needed or its attempt has started.
LEMMA ExclusionOn ==
  ASSUME TypeOK, JobInv, ExclusionInv, NEW j \in Jobs, Entitled(j), Entitled(j)',
         \A k \in Jobs \ {j} : Entitled(k)' => Entitled(k),
         \A k \in Jobs \ {j} : pc'[k] = pc[k],
         pc'[j] = "start" => mem'[j].attempts = row'.attempts,
         \A r \in Requests \ {j} : Pending(r)' => Pending(r),
         \/ DeliveryHolds(j)'
         \/ ~DeliveryHolds(j) /\ row'.attempts = row.attempts
         \/ row'.attempts = row.attempts + 1,
         row'.attempts \in {row.attempts, row.attempts + 1},
         row'.status # "FAILED",
         UNCHANGED <<api, req, baseline>>
  PROVE  ExclusionInv'
<1> USE UploadAssumption, EarlyRetries DEF Jobs
<1>1. OneEntitled' /\ \A k \in Jobs \ {j} : ~Entitled(k)'
  BY DEF ExclusionInv, OneEntitled
<1>2. \A r \in Requests : ~RequestHolds(r)'
  BY DEF ExclusionInv, EntitledShutsRetry, RequestHolds
<1>3. EntitledShutsRetry' /\ LockedIsFailed'
  BY <1>2 DEF EntitledShutsRetry, LockedIsFailed
<1>4. UploadComesFirst'
  <2>1. api \notin {"receiving", "saved", "refused"}
    BY DEF ExclusionInv, UploadComesFirst, Entitled, JobInv, NoRetryYet
  <2>2. Entitled(Upload)' => NoRetryYet'
    BY <1>1 DEF ExclusionInv, UploadComesFirst, NoRetryYet
  <2> QED
    BY <2>1, <2>2 DEF UploadComesFirst
<1>5. PendingIsStale'
  <2> USE DEF TypeOK, Row
  <2>1. \A r \in Requests : baseline'[r] <= row'.attempts
    BY DEF ExclusionInv, PendingIsStale
  <2>2. ASSUME NEW i \in Requests, NEW r \in Requests, Entitled(i)', ~DeliveryHolds(i)', r # i, Pending(r)'
        PROVE  baseline'[r] < row'.attempts
    <3>1. i = j /\ Pending(r)
      BY <1>1, <2>2
    <3>2. CASE ~DeliveryHolds(j) /\ row'.attempts = row.attempts
      BY <2>2, <3>1, <3>2 DEF ExclusionInv, PendingIsStale
    <3>3. CASE row'.attempts = row.attempts + 1
      BY <2>2, <3>1, <3>3 DEF ExclusionInv, PendingIsStale
    <3> QED
      BY <2>2, <3>1, <3>2, <3>3
  <2> QED
    BY <2>1, <2>2 DEF PendingIsStale
<1>6. StartIsFresh'
  <2>1. \A k \in Jobs \ {j} : pc'[k] # "start"
    BY <1>1 DEF Entitled
  <2> QED
    BY <2>1 DEF StartIsFresh
<1> QED
  BY <1>1, <1>3, <1>4, <1>5, <1>6 DEF ExclusionInv

\* What a delivery's writes do to the row's count and status.
LEMMA DeliveryWrites ==
  ASSUME TypeOK, NEW j \in Jobs
  PROVE  /\ SetupFails(j) \/ Succeed(j) \/ StageFails(j) \/ MarkFailed(j) => row'.attempts = row.attempts
         /\ StageFails(j) /\ ~Inline(j) /\ row.status # "FAILED" => row'.status # "FAILED"
         /\ Start(j) /\ mem[j].attempts = row.attempts =>
              row'.attempts = row.attempts + 1 /\ (row.status # "FAILED" => row'.status # "FAILED")
<1>1. row \in Row /\ mem[j] \in Row /\ mem[j].attempts \in Nat
  BY DEF TypeOK, Row
<1>2. SetupFails(j) => row'.attempts = row.attempts
  BY <1>1, FinishedTypes DEF SetupFails, Statuses, Columns
<1>3. Succeed(j) => row'.attempts = row.attempts
  BY <1>1, FinishedTypes, FlushTypes DEF Succeed, Statuses, Columns
<1>4. StageFails(j) => row'.attempts = row.attempts
  BY <1>1, FinishedTypes, FlushTypes DEF StageFails, Statuses, Columns
<1>5. StageFails(j) /\ ~Inline(j) /\ row.status # "FAILED" => row'.status # "FAILED"
  BY <1>1, FinishedTypes, FlushTypes DEF StageFails, Statuses, Columns
<1>6. MarkFailed(j) => row'.attempts = row.attempts
  BY <1>1, FinishedTypes, FlushTypes DEF MarkFailed, Statuses, Columns
<1>7. Start(j) /\ mem[j].attempts = row.attempts =>
        row'.attempts = row.attempts + 1 /\ (row.status # "FAILED" => row'.status # "FAILED")
  BY <1>1, RowTypes, FlushTypes DEF Start
<1> QED
  BY <1>2, <1>3, <1>4, <1>5, <1>6, <1>7

\* A step of a delivery, by the place it is in.
LEMMA ExclusionDelivery ==
  ASSUME TypeOK, JobInv, LockInv, ExclusionInv, NoHiddenStart', NEW j \in Jobs,
         Deliver(j) \/ DeliveryStep(j) \/ JobTimeout(j) \/ WorkerCrash(j)
  PROVE  ExclusionInv'
<1> USE UploadAssumption, ModeAssumption DEF TypeOK, Jobs
<1>1. CASE Deliver(j)
  <2> USE DEF Deliver, Entitled, DeliveryHolds, Guarded, Pending, JobInv
  <2>1. CASE Entitled(j)
    <3>1. Entitled(j)' /\ ~DeliveryHolds(j)
      BY <1>1, <2>1
    <3>2. row.status # "FAILED"
      BY <2>1 DEF ExclusionInv, EntitledShutsRetry
    <3> QED
      BY <1>1, <2>1, <3>1, <3>2, ExclusionOn
  <2>2. CASE ~Entitled(j)
    BY <1>1, <2>2 DEF ExclusionInv, OneEntitled, EntitledShutsRetry, LockedIsFailed, UploadComesFirst,
                      PendingIsStale, StartIsFresh, NoRetryYet, RequestHolds
  <2> QED
    BY <2>1, <2>2
<1>2. CASE Guard(j)
  <2> USE DEF Guard, Entitled, DeliveryHolds, Guarded, Pending, JobInv, End, Close
  <2>1. CASE End(j)
    BY <1>2, <2>1 DEF Inline, ExclusionInv, OneEntitled, EntitledShutsRetry, LockedIsFailed, UploadComesFirst,
                      PendingIsStale, StartIsFresh, NoRetryYet, RequestHolds
  <2>2. CASE row.status = "QUEUED" /\ row.attempts = baseline[j] /\ pc' = [pc EXCEPT ![j] = "setup"]
                /\ UNCHANGED <<api, queue, mem>>
    <3>1. j \in Requests /\ Pending(j) /\ queue[j] = "running" /\ ~NoRetryYet
      BY <1>2, <2>2, EarlyRetries
    <3>2. \A i \in Jobs \ {j} : ~Entitled(i)
      BY <1>2, <2>2, <3>1 DEF RowFree, ExclusionInv, UploadComesFirst, PendingIsStale
    <3>3. \A i \in Jobs \ {j} : ~Entitled(i)'
      BY <1>2, <2>2, <3>2
    <3>4. DeliveryHolds(j)'
      BY <1>2, <2>2, <3>1
    <3> QED
      BY <1>2, <2>2, <3>1, <3>3, <3>4
         DEF RowFree, ExclusionInv, OneEntitled, EntitledShutsRetry, LockedIsFailed, UploadComesFirst,
             PendingIsStale, StartIsFresh, NoRetryYet, RequestHolds
  <2> QED
    BY <1>2, <2>1, <2>2
<1>3. CASE SetupFails(j) \/ Succeed(j) \/ MarkFailed(j)
  <2>1. /\ Entitled(j) /\ ~Entitled(j)'
        /\ pc' = [pc EXCEPT ![j] = "ending"]
        /\ UNCHANGED <<api, req, queue, try, baseline>>
    BY <1>3 DEF SetupFails, Succeed, MarkFailed, Entitled, JobInv
  <2> QED
    BY <1>3, <2>1, DeliveryWrites, ExclusionOver DEF Entitled
<1>4. CASE Load(j) /\ exists
  <2>1. /\ Entitled(j) /\ Entitled(j)'
        /\ pc' = [pc EXCEPT ![j] = "start"] /\ mem'[j] = row
        /\ UNCHANGED <<row, api, req, queue, try, baseline>>
    BY <1>4 DEF Load, Entitled
  <2>2. row.status # "FAILED"
    BY <2>1 DEF ExclusionInv, EntitledShutsRetry
  <2> QED
    BY <2>1, <2>2, ExclusionOn DEF Entitled, Pending, DeliveryHolds, Guarded, Load
<1>5. CASE Start(j)
  <2>1. /\ Entitled(j) /\ Entitled(j)'
        /\ pc' = [pc EXCEPT ![j] = "stages"]
        /\ UNCHANGED <<api, req, queue, try, baseline>>
    BY <1>5 DEF Start, Entitled
  <2>2. mem[j].attempts = row.attempts /\ row.status # "FAILED"
    BY <1>5, <2>1 DEF Start, ExclusionInv, EntitledShutsRetry, StartIsFresh
  <2> QED
    BY <1>5, <2>1, <2>2, DeliveryWrites, ExclusionOn DEF Entitled, Pending
<1>6. CASE (Load(j) /\ ~exists) \/ StartFails(j) \/ StageFails(j) \/ StageBreaks(j)
  <2>1. /\ Entitled(j) /\ Raise(j) /\ ~DeliveryHolds(j)
        /\ UNCHANGED <<api, req, queue, try, baseline>>
    <3>1. ~Hide("start_error")
      BY DEF Hide, NoHiddenStart
    <3>2. DeliveryHolds(j) => exists
      BY DEF LockInv, DeliveryHolds, Guarded
    <3>3. (pc[j] \in {"setup", "start"} /\ ~exists) \/ pc[j] = "stages"
      BY <1>6, <3>1 DEF Load, StartFails, StageFails, StageBreaks
    <3>4. ~DeliveryHolds(j)
      BY <3>2, <3>3 DEF DeliveryHolds
    <3> QED
      BY <1>6, <3>3, <3>4 DEF Load, StartFails, StageFails, StageBreaks, Entitled
  <2>2. row'.attempts = row.attempts /\ row.status # "FAILED"
    BY <1>6, <2>1, DeliveryWrites DEF Load, StartFails, StageBreaks, ExclusionInv, EntitledShutsRetry
  <2>3. CASE Inline(j)
    <3>1. pc' = [pc EXCEPT ![j] = "ending"] /\ ~Entitled(j)'
      BY <1>6, <2>1, <2>3 DEF Raise, Inline, Entitled, JobInv
    <3> QED
      BY <2>1, <2>2, <3>1, ExclusionOver DEF Entitled
  <2>4. CASE ~Inline(j)
    <3>1. pc' = [pc EXCEPT ![j] = "failed"] /\ Entitled(j)'
      BY <2>1, <2>4 DEF Raise, Entitled
    <3>2. row'.status # "FAILED"
      BY <1>6, <2>2, <2>4, DeliveryWrites DEF Load, StartFails, StageBreaks
    <3> QED
      BY <2>1, <2>2, <3>1, <3>2, ExclusionOn DEF Entitled, Pending
  <2> QED
    BY <2>3, <2>4
<1>7. CASE RetryLater(j)
  <2>1. /\ Entitled(j) /\ Entitled(j)' /\ ~DeliveryHolds(j)
        /\ pc' = [pc EXCEPT ![j] = "idle"] /\ queue' = [queue EXCEPT ![j] = "ready"]
        /\ UNCHANGED <<row, api, req, try, baseline>>
    BY <1>7 DEF RetryLater, Close, Entitled, JobInv, DeliveryHolds
  <2>2. row.status # "FAILED"
    BY <2>1 DEF ExclusionInv, EntitledShutsRetry
  <2> QED
    BY <2>1, <2>2, ExclusionOn DEF Entitled, Pending
<1>8. CASE MarkRead(j)
  <2>1. /\ Entitled(j) /\ ~DeliveryHolds(j)
        /\ UNCHANGED <<row, api, req, queue, try, baseline>>
    BY <1>8 DEF MarkRead, Entitled, DeliveryHolds
  <2>2. row.status # "FAILED"
    BY <2>1 DEF ExclusionInv, EntitledShutsRetry
  <2>3. CASE exists
    <3>1. pc' = [pc EXCEPT ![j] = "mark"] /\ Entitled(j)'
      BY <1>8, <2>3 DEF MarkRead, Entitled
    <3> QED
      BY <2>1, <2>2, <3>1, ExclusionOn DEF Entitled, Pending
  <2>4. CASE ~exists
    <3>1. pc' = [pc EXCEPT ![j] = "ending"] /\ ~Entitled(j)'
      BY <1>8, <2>1, <2>4 DEF MarkRead, Entitled, JobInv
    <3> QED
      BY <2>1, <3>1, ExclusionOver DEF Entitled
  <2> QED
    BY <2>3, <2>4
<1>9. CASE Finish(j) \/ JobTimeout(j)
  <2>1. /\ pc[j] # "idle" /\ End(j) /\ ~Entitled(j)'
        /\ UNCHANGED <<row, req, try, baseline>>
    BY <1>9 DEF Finish, JobTimeout, End, Close, Entitled, JobInv, Inline
  <2>2. CASE Entitled(j)
    BY <2>1, <2>2, ExclusionOver DEF End, Close, Entitled
  <2>3. CASE ~Entitled(j)
    BY <2>1, <2>3 DEF End, Close, Inline, ExclusionInv, OneEntitled, EntitledShutsRetry, LockedIsFailed,
                      UploadComesFirst, PendingIsStale, StartIsFresh, NoRetryYet, RequestHolds, Entitled,
                      Pending, DeliveryHolds, Guarded, JobInv
  <2> QED
    BY <2>2, <2>3
<1>10. CASE WorkerCrash(j)
  BY <1>10 DEF WorkerCrash, Hide, NoHiddenStart
<1> QED
  BY <1>1, <1>2, <1>3, <1>4, <1>5, <1>6, <1>7, <1>8, <1>9, <1>10 DEF DeliveryStep, Pipeline, Load

\* Hidden starts are counted and never forgotten.
LEMMA HiddenGrows == ASSUME TypeOK, [Next]_vars, NoHiddenStart' PROVE NoHiddenStart
<1> USE DEF NoHiddenStart, TypeOK
<1>1. CASE UNCHANGED vars
  BY <1>1 DEF vars
<1>2. CASE UploadStep \/ UploadDies \/ DeleteRow
  BY <1>2 DEF UploadStep, UploadDispatch, UploadCommit, UploadEnqueue, UploadEnqueueFails, UploadMarkQueued,
              UploadMarkFailed, UploadRunInline, UploadDies, DeleteRow, Hide
<1>3. ASSUME NEW r \in Requests, RetryLock(r) \/ RetryReject(r) \/ RetryStep(r) \/ LateArrival(r)
      PROVE  hidden = 0
  BY <1>3 DEF RetryLock, RetryReject, RetryStep, RetryDispatch, RetryDispatchFails, RetryCommit,
              RetryCommitFails, LateArrival
<1>4. ASSUME NEW j \in Jobs, Deliver(j) \/ JobTimeout(j) \/ WorkerCrash(j) \/ DeliveryStep(j)
      PROVE  hidden = 0
  BY <1>4 DEF Deliver, JobTimeout, WorkerCrash, DeliveryStep, Pipeline, Guard, SetupFails, Load, Start,
              StartFails, Succeed, StageFails, StageBreaks, RetryLater, MarkRead, MarkFailed, Finish, Hide
<1> QED
  BY <1>1, <1>2, <1>3, <1>4 DEF Next

\* Every step keeps the exclusion, unless it hides a start.
LEMMA ExclusionStep ==
  ASSUME TypeOK, JobInv, LockInv, ExclusionInv, NoHiddenStart', [Next]_vars
  PROVE  ExclusionInv'
<1>1. CASE UNCHANGED vars
  BY <1>1 DEF vars, ExclusionInv, OneEntitled, EntitledShutsRetry, LockedIsFailed, UploadComesFirst,
              PendingIsStale, StartIsFresh, Entitled, NoRetryYet, Pending, RequestHolds, DeliveryHolds, Guarded
<1> QED
  BY <1>1, ExclusionUpload, ExclusionRetry, ExclusionDelivery DEF Next

\* So it holds in every behaviour until a start is hidden.
LEMMA ExclusionCorrect == Spec => [](NoHiddenStart => ExclusionInv)
<1>1. TypeOK /\ JobInv /\ LockInv /\ (NoHiddenStart => ExclusionInv) /\ [Next]_vars =>
        (NoHiddenStart => ExclusionInv)'
  BY HiddenGrows, ExclusionStep
<1> QED
  BY <1>1, ExclusionInit, LockCorrect, PTL DEF Spec

\* Until Redis hides the upload's dispatch, a worker dies, or the commit that starts an
\* attempt fails, two deliveries never process the conversation at once: not with any
\* number of manual retries, dispatched, lost, delayed or refused, nor with time-outs.
THEOREM Exclusion == Spec => []OneAttemptAtATime
<1>1. (NoHiddenStart => ExclusionInv) => OneAttemptAtATime
  BY DEF ExclusionInv, OneEntitled, OneAttemptAtATime, Attempting, Entitled
<1> QED
  BY <1>1, ExclusionCorrect, PTL

\* Until such a failure a conversation that says FAILED has no job left that would
\* process it on its own.
THEOREM FailedExhausts == Spec => []FailedIsExhausted
<1>1. (NoHiddenStart => ExclusionInv) => FailedIsExhausted
  BY DEF ExclusionInv, EntitledShutsRetry, FailedIsExhausted
<1> QED
  BY <1>1, ExclusionCorrect, PTL

\* Until such a failure every start adds exactly one to processing_attempts, so that a
\* retry job's baseline is consumed once.
THEOREM StartsAreCounted == Spec => EveryStartIsCounted
<1>1. TypeOK /\ (NoHiddenStart => ExclusionInv) /\ [Next]_vars =>
        [\A j \in Jobs :
           NoHiddenStart /\ pc[j] = "start" /\ pc'[j] = "stages" => row'.attempts = row.attempts + 1]_vars
  <2> SUFFICES ASSUME TypeOK, ExclusionInv, Next, NEW j \in Jobs, pc[j] = "start", pc'[j] = "stages"
               PROVE  row'.attempts = row.attempts + 1
    OBVIOUS
  <2>1. Start(j)
    BY IntoStages
  <2> QED
    BY <2>1, DeliveryWrites DEF ExclusionInv, StartIsFresh
<1> QED
  BY <1>1, TypeCorrect, ExclusionCorrect, PTL DEF Spec, EveryStartIsCounted

-----------------------------------------------------------------------------
(* Results *)

(* Before its job is dispatched the upload is all that has written the row.     *)
Unstarted == api \in {"receiving", "saved", "refused"} => row.status = "UPLOADED"

(* A job that will process the conversation on its own has not been done.       *)
Unfinished == \A j \in Jobs : Entitled(j) => row.status # "COMPLETED"

(* A session that is going to write knows the row but for the upload's QUEUED,   *)
(* so that its flush writes the result and the message together.                *)
SessionsKnow ==
  \A j \in Jobs : pc[j] \in {"start", "stages", "mark"} =>
    /\ mem[j].error = row.error
    /\ row.status \in {mem[j].status, "QUEUED"}
    /\ mem[j].status \notin Terminal
    /\ pc[j] = "stages" => mem[j].status = "PROCESSING" /\ mem[j].error = "null"

(* What the row says of a result.                                               *)
MessageFits ==
  /\ row.status = "COMPLETED" => row.error = "null"
  /\ row.status = "FAILED" => row.error = "set"

ResultInv == Unstarted /\ Unfinished /\ SessionsKnow /\ MessageFits

\* A flush writes the status and the message that differ in memory, and no others.
LEMMA FlushColumns ==
  ASSUME NEW old, NEW new
  PROVE  /\ Flush(old, new).status = IF new.status = old.status THEN row.status ELSE new.status
         /\ Flush(old, new).error = IF new.error = old.error THEN row.error ELSE new.error
BY DEF Flush

\* What an attempt that starts or ends has in memory.
LEMMA MemoryColumns ==
  ASSUME NEW old \in Row, NEW status \in Statuses, NEW error \in Columns
  PROVE  /\ Started(old).status = "PROCESSING" /\ Started(old).error = "null"
         /\ Finished(old, status, error).status = status
         /\ Finished(old, status, error).error = error
BY DEF Started, Finished, Row

\* A new recording has no result.
LEMMA ResultInit == Init => ResultInv
BY DEF Init, ResultInv, Unstarted, Unfinished, SessionsKnow, MessageFits, Entitled, NewRow, Jobs

\* The upload request dispatches an unfinished conversation.
LEMMA ResultUpload ==
  ASSUME TypeOK, JobInv, LockInv, ExclusionInv, ResultInv, NoHiddenStart',
         UploadStep \/ UploadDies \/ DeleteRow
  PROVE  ResultInv'
<1> USE UploadAssumption, ModeAssumption, EarlyRetries
    DEF TypeOK, ResultInv, Unstarted, Unfinished, SessionsKnow, MessageFits, Entitled, Jobs
<1>1. CASE UploadCommit \/ DeleteRow
  BY <1>1 DEF UploadCommit, DeleteRow
<1>2. CASE Mode = "queue" /\ UploadEnqueue
  BY <1>2 DEF UploadEnqueue, JobInv
<1>3. CASE UploadEnqueueFails
  BY <1>3 DEF UploadEnqueueFails, Hide, NoHiddenStart
<1>4. CASE UploadMarkQueued
  <2>1. exists => row'.status = "QUEUED" /\ row'.error = row.error
    <3> DEFINE queued == [NewRow EXCEPT !.status = "QUEUED"]
    <3>1. /\ queued.status = "QUEUED" /\ NewRow.status = "UPLOADED"
          /\ queued.error = NewRow.error
      BY DEF NewRow
    <3>2. exists => row' = Flush(NewRow, queued)
      BY <1>4 DEF UploadMarkQueued
    <3> HIDE DEF queued
    <3> QED
      BY <3>1, <3>2, FlushColumns
  <2> QED
    BY <1>4, <2>1 DEF UploadMarkQueued
<1>5. CASE UploadMarkFailed
  <2>1. \A j \in Jobs : ~Entitled(j)'
    BY <1>5 DEF UploadMarkFailed, ExclusionInv, UploadComesFirst
  <2>2. exists => row'.status = "FAILED" /\ row'.error = "set"
    <3>1. /\ Finished(NewRow, "FAILED", "set").status = "FAILED" /\ NewRow.status = "UPLOADED"
          /\ Finished(NewRow, "FAILED", "set").error = "set" /\ NewRow.error = "null"
      BY DEF NewRow, Finished
    <3> QED
      BY <1>5, <3>1, FlushColumns DEF UploadMarkFailed
  <2> QED
    BY <1>5, <2>1, <2>2 DEF UploadMarkFailed
<1>6. CASE Mode # "queue" /\ UploadRunInline
  BY <1>6 DEF UploadRunInline
<1>7. CASE UploadDies
  BY <1>7 DEF UploadDies, Close
<1> QED
  BY <1>1, <1>2, <1>3, <1>4, <1>5, <1>6, <1>7 DEF UploadStep, UploadDispatch

\* A retry is accepted while no session is going to write.
LEMMA ResultRetry ==
  ASSUME TypeOK, JobInv, LockInv, ExclusionInv, ResultInv, NoHiddenStart', NEW r \in Requests,
         RetryLock(r) \/ RetryReject(r) \/ RetryStep(r) \/ LateArrival(r)
  PROVE  ResultInv'
<1> USE UploadAssumption
    DEF TypeOK, ResultInv, Unstarted, Unfinished, SessionsKnow, MessageFits, Entitled, Jobs
<1>1. CASE RetryLock(r) \/ RetryReject(r)
  BY <1>1 DEF RetryLock, RetryReject
<1>2. CASE RetryDispatch(r) \/ RetryDispatchFails(r)
  BY <1>2 DEF RetryDispatch, RetryDispatchFails, JobInv
<1>3. CASE RetryCommit(r)
  <2>1. \A j \in Jobs : ~Entitled(j)
    BY <1>3 DEF RetryCommit, ExclusionInv, EntitledShutsRetry, RequestHolds
  <2>2. row'.status = "QUEUED" /\ api \notin {"receiving", "saved", "refused"}
    BY <1>3 DEF RetryCommit, Row, ExclusionInv, UploadComesFirst, NoRetryYet
  <2> QED
    BY <1>3, <2>1, <2>2 DEF RetryCommit
<1>4. CASE RetryCommitFails(r)
  BY <1>4 DEF RetryCommitFails
<1>5. CASE LateArrival(r)
  BY <1>5 DEF LateArrival, JobInv
<1> QED
  BY <1>1, <1>2, <1>3, <1>4, <1>5 DEF RetryStep

\* The delivery that writes is the one that is entitled.
LEMMA ResultDelivery ==
  ASSUME TypeOK, JobInv, LockInv, ExclusionInv, ResultInv, NoHiddenStart', NEW j \in Jobs,
         Deliver(j) \/ DeliveryStep(j) \/ JobTimeout(j) \/ WorkerCrash(j)
  PROVE  ResultInv'
<1> USE UploadAssumption, ModeAssumption DEF TypeOK, Jobs
<1>1. Entitled(j) => /\ \A k \in Jobs \ {j} : ~Entitled(k) /\ pc[k] \notin {"start", "stages", "mark"}
                     /\ row.status \notin Terminal
                     /\ api \notin {"receiving", "saved", "refused"}
  BY EarlyRetries DEF ExclusionInv, OneEntitled, EntitledShutsRetry, UploadComesFirst, Entitled, JobInv,
         ResultInv, Unfinished, Terminal
<1>2. row \in Row /\ mem[j] \in Row
  OBVIOUS
<1> USE DEF ResultInv, Unstarted, Unfinished, SessionsKnow, MessageFits, Entitled
<1>3. CASE Deliver(j)
  BY <1>3 DEF Deliver, JobInv
<1>4. CASE Guard(j)
  BY <1>4 DEF Guard, End, Close, Inline, JobInv
<1>5. CASE SetupFails(j)
  <2>1. exists => row'.status = "FAILED" /\ row'.error = "set"
    BY <1>2, <1>5, MemoryColumns DEF SetupFails, Statuses, Columns
  <2> QED
    BY <1>1, <1>5, <2>1 DEF SetupFails, JobInv
<1>6. CASE Load(j)
  BY <1>1, <1>6 DEF Load, Raise, Terminal
<1>7. CASE Start(j)
  <2>1. /\ row'.status \in {"PROCESSING", "QUEUED"} /\ row'.error = "null"
        /\ mem'[j].status = "PROCESSING" /\ mem'[j].error = "null"
    BY <1>2, <1>7, MemoryColumns, FlushColumns DEF Start, Statuses, Columns, Row
  <2> QED
    BY <1>1, <1>7, <2>1 DEF Start, Terminal
<1>8. CASE StartFails(j) \/ StageBreaks(j)
  BY <1>1, <1>8 DEF StartFails, StageBreaks, Raise
<1>9. CASE Succeed(j)
  <2>1. row'.status = "COMPLETED" /\ row'.error = "null"
    BY <1>2, <1>9, MemoryColumns, FlushColumns DEF Succeed, Statuses, Columns
  <2> QED
    BY <1>1, <1>9, <2>1 DEF Succeed, JobInv
<1>10. CASE StageFails(j)
  <2>1. /\ row'.error = "set"
        /\ row'.status \in {"FAILED", "PROCESSING", "QUEUED"}
    BY <1>2, <1>10, MemoryColumns, FlushColumns DEF StageFails, Statuses, Columns
  <2> QED
    BY <1>1, <1>10, <2>1 DEF StageFails, Raise, JobInv
<1>11. CASE RetryLater(j) \/ WorkerCrash(j)
  BY <1>1, <1>11 DEF RetryLater, WorkerCrash, Close, Hide, NoHiddenStart
<1>12. CASE MarkRead(j)
  BY <1>1, <1>12 DEF MarkRead, Terminal
<1>13. CASE MarkFailed(j)
  <2>1. exists => row'.status = "FAILED" /\ row'.error = "set"
    BY <1>2, <1>13, MemoryColumns, FlushColumns DEF MarkFailed, Statuses, Columns, Row, Terminal
  <2> QED
    BY <1>1, <1>13, <2>1 DEF MarkFailed, JobInv
<1>14. CASE Finish(j) \/ JobTimeout(j)
  BY <1>1, <1>14 DEF Finish, JobTimeout, End, Close, JobInv, Inline
<1> QED
  BY <1>3, <1>4, <1>5, <1>6, <1>7, <1>8, <1>9, <1>10, <1>11, <1>12, <1>13, <1>14 DEF DeliveryStep, Pipeline

\* Every step keeps what is said of results, unless it hides a start.
LEMMA ResultStep ==
  ASSUME TypeOK, JobInv, LockInv, ExclusionInv, ResultInv, NoHiddenStart', [Next]_vars
  PROVE  ResultInv'
<1>1. CASE UNCHANGED vars
  BY <1>1 DEF vars, ResultInv, Unstarted, Unfinished, SessionsKnow, MessageFits, Entitled
<1> QED
  BY <1>1, ResultUpload, ResultRetry, ResultDelivery DEF Next

\* So it holds in every behaviour until a start is hidden.
LEMMA ResultCorrect == Spec => [](NoHiddenStart => ResultInv)
<1>1. TypeOK /\ JobInv /\ LockInv /\ (NoHiddenStart => ExclusionInv /\ ResultInv) /\ [Next]_vars =>
        (NoHiddenStart => ResultInv)'
  BY HiddenGrows, ResultStep
<1> QED
  BY <1>1, ResultInit, LockCorrect, ExclusionCorrect, PTL DEF Spec

\* Until such a failure a completed conversation shows no error and a failed one shows
\* one, although status and message are columns that a session flushes one by one.
THEOREM ErrorsMatch == Spec => []ErrorMatchesResult
<1>1. (NoHiddenStart => ResultInv) => ErrorMatchesResult
  BY DEF ResultInv, MessageFits, ErrorMatchesResult
<1> QED
  BY <1>1, ResultCorrect, PTL

-----------------------------------------------------------------------------
(* Inline uploads *)

(* An inline upload that meets no failure which hides a start.                  *)
InlineQuietly == Mode = "inline" /\ Faults \subseteq {"job_timeout", "api_crash"}

(* The upload request writes no QUEUED of its own, a retry is under way only for a *)
(* conversation that is there, and a session that is going to write knows the row. *)
InlineInv ==
  /\ NoHiddenStart
  /\ api \notin {"enqueued", "refused"}
  /\ exists => api # "receiving"
  /\ \A r \in Requests : RequestHolds(r) => exists
  /\ \A j \in Jobs : pc[j] \in {"start", "stages", "mark"} => mem[j].status = row.status

\* A new recording.
LEMMA InlineInit == Init => InlineInv
BY DEF Init, InlineInv, NoHiddenStart, RequestHolds, Jobs

\* Without those failures no start is hidden.
LEMMA NothingHides ==
  ASSUME InlineQuietly, NEW fault \in FaultKinds \ {"job_timeout", "api_crash"}
  PROVE  ~Hide(fault)
BY DEF InlineQuietly, Hide

\* The upload request leaves the row to its own session.
LEMMA InlineUpload ==
  ASSUME InlineQuietly, TypeOK, JobInv, InlineInv, UploadStep \/ UploadDies \/ DeleteRow
  PROVE  InlineInv'
<1> USE DEF InlineQuietly, TypeOK, InlineInv, NoHiddenStart, RequestHolds, Jobs
<1>1. CASE UploadCommit
  BY <1>1 DEF UploadCommit
<1>2. CASE UploadRunInline
  BY <1>2 DEF UploadRunInline
<1>3. CASE UploadDies
  BY <1>3 DEF UploadDies, Close
<1>4. CASE DeleteRow
  BY <1>4 DEF DeleteRow, RowFreeForRequest
<1> QED
  BY <1>1, <1>2, <1>3, <1>4
  DEF UploadStep, UploadDispatch, UploadEnqueueFails, UploadMarkQueued, UploadMarkFailed

\* A retry is accepted while no session is going to write.
LEMMA InlineRetry ==
  ASSUME InlineQuietly, TypeOK, JobInv, ExclusionInv, InlineInv, NEW r \in Requests,
         RetryLock(r) \/ RetryReject(r) \/ RetryStep(r) \/ LateArrival(r)
  PROVE  InlineInv'
<1> USE DEF InlineQuietly, TypeOK, InlineInv, NoHiddenStart, RequestHolds, Jobs
<1>1. CASE RetryLock(r) \/ RetryReject(r)
  BY <1>1 DEF RetryLock, RetryReject
<1>2. CASE RetryDispatch(r) \/ RetryDispatchFails(r) \/ RetryCommitFails(r)
  BY <1>2 DEF RetryDispatch, RetryDispatchFails, RetryCommitFails
<1>3. CASE RetryCommit(r)
  <2>1. \A j \in Jobs : pc[j] \notin {"start", "stages", "mark"}
    BY <1>3 DEF RetryCommit, ExclusionInv, EntitledShutsRetry, Entitled
  <2> QED
    BY <1>3, <2>1 DEF RetryCommit
<1>4. CASE LateArrival(r)
  BY <1>4 DEF LateArrival
<1> QED
  BY <1>1, <1>2, <1>3, <1>4 DEF RetryStep

\* What the writes of a delivery make of the row, whose status its session has in memory.
LEMMA InlineWrites ==
  ASSUME InlineQuietly, TypeOK, JobInv, ResultInv, InlineInv, NEW j \in Jobs
  PROVE  /\ Start(j) => row'.status = "PROCESSING"
         /\ Succeed(j) => row'.status = "COMPLETED" /\ row.status = "PROCESSING"
         /\ StageFails(j) =>
              row.status = "PROCESSING" /\ row'.status = IF Inline(j) THEN "FAILED" ELSE "PROCESSING"
         /\ exists /\ (SetupFails(j) \/ MarkFailed(j)) => row'.status = "FAILED"
         /\ Start(j) \/ Succeed(j) \/ StageFails(j) => mem'[j].status = row'.status
<1>1. row \in Row /\ mem[j] \in Row
  BY DEF TypeOK
<1>2. Start(j) => row'.status = "PROCESSING" /\ mem'[j].status = "PROCESSING"
  BY <1>1, MemoryColumns, FlushColumns DEF Start, Statuses, Columns, TypeOK, InlineInv
<1>3. ASSUME Succeed(j)
      PROVE  row'.status = "COMPLETED" /\ row.status = "PROCESSING" /\ mem'[j].status = "COMPLETED"
  <2>1. mem[j].status = "PROCESSING" /\ row.status = "PROCESSING"
    BY <1>3 DEF Succeed, ResultInv, SessionsKnow, InlineInv
  <2> QED
    BY <1>1, <1>3, <2>1, MemoryColumns, FlushColumns DEF Succeed, Statuses, Columns, TypeOK
<1>4. ASSUME StageFails(j)
      PROVE  /\ row.status = "PROCESSING"
             /\ row'.status = IF Inline(j) THEN "FAILED" ELSE "PROCESSING"
             /\ mem'[j].status = row'.status
  <2>1. mem[j].status = "PROCESSING" /\ row.status = "PROCESSING"
    BY <1>4 DEF StageFails, ResultInv, SessionsKnow, InlineInv
  <2> QED
    BY <1>1, <1>4, <2>1, MemoryColumns, FlushColumns DEF StageFails, Statuses, Columns, TypeOK
<1>5. exists /\ SetupFails(j) => row'.status = "FAILED"
  BY <1>1, MemoryColumns DEF SetupFails, Statuses, Columns
<1>6. exists /\ MarkFailed(j) => row'.status = "FAILED"
  BY <1>1, MemoryColumns, FlushColumns DEF MarkFailed, Statuses, Columns, ResultInv, SessionsKnow, Terminal
<1> QED
  BY <1>2, <1>3, <1>4, <1>5, <1>6

\* The delivery that writes is the one whose session knows the row.
LEMMA InlineDelivery ==
  ASSUME InlineQuietly, TypeOK, JobInv, ExclusionInv, ResultInv, InlineInv, NEW j \in Jobs,
         Deliver(j) \/ DeliveryStep(j) \/ JobTimeout(j) \/ WorkerCrash(j)
  PROVE  InlineInv'
<1> USE UploadAssumption DEF TypeOK, InlineInv, NoHiddenStart, RequestHolds, Jobs
<1>1. Entitled(j) => \A k \in Jobs \ {j} : pc[k] \notin {"start", "stages", "mark"}
  BY DEF ExclusionInv, OneEntitled, Entitled
<1>2. CASE Deliver(j)
  BY <1>2 DEF Deliver
<1>3. CASE Guard(j) \/ Finish(j) \/ JobTimeout(j) \/ RetryLater(j)
  BY <1>3 DEF Guard, Finish, JobTimeout, RetryLater, End, Close, InlineQuietly
<1>4. CASE SetupFails(j) \/ MarkFailed(j)
  BY <1>1, <1>4 DEF SetupFails, MarkFailed, Entitled
<1>5. CASE Load(j) \/ MarkRead(j)
  BY <1>5 DEF Load, MarkRead, Raise
<1>6. CASE Start(j) \/ Succeed(j) \/ StageFails(j)
  <2>1. mem'[j].status = row'.status
    BY <1>6, InlineWrites
  <2>2. Entitled(j)
    BY <1>6 DEF Start, Succeed, StageFails, Entitled
  <2> QED
    BY <1>1, <1>6, <2>1, <2>2 DEF Start, Succeed, StageFails, Raise
<1>7. CASE StartFails(j) \/ StageBreaks(j)
  BY <1>7, NothingHides DEF StartFails, StageBreaks, Raise, FaultKinds
<1>8. CASE WorkerCrash(j)
  BY <1>8, NothingHides DEF WorkerCrash, FaultKinds
<1> QED
  BY <1>2, <1>3, <1>4, <1>5, <1>6, <1>7, <1>8 DEF DeliveryStep, Pipeline

\* Every step keeps what is said of inline uploads.
LEMMA InlineStep ==
  ASSUME InlineQuietly, TypeOK, JobInv, ExclusionInv, ResultInv, InlineInv, [Next]_vars
  PROVE  InlineInv'
<1>1. CASE UNCHANGED vars
  BY <1>1 DEF vars, InlineInv, NoHiddenStart, RequestHolds
<1> QED
  BY <1>1, InlineUpload, InlineRetry, InlineDelivery DEF Next

(* All that is proved of an inline upload without a hidden start.               *)
InlineAll == TypeOK /\ JobInv /\ LockInv /\ ExclusionInv /\ ResultInv /\ InlineInv

\* So it holds in every behaviour of an inline upload.
LEMMA InlineCorrect == ASSUME InlineQuietly PROVE Spec => []InlineAll
<1>1. InlineInv => NoHiddenStart
  BY DEF InlineInv
<1>2. TypeOK /\ JobInv /\ (NoHiddenStart => ExclusionInv) /\ (NoHiddenStart => ResultInv) /\ InlineInv /\ [Next]_vars
        => InlineInv'
  BY <1>1, InlineStep
<1>3. TypeOK /\ JobInv /\ LockInv /\ (NoHiddenStart => ExclusionInv) /\ (NoHiddenStart => ResultInv) /\ InlineInv
        => InlineAll
  BY <1>1 DEF InlineAll
<1> QED
  BY <1>2, <1>3, InlineInit, LockCorrect, ExclusionCorrect, ResultCorrect, PTL DEF Spec

-----------------------------------------------------------------------------
(* The lifecycle *)

(* What a step shows of the lifecycle.                                          *)
Shown == <<Presence, row.status, row.attempts, Active>>

\* A recording is received once, and its lifecycle begins.
LEMMA LifecycleInit == Init => Lifecycle!Init
BY DEF Init, Lifecycle!Init, Presence, Active, Attempting, NewRow

\* The upload request: it stores the recording, may process it, or dies while it does.
LEMMA LifecycleUpload ==
  ASSUME InlineQuietly, InlineAll, UploadStep \/ UploadDies \/ DeleteRow
  PROVE  Lifecycle!Next \/ UNCHANGED Shown
<1> USE DEF InlineQuietly, InlineAll, TypeOK, Jobs, Presence, Active, Attempting, Shown
<1>1. CASE UploadCommit
  <2>1. Lifecycle!Receive
    BY <1>1 DEF UploadCommit, Lifecycle!Receive
  <2> QED
    BY <2>1 DEF Lifecycle!Next
<1>2. CASE UploadRunInline
  BY <1>2 DEF UploadRunInline, JobInv
<1>3. CASE UploadDies
  <2>1. CASE pc[Upload] = "stages"
    <3>1. \A j \in Jobs \ {Upload} : pc[j] # "stages"
      BY <2>1 DEF ExclusionInv, OneEntitled, Entitled
    <3>2. Lifecycle!Lose
      BY <1>3, <2>1, <3>1 DEF UploadDies, Close, Lifecycle!Lose
    <3> QED
      BY <3>2 DEF Lifecycle!Next
  <2>2. CASE pc[Upload] # "stages"
    BY <1>3, <2>2 DEF UploadDies, Close
  <2> QED
    BY <2>1, <2>2
<1>4. CASE DeleteRow
  <2>1. Lifecycle!Delete
    BY <1>4 DEF DeleteRow, InlineInv, Lifecycle!Delete
  <2> QED
    BY <2>1 DEF Lifecycle!Next
<1> QED
  BY <1>1, <1>2, <1>3, <1>4
  DEF UploadStep, UploadDispatch, UploadEnqueueFails, UploadMarkQueued, UploadMarkFailed, InlineInv

\* A retry request shows nothing until it commits.
LEMMA LifecycleRetry ==
  ASSUME InlineAll, NEW r \in Requests, RetryLock(r) \/ RetryReject(r) \/ RetryStep(r) \/ LateArrival(r)
  PROVE  Lifecycle!Next \/ UNCHANGED Shown
<1> USE DEF InlineAll, TypeOK, Jobs, Presence, Active, Attempting, Shown
<1>1. CASE RetryCommit(r)
  <2>1. /\ exists /\ api # "receiving" /\ row.status = "FAILED"
        /\ \A j \in Jobs : pc[j] # "stages"
    BY <1>1 DEF RetryCommit, InlineInv, ExclusionInv, LockedIsFailed, EntitledShutsRetry, Entitled, RequestHolds
  <2>2. row'.status = "QUEUED" /\ row'.attempts = row.attempts
    BY <1>1 DEF RetryCommit, Row
  <2>3. Lifecycle!Retry
    BY <1>1, <2>1, <2>2 DEF RetryCommit, Lifecycle!Retry
  <2> QED
    BY <2>3 DEF Lifecycle!Next
<1>2. CASE ~RetryCommit(r)
  BY <1>2
  DEF RetryStep, RetryLock, RetryReject, RetryDispatch, RetryDispatchFails, RetryCommitFails, LateArrival
<1> QED
  BY <1>1, <1>2

\* The step of a delivery that is entitled to it starts, completes, fails or loses the one
\* attempt; the others show nothing.
LEMMA LifecycleDelivery ==
  ASSUME InlineQuietly, InlineAll, NEW j \in Jobs,
         Deliver(j) \/ DeliveryStep(j) \/ JobTimeout(j) \/ WorkerCrash(j)
  PROVE  Lifecycle!Next \/ UNCHANGED Shown
<1> USE UploadAssumption DEF InlineAll, TypeOK, Jobs, Presence, Active, Attempting, Shown
<1>1. Entitled(j) => /\ \A k \in Jobs \ {j} : pc[k] # "stages"
                     /\ row.status \in {"UPLOADED", "QUEUED", "PROCESSING"}
  <2>1. row.status \in Statuses
    BY DEF Row
  <2> QED
    BY <2>1 DEF ExclusionInv, OneEntitled, EntitledShutsRetry, ResultInv, Unfinished, Entitled, Statuses
<1>2. exists => api # "receiving"
  BY DEF InlineInv
<1>3. CASE Deliver(j)
  <2>1. pc[j] = "idle"
    BY <1>3 DEF Deliver, JobInv, InlineQuietly
  <2> QED
    BY <1>3, <2>1 DEF Deliver
<1>4. CASE Guard(j)
  BY <1>4 DEF Guard, End, Close, Inline, JobInv
<1>5. CASE SetupFails(j) \/ MarkFailed(j)
  <2>1. Entitled(j) /\ pc' = [pc EXCEPT ![j] = "ending"] /\ UNCHANGED <<exists, api>>
    BY <1>5 DEF SetupFails, MarkFailed, Entitled
  <2>2. CASE exists
    <3>1. row'.status = "FAILED" /\ row'.attempts = row.attempts
      BY <1>5, <2>2, InlineWrites, DeliveryWrites
    <3>2. Lifecycle!Fail
      BY <1>1, <1>2, <2>1, <2>2, <3>1 DEF Lifecycle!Fail
    <3> QED
      BY <3>2 DEF Lifecycle!Next
  <2>3. CASE ~exists
    BY <1>5, <2>1, <2>3 DEF SetupFails, MarkFailed
  <2> QED
    BY <2>2, <2>3
<1>6. CASE Load(j) \/ RetryLater(j) \/ MarkRead(j)
  BY <1>6 DEF Load, Raise, RetryLater, Close, MarkRead
<1>7. CASE Start(j)
  <2>1. Entitled(j) /\ exists /\ pc[j] # "stages" /\ pc' = [pc EXCEPT ![j] = "stages"] /\ UNCHANGED <<exists, api>>
    BY <1>7 DEF Start, Entitled
  <2>2. row'.status = "PROCESSING" /\ row'.attempts = row.attempts + 1
    BY <1>7, InlineWrites, DeliveryWrites DEF Start, ExclusionInv, StartIsFresh
  <2>3. Lifecycle!Begin
    BY <1>1, <1>2, <2>1, <2>2 DEF Lifecycle!Begin
  <2> QED
    BY <2>3 DEF Lifecycle!Next
<1>8. CASE Succeed(j)
  <2>1. Entitled(j) /\ exists /\ pc[j] = "stages" /\ pc' = [pc EXCEPT ![j] = "ending"] /\ UNCHANGED <<exists, api>>
    BY <1>8 DEF Succeed, Entitled
  <2>2. row'.status = "COMPLETED" /\ row'.attempts = row.attempts
    BY <1>8, InlineWrites, DeliveryWrites
  <2>3. Lifecycle!Complete
    BY <1>1, <1>2, <2>1, <2>2 DEF Lifecycle!Complete
  <2> QED
    BY <2>3 DEF Lifecycle!Next
<1>9. CASE StageFails(j) \/ StageBreaks(j)
  <2>1. /\ Entitled(j) /\ pc[j] = "stages" /\ pc'[j] # "stages" /\ \A k \in Jobs \ {j} : pc'[k] = pc[k]
        /\ UNCHANGED <<exists, api>>
    BY <1>9 DEF StageFails, StageBreaks, Raise, Entitled
  <2>2. CASE UNCHANGED <<row.status, row.attempts>>
    <3>1. Lifecycle!Lose
      BY <1>1, <2>1, <2>2 DEF Lifecycle!Lose
    <3> QED
      BY <3>1 DEF Lifecycle!Next
  <2>3. CASE exists /\ row'.status = "FAILED" /\ row'.attempts = row.attempts
    <3>1. Lifecycle!Fail
      BY <1>1, <1>2, <2>1, <2>3 DEF Lifecycle!Fail
    <3> QED
      BY <3>1 DEF Lifecycle!Next
  <2> QED
    BY <1>9, <2>2, <2>3, InlineWrites, DeliveryWrites DEF StageFails, StageBreaks
<1>10. CASE StartFails(j)
  BY <1>10 DEF StartFails, Raise
<1>11. CASE Finish(j) \/ JobTimeout(j)
  <2>1. /\ pc[j] # "idle" /\ End(j) /\ UNCHANGED <<exists, row>>
    BY <1>11 DEF Finish, JobTimeout
  <2>2. UNCHANGED Presence
    BY <2>1 DEF End, Inline, JobInv
  <2>3. CASE pc[j] = "stages"
    <3>1. Lifecycle!Lose
      BY <1>1, <2>1, <2>2, <2>3 DEF End, Close, Entitled, Lifecycle!Lose
    <3> QED
      BY <3>1 DEF Lifecycle!Next
  <2>4. CASE pc[j] # "stages"
    BY <2>1, <2>2, <2>4 DEF End, Close
  <2> QED
    BY <2>3, <2>4
<1>12. CASE WorkerCrash(j)
  BY <1>12, NothingHides DEF WorkerCrash, FaultKinds
<1> QED
  BY <1>3, <1>4, <1>5, <1>6, <1>7, <1>8, <1>9, <1>10, <1>11, <1>12 DEF DeliveryStep, Pipeline

\* With inline uploads, any number of retries and of deliveries of each, and time-outs and
\* deaths of either process that no redelivery follows, requests, jobs and sessions do
\* together only what the lifecycle allows.
THEOREM Refinement == ASSUME InlineQuietly PROVE Spec => ImplementsLifecycle
<1>1. InlineAll /\ [Next]_vars => [Lifecycle!Next]_(Lifecycle!lifecycle)
  <2> SUFFICES ASSUME InlineAll, [Next]_vars PROVE Lifecycle!Next \/ UNCHANGED Shown
    BY DEF Shown, Lifecycle!lifecycle
  <2>1. CASE UNCHANGED vars
    BY <2>1 DEF vars, Shown, Presence, Active, Attempting
  <2> QED
    BY <2>1, LifecycleUpload, LifecycleRetry, LifecycleDelivery DEF Next
<1> QED
  BY <1>1, LifecycleInit, InlineCorrect, PTL DEF Spec, ImplementsLifecycle, Lifecycle!Spec

-----------------------------------------------------------------------------
(* Queued conversations *)

(* Without the time-out of a job as well, which drops the job.                  *)
InlineUncut == Mode = "inline" /\ Faults \subseteq {"api_crash"}

(* A retry job that is to find, or is finding, the baseline it was dispatched with. *)
Awaited(r) ==
  /\ r \in Requests
  /\ baseline[r] = row.attempts
  /\ (queue[r] = "ready" /\ try[r] = 0) \/ pc[r] = "guard"

(* Only retries queue the conversation; the job of one that is about to is waiting *)
(* already, and cannot pass the guard while the request holds the row.          *)
AwaitedInv ==
  /\ \A r \in Requests : req[r] = "dispatched" => Awaited(r)
  /\ row.status = "QUEUED" => ~NoRetryYet
  /\ exists /\ row.status = "QUEUED" => \E j \in Jobs : Entitled(j) \/ Awaited(j)

\* A new recording is not queued.
LEMMA AwaitedInit == Init => AwaitedInv
BY DEF Init, AwaitedInv, NewRow

\* The upload request queues nothing, and has no job that could be lost with it.
LEMMA AwaitedUpload ==
  ASSUME InlineUncut, InlineAll, AwaitedInv, UploadStep \/ UploadDies \/ DeleteRow
  PROVE  AwaitedInv'
<1> USE UploadAssumption DEF InlineUncut, InlineAll, TypeOK, AwaitedInv, Awaited, NoRetryYet, Entitled, Jobs
<1>1. CASE UploadCommit
  BY <1>1 DEF UploadCommit, ResultInv, Unstarted
<1>2. CASE UploadRunInline
  BY <1>2 DEF UploadRunInline, JobInv
<1>3. CASE UploadDies
  <2>1. row.status = "QUEUED" => ~Entitled(Upload)
    BY DEF ExclusionInv, UploadComesFirst
  <2> QED
    BY <1>3, <2>1 DEF UploadDies, Close, JobInv
<1>4. CASE DeleteRow
  BY <1>4 DEF DeleteRow
<1> QED
  BY <1>1, <1>2, <1>3, <1>4
  DEF UploadStep, UploadDispatch, UploadEnqueueFails, UploadMarkQueued, UploadMarkFailed, InlineInv

\* A retry commits after its job was dispatched.
LEMMA AwaitedRetry ==
  ASSUME InlineAll, AwaitedInv, NEW r \in Requests,
         RetryLock(r) \/ RetryReject(r) \/ RetryStep(r) \/ LateArrival(r)
  PROVE  AwaitedInv'
<1> USE UploadAssumption DEF InlineAll, TypeOK, AwaitedInv, Awaited, NoRetryYet, Entitled, Jobs
<1>1. CASE RetryLock(r)
  BY <1>1 DEF RetryLock
<1>2. CASE RetryReject(r)
  BY <1>2 DEF RetryReject
<1>3. CASE RetryDispatch(r) \/ RetryDispatchFails(r)
  <2>1. queue[r] = "absent" /\ try[r] = 0 /\ pc[r] = "idle" /\ row.status = "FAILED"
    BY <1>3 DEF RetryDispatch, RetryDispatchFails, JobInv, ExclusionInv, LockedIsFailed, RequestHolds
  <2> QED
    BY <1>3, <2>1 DEF RetryDispatch, RetryDispatchFails
<1>4. CASE RetryCommit(r)
  <2>1. row'.status = "QUEUED" /\ row'.attempts = row.attempts
    BY <1>4 DEF RetryCommit, Row
  <2> QED
    BY <1>4, <2>1 DEF RetryCommit
<1>5. CASE RetryCommitFails(r)
  <2>1. row.status = "FAILED"
    BY <1>5 DEF RetryCommitFails, ExclusionInv, LockedIsFailed, RequestHolds
  <2> QED
    BY <1>5, <2>1 DEF RetryCommitFails
<1>6. CASE LateArrival(r)
  BY <1>6 DEF LateArrival, JobInv
<1> QED
  BY <1>1, <1>2, <1>3, <1>4, <1>5, <1>6 DEF RetryStep

\* A delivery keeps its job, or settles the status: a job is given up only at the guard, for
\* a conversation that is not queued at its baseline.
LEMMA AwaitedDelivery ==
  ASSUME InlineUncut, InlineAll, AwaitedInv, NEW j \in Jobs,
         Deliver(j) \/ DeliveryStep(j) \/ JobTimeout(j) \/ WorkerCrash(j)
  PROVE  AwaitedInv'
<1> USE UploadAssumption, MaxTriesAssumption DEF InlineAll, TypeOK, Jobs
<1>1. InlineQuietly
  BY DEF InlineUncut, InlineQuietly
<1>2. \A r \in Requests : Entitled(j) => ~RequestHolds(r)
  BY DEF ExclusionInv, EntitledShutsRetry
<1> USE DEF AwaitedInv, Awaited, Entitled, NoRetryYet, RequestHolds
<1>3. CASE Deliver(j)
  BY <1>3 DEF Deliver, JobInv, InlineUncut
<1>4. CASE Guard(j)
  <2>1. CASE End(j)
    BY <1>4, <2>1 DEF Guard, RowFree, End, Close, Inline, JobInv
  <2>2. CASE pc' = [pc EXCEPT ![j] = "setup"] /\ UNCHANGED <<api, queue, mem>>
    BY <1>4, <2>2 DEF Guard, RowFree
  <2> QED
    BY <1>4, <2>1, <2>2 DEF Guard
<1>5. CASE SetupFails(j) \/ MarkFailed(j) \/ Start(j) \/ Succeed(j) \/ StageFails(j)
  <2>1. exists => row'.status # "QUEUED"
    BY <1>1, <1>5, InlineWrites
  <2>2. Entitled(j) /\ UNCHANGED <<exists, req>> /\ (~exists => UNCHANGED row)
    BY <1>5 DEF SetupFails, MarkFailed, Start, Succeed, StageFails
  <2> QED
    BY <1>2, <2>1, <2>2
<1>6. CASE Load(j) \/ RetryLater(j) \/ MarkRead(j)
  BY <1>2, <1>6 DEF Load, RetryLater, MarkRead, Raise, Close, Inline, JobInv
<1>7. CASE StageBreaks(j)
  <2>1. row.status # "QUEUED"
    BY <1>7 DEF StageBreaks, ResultInv, SessionsKnow, InlineInv
  <2> QED
    BY <1>2, <1>7, <2>1 DEF StageBreaks
<1>8. CASE StartFails(j)
  <2>1. ~exists
    BY <1>1, <1>8, NothingHides DEF StartFails, FaultKinds
  <2> QED
    BY <1>2, <1>8, <2>1 DEF StartFails
<1>9. CASE Finish(j)
  <2>1. ~Entitled(j) /\ ~Awaited(j) /\ ~Awaited(j)'
    BY <1>9 DEF Finish, End, Close, Inline, JobInv, InlineUncut
  <2>2. \A k \in Jobs \ {j} : pc'[k] = pc[k] /\ queue'[k] = queue[k]
    BY <1>9 DEF Finish, End, Close
  <2> QED
    BY <1>9, <2>1, <2>2 DEF Finish
<1>10. ~JobTimeout(j)
  BY DEF JobTimeout, InlineUncut
<1>11. ~WorkerCrash(j)
  BY <1>1, NothingHides DEF WorkerCrash, FaultKinds
<1> QED
  BY <1>3, <1>4, <1>5, <1>6, <1>7, <1>8, <1>9, <1>10, <1>11 DEF DeliveryStep, Pipeline

\* When uploads are processed inline, a conversation that says QUEUED has a job that will
\* process it: whatever its retries and their jobs do, whichever are refused, lost or late,
\* and wherever the API process dies.
THEOREM QueuedIsProcessed == ASSUME InlineUncut PROVE Spec => []QueuedHasJob
<1>1. InlineQuietly
  BY DEF InlineUncut, InlineQuietly
<1>2. InlineAll /\ AwaitedInv /\ [Next]_vars => AwaitedInv'
  <2>1. CASE UNCHANGED vars
    BY <2>1 DEF vars, AwaitedInv, Awaited, Entitled, NoRetryYet
  <2> QED
    BY <2>1, AwaitedUpload, AwaitedRetry, AwaitedDelivery DEF Next
<1>3. InlineAll /\ AwaitedInv => QueuedHasJob
  BY DEF InlineAll, JobInv, AwaitedInv, Awaited, QueuedHasJob
<1> QED
  BY <1>1, <1>2, <1>3, AwaitedInit, InlineCorrect, PTL DEF Spec

-----------------------------------------------------------------------------
(* The page that follows a conversation *)

\* What the page has heard, or is about to hear, is of a time after its accepted retry.
FollowsRetry ==
  button = "retried" =>
    /\ req[Own] = "accepted"
    /\ get # NoData => "get" \in recent
    /\ get = NoData => shown.error \/ "shown" \in recent

PageInv == PageTypeOK /\ FollowsRetry

-----------------------------------------------------------------------------
(* The server's side *)

\* Each step of a page with its server is a step of Processing, or leaves it alone.
LEMMA PageStepIsServerStep == [PageNext]_allVars => [Next]_vars
<1> SUFFICES ASSUME [PageNext]_allVars PROVE [Next]_vars
  OBVIOUS
<1>1. CASE ServerStep
  BY <1>1 DEF ServerStep
<1>2. CASE UNCHANGED allVars
  BY <1>2 DEF allVars
<1>3. CASE PageNext /\ ~ServerStep
  BY <1>3, Zenon
  DEF PageNext, Open, OpenConversation, Poll, Refresh, ReceiveGet, GetFails, Press,
      RetryAnswered, RetryUnanswered
<1> QED
  BY <1>1, <1>2, <1>3

\* The page is a user of Processing like any other, so what is proved of that holds.
THEOREM PageIsOfProcessing == PageSpec => Spec
<1>1. PageInit => Init
  BY DEF PageInit
<1> QED
  BY <1>1, PageStepIsServerStep, PTL DEF PageSpec, Spec

\* Nothing takes an accepted retry back.
LEMMA AcceptedStays ==
  ASSUME TypeOK, [Next]_vars, NEW r \in Requests, req[r] = "accepted"
  PROVE  req'[r] = "accepted"
<1>1. CASE \E s \in Requests : RetryLock(s) \/ RetryReject(s) \/ RetryStep(s)
  BY <1>1
  DEF TypeOK, RetryLock, RetryReject, RetryStep, RetryDispatch, RetryDispatchFails,
      RetryCommit, RetryCommitFails
<1>2. CASE \E s \in Requests : LateArrival(s)
  BY <1>2 DEF LateArrival
<1>3. CASE UploadStep \/ UploadDies \/ DeleteRow
  BY <1>3
  DEF UploadStep, UploadDispatch, UploadCommit, UploadEnqueue, UploadEnqueueFails, UploadMarkQueued,
      UploadMarkFailed, UploadRunInline, UploadDies, DeleteRow
<1>4. CASE \E j \in Jobs : Deliver(j) \/ JobTimeout(j) \/ WorkerCrash(j)
  BY <1>4 DEF Deliver, JobTimeout, WorkerCrash
<1>5. CASE \E j \in Jobs : DeliveryStep(j)
  BY <1>5
  DEF DeliveryStep, Guard, SetupFails, Load, Start, StartFails, Pipeline, Succeed, StageFails,
      StageBreaks, RetryLater, MarkRead, MarkFailed, Finish
<1>6. CASE UNCHANGED vars
  BY <1>6 DEF vars
<1> QED
  BY <1>1, <1>2, <1>3, <1>4, <1>5, <1>6 DEF Next

-----------------------------------------------------------------------------
(* The page *)

\* What the page gets to see of a row, it can show.
LEMMA SeenIsAnswer == \A status : Seen(status) \in Answers
  BY DEF Seen, Answers, Terminal

\* An answer is not the absence of one.
LEMMA AnswerIsData == NoData \notin Answers
  BY DEF NoData, Answers, Terminal

\* A GET that is sent after the accepted retry is marked as such.
LEMMA SendMarks ==
  ASSUME NEW kept \in SUBSET {"shown", "get"}, Send(kept)
  PROVE  /\ get' \in Answers
         /\ recent' \in SUBSET {"shown", "get"}
         /\ req[Own] = "accepted" => "get" \in recent'
  BY SeenIsAnswer DEF Send

\* A page that is closed has heard of nothing.
LEMMA PageInitial == PageInit => PageInv
  BY TypeInit DEF PageInit, PageInv, PageTypeOK, FollowsRetry, NoData

\* Each step of the page keeps the invariant, one case for each step.
LEMMA PageKeeps ==
  ASSUME PageInv,
         \/ Open("status") \/ Open("detail") \/ OpenConversation
         \/ Poll \/ Refresh \/ ReceiveGet \/ GetFails
         \/ Press \/ RetryAnswered \/ RetryUnanswered
  PROVE  PageInv'
<1>1. UNCHANGED vars
  BY Zenon
  DEF Open, OpenConversation, Poll, Refresh, ReceiveGet, GetFails, Press, RetryAnswered,
      RetryUnanswered
<1>2. TypeOK' /\ req' = req
  BY <1>1 DEF PageInv, PageTypeOK, TypeOK, vars
<1> USE <1>2, AnswerIsData DEF PageInv, PageTypeOK, FollowsRetry
<1>3. CASE Open("status") \/ Open("detail")
  BY <1>3, SendMarks DEF Open
<1>4. CASE OpenConversation
  BY <1>4 DEF OpenConversation
<1>5. CASE Poll \/ Refresh
  BY <1>5, SendMarks DEF Poll, Refresh
<1>6. CASE ReceiveGet
  BY <1>6 DEF ReceiveGet, NoData
<1>7. CASE GetFails
  BY <1>7 DEF GetFails, NoData
<1>8. CASE Press
  BY <1>8 DEF Press
<1>9. CASE RetryAnswered
  BY <1>9, SendMarks DEF RetryAnswered, Invalidated, Answers
<1>10. CASE RetryUnanswered
  BY <1>10, SendMarks DEF RetryUnanswered, Invalidated
<1> QED
  BY <1>3, <1>4, <1>5, <1>6, <1>7, <1>8, <1>9, <1>10

\* And so does every step.
LEMMA PageStep == PageInv /\ [PageNext]_allVars => PageInv'
<1> SUFFICES ASSUME PageInv, [PageNext]_allVars PROVE PageInv'
  OBVIOUS
<1>1. TypeOK'
  BY PageStepIsServerStep, TypeStep DEF PageInv, PageTypeOK
<1>2. req[Own] = "accepted" => req'[Own] = "accepted"
  BY PageStepIsServerStep, AcceptedStays, OwnAssumption DEF PageInv, PageTypeOK
<1>3. CASE UNCHANGED pageVars
  BY <1>1, <1>2, <1>3 DEF pageVars, PageInv, PageTypeOK, FollowsRetry
<1>4. CASE Closed
  BY <1>1, <1>4 DEF Closed, PageInv, PageTypeOK, FollowsRetry, NoData
<1>5. CASE ServerStep
  BY <1>3, <1>4, <1>5 DEF ServerStep
<1>6. CASE UNCHANGED allVars
  BY <1>3, <1>6 DEF allVars
<1> QED
  BY <1>5, <1>6, PageKeeps DEF PageNext

\* So the invariant holds in every behaviour.
LEMMA PageInvHolds == PageSpec => []PageInv
  BY PageInitial, PageStep, PTL DEF PageSpec

-----------------------------------------------------------------------------
(* The results *)

\* The page, its cache and its requests stay within their types.
THEOREM PageTypeCorrect == PageSpec => []PageTypeOK
  BY PageInvHolds, PTL DEF PageInv

\* Once the Retry button has done its work, the page shows the conversation as it was
\* after the retry was accepted (RetryConversation.tsx 13-27).
THEOREM RetriesAreSeen == PageSpec => []RetryIsSeen
<1>1. PageInv => RetryIsSeen
  BY DEF PageInv, FollowsRetry, RetryIsSeen, NoData
<1> QED
  BY <1>1, PageInvHolds, PTL
=============================================================================
