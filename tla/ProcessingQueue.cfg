\* Queued uploads: two retry requests, two tries a job, every failure, one hidden start.
SPECIFICATION Spec
CONSTANTS
  Upload = upload
  Requests = {r1, r2}
  MaxTries = 2
  Mode = "queue"
  Faults = {"upload_dispatch", "worker_crash", "start_error", "job_timeout", "api_crash"}
  MaxHidden = 1
SYMMETRY Symmetry
INVARIANTS OneAttemptAtATime FailedIsExhausted ErrorMatchesResult
PROPERTIES EveryStartIsCounted GuardHoldsAtStart
CHECK_DEADLOCK FALSE
