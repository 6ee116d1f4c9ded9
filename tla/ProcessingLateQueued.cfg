\* The upload request marks QUEUED what the worker has taken or finished.
SPECIFICATION Spec
CONSTANTS
  Upload = upload
  Requests = {r1}
  MaxTries = 2
  Mode = "queue"
  Faults = {}
  MaxHidden = 0
PROPERTIES QueuedOnlyFromRest
CHECK_DEADLOCK FALSE
