\* An upload that is processed within its request, with retries through the queue, and a
\* page that follows it and has one of the retries.
SPECIFICATION PageSpec
CONSTANTS
  Upload = upload
  Own = r1
  Requests = {r1, r2}
  MaxTries = 2
  Mode = "inline"
  Faults = {"api_crash"}
  MaxHidden = 0
INVARIANTS QueuedHasJob RetryIsSeen
PROPERTIES ImplementsLifecycle AcceptedRetryEnds ActiveIsFollowed
\* When everything is done and the conversation is deleted nothing is left to do.
CHECK_DEADLOCK FALSE
