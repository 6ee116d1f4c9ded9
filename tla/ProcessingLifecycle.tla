------------------------- MODULE ProcessingLifecycle -------------------------
(***************************************************************************)
(* What the processing of a conversation promises its owner, without jobs, *)
(* sessions, locks or requests in flight: a status, a count of attempts,   *)
(* and at most one attempt under way. Processing implements it.            *)
(***************************************************************************)
EXTENDS Naturals

VARIABLES
  presence, \* none yet, here, or deleted
  status,   \* the status its owner sees
  attempts, \* processing_attempts
  active    \* an attempt is under way

lifecycle == <<presence, status, attempts, active>>

Init ==
  /\ presence = "none"
  /\ status = "UPLOADED"
  /\ attempts = 0
  /\ active = FALSE

Receive ==
  /\ presence = "none"
  /\ presence' = "here"
  /\ UNCHANGED <<status, attempts, active>>

\* The upload's job is dispatched.
Queue ==
  /\ presence = "here" /\ ~active
  /\ status = "UPLOADED"
  /\ status' = "QUEUED"
  /\ UNCHANGED <<presence, attempts, active>>

\* An attempt starts from rest: after the upload, a retry, or a failed attempt.
Begin ==
  /\ presence = "here" /\ ~active
  /\ status \in {"UPLOADED", "QUEUED", "PROCESSING"}
  /\ status' = "PROCESSING"
  /\ attempts' = attempts + 1
  /\ active' = TRUE
  /\ UNCHANGED presence

Complete ==
  /\ presence = "here" /\ active
  /\ status' = "COMPLETED"
  /\ active' = FALSE
  /\ UNCHANGED <<presence, attempts>>

\* The attempt ends without a result; another may follow.
Lose ==
  /\ active
  /\ active' = FALSE
  /\ UNCHANGED <<presence, status, attempts>>

\* No attempt will follow.
Fail ==
  /\ presence = "here"
  /\ status \in {"UPLOADED", "QUEUED", "PROCESSING"}
  /\ status' = "FAILED"
  /\ active' = FALSE
  /\ UNCHANGED <<presence, attempts>>

Retry ==
  /\ presence = "here" /\ ~active
  /\ status = "FAILED"
  /\ status' = "QUEUED"
  /\ UNCHANGED <<presence, attempts, active>>

\* A running attempt does not know yet.
Delete ==
  /\ presence = "here"
  /\ presence' = "deleted"
  /\ UNCHANGED <<status, attempts, active>>

Next == Receive \/ Queue \/ Begin \/ Complete \/ Lose \/ Fail \/ Retry \/ Delete

Spec == Init /\ [][Next]_lifecycle
=============================================================================
