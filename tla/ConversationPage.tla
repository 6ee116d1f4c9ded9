--------------------------- MODULE ConversationPage ---------------------------
(***************************************************************************)
(* A browser page that follows one conversation of Processing: the status  *)
(* shown after an upload (UploadedConversationStatus.tsx), then the        *)
(* conversation's own page (conversations/[id]/page.tsx) with its Retry    *)
(* button (RetryConversation.tsx). Both show the same cached query, so a   *)
(* GET that one has sent answers the other. Own is the retry request of    *)
(* this page, the other Requests are those of other tabs.                  *)
(* Simplifications: a page that is left, or whose conversation is deleted, *)
(* is not followed further, and a retry whose answer is lost has ended     *)
(* when the page hears of the loss.                                        *)
(***************************************************************************)
EXTENDS Processing

CONSTANT Own

ASSUME OwnAssumption == Own \in Requests

NoData == "none"

Answers == Terminal \cup {"active"}

VARIABLES
  page,   \* which of the two is open
  shown,  \* the cached status, and whether the last GET failed
  get,    \* the GET in progress
  button, \* how far the retry of this page is
  recent  \* history: which of the status shown and the GET's answer are of
          \* a time after that retry was accepted

pageVars == <<page, shown, get, button, recent>>
allVars == <<vars, pageVars>>

PageTypeOK ==
  /\ TypeOK
  /\ page \in {"closed", "status", "detail"}
  /\ shown \in [status : Answers \cup {NoData}, error : BOOLEAN]
  /\ get \in {"none"} \cup Answers
  /\ button \in {"ready", "pending", "failed", "retried"}
  /\ recent \subseteq {"shown", "get"}

PageInit ==
  /\ Init
  /\ page = "closed"
  /\ shown = [status |-> NoData, error |-> FALSE]
  /\ get = "none"
  /\ button = "ready"
  /\ recent = {}

\* The page treats the other statuses alike.
Seen(status) == IF status \in Terminal THEN status ELSE "active"

-----------------------------------------------------------------------------
(* Following the conversation *)

\* The server reads the row when the GET is sent; its answer may take long.
Send(kept) ==
  /\ get' = Seen(row.status)
  /\ recent' = kept \cup IF req[Own] = "accepted" THEN {"get"} ELSE {}

\* The upload was answered, or the conversation was found in the list.
Open(kind) ==
  /\ page = "closed"
  /\ kind = "status" => api = "done"
  /\ exists
  /\ page' = kind
  /\ Send({})
  /\ UNCHANGED <<vars, shown, button>>

\* The link to the conversation. What is cached stays, and so does the GET.
OpenConversation ==
  /\ page = "status"
  /\ page' = "detail"
  /\ UNCHANGED <<vars, shown, get, button, recent>>

\* A mutant: the conversation's page gives up after an error too.
PollsUntilError == shown.status = "active" /\ ~shown.error

\* refetchInterval. The status page stops at an error, before the first answer too; the
\* conversation's page goes by the last status that it has.
Polls ==
  \/ page = "status" /\ ~shown.error /\ shown.status \notin Terminal
  \/ page = "detail" /\ shown.status = "active"

Poll ==
  /\ get = "none"
  /\ Polls
  /\ Send(recent)
  /\ UNCHANGED <<vars, page, shown, button>>

\* "Check again", a reconnection, or another part of the page that invalidates it.
Refresh ==
  /\ page # "closed"
  /\ get = "none"
  /\ Send(recent)
  /\ UNCHANGED <<vars, page, shown, button>>

ReceiveGet ==
  /\ get # "none"
  /\ shown' = [status |-> get, error |-> FALSE]
  /\ recent' = IF "get" \in recent THEN {"shown"} ELSE {}
  /\ get' = "none"
  /\ UNCHANGED <<vars, page, button>>

\* An error, or no answer. The last status is kept.
GetFails ==
  /\ get # "none"
  /\ shown' = [shown EXCEPT !.error = TRUE]
  /\ get' = "none"
  /\ recent' = recent \ {"get"}
  /\ UNCHANGED <<vars, page, button>>

-----------------------------------------------------------------------------
(* The Retry button *)

Press ==
  /\ page = "detail" /\ ~shown.error
  /\ shown.status = "FAILED"
  /\ button = "ready" /\ req[Own] = "new"
  /\ button' = "pending"
  /\ UNCHANGED <<vars, page, shown, get, recent>>

\* A mutant: the cached answers are not asked for again.
NotInvalidated(kept) == recent' = kept \cup (recent \cap {"get"}) /\ UNCHANGED get

\* invalidateQueries: a GET under way is cancelled and sent again.
Invalidated(kept) == Send(kept)

\* The answer of an accepted retry goes to the cache, which is then asked for again.
RetryAnswered ==
  /\ button = "pending"
  /\ req[Own] = "accepted"
  /\ shown' = [status |-> "active", error |-> FALSE]
  /\ Invalidated({"shown"})
  /\ button' = "retried"
  /\ UNCHANGED <<vars, page>>

\* Refused, failed or unanswered; the retry may have been accepted all the same.
RetryUnanswered ==
  /\ button = "pending"
  /\ req[Own] \in {"accepted", "rejected", "unavailable"}
  /\ Invalidated(recent \cap {"shown"})
  /\ button' = IF req[Own] = "accepted" THEN "retried" ELSE "failed"
  /\ UNCHANGED <<vars, page, shown>>

-----------------------------------------------------------------------------

Closed ==
  /\ page' = "closed"
  /\ shown' = [status |-> NoData, error |-> FALSE]
  /\ get' = "none"
  /\ button' = "ready"
  /\ recent' = {}

\* The page's retry is made by its button.
ServerStep ==
  /\ Next
  /\ req[Own] = "new" /\ req'[Own] # "new" => button = "pending"
  /\ IF exists /\ ~exists' THEN Closed ELSE UNCHANGED pageVars

PageNext ==
  \/ Open("status") \/ Open("detail") \/ OpenConversation
  \/ Poll \/ Refresh \/ ReceiveGet \/ GetFails
  \/ Press \/ RetryAnswered \/ RetryUnanswered
  \/ ServerStep

\* Timers and answers come; a GET that is sent again and again is answered some time.
PageFairness ==
  /\ Fairness
  /\ WF_allVars(Poll) /\ WF_allVars(ReceiveGet \/ GetFails) /\ SF_allVars(ReceiveGet)

PageSpec == PageInit /\ [][PageNext]_allVars /\ PageFairness

-----------------------------------------------------------------------------
(* Properties *)

\* Once the Retry button has done its work, the page shows the conversation as it was
\* after the retry was accepted, although GETs were under way and the answer may have
\* been lost (RetryConversation.tsx 15-26).
RetryIsSeen ==
  button = "retried" /\ get = "none" /\ ~shown.error => "shown" \in recent

\* A page that shows an unfinished conversation, which has ended or will, comes to show an
\* end unless it is taken up again; the status page may have stopped at an error, which it shows
\* (UploadedConversationStatus.tsx 16-19, conversations/[id]/page.tsx 29-34).
ActiveIsFollowed ==
  shown.status = "active" ~>
    \/ shown.status # "active"
    \/ page = "status" /\ shown.error
    \/ row.status \notin Terminal
=============================================================================
