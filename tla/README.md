# Conversation OS in TLA+

Conversation OS records a conversation, transcribes it, extracts a memory of it (people,
tasks, decisions, topics), matches the people with the owner's clients, and helps the owner
to follow up. This directory holds TLA+ models of the parts of it that concurrency,
failures and long sequences of calls make hard to test, the TLC configurations that check
them on small instances, and theorems about them that TLAPS checks for every instance.

Paths below are relative to the repository; `app/` is `backend/app/`. `PROJECT.json` lists
the runs, the theorems, the lines each definition models, the hazards and the mutants.

    tlc -config ProcessingQueue.cfg MCProcessing.tla     model-check a run
    tlapm ProcessingProofs.tla                           check the proofs of a module

Contents: [1 The system](#1-the-system), [2 The modules](#2-the-modules),
[3 The runs](#3-the-runs), [4 Fairness](#4-fairness), [5 The proofs](#5-the-proofs),
[6 Where code and documents differ](#6-where-code-and-documents-differ),
[7 What is not modelled](#7-what-is-not-modelled), [8 Plan](#8-plan).

## 1 The system

A FastAPI application and ARQ workers share PostgreSQL, Redis and an object store; a Next.js
application is the only client. Beside them run an operator monitor and a nightly backup.
All application state is in PostgreSQL. Each request and each job has its own database
session; an ORM session writes, when it flushes, the columns that changed in its own memory,
and reads a row again only after its own commit or when told to. Those two facts are behind
most of what can go wrong here. Owners share no rows, so every module looks at one owner.

| component | state it keeps | operations | talks to | makes it correct |
|---|---|---|---|---|
| conversation requests (`app/conversation`) | the conversation row: status, attempts, error, times, client | upload, retry, delete, rename, read | object store, queue, allowance | a conversation that says QUEUED has a job, one that says FAILED has none, a result is final until a retry |
| queue and worker (`app/processing`) | ARQ jobs in Redis, tries | dispatch, deliver, retry later, time out | conversation row (row lock), orchestrator | no two attempts at once, each counted, each ends |
| orchestrator (`app/orchestrator`) | none of its own | start, stages, finish, fail | transcription, memory, clients | COMPLETED means complete |
| transcription (`app/transcription`) | transcript row | reuse, reset, store, fail | provider | a completed transcript is kept |
| memory (`app/memory`) | memory, people, tasks, decisions, drafts | extract, edit, confirm, complete, save draft | provider | one memory for a conversation |
| client directory (`app/client/service.py`) | clients, facts | find or create, link, record facts | memory | facts once, with their source |
| merge and undo (`app/client/merge.py`, `undo.py`) | audits, fingerprints | preview, merge, undo | everything that names a client | what was shown is what moves; an undo restores exactly and overwrites nothing newer |
| client review (`app/client/review.py`) | a saved review with a fingerprint | generate, load | provider, every row of the client | a suggestion is shown with the words it was assessed by, and quotes what was the client's when it was read |
| drafts and corrections (`app/memory/drafts.py`, `app/transcription/corrections.py`) | versioned texts, generated notes | save, generate, store | provider | nobody overwrites what they have not seen; notes are of the saved text |
| pilot allowance (`app/usage`) | a ledger for each UTC day | admit, report | every costly request | no limit is passed, nothing is charged twice or for nothing |
| dashboard (`app/dashboard`) | follow-up events | aggregate, record an event | all tables | lists, counts and recommendations agree |
| operations, visibility (`app/operations`, `app/processing/visibility.py`) | none | derive flags and counts | conversation rows, Redis | a flag fits its row |
| monitor (`app/monitoring`) | streaks of observations, in memory and in a file | poll, alert, save, ping | probes, receiver | no false alarm, none forgotten, no heartbeat over an unreported failure |
| backup (`infrastructure/backup`) | objects and manifests in another bucket | dump, copy, verify, publish, ping | PostgreSQL, both buckets | a heartbeat means that the backup can be restored |
| browser application (`frontend/src`) | query cache, editors, recorder | everything above | the API | a page shows what its account may see, and does not lose edits |

The behaviours that are hard: the upload request and the worker write one row in any order;
a dispatch may fail with its job in the queue or succeed with the request rolled back; ARQ
delivers a job again after a crash and drops it at its time-out; a processing attempt commits
five times and may stop between any two; a merge re-links rows that an attempt holds in
memory; provider calls take seconds during which everything else goes on; admissions race at
the last unit of an allowance and at midnight; the monitor loses answers and dies; backups
overlap and look at a store that changes. `PROJECT.json` lists each as a hazard at its line,
with the properties that are about it, or the reason there is none yet.

## 2 The modules

Each module has a comment on what it abstracts; an MC module of the same name gives the
constants of the instances their values.

### Processing, ProcessingLifecycle

`Processing` is one conversation and everything that moves its processing state. `row` is
the committed row (status, attempts, and whether the error and the terminal time are null),
`mem[j]` the same row as the session of delivery `j` has it in memory, and `Flush` is the
ORM's partial update: only the columns that differ from what was loaded reach the table.
`queue[j]` and `try[j]` are what Redis holds of a job, `baseline[r]` is the attempt count a
retry job was given, `api`, `req[r]` and `pc[j]` are how far the upload request, the retry
requests and the current deliveries are. Row locks are not stored: `FOR UPDATE` lasts as long
as its transaction, so who holds one follows from those places (`RowFree`).

| actions | code |
|---|---|
| `UploadCommit`, `UploadDispatch` (`UploadEnqueue` or `UploadRunInline`), `UploadEnqueueFails`, `UploadMarkQueued`, `UploadMarkFailed`, `UploadDies` | `conversation/api.py` upload, `conversation/service.py` upload and update_status |
| `RetryLock`, `RetryReject`, `RetryDispatch`, `RetryDispatchFails`, `RetryCommit`, `RetryCommitFails`, `LateArrival` | `conversation/service.py` retry_conversation |
| `Deliver`, `Guard`, `SetupFails`, `Load`, `RetryLater`, `MarkRead`, `MarkFailed`, `JobTimeout`, `WorkerCrash` | `processing/worker.py` and ARQ as its settings there use it |
| `Start`, `StartFails`, `Succeed`, `StageFails`, `StageBreaks`, `Finish` | `orchestrator/conversation_processing.py` run, start_processing_attempt, finish_processing |
| `DeleteRow` | delete_conversation |

The constant `Faults` names the failures an instance admits: a dispatch that raises although
Redis has the job, a worker that dies, a start whose commit fails, a job time-out, an API
process that dies amid an upload. After three of them a job is left that will start an attempt
the row does not ask for (`Hide`); `hidden` counts them, up to `MaxHidden`. `Mode` is the setting that has uploads processed in the
request ("inline") or by the queue.

`ProcessingLifecycle` is what the processing promises the owner of a conversation, without
jobs, locks or sessions: a status that goes from UPLOADED or QUEUED to PROCESSING to a
result, back to QUEUED by a retry of a failed conversation only, one attempt at a time, each
counted. `Processing` maps itself to it (`ImplementsLifecycle`).

### ConversationPage

Extends `Processing` with a browser page that follows the conversation: the status shown after
an upload, then the conversation's own page with its Retry button. Both show one cached query.
`shown` is the cached status and whether the last GET failed, `get` the GET under way with the
status that the server read when it was sent, `button` how far the page's retry is. `recent`
is history: whether what is shown, or under way, is of a time after that retry was accepted.

| actions | code |
|---|---|
| `Open`, `OpenConversation`, `Poll`, `Refresh`, `ReceiveGet`, `GetFails` | `components/UploadedConversationStatus.tsx`, `app/conversations/[id]/page.tsx` and their `refetchInterval` |
| `Press`, `RetryAnswered`, `RetryUnanswered` | `components/RetryConversation.tsx`: the answer goes to the cache, which is then asked for again |
| `ServerStep` | any step of `Processing`; the page's retry is made by its button, other tabs make the others |

A page that is left, or whose conversation is deleted, is not followed further. A retry whose
answer is lost has ended when the page hears of the loss. A GET reads the row when it is sent,
so its answer is as old as it can be.

### Reconciliation

What a processing attempt does between its start and its end, for several conversations that
share the client table: the transcript is read, reset, made or failed (`ReadTranscript`,
`ResetTranscript`, `Transcribe`, `TranscribeFails`); the memory is stored under its unique
constraint (`Persist`); then for each person a client is looked for (`Match`) or created
(`Create`), the person is linked (`LinkPerson`), the facts of every client are recorded
(`RecordFacts`), the first client becomes the conversation's (`Assign`), and the attempt ends
(`Finish`). Every one of these is a commit of its own in the code. `loaded[a]` is the
conversation's manual flag as the attempt's session loaded it. The user links and unlinks
(`Link`, `Unlink`) and deletes (`Delete`) conversations meanwhile. A client is its key, what
`find_corroborated_match` compares; a key without a role never matches.

A statement that a row lock of the other side makes wait, or that a deadlock of both aborts,
is one step here: the loser waits or fails, and both are steps of the model.

### ClientMerge

Extends `Reconciliation` with the merge of two clients and its undo. `Snapshot` is what the
token of a preview is a hash of, `MergedState` what an audit's fingerprint is a hash of, and
`audits` the audit rows. `touched` stands for the `updated_at` columns in the fingerprint: it
collects the rows written since. The `before` of an audit and of a preview are history, the rows
as they were then, which only the properties read. A merge first locks both clients, which keeps new references out (a foreign key needs a
share lock of the client), then the rows it moves; so merge and undo are one step each.
Confirmations, reviews and edits (`Confirm`, `Review`, `Edit`) are the writes that an undo
must notice. Follow-up events are moved and fingerprinted by the same statements as facts and
are left out here (`Dashboard` has them). So are a task's status, which the fingerprint has
without a time, and corrections of a transcript, which it does not have: an undo does not notice
either, and both stay with their conversation.

### ClientReview

The review of one client. Generators read the context in three queries, draft, read it
again and update if the fingerprint and the payload are the same (`ReadSources`, `ReadTasks`,
`ReadLinked`, `Draft`, `Publish`, `Conflict`); loaders read the saved review and the context
and decide what may be shown (`Begin`, `Show`). No lock is involved. The writes of others
(`Link`, `DeleteRecording`, `Transcribe`, `Extract`, `Touch`, `Toggle`, `EditItem`) come in
between.

### OptimisticSave, SavedText, Corrections

`SavedText` is a save as the code makes it: lock the conversation's row, read the version of
the text, compare it with the one the tab expects, write, commit; answers get lost, requests
die, the conversation is deleted. The drafts of both channels and the corrected transcript
are its channels. `OptimisticSave` is what that promises: a save replaces exactly the version
that its tab has seen. `Corrections` adds the notes that are generated from a saved
correction with no transaction open and stored if its version is the same. A conversation
has corrections only when it is COMPLETED, which is where the model begins.

### TextEditors

Extends `Corrections` with one browser tab, one of its editors of each channel (`Mine`).
`SavedText` says of an editor that it sends the version it last received; here that has to come
out of the page's state. `draft` is `PrepareFollowup.tsx` (channel, text, version, what is
unsaved), `shown` the cached correction and its editor's text in
`TranscriptCorrectionEditor.tsx`, `read` the GET under way of each form, `asked` the save or the
generation under way, and `owner` says whether the account is still the one that the page was
read for.

| actions | code |
|---|---|
| `ReceiveDraft`, `DraftUnread`, `Choose`, `Reopen`, `Type`, `StartNew`, `SaveDraft`, `DraftSaved` | `components/PrepareFollowup.tsx`: the effect that loads a channel, and its buttons with what disables them |
| `Prepare`, `Prepared`, `NotPrepared`, `ReceivePrepared` | generate in it, and `memory/followup.py`: a draft by the AI, which is not saved |
| `Refetch`, `ReceiveCorrection`, `BeginEdit`, `CancelEdit`, `SaveCorrection`, `CorrectionSaved`, `PreviewNotes`, `PreviewAnswered` | `components/TranscriptCorrectionEditor.tsx` |
| `AnswerRead`, `FailRead`, `IgnoreRead`, `SwitchAccount` | the reads, and `app/providers.tsx`: another account's page and cache are built anew, and late answers are dropped |
| `ServeSave`, `ServePreview`, `Others` | the steps of `Corrections` for this tab's requests, and for everybody else |

A form that was left does not come back: opened again, it is another editor.

### Dashboard

One owner's dashboard page and what it is about. The server side is `get_dashboard` in its
order: clients, their conversations, the latest follow-up events, the tasks, each a statement
of its own (`ReadClients`, `ReadLinks`, `ReadEvents`, `ReadTasks`), then the lists one after
another, each with its own reading of the clock (`BuildFollowups`, `BuildRecommendations`),
and the answer (`Answer`, `AnswerFails`). A list has at most `ListLimit` clients, five in the code:
the follow-ups the first in the order of the query (any, `Shortlists`), the recommendations the
most urgent (`MostUrgent`, by the score `Urgency`); the count is of all. Recording an event is a check, an insertion under
the foreign key and an answer (`Check`, `Insert`, `FollowTold`, `FollowFails`). The page is
`SummaryCards.tsx`: its buttons (`Act`, `Begin`), the requests of a group of tasks (`SetTask`,
`BatchFails`, `BatchTold`), and the rule of its query cache that a mutation which succeeded
cancels the request under way, begins another and awaits it (`Refetch`, `Released`; the library
is external). From elsewhere come uploads, links, deletions, merges and the clock. `commits`,
`told`, `since` and the `commit` of an event are history, which only the properties read.

### Usage

Admissions of one account: `Ask`, `Lock` (the advisory lock), `Precheck`, `Measure` (decoding
the audio with the lock held), `Reserve`, `Commit`, `Call` (the provider, after the commit),
`Refuse`, `Abandon`, beside `Delete` and `Midnight`. Requests that die lose transaction and
lock together.

### Monitor

The poll loop of the operator monitor: `Collect`; for each incident in the order of codes
`Nothing`, `Accepted`, `Rejected` or `AnswerLost`; `Save`; `Ping` or `Withhold`; `Crash` and
`Start` anywhere; `loop` is where the loop is. In webhook mode every code is an incident, in health mode they make up one
whose state is sent at every poll. `past` and `unsure` are history: the observations saved,
and the incidents of which the receiver knows more than the process.

### Backup

A run, step by step: dump, upload, read back, publish; list the recordings page by page
(`List`, one key at a time), copy and verify each, list again, compare, publish; heartbeat.
Recordings come and go in the application's order: an object before its row, and deleted
before it. Runs overlap and fail anywhere; an upload may store a damaged object.

## 3 The runs

| run | instance | distinct states | shows |
|---|---|---|---|
| `processing_queue` | queued upload, 2 retry requests, 2 tries a job, every failure, one of which may hide a start | 2 400 000 | `OneAttemptAtATime`, `FailedIsExhausted`, `EveryStartIsCounted`, `ErrorMatchesResult`; `GuardHoldsAtStart`: what the guard of a retry job checked still holds when its attempt starts |
| `processing_inline` | inline upload, a page that follows it and retries it once, 1 retry by another tab, GETs that are late or fail, API crash; fairness | 134 000 | the system implements `ProcessingLifecycle`; `QueuedHasJob`; `AcceptedRetryEnds`; `RetryIsSeen`: after its retry the page shows the conversation as it was after it; `ActiveIsFollowed`: a page that shows it unfinished comes to show its end |
| `processing_late_queued` | queued upload, no failure at all | - | **violated**: `QueuedOnlyFromRest`, see section 6 |
| `reconcile_serial` | 2 attempts of a conversation that names two people, one after the other; 1 attempt of another one that names the first of them; 4 client ids, one of them in use | 150 000 | `FactsOnce`, `CompletedIsWhole`, `DeletedLeavesNothing`, `TranscriptIsKept`, `ManualSelectionIsKept` |
| `reconcile_late_choice` | the same code with a choice made during an attempt | - | **violated**: `ManualSelectionIsKept`, see section 6 |
| `reconcile_isolation` | 1 attempt of each of 2 conversations that name the same person | - | **violated**: `MatchingFailureIsIsolated`, see section 6 |
| `merge_undo` | 1 conversation, 1 attempt, 3 client ids, 2 merges, 1 edit, 1 selection | 825 000 | `LinksNameClients`, `MergedIsWhole`, `UndoRestores`, `NewerWorkIsKept`; `MergeIsAsShown`: a merge does to all that it moves what its preview showed |
| `saved_texts` | a tab with its 3 editors, another tab on the text draft and on the correction, 2 notes requests, 3 versions (none, first, second), 2 texts | 262 000 | `SavesAreOptimistic` (refinement of `OptimisticSave`), `PreviewIsOfText`; `CleanIsSaved`: a draft shown as saved is the text of its version; `OthersSeeNothing`: nothing read for one account is shown to the next |
| `review_fresh` | 2 recordings, 1 task, 1 generator, 1 loader, 3 writes by others | 1 750 000 | `ShownMatchesTasks`, `NothingGoneIsShown` |
| `dashboard_answers` | 2 clients, 2 conversations, 1 task, 2 days, lists of one client, one write of the page, one change from elsewhere | 2 020 000 | `ListedIsCounted`, `QuietIsKept`, `SettledIsFresh`, `RecordedIsKept` |
| `usage_and_monitor` | two parts that share nothing, each in behaviours of its own. Allowance: 2 uploads, 1 AI call, 1 retry, 1 older recording, 2 days. Monitor: 2 probes, one known only while the other passes, 3 in a row, both modes, 2 crashes. Fairness | 101 000 | `DailyWithinLimits`, `GrowsWithinLimits`, `LedgerIsExact`, `CallsArePaid`, `RequestsEnd`; `ChangesAfterStreak`, `PingMeansTold`, `EndsAnnounced` |
| `backup_restorable` | 2 runs, 2 recordings | 4 200 000 | `SnapshotIsOfOneTime`, `HeartbeatMeansRestorable` |

Every property is stated in words, with the code it is about, where it is defined. Every
property of a passing run has a mutant in `PROJECT.json`: a plausible bug in one definition
under which TLC finds it violated in the same instance. So no property holds because its
instance never gets to the point.

Why the bounds are enough to be of interest:

- *Retries.* Two retry requests are the fewest with which an ambiguous dispatch, a second
  accepted retry, and a late delivery of the first can meet; a third has nobody new to meet,
  and the theorems of section 5 are for any number. Two tries are the fewest with a back-off
  and an exhausted job. Requests are symmetric; the symmetry is used in the run without
  liveness only.
- *Conversations and people.* Two conversations with a person in common, one of whose people
  has a client already, reach matching, creation, and a shared client in every order; four
  client ids are one for each person that could become one, plus the existing one.
- *Merges.* Two merges are a chain (the second merges or removes what the first one kept), so
  that an undo out of order is tried; one edit and one selection are what an undo must notice.
- *Pages.* The retries of a page and of another tab race for the row; a third would race with
  the same two. A page has one GET under way at a time, as its query has.
- *Texts.* Two tabs on one text race, on a draft and on the correction. Two saves are one and
  another that overwrites it; `MaxVersion` only stops counting. `OneFeature` looks at behaviours
  about the drafts and at those about the correction, each with every interleaving of its own
  tabs: the two forms share the conversation's row and its lock, no state of the page. `OnePreview`
  has one notes request at a time. Texts are symmetric. The theorems need none of these bounds.
- *Review.* Three writes are enough to change a row, change it back and change another one.
- *Dashboard.* With two clients and lists of one, both lists are cut, and by different orders: an
  answer may ask to follow up a client whom it does not recommend, since another is more urgent;
  or there is one to list, and then the lists have to agree. The page's three mutations may be under way at once, until one of them has
  written; one change can come into each gap between two readings, and so can the one midnight,
  with which a conversation or a contact of yesterday becomes due. A conversation that is
  uploaded on the second day is newer than a completed follow-up. With one task a group is of
  one; larger ones differ in what a failed request leaves (section 6).
- *Allowance and monitor.* They share no table, no lock and no process, so what one does can
  change nothing for the other, and one run looks at each of them in turn (`part`).
- *Allowance.* Every limit of the instance is one that the two uploads, or one upload and the
  older recording, reach together; durations of 2 and 3 seconds with a limit of 5 fit once in
  a mixed pair and not in the larger one.
- *Monitor.* Three in a row is one more than the default and the fewest with an observation
  that neither begins nor completes a row. Two crashes reach a crash that loses a
  streak and one that loses an accepted event.
- *Backup.* Two runs overlap in every way; two recordings are a listing of two pages, one of
  which may be out of date when the other is read.

Deadlock is checked for the tab, beside which notes can be asked for or read again. Elsewhere the
system may stop: its requests are finite and everything may be deleted. The monitor's loop never
ends; it shares its run with the allowance, which may, and `EndsAnnounced` is about its going on.

The type invariants are not among the properties of the runs: section 5 has a theorem for each.

## 4 Fairness

| specification | assumption | why the code justifies it |
|---|---|---|
| `Processing!FairSpec` | a request handler that has begun runs to its end; workers poll Redis and take a ready job; a delivery goes on | FastAPI runs a handler until it returns or raises; ARQ polls without an end, and awaits a job until it ends. Nothing is assumed of users, of failures, or of a write that was cut off. The run admits no time-out and no worker crash: after these, the documents say, an operator is needed. Nor does it admit that the write of FAILED at the last try raises (`app/processing/worker.py` 79), which leaves PROCESSING as a time-out at that place does: `AcceptedRetryEnds` is promised of a database that takes that write |
| `ConversationPage!PageSpec` | the same; the page's timer comes (`Poll`), a GET is answered or fails, and one that is sent again and again is answered some time (strong fairness) | `refetchInterval` runs as long as the page is open; the server answers a GET or the browser gives it up. A page that never gets an answer can show nothing |
| `Usage!Fairness` | an admission that can go on does | the advisory lock is granted when it is free, and its holder commits or rolls back; PostgreSQL's queue for it is fair |
| `Monitor!MonitorFairness` | the loop goes on and the platform starts it again; an event that is due again and again is accepted at last (strong fairness) | `__main__.py` is a loop without an exit, and `process_signals` sends what was not accepted again at each poll. Without a receiver that sometimes answers, nothing could be promised |

`EndsAnnounced` of webhook mode is for incidents on which process and receiver agree: after a
lost answer or a crash between an event and the save, an incident that ends at once stays open
at the receiver until its next one. Health mode sends its state at each poll and needs no such
condition.

## 5 The proofs

The proof modules extend the component and hold its invariant, its lemmas and its theorems.
A theorem is named with the property it states, if a run checks that property.

| module | theorem | for every |
|---|---|---|
| `ProcessingProofs` | `TypeCorrect` | set of retries, number of tries, mode, set of failures |
| | `GuardHolds`: `GuardHoldsAtStart` | the same, all failures included |
| | `Exclusion`: `OneAttemptAtATime`; `FailedExhausts`: `FailedIsExhausted`; `StartsAreCounted`: `EveryStartIsCounted`; `ErrorsMatch`: `ErrorMatchesResult` | the same; each is about the time until a failure hides a start |
| | `Refinement`: `ImplementsLifecycle` | retries and tries, of inline uploads, with time-outs and API crashes (`InlineQuietly`) |
| | `QueuedIsProcessed`: `QueuedHasJob` | the same without time-outs (`InlineUncut`) |
| | `PageTypeCorrect`; `RetriesAreSeen`: `RetryIsSeen` | retries of other tabs, and everything that `TypeCorrect` is for |
| | `PageIsOfProcessing`: the page with its server is a `Processing`, so all that is proved of that holds beside a page | the same |
| `ReconciliationProofs` | `TypeCorrect` | conversations, attempts, clients, people |
| | `FactsAreRecordedOnce`: `FactsOnce`; `DeletionIsFinal`: `DeletedLeavesNothing`; `CompletionIsWhole`: `CompletedIsWhole` | the same, overlapping attempts and late choices included |
| | `TranscriptsAreKept`: `TranscriptIsKept` | the same, attempts of a conversation one after the other (`~Overlap`) |
| | `SelectionsAreKept`: `ManualSelectionIsKept` | the same, no choice during an attempt (`~SelectAnyTime`) |
| | `MergeTypeCorrect`; `LinksStayValid`: `LinksNameClients`; `MergesKeepWhole`: `MergedIsWhole`; `UndoIsFaithful`: `UndoRestores`; `UndoKeepsNewerWork`: `NewerWorkIsKept`; `MergesAreAsShown`: `MergeIsAsShown` | the same, and any number of merges, edits and choices |
| `ClientReviewProofs` | `ReviewTypeCorrect`; `ShownIsCurrent`: `ShownMatchesTasks`; `NothingGone`: `NothingGoneIsShown` | recordings, tasks, requests, changes |
| `DashboardProofs` | `DashboardTypeCorrect`; `SettledPageIsFresh`: `SettledIsFresh`; `RecordedEventsAreKept`: `RecordedIsKept`; `ListsAgree`: `ListedIsCounted`; `QuietClientsAreLeft`: `QuietIsKept` | clients, limit of the lists, conversations, tasks, days, writes and changes |
| `UsageProofs` | `UsageTypeCorrect`; `DailyLimitsHold`: `DailyWithinLimits`; `GrowthStaysWithinLimits`: `GrowsWithinLimits`; `LedgerStaysExact`: `LedgerIsExact`; `CallsStayPaid`: `CallsArePaid` | requests, sizes, durations, limits, days |
| `TextEditorsProofs` | `TextsTypeCorrect`, `WriterStaysCurrent`; `PreviewMatchesText`: `PreviewIsOfText` | tabs, channels, texts, requests, bound |
| | `SavesImplementPromise`: `SavesAreOptimistic`, the refinement of `OptimisticSave` | the same |
| | `TabTypeCorrect`; `CleanDraftsAreSaved`: `CleanIsSaved`; `NothingIsShared`: `OthersSeeNothing` | the same |
| | `TabUsesTheSaves`: the refinement of `Corrections`; with it `TabSavesAreOptimistic` and `TabPreviewMatchesText` | the same |
| `MonitorProofs` | `MonitorTypeCorrect`; `ChangesNeedARow`: `ChangesAfterStreak`; `PingsMeanTold`: `PingMeansTold` | probes, dependencies, threshold, crashes, both modes |
| `BackupProofs` | `TypeCorrect`; `SnapshotsAreOfOneTime`: `SnapshotIsOfOneTime`; `HeartbeatsMeanRestorable`: `HeartbeatMeansRestorable` | runs, recordings |

The proofs rest on the ASSUMEs of the modules (sets that are disjoint or finite, bounds that
are numbers; TLC evaluates them in every run) and, where the table says so, on a hypothesis
about the constants that select the behaviours:

- `InlineQuietly` is `Mode = "inline"` with no failures but time-outs and API crashes. In queue
  mode the lifecycle does not hold: the late QUEUED write (section 6) goes from a result back to
  QUEUED. The failures left out are those after which a job starts that the row knows nothing
  of; an attempt of its own would be another one than the lifecycle's.
- `InlineUncut` leaves out time-outs too: ARQ drops a job at its time-out, before its guard as
  well, and a conversation may then say QUEUED without a job (a hazard in `PROJECT.json`).
- `~Overlap` is what the theorem `Exclusion` of `Processing` says of attempts. Two that overlap
  may both reset a transcript; that matters after one of the failures only.
- `~SelectAnyTime` excludes what `reconcile_late_choice` shows.

**Processing.** None of the properties is inductive. `JobInv` says that a job is
dispatched once and counts its deliveries; `LockInv` that one transaction has the row lock,
and that a retry job that is past its guard still sees what it checked (`GuardHolds` needs no
more, which is why it holds under every failure). `ExclusionInv` is the heart: call a job
*entitled* if it will run the pipeline without asking the row again. Then at most one job is
entitled (`OneEntitled`); while one is, or until the upload's own job has run out, no retry is
accepted (`EntitledShutsRetry`, `UploadComesFirst`); a retry request that has the lock found
FAILED (`LockedIsFailed`); a retry job that was not delivered yet finds its baseline consumed
once another has started (`PendingIsStale`); and a session about to start has the count that
the row has (`StartIsFresh`). Two jobs with the same baseline, left by an ambiguous dispatch,
may both be pending: the first one's start consumes the baseline, and the guard ends the other.
`NoHiddenStart` holds until one of the three failures after which a job is entitled that the
row knows nothing of: an upload dispatch that raises though Redis has the job, a worker that
dies (ARQ delivers again without a guard), and a start whose commit fails. It is a part of the
invariant's premise, so the theorems admit every failure and say what holds until then.

A flush writes the columns in which the session's memory differs from what it loaded, so a
result and its message reach the row together only if the session knew both (`SessionsKnow`):
all that it can have missed is the upload's QUEUED, over which every result is a change.

For the refinement, a session that is going to write must know the status as well, which the
late QUEUED would break (`InlineInv`); then requests, deliveries and failures each map to a
step of the lifecycle or to none. For `QueuedHasJob`, the job of a retry that is about to
queue the conversation waits already and will find its baseline (`AwaitedInv`): it cannot pass
its guard while the request has the row, and nothing can consume the baseline before.

**ConversationPage.** A retry that was accepted stays so, and when the button hears of its end it
cancels the GET under way and sends it again; so from then on what is under way, or shown without
an error, is of a later time (`FollowsRetry`).

**Reconciliation.** The unique constraint lets one attempt of a conversation past the point
where a memory is stored (`OneMatches`); facts need a memory (`FactsNeedMemory`); and that
one attempt remembers whose facts it has recorded (`RecordedByTheOne`). That a completed
conversation is whole is prepared person by person (`WholeInv`): an attempt links whom it has
matched, records the facts of all of them before it ends, and only the user's choice, which
the conversation's flag remembers, leads past that (`PastInv`). A choice is seen by an attempt that
loads the row after it (`ChoiceInv`).

**ClientMerge.** The audits are the invariant (`AuditInv`): each holds the snapshot of an existing
pair of clients, the state after it as it follows from the state before (`AfterOK`), and what was not written since
(`ManualKept`). An undo compares the fingerprint, so the rows it moves are those the merge
left, whatever happened to others (`UndoFinds`, `UndoIs`). Any step that writes a row of an
audit marks it (`MarkKeeps`); that is what keeps newer work. The guard of a merge compares
fingerprints of what is linked with the pair and nothing else. That each row it moves is the row
that was shown, manual flags, people, facts and reviews included, and that nothing else was the
pair's when it was shown, follows because a snapshot determines all of those rows (`SnapshotIs`,
`SameSnapshot`) and a preview keeps the snapshot of the rows that it showed (`PreviewInv`).

That merges leave completed conversations whole needs more, for an undo gives facts away and
takes a mark of manual back (`UneditedInv`, which holds until users edit). An undo can take facts
from its retained client only as long as that has gained none since the merge (`GainedInv`), so
everyone who was told of had them before it, with the one of the pair that the undo gives them
back to (`ToldHadFacts`). It can take back what the merge made manual, but no choice of the user's
(`FirmInv`); what the merge made manual was completed or failed, so no attempt has taken it for a
choice. An attempt under way may have matched a client that is merged away: it fails if the client
is still gone at its next write, and after an undo the person is that client's again
(`MatchedInv`, `ForeseenInv`), because an id is never used twice (`SourcesInv`).

**ClientReview.** A version never comes back, and the words of a task change with its
recording's version. So who has read a version before the words, and finds it again later, has
read the words of now (`SeenAt`). A generator reads the words between two readings of the
versions and keeps the first; a loader reads them after it holds the review's. That the
argument needs the version of the task's recording is why `ShownMatchesTasks` is about
recordings that are linked with the client (section 6).

**Dashboard.** Commits are numbered, and the page knows of none that has not happened
(`CommitInv`); a success cancels the request under way, so one that is answered has read what
the page was told of before (`FreshInv`). Events are removed with their client only (`KeptInv`).
What is due stays due while lists are built from the same reading, for the clock only goes
on (`ListedInv`), and a list that is cut leaves a client out only when it is full (`ShortlistIs`). For `QuietIsKept`, links and events that are older than the
request are in what it reads, in spite of merges in between: an event may have changed its client, and then the old one is gone
(`LinksInv`, `EventsInv`).

**Usage.** The lock has one holder (`OneHolder`), so what an admission found within the
limits is within them when it is committed: only deletions come between, and they give room.
The ledger is the sum of what was committed on the day, and calls are paid one by one
(`LedgerInv`). A sum over a set is a fold of the community modules; its laws (it exists for
finite sets, takes and adds one element, does not shrink as its set grows) are lemmas at the
head of the module. They are inductions over the size of a set; the
library's induction theorems cannot be used for them (below), so each is drawn from the fact
that a non-empty set of numbers has a least one.

**Corrections.** A request past its lock owns the row, so nothing is saved or deleted between
its comparison and its write (`LockInv`, `WriterIsCurrent`); versions only grow while the
conversation is there, so the version that a notes request has read names its text
(`SourceInv`). Each step of the editors is then a step of `OptimisticSave` or leaves its
variables alone: only the write is a save. `WriterIsCurrent` is a theorem only: no run repeats it.

**TextEditors.** What an editor knows is not among the page's state; it has to be shown that the
page holds the same version (`DraftInv`, `EditingInv`). A form with a save under way shows nothing
else until the answer, so the answer finds the text that was sent (`SavingInv`); a read that will be
listened to is for the channel that is shown (`ReadInv`). Then each step of the tab is a step of
`Corrections` or leaves it alone (`TabRefines`), so `CorrectionsInv` is preserved along with it. That
a draft shown as saved is the text of its version, and stays it, is because versions only grow: one
that is still the saved one `Names` its text (`NamesStay`).

**Monitor.** A counter is the length of the row of its observations that ends what was saved
and what this poll has seen, no more and no less, up to the threshold (`CountInv`). Unless the
receiver has taken an event whose answer was lost, it knows what the process knows (`InStep`),
so what this poll came to, and was not refused, it knows (`ToldInv`). When it pings, what it knows
is in the file (`MonitorInv`).

**Backup.** A recording is never stored twice under a key, so what a run has listed and is
still there was there all along (`Listed`); equal inventories therefore hold what was stored
at the moment between them (`Compared`). A run writes under names of its own, so what it has
verified nobody replaces (`Kept`), and the heartbeat comes after both manifests
(`Announced`).

Only model-checked:

- liveness, which is out of the prover's reach, as ENABLED is: `AcceptedRetryEnds`,
  `ActiveIsFollowed`, `RequestsEnd`, `EndsAnnounced`;
- what a recursive definition computes for every input: the library's induction theorems take
  an operator as a parameter, which none of the provers can instantiate. `Usage` shows how far
  one gets without them.

## 6 Where code and documents differ

Three runs show code that does not do what is written of it.

- **`processing_late_queued`.** `upload_conversation` dispatches the job and then writes QUEUED
  without looking at the row (`app/conversation/api.py` 107). A worker that is faster has its
  PROCESSING, or its result, overwritten: the row says QUEUED with nothing queued, or while an
  attempt runs. No failure is needed. The attempt's own result repairs the first case; in
  the second one the conversation stays QUEUED, and Retry is not offered.
- **`reconcile_late_choice`.** The orchestrator means to keep a client that the user has chosen
  (`app/orchestrator/conversation_processing.py` 172), but looks at the flag in its session's
  memory, which is as old as the attempt. A choice made during the attempt is replaced by the
  first matched client.
- **`reconcile_isolation`.** `docs/features/relationship-memory.md` (43-46) says that the matching
  is "wrapped in its own `try/except`" and that after its failure "the conversation still completes";
  `Sprint3.md` (225) and `docs/architecture/README.md` (27-30) say the same. It has no handler of its
  own (`app/orchestrator/conversation_processing.py` 93-97): the one of the attempt writes FAILED,
  or leaves PROCESSING for the next delivery, and since the memory is stored, each later attempt
  fails at its unique constraint. `docs/features/processing-visibility.md` (45), which is newer, lists
  reconciliation among the stages that fail. `CompletedIsWhole` and `MergedIsWhole` are what the code
  gains by it: nothing half matched is shown as completed.

Others were met while modelling. They are steps of the models, which the properties
exclude or allow explicitly:

- An upload whose dispatch raises although Redis has the job is FAILED with a job left
  (`Faults` "upload_dispatch"); an accepted retry then overlaps it. Likewise for a job that is
  delivered again after its worker died, which no guard checks ("worker_crash"; documented in
  `docs/features/processing-visibility.md`).
- An inline upload whose session cannot be used any more answers 500 and leaves PROCESSING.
- Two attempts that meet the same new person at the same time create two clients.
- A merge refuses to run while a conversation linked with the pair is being processed; it does
  not see an attempt that has matched one of the pair and not yet linked its conversation.
- The dashboard looks at the latest follow-up event only (`app/dashboard/service.py` 68): a snooze
  after a recorded contact forgets the contact, and when it expires the client is due again.
  `QuietIsKept` is therefore about the latest event.
- When one request of a group of tasks fails, the others are carried out and the page is not told
  (`frontend/src/components/SummaryCards.tsx` 76): it shows the whole group as open until its
  next request. `SettledIsFresh` is about the writes that the page was told of.
- The fingerprint of a review has the versions of the recordings that are linked with the client,
  read by the last of three queries (`app/client/review.py` 152). A recording that is unlinked
  after its sources and tasks were read, in each of the three contexts that a suggestion goes
  through, leaves no version in it. `ShownMatchesTasks` is therefore about tasks of linked
  recordings, and `NothingGoneIsShown` about the sources that the request has read.
- After a lost answer, or a crash before the save, the monitor and its webhook receiver
  disagree until the next incident (section 4).

## 7 What is not modelled

- *The briefing, visibility flags, operations*: derived from rows the models have. The admissions
  of AI calls are calls of `Usage`. Of follow-up drafting, the rules for which facts may be selected.
- *Renaming and editing of a memory's other items*: they write columns that no property tells
  apart; `ClientMerge` and `ClientReview` have them as an edit that changes `updated_at`.
- *Authentication and ownership*: token verification is a library's, ownership a condition in
  every query. `TextEditors` has the change of the account on a page.
- *Configuration, logging, health endpoints, providers, storage adapters, migrations,
  deployment files*: wiring and I/O.
- *The dashboard's order within a list*, its priorities, its cut of tasks and activities to ten,
  and the counts of conversations by status: presentation, or of one statement.
- *The browser application*: recording and choosing a file to upload, editing the memory, the warnings
  before unsaved text is left; a page of a queued upload, whose late QUEUED write is of
  `processing_late_queued`. Presentation and translations are left out.
- *Restoring a backup*: the job has no restore command (`infrastructure/backup/backup.py` 1).

## 8 Plan

Order of work, the most important behaviour first. Done: `Processing` with its lifecycle and
its theorems; `Usage`; `Reconciliation` and `ClientMerge`; the saved texts; `ClientReview`;
`Monitor`; `Backup`; `Dashboard` with its page; a page over `Processing` and a tab over
`Corrections`, each with its theorems.

Next, in this order:

1. **The upload in the browser**: `UploadDropzone.tsx` and `AudioRecorder.tsx` before the status
   page, and the page over a queued upload.
2. **Operators** for the facts that a follow-up draft may use (`memory/followup.py`) and for
   the visibility flags, checked against reference definitions.
3. **Storage order**: files without rows and rows without files, as a part of `Reconciliation`.
4. **Operations**: the counts of `app/operations` beside the rows and the queue they are of.

Every invariant and action property that a passing run checks is stated by a theorem, under the
hypotheses of section 5; theorems to add are those of the modules to come.
