----------------------------- MODULE TextEditors -----------------------------
(***************************************************************************)
(* One browser tab among the editors of Corrections: its follow-up draft   *)
(* (PrepareFollowup.tsx), which switches between two channels, and its     *)
(* transcript correction (TranscriptCorrectionEditor.tsx), which shows a   *)
(* cached answer. Reads are answered late; the tab sends the version that  *)
(* it holds, not the one that SavedText says it should know. The account   *)
(* that is signed in may change under the page (app/providers.tsx).        *)
(* Simplification: a part of the page that has been left does not come     *)
(* back; opened again, it is another editor.                               *)
(***************************************************************************)
EXTENDS Corrections

CONSTANTS
  Mine, \* this tab's editor of each channel
  MyJob \* this tab's preview request

ASSUME MineAssumption ==
  /\ Mine \in [Channels -> Editors]
  /\ \A ch \in Channels : ChannelOf[Mine[ch]] = ch
  /\ MyJob \in Jobs
ASSUME EmailAssumption == "email" \in Channels \ {Correction}

Forms == {"draft", "correction"}

VARIABLES
  owner, \* is the conversation's owner still the one signed in?
  draft, \* the state of PrepareFollowup
  shown, \* the cached correction and the state of its editor
  read,  \* the GET in progress of each form
  asked  \* the save or the generation in progress of each form

tabVars == <<owner, draft, shown, read, asked>>
allVars == <<correctionVars, tabVars>>

NoDraft == [channel |-> "email", loading |-> TRUE, failed |-> FALSE,
            text |-> Nothing, version |-> 0, dirty |-> FALSE]
NothingShown == [state |-> "loading", version |-> 0, text |-> Nothing,
                 editing |-> FALSE, base |-> 0]
NoRead == [stage |-> "none", channel |-> Correction, version |-> 0, text |-> Nothing,
           active |-> TRUE]
NoAsk == [kind |-> "none", channel |-> Correction, version |-> 0, text |-> Nothing,
          answer |-> "none"]

Drafts ==
  [channel : Channels \ {Correction}, loading : BOOLEAN, failed : BOOLEAN,
   text : Texts \cup {Nothing}, version : 0..MaxVersion, dirty : BOOLEAN]
Views ==
  [state : {"loading", "shown", "failed"}, version : 0..MaxVersion,
   text : Texts \cup {Nothing}, editing : BOOLEAN, base : 0..MaxVersion]
Reads ==
  [stage : {"none", "sent", "answered", "failed"}, channel : Channels,
   version : 0..MaxVersion, text : Texts \cup {Nothing}, active : BOOLEAN]
Asks ==
  [kind : {"none", "prepare", "save", "preview"}, channel : Channels,
   version : 0..MaxVersion, text : Texts \cup {Nothing}, answer : {"none", "done", "failed"}]

TabTypeOK ==
  /\ owner \in BOOLEAN
  /\ draft \in Drafts
  /\ shown \in Views
  /\ read \in [Forms -> Reads]
  /\ asked \in [Forms -> Asks]

TextEditorsInit ==
  /\ CorrectionsInit
  /\ owner = TRUE
  /\ draft = NoDraft
  /\ shown = NothingShown
  /\ read = [f \in Forms |-> [NoRead EXCEPT !.stage = "sent",
                                            !.channel = IF f = "draft" THEN "email" ELSE Correction]]
  /\ asked = [f \in Forms |-> NoAsk]

-----------------------------------------------------------------------------
(* Reads *)

Busy(f) == asked[f].kind # "none"

StartRead(f, channel) ==
  /\ read[f].stage = "none"
  /\ read' = [read EXCEPT ![f] = [NoRead EXCEPT !.stage = "sent", !.channel = channel]]

\* The server answers with the row as it is now,
AnswerRead(f) ==
  /\ read[f].stage = "sent"
  /\ present
  /\ read' = [read EXCEPT ![f].stage = "answered",
                          ![f].version = saved[read[f].channel].version,
                          ![f].text = saved[read[f].channel].text]
  /\ UNCHANGED <<correctionVars, owner, draft, shown, asked>>

\* or there is no answer, or an error.
FailRead(f) ==
  /\ read[f].stage = "sent"
  /\ read' = [read EXCEPT ![f].stage = "failed"]
  /\ UNCHANGED <<correctionVars, owner, draft, shown, asked>>

\* A mutant: the answer to a form that is gone is shown in the one that replaced it.
AlwaysActive(f) == TRUE

Active(f) == read[f].active

\* The cleanup of the effect and the detached query client.
IgnoreRead(f) ==
  /\ read[f].stage \in {"answered", "failed"}
  /\ ~Active(f)
  /\ read' = [read EXCEPT ![f] = NoRead]
  /\ UNCHANGED <<correctionVars, owner, draft, shown, asked>>

-----------------------------------------------------------------------------
(* The follow-up draft *)

DraftIsReady == owner /\ ~draft.loading /\ ~draft.failed

ReceiveDraft ==
  LET answer == read["draft"] IN
  /\ answer.stage = "answered"
  /\ Active("draft")
  /\ draft' = [draft EXCEPT !.loading = FALSE, !.text = answer.text,
                            !.version = answer.version, !.dirty = FALSE]
  /\ OpenAt(Mine[answer.channel], answer.version)
  /\ read' = [read EXCEPT !["draft"] = NoRead]
  /\ UNCHANGED <<preview, job, owner, shown, asked>>

DraftUnread ==
  /\ read["draft"].stage = "failed"
  /\ Active("draft")
  /\ draft' = [draft EXCEPT !.loading = FALSE, !.failed = TRUE]
  /\ read' = [read EXCEPT !["draft"] = NoRead]
  /\ UNCHANGED <<correctionVars, owner, shown, asked>>

\* The version and the unsaved mark stay until the answer comes.
Load(channel) ==
  /\ StartRead("draft", channel)
  /\ draft' = [draft EXCEPT !.channel = channel, !.loading = TRUE, !.failed = FALSE,
                            !.text = Nothing]
  /\ UNCHANGED <<correctionVars, owner, shown, asked>>

MayChoose == owner /\ ~draft.loading /\ ~Busy("draft")

Choose(channel) ==
  /\ MayChoose
  /\ channel # draft.channel
  /\ Load(channel)

\* "Reopen saved draft", and "Retry loading draft" after an error.
Reopen ==
  /\ owner /\ ~draft.loading
  /\ draft.failed \/ (draft.text # Nothing /\ ~Busy("draft"))
  /\ Load(draft.channel)

\* A mutant: the text is not disabled while it is saved.
MayTypeBusy == DraftIsReady /\ draft.text # Nothing

MayType == DraftIsReady /\ draft.text # Nothing /\ ~Busy("draft")

Type(text) ==
  /\ MayType
  /\ draft' = [draft EXCEPT !.text = text, !.dirty = TRUE]
  /\ UNCHANGED <<correctionVars, owner, shown, read, asked>>

StartNew ==
  /\ DraftIsReady /\ draft.text # Nothing /\ ~Busy("draft")
  /\ draft' = [draft EXCEPT !.text = Nothing, !.dirty = FALSE]
  /\ UNCHANGED <<correctionVars, owner, shown, read, asked>>

\* The AI is asked for a draft of the selected facts; nothing is stored.
Prepare ==
  /\ DraftIsReady /\ draft.text = Nothing /\ ~Busy("draft")
  /\ asked' = [asked EXCEPT !["draft"] = [NoAsk EXCEPT !.kind = "prepare",
                                                       !.channel = draft.channel]]
  /\ UNCHANGED <<correctionVars, owner, draft, shown, read>>

Prepared(text) ==
  /\ asked["draft"].kind = "prepare" /\ asked["draft"].answer = "none"
  /\ present
  /\ asked' = [asked EXCEPT !["draft"].answer = "done", !["draft"].text = text]
  /\ UNCHANGED <<correctionVars, owner, draft, shown, read>>

\* 404, 409, 422, 429, 502 and 503, or no answer.
NotPrepared ==
  /\ asked["draft"].kind = "prepare" /\ asked["draft"].answer = "none"
  /\ asked' = [asked EXCEPT !["draft"].answer = "failed"]
  /\ UNCHANGED <<correctionVars, owner, draft, shown, read>>

ReceivePrepared ==
  /\ owner
  /\ asked["draft"].kind = "prepare" /\ asked["draft"].answer # "none"
  /\ draft' = IF asked["draft"].answer = "done"
                THEN [draft EXCEPT !.text = asked["draft"].text, !.dirty = TRUE]
                ELSE draft
  /\ asked' = [asked EXCEPT !["draft"] = NoAsk]
  /\ UNCHANGED <<correctionVars, owner, shown, read>>

SaveDraft ==
  /\ DraftIsReady /\ draft.text # Nothing /\ draft.dirty /\ ~Busy("draft")
  /\ AskWith(Mine[draft.channel], draft.version)
  /\ asked' = [asked EXCEPT !["draft"] =
                 [kind |-> "save", channel |-> draft.channel, version |-> draft.version,
                  text |-> draft.text, answer |-> "none"]]
  /\ UNCHANGED <<preview, job, owner, draft, shown, read>>

\* The edits stay when the save has failed.
DraftSaved ==
  /\ owner
  /\ asked["draft"].kind = "save" /\ asked["draft"].answer # "none"
  /\ draft' = IF asked["draft"].answer = "done"
                THEN [draft EXCEPT !.version = asked["draft"].version + 1, !.dirty = FALSE]
                ELSE draft
  /\ asked' = [asked EXCEPT !["draft"] = NoAsk]
  /\ UNCHANGED <<correctionVars, owner, shown, read>>

-----------------------------------------------------------------------------
(* The corrected transcript *)

\* Queried again after a reconnection, or by "Try again".
Refetch ==
  /\ owner
  /\ StartRead("correction", Correction)
  /\ UNCHANGED <<correctionVars, owner, draft, shown, asked>>

\* The answer replaces what is cached, also what a save has put there meanwhile.
ReceiveCorrection ==
  LET answer == read["correction"] IN
  /\ answer.stage \in {"answered", "failed"}
  /\ Active("correction")
  /\ shown' = IF answer.stage = "failed"
                THEN [shown EXCEPT !.state = "failed"]
                ELSE [shown EXCEPT !.state = "shown", !.version = answer.version,
                                   !.text = answer.text]
  /\ read' = [read EXCEPT !["correction"] = NoRead]
  /\ UNCHANGED <<correctionVars, owner, draft, asked>>

CorrectionIsReady == owner /\ shown.state = "shown" /\ ~Busy("correction")

\* The text and its version are taken from the cache together.
BeginEdit ==
  /\ CorrectionIsReady /\ ~shown.editing
  /\ OpenAt(Mine[Correction], shown.version)
  /\ shown' = [shown EXCEPT !.editing = TRUE, !.base = shown.version]
  /\ UNCHANGED <<preview, job, owner, draft, read, asked>>

CancelEdit ==
  /\ CorrectionIsReady /\ shown.editing
  /\ shown' = [shown EXCEPT !.editing = FALSE, !.base = 0]
  /\ UNCHANGED <<correctionVars, owner, draft, read, asked>>

\* A mutant: the version is the one that is cached by now.
CachedVersion == shown.version

BaseVersion == shown.base

SaveCorrection(text) ==
  /\ CorrectionIsReady /\ shown.editing
  /\ AskWith(Mine[Correction], BaseVersion)
  /\ asked' = [asked EXCEPT !["correction"] =
                 [kind |-> "save", channel |-> Correction, version |-> BaseVersion,
                  text |-> text, answer |-> "none"]]
  /\ UNCHANGED <<preview, job, owner, draft, shown, read>>

CorrectionSaved ==
  /\ owner
  /\ asked["correction"].kind = "save" /\ asked["correction"].answer # "none"
  /\ shown' = IF asked["correction"].answer = "done"
                THEN [NothingShown EXCEPT !.state = "shown", !.text = asked["correction"].text,
                                          !.version = asked["correction"].version + 1]
                ELSE shown
  /\ asked' = [asked EXCEPT !["correction"] = NoAsk]
  /\ UNCHANGED <<correctionVars, owner, draft, read>>

\* The server refuses a version that is not the saved one (409).
PreviewNotes ==
  /\ CorrectionIsReady /\ ~shown.editing /\ shown.version > 0
  /\ shown.version = saved[Correction].version
  /\ BeginPreview(MyJob)
  /\ asked' = [asked EXCEPT !["correction"] = [NoAsk EXCEPT !.kind = "preview",
                                                            !.version = shown.version]]
  /\ UNCHANGED <<owner, draft, shown, read>>

\* The answer is the row with its notes; the cache takes it over.
PreviewAnswered ==
  /\ owner
  /\ asked["correction"].kind = "preview" /\ asked["correction"].answer # "none"
  /\ shown' = IF asked["correction"].answer = "done"
                THEN [NothingShown EXCEPT !.state = "shown", !.text = asked["correction"].text,
                                          !.version = asked["correction"].version]
                ELSE shown
  /\ asked' = [asked EXCEPT !["correction"] = NoAsk]
  /\ UNCHANGED <<correctionVars, owner, draft, read>>

-----------------------------------------------------------------------------
(* The server's steps for this tab, and everybody else *)

Answered(f, answer) == asked' = [asked EXCEPT ![f].answer = answer]

\* A save writes the text that the tab has sent. Its answer is lost where the editor does
\* not come to know its version.
ServeSave(f) ==
  LET e == Mine[asked[f].channel] IN
  /\ asked[f].kind = "save"
  /\ \/ Lock(e) /\ UNCHANGED <<preview, job, asked>>
     \/ Check(e) /\ UNCHANGED <<preview, job, asked>>
     \/ (NotFound(e) \/ Refuse(e) \/ Die(e)) /\ Answered(f, "failed") /\ UNCHANGED <<preview, job>>
     \/ /\ Save(e)
        /\ saved'[ChannelOf[e]].text = asked[f].text
        /\ Answered(f, IF known' = known THEN "failed" ELSE "done")
  /\ UNCHANGED <<owner, draft, shown, read>>

ServePreview ==
  /\ \/ (Generate(MyJob) \/ LockForPreview(MyJob)) /\ UNCHANGED asked
     \/ /\ StorePreview(MyJob)
        /\ asked' \in {[asked EXCEPT !["correction"].answer = "done",
                                     !["correction"].text = job[MyJob].source],
                       [asked EXCEPT !["correction"].answer = "failed"]}
     \/ EndPreview(MyJob) /\ Answered("correction", "failed")
  /\ UNCHANGED <<owner, draft, shown, read>>

Others ==
  /\ \/ \E e \in Editors \ {Mine[ch] : ch \in Channels} : Save(e) \/ Edit(e)
     \/ DeleteAll
     \/ \E j \in Jobs \ {MyJob} :
          \/ BeginPreview(j) \/ Generate(j) \/ LockForPreview(j)
          \/ StorePreview(j) \/ EndPreview(j)
  /\ UNCHANGED tabVars

\* Another account signs in: the page and its cache are built anew, and its conversation is
\* not found. Requests under way go on; nobody waits for them.
SwitchAccount ==
  /\ owner
  /\ owner' = FALSE
  /\ draft' = NoDraft
  /\ shown' = NothingShown
  /\ read' = [f \in Forms |-> [read[f] EXCEPT !.active = FALSE]]
  /\ UNCHANGED <<correctionVars, asked>>

TextEditorsNext ==
  \/ \E f \in Forms : AnswerRead(f) \/ FailRead(f) \/ IgnoreRead(f) \/ ServeSave(f)
  \/ ReceiveDraft \/ DraftUnread \/ Reopen \/ StartNew \/ SaveDraft \/ DraftSaved
  \/ \E channel \in Channels \ {Correction} : Choose(channel)
  \/ \E text \in Texts : Type(text) \/ Prepared(text) \/ SaveCorrection(text)
  \/ Prepare \/ NotPrepared \/ ReceivePrepared
  \/ Refetch \/ ReceiveCorrection \/ BeginEdit \/ CancelEdit \/ CorrectionSaved
  \/ PreviewNotes \/ ServePreview \/ PreviewAnswered
  \/ Others \/ SwitchAccount

TextEditorsSpec == TextEditorsInit /\ [][TextEditorsNext]_allVars

-----------------------------------------------------------------------------
(* Properties *)

\* A draft that is shown as saved, and whose version is the saved one, is the saved text:
\* no answer marks edits as saved that were not sent (PrepareFollowup.tsx 82-91, 132-136).
CleanIsSaved ==
  (DraftIsReady /\ ~draft.dirty /\ draft.text # Nothing) =>
    (draft.version = saved[draft.channel].version => draft.text = saved[draft.channel].text)

\* Nothing that was read for one account is shown to the next one, however late it is
\* answered (app/providers.tsx 29-35).
OthersSeeNothing == ~owner => draft.text = Nothing /\ shown.text = Nothing
=============================================================================
