-------------------------- MODULE TextEditorsProofs --------------------------
(***************************************************************************)
(* Theorems on the saved texts (Corrections), and on a browser tab among   *)
(* other editors (TextEditors), for any tabs, channels, texts, preview     *)
(* requests and bound on versions. A request past its lock owns the row,   *)
(* so nobody saves or deletes between its comparison and its write.        *)
(* Versions only grow while the conversation is there, so a version that   *)
(* was read, or that a page shows, is of one text. A tab that sends a save *)
(* shows nothing else in that form until it is answered, so the version it *)
(* sends is the one its editor knows, and each of its steps is a step of   *)
(* Corrections.                                                            *)
(***************************************************************************)
EXTENDS TextEditors, TLAPS

\* A request past its lock owns the row, which is still there.
LockInv ==
  \A e \in Editors : pc[e] \in {"locked", "checked"} => lock = e /\ present

\* A request expects the version that its tab knows: a tab that waits learns nothing.
SentInv == \A e \in Editors : pc[e] # "idle" => sent[e] = known[e]

SaveInv == TypeOK /\ LockInv /\ SentInv /\ WriterIsCurrent

\* A preview request past its lock owns the row.
JobLockInv ==
  \A j \in Jobs : job[j].stage = "storing" => lock = j /\ present

\* The version that a preview request has read is not ahead of the saved one, and where
\* it is the saved one it is of the same text.
SourceInv ==
  \A j \in Jobs : job[j] # NoJob =>
    /\ job[j].version # 0
    /\ present => job[j].version <= saved[Correction].version
    /\ job[j].version = saved[Correction].version => job[j].source = saved[Correction].text

CorrectionsInv == SaveInv /\ CorrectionsTypeOK /\ JobLockInv /\ SourceInv /\ PreviewIsOfText

-----------------------------------------------------------------------------
(* The part of the invariant that is about the editors *)

\* No request has a lock at first.
LEMMA SaveInit == Init => SaveInv
  BY ChannelAssumption DEF Init, SaveInv, TypeOK, LockInv, SentInv, WriterIsCurrent, Empty

\* What a step of an editor's request does for that part, one case for each step.
LEMMA EditorKeeps ==
  ASSUME NEW e \in Editors, SaveInv,
         \/ Open(e) \/ Ask(e) \/ Lock(e) \/ NotFound(e)
         \/ Check(e) \/ Refuse(e) \/ Write(e) \/ Die(e)
  PROVE  SaveInv'
<1> USE ChannelAssumption, LockerAssumption DEF SaveInv, TypeOK, LockInv, SentInv, WriterIsCurrent
<1>1. CASE Open(e)
  BY <1>1 DEF Open, OpenAt, Version, Expected, Empty
<1>2. CASE Ask(e)
  BY <1>2 DEF Ask, AskWith, Version, Expected
<1>3. CASE Lock(e)
  BY <1>3 DEF Lock, MayLock, Version, Expected
<1>4. CASE NotFound(e)
  BY <1>4 DEF NotFound, Leave, Version, Expected
<1>5. CASE Check(e)
  BY <1>5 DEF Check, Version, Expected
<1>6. CASE Refuse(e)
  BY <1>6 DEF Refuse, Leave, Version, Expected
<1>7. CASE Write(e)
  <2>1. lock = e /\ present /\ \A f \in Editors \ {e} : pc[f] \notin {"locked", "checked"}
    BY <1>7 DEF Write
  <2>2. TypeOK'
    BY <1>7, <2>1 DEF Write, Leave, Version, Expected, Empty
  <2>3. \A f \in Editors : pc'[f] \notin {"locked", "checked"}
    BY <1>7, <2>1 DEF Write, Leave
  <2>4. SentInv'
    BY <1>7 DEF Write, Leave
  <2> QED
    BY <2>2, <2>3, <2>4
<1>8. CASE Die(e)
  BY <1>8 DEF Die, Leave, Version, Expected
<1> QED
  BY <1>1, <1>2, <1>3, <1>4, <1>5, <1>6, <1>7, <1>8

\* The conversation is deleted while nobody holds the lock, so no writer loses its row.
LEMMA DeleteKeeps ==
  ASSUME SaveInv, Delete
  PROVE  SaveInv'
  BY ChannelAssumption, LockerAssumption
  DEF SaveInv, TypeOK, LockInv, SentInv, WriterIsCurrent, Delete, MayLock, Empty

-----------------------------------------------------------------------------
(* The inductive invariant *)

\* Nothing is saved at first, and nobody has read anything.
LEMMA CorrectionsInitial == CorrectionsInit => CorrectionsInv
  BY SaveInit, CorrectionAssumption
  DEF CorrectionsInit, CorrectionsInv, SaveInv, CorrectionsTypeOK, JobLockInv, SourceInv,
      PreviewIsOfText, NoJob, Init, Empty

\* A step of an editor keeps what the preview requests rely on.
LEMMA SaveKeeps ==
  ASSUME NEW e \in Editors, CorrectionsInv, Save(e)
  PROVE  CorrectionsInv'
<1>1. SaveInv'
  BY EditorKeeps DEF CorrectionsInv, Save
<1>2. /\ lock = e /\ present /\ sent[e] = saved[ChannelOf[e]].version
      /\ ChannelOf[e] \in Channels
  BY ChannelAssumption DEF CorrectionsInv, SaveInv, WriterIsCurrent, Save, Write, Expected, Version
<1>3. \A j \in Jobs : job[j].stage # "storing"
  BY <1>2, LockerAssumption DEF CorrectionsInv, JobLockInv
<1>4. job' = job /\ present' = present
  BY DEF Save, Write
<1>5. CorrectionsTypeOK' /\ JobLockInv'
  BY <1>1, <1>3, <1>4 DEF SaveInv, CorrectionsInv, CorrectionsTypeOK, JobLockInv, Save
<1>6. CASE ChannelOf[e] = Correction
  <2>1. saved'[Correction].version = saved[Correction].version + 1 /\ preview' = Nothing
    BY <1>2, <1>6 DEF CorrectionsInv, SaveInv, TypeOK, Save, Write
  <2>2. saved[Correction].version \in Nat /\ \A j \in Jobs : job[j].version \in Nat
    BY CorrectionAssumption DEF CorrectionsInv, SaveInv, TypeOK, CorrectionsTypeOK, Empty
  <2>3. SourceInv'
    BY <1>2, <1>4, <2>1, <2>2 DEF CorrectionsInv, SourceInv
  <2> QED
    BY <1>1, <1>5, <2>1, <2>3 DEF CorrectionsInv, PreviewIsOfText
<1>7. CASE ChannelOf[e] # Correction
  <2>1. saved'[Correction] = saved[Correction] /\ preview' = preview
    BY <1>7, CorrectionAssumption DEF CorrectionsInv, SaveInv, TypeOK, Save, Write
  <2> QED
    BY <1>1, <1>4, <1>5, <2>1 DEF CorrectionsInv, SourceInv, PreviewIsOfText
<1> QED
  BY <1>6, <1>7

\* So each step of an editor keeps the invariant,
LEMMA EditKeeps ==
  ASSUME NEW e \in Editors, CorrectionsInv, Edit(e)
  PROVE  CorrectionsInv'
<1>1. SaveInv'
  BY EditorKeeps DEF CorrectionsInv, Edit
<1>2. UNCHANGED <<present, saved, preview, job>>
  BY DEF Edit, Open, OpenAt, Ask, AskWith, Lock, NotFound, Check, Refuse, Die
<1>3. \A j \in Jobs : lock = j => lock' = lock
  BY LockerAssumption DEF Edit, Open, OpenAt, Ask, AskWith, Lock, NotFound, Check, Refuse, Die, Leave, MayLock
<1> QED
  BY <1>1, <1>2, <1>3
  DEF CorrectionsInv, SaveInv, CorrectionsTypeOK, JobLockInv, SourceInv, PreviewIsOfText

\* and so does deleting the conversation.
LEMMA DeleteAllKeeps ==
  ASSUME CorrectionsInv, DeleteAll
  PROVE  CorrectionsInv'
<1>1. SaveInv'
  BY DeleteKeeps DEF CorrectionsInv, DeleteAll
<1>2. \A j \in Jobs : job[j].stage # "storing"
  BY LockerAssumption DEF CorrectionsInv, JobLockInv, DeleteAll, Delete, MayLock
<1>3. saved'[Correction].version = 0 /\ ~present' /\ preview' = Nothing /\ job' = job
  BY CorrectionAssumption DEF DeleteAll, Delete, Empty
<1> QED
  BY <1>1, <1>2, <1>3
  DEF CorrectionsInv, SaveInv, CorrectionsTypeOK, JobLockInv, SourceInv, PreviewIsOfText

\* What a step of a preview request does for the invariant, one case for each step.
LEMMA JobKeeps ==
  ASSUME NEW j \in Jobs, CorrectionsInv,
         \/ BeginPreview(j) \/ Generate(j) \/ LockForPreview(j)
         \/ StorePreview(j) \/ EndPreview(j)
  PROVE  CorrectionsInv'
<1> USE LockerAssumption, CorrectionAssumption
    DEF CorrectionsInv, SaveInv, TypeOK, CorrectionsTypeOK, LockInv, SentInv, WriterIsCurrent,
        JobLockInv, SourceInv, PreviewIsOfText, NoJob
<1>1. CASE BeginPreview(j)
  BY <1>1 DEF BeginPreview, vars, Expected, Version, Empty
<1>2. CASE Generate(j)
  BY <1>2 DEF Generate, vars, Expected, Version
<1>3. CASE LockForPreview(j)
  BY <1>3 DEF LockForPreview, MayLock, Expected, Version
<1>4. CASE StorePreview(j)
  BY <1>4 DEF StorePreview, SameVersion, Expected, Version
<1>5. CASE EndPreview(j)
  BY <1>5 DEF EndPreview, Expected, Version
<1> QED
  BY <1>1, <1>2, <1>3, <1>4, <1>5

\* Every step keeps the invariant.
LEMMA CorrectionsStep ==
  CorrectionsInv /\ [CorrectionsNext]_correctionVars => CorrectionsInv'
<1> SUFFICES ASSUME CorrectionsInv, [CorrectionsNext]_correctionVars
             PROVE  CorrectionsInv'
  OBVIOUS
<1>1. CASE \E e \in Editors : Save(e) \/ Edit(e)
  BY <1>1, SaveKeeps, EditKeeps
<1>2. CASE DeleteAll
  BY <1>2, DeleteAllKeeps
<1>3. CASE \E j \in Jobs : \/ BeginPreview(j) \/ Generate(j) \/ LockForPreview(j)
                           \/ StorePreview(j) \/ EndPreview(j)
  BY <1>3, JobKeeps
<1>4. CASE UNCHANGED correctionVars
  BY <1>4
  DEF correctionVars, vars, CorrectionsInv, SaveInv, TypeOK, CorrectionsTypeOK, LockInv,
      SentInv, WriterIsCurrent, JobLockInv, SourceInv, PreviewIsOfText, Expected, Version
<1> QED
  BY <1>1, <1>2, <1>3, <1>4 DEF CorrectionsNext

\* So it holds in every behaviour.
LEMMA CorrectionsInvHolds == CorrectionsSpec => []CorrectionsInv
  BY CorrectionsInitial, CorrectionsStep, PTL DEF CorrectionsSpec

-----------------------------------------------------------------------------
(* The results *)

\* Type correctness of the saved texts and of the requests; a row exists exactly from
\* version 1 on.
THEOREM TextsTypeCorrect == CorrectionsSpec => []CorrectionsTypeOK
  BY CorrectionsInvHolds, PTL DEF CorrectionsInv

\* A request that is about to save owns the row, and its comparison still holds
\* (memory/drafts.py 65-73).
THEOREM WriterStaysCurrent == CorrectionsSpec => []WriterIsCurrent
  BY CorrectionsInvHolds, PTL DEF CorrectionsInv, SaveInv

\* The stored notes were generated from the saved text, in whatever order texts are
\* saved, deleted and previewed (transcription/corrections.py 89-132).
THEOREM PreviewMatchesText == CorrectionsSpec => []PreviewIsOfText
  BY CorrectionsInvHolds, PTL DEF CorrectionsInv

\* Each step of a request is a step of OptimisticSave or changes nothing there.
LEMMA StepIsPromised ==
  ASSUME CorrectionsInv, [CorrectionsNext]_correctionVars
  PROVE  [Promise!Next]_(Promise!vars)
<1> USE DEF Promise!vars
<1>1. CASE \E e \in Editors : Open(e)
  BY <1>1 DEF Open, OpenAt, Version, Promise!Next, Promise!Open
<1>2. CASE \E e \in Editors : Write(e)
  <2>1. PICK e \in Editors : Write(e)
    BY <1>2
  <2>2. PICK text \in Texts :
          saved' = [saved EXCEPT ![ChannelOf[e]] = [version |-> sent[e] + 1, text |-> text]]
    BY <2>1 DEF Write
  <2>3. present /\ known[e] = saved[ChannelOf[e]].version /\ sent[e] = known[e]
    BY <2>1 DEF CorrectionsInv, SaveInv, SentInv, WriterIsCurrent, Expected, Version, Write
  <2>4. Promise!Save(e, text)
    BY <2>1, <2>2, <2>3 DEF Write, Version, Promise!Save
  <2> QED
    BY <2>4 DEF Promise!Next
<1>3. CASE Delete
  BY <1>3 DEF Delete, Empty, Nothing, Promise!Next, Promise!Delete, Promise!Empty, Promise!Nothing
<1>4. CASE UNCHANGED <<present, saved, known>>
  BY <1>4
<1>5. ASSUME NEW e \in Editors, Edit(e), ~Open(e)
      PROVE  UNCHANGED <<present, saved, known>>
  BY <1>5 DEF Edit, Ask, AskWith, Lock, NotFound, Check, Refuse, Die
<1>6. ASSUME NEW j \in Jobs,
             \/ BeginPreview(j) \/ Generate(j) \/ LockForPreview(j)
             \/ StorePreview(j) \/ EndPreview(j)
      PROVE  UNCHANGED <<present, saved, known>>
  BY <1>6 DEF BeginPreview, Generate, LockForPreview, StorePreview, EndPreview, vars
<1> QED
  BY <1>1, <1>2, <1>3, <1>4, <1>5, <1>6 DEF CorrectionsNext, Save, DeleteAll, correctionVars, vars

\* The texts implement OptimisticSave: a save replaces exactly the version that its tab
\* has seen (memory/drafts.py 62-92, transcription/corrections.py 89-112).
THEOREM SavesImplementPromise == CorrectionsSpec => SavesAreOptimistic
<1>1. CorrectionsInit => Promise!Init
  BY DEF CorrectionsInit, Init, Empty, Nothing, Promise!Init, Promise!Empty, Promise!Nothing
<1>2. CorrectionsInv /\ [CorrectionsNext]_correctionVars => [Promise!Next]_(Promise!vars)
  BY StepIsPromised
<1> QED
  BY <1>1, <1>2, CorrectionsInvHolds, PTL DEF CorrectionsSpec, SavesAreOptimistic, Promise!Spec

-----------------------------------------------------------------------------
(* A tab among other editors *)

\* A version with its text: still the saved one, or one that was replaced or deleted.
Names(version, text, ch) ==
  /\ version >= 1
  /\ present => version <= saved[ch].version
  /\ version = saved[ch].version => text = saved[ch].text

\* Versions are within their bound, and a deleted conversation has none.
Bounded ==
  \A ch \in Channels :
    /\ saved[ch].version <= MaxVersion
    /\ ~present => saved[ch].version = 0

\* An answer that will be listened to is one that the form is waiting for.
ReadInv ==
  /\ \A f \in Forms : read[f].stage # "none" /\ read[f].active => owner
  /\ read["draft"].stage # "none" /\ read["draft"].active =>
       draft.loading /\ read["draft"].channel = draft.channel
  /\ \A f \in Forms : read[f].stage = "answered" /\ read[f].text # Nothing =>
       Names(read[f].version, read[f].text, read[f].channel)

\* What a save has come to, and what its editor knows.
SavingInv ==
  /\ asked["draft"].kind # "preview"
  /\ asked["correction"].kind # "prepare"
  /\ \A f \in Forms : asked[f].kind = "save" =>
       LET e == Mine[asked[f].channel] IN
       /\ asked[f].channel = Correction <=> f = "correction"
       /\ asked[f].answer = "none" => pc[e] # "idle" /\ sent[e] = asked[f].version
       /\ asked[f].answer # "none" => pc[e] = "idle"
       /\ asked[f].answer = "failed" => known[e] = asked[f].version
       /\ asked[f].answer = "done" =>
            /\ known[e] = asked[f].version + 1
            /\ asked[f].version < MaxVersion
            /\ Names(asked[f].version + 1, asked[f].text, asked[f].channel)

\* The draft and what was asked for it.
DraftInv ==
  /\ owner /\ Busy("draft") => ~draft.loading /\ ~draft.failed
  /\ owner /\ asked["draft"].kind = "save" =>
       /\ asked["draft"].channel = draft.channel
       /\ asked["draft"].version = draft.version
       /\ asked["draft"].text = draft.text
  /\ DraftIsReady /\ asked["draft"].kind # "save" => draft.version = known[Mine[draft.channel]]
  /\ DraftIsReady /\ ~draft.dirty /\ draft.text # Nothing =>
       Names(draft.version, draft.text, draft.channel)

\* The editor of the correction, and the notes that were asked for.
EditingInv ==
  /\ owner /\ shown.editing /\ asked["correction"].kind # "save" =>
       shown.base = known[Mine[Correction]]
  /\ owner /\ asked["correction"].kind = "save" =>
       shown.editing /\ asked["correction"].version = shown.base
  /\ job[MyJob] # NoJob =>
       asked["correction"].kind = "preview" /\ asked["correction"].answer = "none"

\* What is about the tab itself,
TabOwnInv == ReadInv /\ SavingInv /\ DraftInv /\ EditingInv /\ OthersSeeNothing

\* and all of it.
TabInv == CorrectionsInv /\ TabTypeOK /\ Bounded /\ TabOwnInv

-----------------------------------------------------------------------------
(* What the tab stands on *)

\* The tab has one editor for each channel, and they are different ones.
LEMMA MineFacts ==
  /\ \A ch \in Channels : Mine[ch] \in Editors /\ ChannelOf[Mine[ch]] = ch
  /\ \A ch, other \in Channels : Mine[ch] = Mine[other] => ch = other
  /\ MyJob \in Jobs /\ Correction \in Channels
<1>1. /\ \A ch \in Channels : Mine[ch] \in Editors /\ ChannelOf[Mine[ch]] = ch
      /\ MyJob \in Jobs
  BY MineAssumption
<1> QED
  BY <1>1, CorrectionAssumption

\* A step of the saved texts saves a next version, deletes everything, or leaves the texts.
LEMMA SavedSteps ==
  ASSUME CorrectionsInv, [CorrectionsNext]_correctionVars
  PROVE  \/ UNCHANGED <<present, saved>>
         \/ ~present' /\ \A ch \in Channels : saved'[ch].version = 0
         \/ /\ present /\ present'
            /\ \E ch \in Channels, text \in Texts :
                 /\ saved[ch].version < MaxVersion
                 /\ saved' = [saved EXCEPT ![ch] = [version |-> saved[ch].version + 1, text |-> text]]
<1>1. ASSUME NEW e \in Editors, Save(e)
      PROVE  /\ present /\ present'
             /\ \E ch \in Channels, text \in Texts :
                  /\ saved[ch].version < MaxVersion
                  /\ saved' = [saved EXCEPT ![ch] = [version |-> saved[ch].version + 1, text |-> text]]
  <2>1. present /\ sent[e] = saved[ChannelOf[e]].version
    BY <1>1 DEF CorrectionsInv, SaveInv, WriterIsCurrent, Expected, Version, Save, Write
  <2> QED
    BY <1>1, <2>1, ChannelAssumption DEF Save, Write, Version
<1>2. CASE DeleteAll
  BY <1>2 DEF DeleteAll, Delete, Empty
<1>3. ASSUME NEW e \in Editors, Edit(e)
      PROVE  UNCHANGED <<present, saved>>
  BY <1>3 DEF Edit, Open, OpenAt, Ask, AskWith, Lock, NotFound, Check, Refuse, Die
<1>4. ASSUME NEW j \in Jobs,
             \/ BeginPreview(j) \/ Generate(j) \/ LockForPreview(j)
             \/ StorePreview(j) \/ EndPreview(j)
      PROVE  UNCHANGED <<present, saved>>
  BY <1>4 DEF BeginPreview, Generate, LockForPreview, StorePreview, EndPreview, vars
<1>5. CASE UNCHANGED correctionVars
  BY <1>5 DEF correctionVars, vars
<1> QED
  BY <1>1, <1>2, <1>3, <1>4, <1>5 DEF CorrectionsNext

\* So versions stay within their bound,
LEMMA BoundedStays ==
  ASSUME CorrectionsInv, Bounded, [CorrectionsNext]_correctionVars
  PROVE  Bounded'
<1>1. /\ \A ch \in Channels : saved[ch].version \in Nat
      /\ saved \in [Channels -> {Empty} \cup [version : Nat \ {0}, text : Texts]]
      /\ MaxVersion \in Nat
  BY VersionAssumption DEF CorrectionsInv, SaveInv, TypeOK, Empty
<1> QED
  BY <1>1, SavedSteps DEF Bounded

\* and a version names its text for good.
LEMMA NamesStay ==
  ASSUME CorrectionsInv, Bounded, [CorrectionsNext]_correctionVars,
         NEW version \in Nat, NEW text, NEW ch \in Channels, Names(version, text, ch)
  PROVE  Names(version, text, ch)'
<1>1. /\ saved[ch].version \in Nat
      /\ saved \in [Channels -> {Empty} \cup [version : Nat \ {0}, text : Texts]]
      /\ ~present => saved[ch].version = 0
  BY DEF CorrectionsInv, SaveInv, TypeOK, Empty, Bounded
<1> QED
  BY <1>1, SavedSteps DEF Names

\* What is saved has its own version.
LEMMA SavedIsNamed ==
  ASSUME CorrectionsInv, NEW ch \in Channels, saved[ch].text # Nothing
  PROVE  Names(saved[ch].version, saved[ch].text, ch)
<1>1. saved[ch] \in {Empty} \cup [version : Nat \ {0}, text : Texts]
  BY DEF CorrectionsInv, SaveInv, TypeOK
<1>2. saved[ch].version \in Nat /\ saved[ch].version >= 1
  BY <1>1 DEF Empty
<1> QED
  BY <1>2 DEF Names

-----------------------------------------------------------------------------
(* Each step of a tab is a step of the saved texts *)

\* The steps that leave the saved texts and their requests alone.
LocalStep ==
  \/ \E f \in Forms : AnswerRead(f) \/ FailRead(f) \/ IgnoreRead(f)
  \/ DraftUnread \/ Reopen \/ StartNew \/ DraftSaved
  \/ \E channel \in Channels \ {Correction} : Choose(channel)
  \/ \E text \in Texts : Type(text) \/ Prepared(text)
  \/ Prepare \/ NotPrepared \/ ReceivePrepared
  \/ Refetch \/ ReceiveCorrection \/ CancelEdit \/ CorrectionSaved
  \/ PreviewAnswered \/ SwitchAccount

\* They do so.
LEMMA LocalIsLocal == LocalStep => UNCHANGED correctionVars
  BY Zenon
  DEF LocalStep, AnswerRead, FailRead, IgnoreRead, DraftUnread, Reopen, Load, StartNew,
      DraftSaved, Choose, Type, Prepared, Prepare, NotPrepared, ReceivePrepared, Refetch,
      ReceiveCorrection, CancelEdit, CorrectionSaved, PreviewAnswered, SwitchAccount

\* Showing an answer is an editor's Open.
LEMMA OpenIsEdit ==
  ASSUME NEW e \in Editors, NEW version \in 0..MaxVersion, OpenAt(e, version),
         UNCHANGED <<preview, job>>
  PROVE  CorrectionsNext
  BY DEF CorrectionsNext, Edit, Open

\* Sending the version that an editor knows is its Ask.
LEMMA AskIsEdit ==
  ASSUME NEW e \in Editors, AskWith(e, known[e]), UNCHANGED <<preview, job>>
  PROVE  CorrectionsNext
  BY DEF CorrectionsNext, Edit, Ask

\* The other steps, one case for each: what is sent is what the editor knows.
LEMMA TabRefines ==
  ASSUME TabInv, [TextEditorsNext]_allVars
  PROVE  [CorrectionsNext]_correctionVars
<1> USE MineFacts
<1>1. CASE LocalStep
  BY <1>1, LocalIsLocal
<1>2. CASE ReceiveDraft
  <2>1. read["draft"].version \in 0..MaxVersion /\ read["draft"].channel \in Channels
    BY DEF TabInv, TabTypeOK, Reads, Forms
  <2> QED
    BY <1>2, <2>1, OpenIsEdit DEF ReceiveDraft
<1>3. CASE BeginEdit
  <2>1. shown.version \in 0..MaxVersion
    BY DEF TabInv, TabTypeOK, Views
  <2> QED
    BY <1>3, <2>1, OpenIsEdit DEF BeginEdit
<1>4. CASE SaveDraft
  <2>1. draft.channel \in Channels /\ draft.version = known[Mine[draft.channel]]
    BY <1>4 DEF TabInv, TabTypeOK, Drafts, TabOwnInv, DraftInv, SaveDraft, Busy
  <2> QED
    BY <1>4, <2>1, AskIsEdit DEF SaveDraft
<1>5. CASE \E text \in Texts : SaveCorrection(text)
  <2>1. shown.base = known[Mine[Correction]]
    BY <1>5 DEF TabInv, TabOwnInv, EditingInv, SaveCorrection, CorrectionIsReady, Busy
  <2> QED
    BY <1>5, <2>1, AskIsEdit DEF SaveCorrection, BaseVersion
<1>6. CASE \E f \in Forms : ServeSave(f)
  <2>1. PICK f \in Forms : ServeSave(f)
    BY <1>6
  <2>2. Mine[asked[f].channel] \in Editors
    BY DEF TabInv, TabTypeOK, Asks
  <2> QED
    BY <2>1, <2>2 DEF ServeSave, CorrectionsNext, Edit
<1>7. CASE PreviewNotes \/ ServePreview
  BY <1>7 DEF PreviewNotes, ServePreview, CorrectionsNext
<1>8. CASE Others
  BY <1>8 DEF Others, CorrectionsNext
<1>9. CASE UNCHANGED allVars
  BY <1>9 DEF allVars
<1> QED
  BY <1>1, <1>2, <1>3, <1>4, <1>5, <1>6, <1>7, <1>8, <1>9 DEF TextEditorsNext, LocalStep

-----------------------------------------------------------------------------
(* The types *)

\* The constants of the module are of their types.
LEMMA ConstantTypes ==
  /\ NoDraft \in Drafts /\ NothingShown \in Views /\ NoRead \in Reads /\ NoAsk \in Asks
  /\ "draft" \in Forms /\ "correction" \in Forms /\ 0 \in 0..MaxVersion
<1>1. 0 \in 0..MaxVersion
  BY VersionAssumption
<1> QED
  BY <1>1, EmailAssumption, CorrectionAssumption
  DEF NoDraft, NothingShown, NoRead, NoAsk, Drafts, Views, Reads, Asks, Forms

\* So are the changes of the local steps, one case for each of them.
LEMMA LocalTypes ==
  ASSUME TabInv, LocalStep
  PROVE  TabTypeOK'
<1> USE ConstantTypes, MineFacts DEF TabInv, TabTypeOK
<1>1. ASSUME NEW f \in Forms, AnswerRead(f) PROVE TabTypeOK'
  <2>1. read[f].channel \in Channels
    BY DEF Reads
  <2>2. saved[read[f].channel] \in {Empty} \cup [version : Nat \ {0}, text : Texts]
    BY <2>1 DEF CorrectionsInv, SaveInv, TypeOK
  <2>3. /\ saved[read[f].channel].version \in 0..MaxVersion
        /\ saved[read[f].channel].text \in Texts \cup {Nothing}
    BY <2>1, <2>2, VersionAssumption DEF Bounded, Empty
  <2> DEFINE answer == [read[f] EXCEPT !.stage = "answered",
                                       !.version = saved[read[f].channel].version,
                                       !.text = saved[read[f].channel].text]
  <2>4. answer \in Reads
    BY <2>3 DEF Reads
  <2>5. read' = [read EXCEPT ![f] = answer]
    BY <1>1 DEF AnswerRead, Reads
  <2>6. UNCHANGED <<owner, draft, shown, asked>>
    BY <1>1 DEF AnswerRead
  <2> HIDE DEF answer
  <2> QED
    BY <2>4, <2>5, <2>6
<1>2. ASSUME NEW f \in Forms, FailRead(f) PROVE TabTypeOK'
  <2>1. read'[f] \in Reads
    BY <1>2 DEF FailRead, Reads
  <2> QED
    BY <1>2, <2>1 DEF FailRead
<1>3. ASSUME NEW f \in Forms, IgnoreRead(f) PROVE TabTypeOK'
  BY <1>3 DEF IgnoreRead
<1>4. CASE DraftUnread
  <2>1. draft' \in Drafts
    BY <1>4 DEF DraftUnread, Drafts
  <2> QED
    BY <1>4, <2>1 DEF DraftUnread
<1>5. CASE StartNew
  <2>1. draft' \in Drafts
    BY <1>5 DEF StartNew, Drafts
  <2> QED
    BY <1>5, <2>1 DEF StartNew
<1>6. ASSUME NEW f \in Forms, NEW channel \in Channels, StartRead(f, channel)
      PROVE  read' \in [Forms -> Reads]
  <2>1. [NoRead EXCEPT !.stage = "sent", !.channel = channel] \in Reads
    BY DEF Reads
  <2> QED
    BY <1>6, <2>1 DEF StartRead
<1>7. ASSUME NEW channel \in Channels \ {Correction}, Load(channel) PROVE TabTypeOK'
  <2>1. draft' \in Drafts
    BY <1>7 DEF Load, Drafts
  <2> QED
    BY <1>6, <1>7, <2>1 DEF Load
<1>8. CASE Reopen
  BY <1>7, <1>8 DEF Reopen, Drafts
<1>9. ASSUME NEW channel \in Channels \ {Correction}, Choose(channel) PROVE TabTypeOK'
  BY <1>7, <1>9 DEF Choose
<1>10. CASE DraftSaved
  <2>1. asked["draft"].answer = "done" => asked["draft"].version + 1 \in 0..MaxVersion
    BY <1>10, VersionAssumption DEF DraftSaved, TabOwnInv, SavingInv, Asks
  <2>2. draft' \in Drafts
    BY <1>10, <2>1 DEF DraftSaved, Drafts
  <2> QED
    BY <1>10, <2>2 DEF DraftSaved
<1>11. ASSUME NEW text \in Texts, Type(text) PROVE TabTypeOK'
  <2>1. draft' \in Drafts
    BY <1>11 DEF Type, Drafts
  <2> QED
    BY <1>11, <2>1 DEF Type
<1>12. ASSUME NEW text \in Texts, Prepared(text) PROVE TabTypeOK'
  <2>1. asked'["draft"] \in Asks
    BY <1>12 DEF Prepared, Asks
  <2> QED
    BY <1>12, <2>1 DEF Prepared
<1>13. CASE Prepare
  <2>1. [NoAsk EXCEPT !.kind = "prepare", !.channel = draft.channel] \in Asks
    BY DEF Asks, Drafts
  <2> QED
    BY <1>13, <2>1 DEF Prepare
<1>14. CASE NotPrepared
  <2>1. asked'["draft"] \in Asks
    BY <1>14 DEF NotPrepared, Asks
  <2> QED
    BY <1>14, <2>1 DEF NotPrepared
<1>15. CASE ReceivePrepared
  <2>1. asked["draft"].text \in Texts \cup {Nothing}
    BY DEF Asks
  <2>2. draft' \in Drafts
    BY <1>15, <2>1 DEF ReceivePrepared, Drafts
  <2> QED
    BY <1>15, <2>2 DEF ReceivePrepared
<1>16. CASE Refetch
  BY <1>6, <1>16 DEF Refetch
<1>17. CASE ReceiveCorrection
  <2>1. /\ read["correction"].text \in Texts \cup {Nothing}
        /\ read["correction"].version \in 0..MaxVersion
    BY DEF Reads
  <2>2. shown' \in Views
    BY <1>17, <2>1 DEF ReceiveCorrection, Views
  <2> QED
    BY <1>17, <2>2 DEF ReceiveCorrection
<1>18. CASE CancelEdit
  <2>1. shown' \in Views
    BY <1>18 DEF CancelEdit, Views
  <2> QED
    BY <1>18, <2>1 DEF CancelEdit
<1>19. ASSUME NEW version \in 0..MaxVersion, NEW text \in Texts \cup {Nothing}
       PROVE  [NothingShown EXCEPT !.state = "shown", !.text = text, !.version = version] \in Views
  BY DEF Views
<1>20. CASE CorrectionSaved
  <2>1. asked["correction"].answer = "done" => asked["correction"].version + 1 \in 0..MaxVersion
    BY <1>20, VersionAssumption DEF CorrectionSaved, TabOwnInv, SavingInv, Asks
  <2>2. asked["correction"].text \in Texts \cup {Nothing}
    BY DEF Asks
  <2> QED
    BY <1>19, <1>20, <2>1, <2>2 DEF CorrectionSaved
<1>21. CASE PreviewAnswered
  <2>1. /\ asked["correction"].version \in 0..MaxVersion
        /\ asked["correction"].text \in Texts \cup {Nothing}
    BY DEF Asks
  <2> QED
    BY <1>19, <1>21, <2>1 DEF PreviewAnswered
<1>22. CASE SwitchAccount
  <2>1. \A f \in Forms : [read[f] EXCEPT !.active = FALSE] \in Reads
    BY DEF Reads
  <2> QED
    BY <1>22, <2>1 DEF SwitchAccount
<1> QED
  BY <1>1, <1>2, <1>3, <1>4, <1>5, <1>8, <1>9, <1>10, <1>11, <1>12, <1>13, <1>14, <1>15,
     <1>16, <1>17, <1>18, <1>20, <1>21, <1>22
  DEF LocalStep

-----------------------------------------------------------------------------
(* The steps of the tab alone *)

\* What a read brings, and what becomes of it.
LEMMA ReadsKeep ==
  ASSUME TabInv, NEW f \in Forms, AnswerRead(f) \/ FailRead(f) \/ IgnoreRead(f)
  PROVE  TabOwnInv'
<1> USE ConstantTypes DEF TabInv, TabTypeOK, TabOwnInv
<1>1. UNCHANGED <<correctionVars, owner, draft, shown, asked>>
  BY DEF AnswerRead, FailRead, IgnoreRead
<1>2. SavingInv' /\ DraftInv' /\ EditingInv' /\ OthersSeeNothing'
  BY <1>1
  DEF SavingInv, DraftInv, EditingInv, OthersSeeNothing, DraftIsReady, Busy, Names,
      correctionVars, vars
<1>3. CASE AnswerRead(f)
  <2>1. read[f].channel \in Channels
    BY DEF Reads
  <2>2. /\ read'[f].stage = "answered" /\ read[f].stage = "sent"
        /\ read'[f].version = saved[read[f].channel].version
        /\ read'[f].text = saved[read[f].channel].text
        /\ read'[f].active = read[f].active
        /\ read'[f].channel = read[f].channel
    BY <1>3 DEF AnswerRead, Reads
  <2>3. \A g \in Forms \ {f} : read'[g] = read[g]
    BY <1>3 DEF AnswerRead
  <2>4. read'[f].text # Nothing => Names(read'[f].version, read'[f].text, read'[f].channel)
    BY <2>1, <2>2, SavedIsNamed
  <2> QED
    BY <1>1, <1>2, <2>2, <2>3, <2>4 DEF ReadInv, Names, correctionVars, vars
<1>4. CASE FailRead(f) \/ IgnoreRead(f)
  <2>1. \/ read'[f].stage = "none"
        \/ /\ read'[f].stage = "failed" /\ read[f].stage = "sent"
           /\ read'[f].active = read[f].active
           /\ read'[f].channel = read[f].channel
    BY <1>4 DEF FailRead, IgnoreRead, Reads, NoRead
  <2>2. \A g \in Forms \ {f} : read'[g] = read[g]
    BY <1>4 DEF FailRead, IgnoreRead
  <2> QED
    BY <1>1, <1>2, <2>1, <2>2 DEF ReadInv, Names, correctionVars, vars
<1> QED
  BY <1>3, <1>4

\* What the tab does to its draft, one case for each step.
LEMMA DraftKeeps ==
  ASSUME TabInv,
         \/ DraftUnread \/ Reopen \/ StartNew \/ DraftSaved
         \/ \E channel \in Channels \ {Correction} : Choose(channel)
         \/ \E text \in Texts : Type(text)
  PROVE  TabOwnInv'
<1> USE ConstantTypes DEF TabInv, TabTypeOK, TabOwnInv
<1>1. UNCHANGED <<correctionVars, owner, shown>>
  BY Zenon DEF DraftUnread, Reopen, Load, StartNew, DraftSaved, Choose, Type
<1>2. UNCHANGED <<present, saved, known, sent, pc, job>>
  BY <1>1 DEF correctionVars, vars
<1>3. asked'["correction"] = asked["correction"]
  BY Zenon DEF DraftUnread, Reopen, Load, StartNew, DraftSaved, Choose, Type
<1>4. read'["correction"] = read["correction"]
  BY DEF DraftUnread, Reopen, Load, StartRead, StartNew, DraftSaved, Choose, Type
<1>5. EditingInv'
  BY <1>1, <1>2, <1>3 DEF EditingInv
<1>6. Forms = {"draft", "correction"} /\ owner \in BOOLEAN
  BY DEF Forms
<1> USE <1>1, <1>2, <1>3, <1>4, <1>5, <1>6
<1>7. CASE DraftUnread
  <2>1. /\ draft'.channel = draft.channel /\ draft'.text = draft.text /\ draft'.failed
        /\ read'["draft"].stage = "none"
        /\ asked' = asked
    BY <1>7 DEF DraftUnread, Drafts, NoRead
  <2>2. owner /\ draft.loading
    BY <1>7 DEF DraftUnread, Active, ReadInv
  <2>3. ~Busy("draft")
    BY <2>2 DEF DraftInv
  <2>4. ReadInv' /\ SavingInv'
    BY <2>1 DEF ReadInv, SavingInv, Names
  <2>5. DraftInv'
    BY <2>1, <2>3 DEF DraftInv, DraftIsReady, Busy
  <2> QED
    BY <2>1, <2>2, <2>4, <2>5 DEF OthersSeeNothing
<1>8. ASSUME NEW channel \in Channels \ {Correction}, Load(channel), owner, ~draft.loading,
             draft.failed \/ ~Busy("draft")
      PROVE  TabOwnInv'
  <2>1. /\ draft'.channel = channel /\ draft'.loading /\ draft'.text = Nothing
        /\ read'["draft"].stage = "sent" /\ read'["draft"].channel = channel
        /\ asked' = asked
    BY <1>8 DEF Load, StartRead, Drafts, Reads, NoRead
  <2>2. asked["draft"].kind # "save"
    BY <1>8 DEF DraftInv, Busy
  <2>3. ~Busy("draft")
    BY <1>8 DEF DraftInv
  <2>4. ReadInv'
    BY <1>8, <2>1 DEF ReadInv, Names
  <2>5. SavingInv'
    BY <2>1 DEF SavingInv, Names
  <2>6. DraftInv'
    BY <2>1, <2>2, <2>3 DEF DraftInv, DraftIsReady, Busy
  <2> QED
    BY <1>8, <2>4, <2>5, <2>6 DEF OthersSeeNothing
<1>9. CASE Reopen
  BY <1>8, <1>9 DEF Reopen, Drafts
<1>10. ASSUME NEW channel \in Channels \ {Correction}, Choose(channel) PROVE TabOwnInv'
  BY <1>8, <1>10 DEF Choose, MayChoose
<1>11. CASE StartNew
  BY <1>11
  DEF StartNew, Drafts, ReadInv, SavingInv, DraftInv, OthersSeeNothing, DraftIsReady, Busy, Names
<1>12. ASSUME NEW text \in Texts, Type(text) PROVE TabOwnInv'
  <2>1. /\ draft'.channel = draft.channel /\ draft'.loading = draft.loading
        /\ draft'.failed = draft.failed /\ draft'.version = draft.version /\ draft'.dirty
    BY <1>12 DEF Type, Drafts
  <2>2. owner /\ ~Busy("draft") /\ read' = read /\ asked' = asked
    BY <1>12 DEF Type, MayType, DraftIsReady
  <2>3. ReadInv' /\ SavingInv'
    BY <2>1, <2>2 DEF ReadInv, SavingInv, Names
  <2>4. DraftInv'
    BY <2>1, <2>2 DEF DraftInv, DraftIsReady, Busy
  <2> QED
    BY <2>2, <2>3, <2>4 DEF OthersSeeNothing
<1>13. CASE DraftSaved
  <2>1. /\ owner /\ asked["draft"].kind = "save" /\ asked["draft"].answer # "none"
        /\ asked["draft"].answer \in {"none", "done", "failed"}
        /\ asked'["draft"].kind = "none" /\ read' = read
    BY <1>13 DEF DraftSaved, Asks, NoAsk
  <2>2. /\ draft'.channel = draft.channel /\ draft'.loading = draft.loading
        /\ draft'.failed = draft.failed /\ draft'.text = draft.text
        /\ asked["draft"].answer = "done" =>
             draft'.version = asked["draft"].version + 1 /\ ~draft'.dirty
        /\ asked["draft"].answer = "failed" =>
             draft'.version = draft.version /\ draft'.dirty = draft.dirty
    BY <1>13, <2>1 DEF DraftSaved, Drafts
  <2>3. ReadInv'
    BY <2>1, <2>2 DEF ReadInv, Names
  <2>4. SavingInv'
    BY <2>1 DEF SavingInv, Names
  <2>5. /\ asked["draft"].channel = draft.channel
        /\ asked["draft"].version = draft.version
        /\ asked["draft"].text = draft.text
    BY <2>1 DEF DraftInv
  <2>6. draft'.version = known[Mine[draft.channel]]
    BY <2>1, <2>2, <2>5 DEF SavingInv
  <2>7. DraftIsReady' /\ ~draft'.dirty /\ draft'.text # Nothing =>
          Names(draft.version, draft.text, draft.channel)'
    <3>1. CASE asked["draft"].answer = "done"
      BY <2>1, <2>2, <2>5, <3>1 DEF SavingInv, Names
    <3>2. CASE asked["draft"].answer = "failed"
      BY <2>1, <2>2, <3>2 DEF DraftInv, DraftIsReady, Names
    <3> QED
      BY <2>1, <3>1, <3>2
  <2>8. DraftInv'
    BY <2>1, <2>2, <2>6, <2>7 DEF DraftInv, Busy
  <2> QED
    BY <2>1, <2>3, <2>4, <2>8 DEF OthersSeeNothing
<1> QED
  BY <1>7, <1>9, <1>10, <1>11, <1>12, <1>13

\* What comes of the AI's drafts: text that is not saved.
LEMMA PreparedKeeps ==
  ASSUME TabInv,
         \/ Prepare \/ NotPrepared \/ ReceivePrepared
         \/ \E text \in Texts : Prepared(text)
  PROVE  TabOwnInv'
<1> USE ConstantTypes DEF TabInv, TabTypeOK, TabOwnInv
<1>1. UNCHANGED <<correctionVars, owner, shown, read>>
  BY Zenon DEF Prepare, NotPrepared, ReceivePrepared, Prepared
<1>2. UNCHANGED <<present, saved, known, sent, pc, job>>
  BY <1>1 DEF correctionVars, vars
<1>3. asked'["correction"] = asked["correction"]
  BY DEF Prepare, NotPrepared, ReceivePrepared, Prepared, Forms
<1>4. EditingInv'
  BY <1>1, <1>2, <1>3 DEF EditingInv
<1>5. Forms = {"draft", "correction"} /\ owner \in BOOLEAN
  BY DEF Forms
<1> USE <1>1, <1>2, <1>3, <1>4, <1>5
<1>6. ASSUME draft' = draft,
             DraftIsReady \/ asked["draft"].kind = "prepare",
             asked["draft"].kind # "save",
             asked'["draft"].kind = "prepare"
      PROVE  TabOwnInv'
  <2>1. ReadInv' /\ SavingInv'
    BY <1>6 DEF ReadInv, SavingInv, Names
  <2>2. DraftInv'
    BY <1>6 DEF DraftInv, DraftIsReady, Busy, Names
  <2> QED
    BY <1>6, <2>1, <2>2 DEF OthersSeeNothing
<1>7. CASE Prepare
  <2>1. draft' = draft /\ DraftIsReady /\ asked["draft"].kind = "none"
    BY <1>7 DEF Prepare, Busy
  <2>2. asked'["draft"].kind = "prepare"
    BY <1>7 DEF Prepare, NoAsk
  <2> QED
    BY <1>6, <2>1, <2>2
<1>8. CASE NotPrepared \/ \E text \in Texts : Prepared(text)
  <2>1. draft' = draft /\ asked["draft"].kind = "prepare"
    BY <1>8 DEF NotPrepared, Prepared
  <2>2. asked'["draft"].kind = "prepare"
    BY <1>8 DEF NotPrepared, Prepared, Asks
  <2> QED
    BY <1>6, <2>1, <2>2
<1>9. CASE ReceivePrepared
  <2>1. owner /\ asked["draft"].kind = "prepare" /\ asked'["draft"].kind = "none"
    BY <1>9 DEF ReceivePrepared, NoAsk
  <2>2. /\ draft'.channel = draft.channel /\ draft'.loading = draft.loading
        /\ draft'.failed = draft.failed /\ draft'.version = draft.version
        /\ draft'.dirty \/ draft' = draft
    BY <1>9 DEF ReceivePrepared, Drafts
  <2>3. ReadInv' /\ SavingInv'
    BY <2>1, <2>2 DEF ReadInv, SavingInv, Names
  <2>4. DraftInv'
    BY <2>1, <2>2 DEF DraftInv, DraftIsReady, Busy, Names
  <2> QED
    BY <2>1, <2>3, <2>4 DEF OthersSeeNothing
<1> QED
  BY <1>7, <1>8, <1>9

\* What the tab does to its correction, one case for each step.
LEMMA CorrectionKeeps ==
  ASSUME TabInv,
         Refetch \/ ReceiveCorrection \/ CancelEdit \/ CorrectionSaved \/ PreviewAnswered
  PROVE  TabOwnInv'
<1> USE ConstantTypes DEF TabInv, TabTypeOK, TabOwnInv
<1>1. UNCHANGED <<correctionVars, owner, draft>>
  BY Zenon DEF Refetch, ReceiveCorrection, CancelEdit, CorrectionSaved, PreviewAnswered
<1>2. UNCHANGED <<present, saved, known, sent, pc, job>>
  BY <1>1 DEF correctionVars, vars
<1>3. asked'["draft"] = asked["draft"] /\ read'["draft"] = read["draft"]
  BY DEF Refetch, StartRead, ReceiveCorrection, CancelEdit, CorrectionSaved, PreviewAnswered, Forms
<1>4. DraftInv'
  BY <1>1, <1>2, <1>3 DEF DraftInv, DraftIsReady, Busy, Names
<1>5. Forms = {"draft", "correction"} /\ owner \in BOOLEAN
  BY DEF Forms
<1> USE <1>1, <1>2, <1>3, <1>4, <1>5
<1>6. CASE Refetch
  <2>1. /\ owner /\ asked' = asked /\ shown' = shown
        /\ read'["correction"].stage = "sent"
    BY <1>6 DEF Refetch, StartRead, NoRead
  <2>2. ReadInv' /\ SavingInv'
    BY <2>1 DEF ReadInv, SavingInv, Names
  <2> QED
    BY <2>1, <2>2 DEF EditingInv, OthersSeeNothing
<1>7. CASE ReceiveCorrection
  <2>1. /\ owner /\ asked' = asked
        /\ read'["correction"].stage = "none"
    BY <1>7 DEF ReceiveCorrection, Active, NoRead, ReadInv
  <2>2. shown'.editing = shown.editing /\ shown'.base = shown.base
    BY <1>7 DEF ReceiveCorrection, Views
  <2>3. ReadInv' /\ SavingInv'
    BY <2>1 DEF ReadInv, SavingInv, Names
  <2> QED
    BY <2>1, <2>2, <2>3 DEF EditingInv, OthersSeeNothing
<1>8. CASE CancelEdit
  <2>1. /\ owner /\ asked' = asked /\ read' = read /\ asked["correction"].kind = "none"
    BY <1>8 DEF CancelEdit, CorrectionIsReady, Busy
  <2>2. ~shown'.editing
    BY <1>8 DEF CancelEdit, Views
  <2>3. ReadInv' /\ SavingInv'
    BY <2>1 DEF ReadInv, SavingInv, Names
  <2> QED
    BY <2>1, <2>2, <2>3 DEF EditingInv, OthersSeeNothing
<1>9. CASE CorrectionSaved
  <2>1. /\ owner /\ read' = read /\ asked'["correction"].kind = "none"
        /\ asked["correction"].kind = "save" /\ asked["correction"].answer \in {"done", "failed"}
    BY <1>9 DEF CorrectionSaved, NoAsk, Asks
  <2>2. /\ asked["correction"].answer = "done" => ~shown'.editing
        /\ asked["correction"].answer = "failed" => shown' = shown
    BY <1>9 DEF CorrectionSaved, NothingShown
  <2>3. ReadInv' /\ SavingInv'
    BY <2>1 DEF ReadInv, SavingInv, Names
  <2>4. asked["correction"].answer = "failed" => shown.base = known[Mine[Correction]]
    BY <2>1 DEF SavingInv, EditingInv
  <2>5. EditingInv'
    BY <2>1, <2>2, <2>4 DEF EditingInv
  <2> QED
    BY <2>1, <2>3, <2>5 DEF OthersSeeNothing
<1>10. CASE PreviewAnswered
  <2>1. /\ owner /\ read' = read /\ asked'["correction"].kind = "none"
        /\ asked["correction"].kind = "preview" /\ asked["correction"].answer # "none"
    BY <1>10 DEF PreviewAnswered, NoAsk
  <2>2. ~shown'.editing \/ shown' = shown
    BY <1>10 DEF PreviewAnswered, NothingShown
  <2>3. ReadInv' /\ SavingInv'
    BY <2>1 DEF ReadInv, SavingInv, Names
  <2>4. EditingInv'
    BY <2>1, <2>2 DEF EditingInv
  <2> QED
    BY <2>1, <2>3, <2>4 DEF OthersSeeNothing
<1> QED
  BY <1>6, <1>7, <1>8, <1>9, <1>10

\* Another account sees none of it, and is not shown what still comes.
LEMMA SwitchKeeps ==
  ASSUME TabInv, SwitchAccount
  PROVE  TabOwnInv'
<1> USE ConstantTypes DEF TabInv, TabTypeOK, TabOwnInv
<1>1. UNCHANGED <<present, saved, known, sent, pc, job, asked>> /\ ~owner'
  BY DEF SwitchAccount, correctionVars, vars
<1>2. draft'.text = Nothing /\ shown'.text = Nothing
  BY DEF SwitchAccount, NoDraft, NothingShown
<1>3. \A f \in Forms : /\ ~read'[f].active /\ read'[f].stage = read[f].stage
                       /\ read'[f].version = read[f].version /\ read'[f].text = read[f].text
                       /\ read'[f].channel = read[f].channel
  BY DEF SwitchAccount, Reads
<1>4. ReadInv'
  BY <1>1, <1>3 DEF ReadInv, Names
<1>5. SavingInv'
  BY <1>1 DEF SavingInv, Names
<1>6. DraftInv' /\ EditingInv'
  BY <1>1 DEF DraftInv, DraftIsReady, EditingInv
<1> QED
  BY <1>2, <1>4, <1>5, <1>6 DEF OthersSeeNothing

\* So do all of the tab's own steps.
LEMMA LocalKeeps ==
  ASSUME TabInv, LocalStep
  PROVE  TabOwnInv'
  BY ReadsKeep, DraftKeeps, PreparedKeeps, CorrectionKeeps, SwitchKeeps DEF LocalStep

-----------------------------------------------------------------------------
(* The steps that the saved texts take part in *)

\* What the page shows still names its texts, whatever is saved.
LEMMA ShownKeeps ==
  ASSUME TabInv, [CorrectionsNext]_correctionVars, UNCHANGED <<owner, draft, shown, read>>
  PROVE  /\ ReadInv' /\ OthersSeeNothing'
         /\ (DraftIsReady /\ ~draft.dirty /\ draft.text # Nothing =>
               Names(draft.version, draft.text, draft.channel))'
<1> DEFINE Stays(version, text, ch) ==
             /\ version >= 1
             /\ present' => version <= saved'[ch].version
             /\ version = saved'[ch].version => text = saved'[ch].text
<1>1. ASSUME NEW version \in Nat, NEW text, NEW ch \in Channels, Names(version, text, ch)
      PROVE  Stays(version, text, ch)
  <2>1. Names(version, text, ch)'
    BY <1>1, NamesStay DEF TabInv
  <2> QED
    BY <2>1 DEF Names
<1>2. \A f \in Forms : read[f].stage = "answered" /\ read[f].text # Nothing =>
        Stays(read[f].version, read[f].text, read[f].channel)
  <2> SUFFICES ASSUME NEW f \in Forms, read[f].stage = "answered", read[f].text # Nothing
               PROVE  Stays(read[f].version, read[f].text, read[f].channel)
    OBVIOUS
  <2>1. read[f].version \in Nat /\ read[f].channel \in Channels
    BY DEF TabInv, TabTypeOK, Reads
  <2>2. Names(read[f].version, read[f].text, read[f].channel)
    BY DEF TabInv, TabOwnInv, ReadInv
  <2> HIDE DEF Stays
  <2> QED
    BY <1>1, <2>1, <2>2
<1>3. DraftIsReady /\ ~draft.dirty /\ draft.text # Nothing =>
        Stays(draft.version, draft.text, draft.channel)
  <2> SUFFICES ASSUME DraftIsReady, ~draft.dirty, draft.text # Nothing
               PROVE  Stays(draft.version, draft.text, draft.channel)
    OBVIOUS
  <2>1. draft.version \in Nat /\ draft.channel \in Channels
    BY DEF TabInv, TabTypeOK, Drafts
  <2>2. Names(draft.version, draft.text, draft.channel)
    BY DEF TabInv, TabOwnInv, DraftInv
  <2> HIDE DEF Stays
  <2> QED
    BY <1>1, <2>1, <2>2
<1>4. ReadInv' /\ OthersSeeNothing'
  BY <1>2 DEF TabInv, TabOwnInv, ReadInv, OthersSeeNothing, Names
<1> QED
  BY <1>3, <1>4 DEF DraftIsReady, Names

\* So do the saves that were accepted.
LEMMA SavedStays ==
  ASSUME TabInv, [CorrectionsNext]_correctionVars, NEW f \in Forms,
         asked[f].kind = "save", asked[f].answer = "done"
  PROVE  /\ present' => asked[f].version + 1 <= saved'[asked[f].channel].version
         /\ asked[f].version + 1 = saved'[asked[f].channel].version =>
              asked[f].text = saved'[asked[f].channel].text
<1> DEFINE Stays(version, text, ch) ==
             /\ present' => version <= saved'[ch].version
             /\ version = saved'[ch].version => text = saved'[ch].text
<1>1. ASSUME NEW version \in Nat, NEW text, NEW ch \in Channels, Names(version, text, ch)
      PROVE  Stays(version, text, ch)
  <2>1. Names(version, text, ch)'
    BY <1>1, NamesStay DEF TabInv
  <2> QED
    BY <2>1 DEF Names
<1>2. asked[f].version + 1 \in Nat /\ asked[f].channel \in Channels
  BY DEF TabInv, TabTypeOK, Asks
<1>3. Names(asked[f].version + 1, asked[f].text, asked[f].channel)
  BY DEF TabInv, TabOwnInv, SavingInv
<1>4. Stays(asked[f].version + 1, asked[f].text, asked[f].channel)
  <2> HIDE DEF Stays
  <2> QED
    BY <1>1, <1>2, <1>3
<1> QED
  BY <1>4

\* A step that is not of the tab's editors or their saves keeps what the tab holds.
LEMMA OthersKeep ==
  ASSUME TabInv, [CorrectionsNext]_correctionVars, UNCHANGED <<owner, draft, shown, read>>,
         \A ch \in Channels : /\ known'[Mine[ch]] = known[Mine[ch]]
                              /\ sent'[Mine[ch]] = sent[Mine[ch]]
                              /\ pc'[Mine[ch]] = pc[Mine[ch]],
         asked'["draft"] = asked["draft"],
         \/ asked'["correction"] = asked["correction"]
         \/ asked["correction"].kind # "save" /\ asked'["correction"].kind = "preview",
         job'[MyJob] # NoJob =>
           asked'["correction"].kind = "preview" /\ asked'["correction"].answer = "none"
  PROVE  TabOwnInv'
<1> USE ConstantTypes, MineFacts DEF TabInv, TabTypeOK, TabOwnInv
<1>1. ReadInv' /\ OthersSeeNothing'
  BY ShownKeeps
<1>2. Forms = {"draft", "correction"}
  BY DEF Forms
<1>3. \A f \in Forms : asked'[f].kind = "save" => asked'[f] = asked[f]
  BY <1>2
<1>4. \A f \in Forms : asked[f].channel \in Channels /\ asked[f].version \in Nat
  BY DEF Asks
<1>5. \A f \in Forms : asked[f].kind = "save" /\ asked[f].answer = "done" =>
        /\ present' => asked[f].version + 1 <= saved'[asked[f].channel].version
        /\ asked[f].version + 1 = saved'[asked[f].channel].version =>
             asked[f].text = saved'[asked[f].channel].text
  BY SavedStays
<1>6. SavingInv'
  BY <1>2, <1>3, <1>4, <1>5 DEF SavingInv, Names
<1>7. DraftInv'
  <2>1. draft.channel \in Channels
    BY DEF Drafts
  <2> QED
    BY <2>1, ShownKeeps DEF DraftInv, DraftIsReady, Busy
<1>8. EditingInv'
  BY DEF EditingInv
<1> QED
  BY <1>1, <1>6, <1>7, <1>8

\* The requests for notes, and whatever is not of this tab.
LEMMA OthersStepKeeps ==
  ASSUME TabInv, PreviewNotes \/ ServePreview \/ Others
  PROVE  TabOwnInv'
<1> USE ConstantTypes, MineFacts DEF TabInv, TabTypeOK, TabOwnInv
<1>1. [CorrectionsNext]_correctionVars /\ UNCHANGED <<owner, draft, shown, read>>
  BY TabRefines DEF TextEditorsNext, PreviewNotes, ServePreview, Others, tabVars
<1>3. CASE PreviewNotes
  <2>1. /\ UNCHANGED <<known, sent, pc>>
        /\ asked'["draft"] = asked["draft"]
        /\ asked["correction"].kind = "none"
    BY <1>3 DEF PreviewNotes, BeginPreview, vars, CorrectionIsReady, Busy
  <2>2. asked'["correction"].kind = "preview" /\ asked'["correction"].answer = "none"
    BY <1>3 DEF PreviewNotes, NoAsk
  <2> QED
    BY <1>1, <2>1, <2>2, OthersKeep
<1>4. CASE ServePreview
  <2>1. /\ UNCHANGED <<known, sent, pc>>
        /\ job[MyJob] # NoJob
        /\ job'[MyJob] = NoJob \/ asked' = asked
    BY <1>4
    DEF ServePreview, Generate, LockForPreview, StorePreview, EndPreview, vars, NoJob,
        CorrectionsInv, CorrectionsTypeOK
  <2>2. asked["correction"].kind = "preview" /\ asked["correction"].answer = "none"
    BY <2>1 DEF EditingInv
  <2>3. asked'["draft"] = asked["draft"] /\ asked'["correction"].kind = asked["correction"].kind
    BY <1>4 DEF ServePreview, Answered, Asks
  <2> QED
    BY <1>1, <2>1, <2>2, <2>3, OthersKeep
<1>5. CASE Others
  <2>1. asked' = asked
    BY <1>5 DEF Others, tabVars
  <2>2. ASSUME NEW e \in Editors \ {Mine[ch] : ch \in Channels}, Save(e) \/ Edit(e)
        PROVE  /\ \A ch \in Channels : /\ known'[Mine[ch]] = known[Mine[ch]]
                                       /\ sent'[Mine[ch]] = sent[Mine[ch]]
                                       /\ pc'[Mine[ch]] = pc[Mine[ch]]
               /\ job' = job
    BY <2>2
    DEF Save, Write, Edit, Open, OpenAt, Ask, AskWith, Lock, NotFound, Check, Refuse, Die, Leave,
        CorrectionsInv, SaveInv, TypeOK
  <2>3. ASSUME NEW j \in Jobs \ {MyJob},
               \/ BeginPreview(j) \/ Generate(j) \/ LockForPreview(j)
               \/ StorePreview(j) \/ EndPreview(j)
        PROVE  UNCHANGED <<known, sent, pc>> /\ job'[MyJob] = job[MyJob]
    BY <2>3
    DEF BeginPreview, Generate, LockForPreview, StorePreview, EndPreview, vars,
        CorrectionsInv, CorrectionsTypeOK
  <2>4. DeleteAll => UNCHANGED <<known, sent, pc, job>>
    BY DEF DeleteAll, Delete
  <2>5. /\ \A ch \in Channels : /\ known'[Mine[ch]] = known[Mine[ch]]
                                /\ sent'[Mine[ch]] = sent[Mine[ch]]
                                /\ pc'[Mine[ch]] = pc[Mine[ch]]
        /\ job'[MyJob] = job[MyJob]
    BY <1>5, <2>2, <2>3, <2>4 DEF Others
  <2> QED
    BY <1>1, <2>1, <2>5, OthersKeep DEF EditingInv
<1> QED
  BY <1>3, <1>4, <1>5

\* What an answer shows is what its editor knows.
LEMMA OpenKeeps ==
  ASSUME TabInv, ReceiveDraft \/ BeginEdit
  PROVE  TabOwnInv'
<1> USE ConstantTypes, MineFacts DEF TabInv, TabTypeOK, TabOwnInv
<1>1. UNCHANGED <<present, saved, sent, pc, job, owner, asked>>
  BY DEF ReceiveDraft, BeginEdit, OpenAt
<1>2. Forms = {"draft", "correction"}
  BY DEF Forms
<1> USE <1>1, <1>2
<1>3. CASE ReceiveDraft
  <2>1. /\ owner /\ draft.loading /\ read["draft"].channel = draft.channel
        /\ read["draft"].stage = "answered" /\ shown' = shown
    BY <1>3 DEF ReceiveDraft, Active, ReadInv
  <2>2. asked["draft"].kind = "none" /\ draft.channel \in Channels \ {Correction}
    BY <2>1 DEF DraftInv, Busy, Drafts
  <2>3. known' = [known EXCEPT ![Mine[draft.channel]] = read["draft"].version]
    BY <1>3, <2>1 DEF ReceiveDraft, OpenAt
  <2>4. /\ known'[Mine[draft.channel]] = read["draft"].version
        /\ known'[Mine[Correction]] = known[Mine[Correction]]
    BY <2>2, <2>3 DEF CorrectionsInv, SaveInv, TypeOK
  <2>5. /\ draft'.channel = draft.channel /\ draft'.text = read["draft"].text
        /\ draft'.version = read["draft"].version
        /\ read'["draft"].stage = "none" /\ read'["correction"] = read["correction"]
    BY <1>3 DEF ReceiveDraft, Drafts, NoRead
  <2>6. ReadInv'
    BY <2>1, <2>5 DEF ReadInv, Names
  <2>7. SavingInv'
    BY <2>2, <2>4 DEF SavingInv, Names
  <2>8. draft'.text # Nothing => Names(draft.version, draft.text, draft.channel)'
    BY <2>1, <2>5 DEF ReadInv, Names
  <2>9. DraftInv'
    BY <2>2, <2>4, <2>5, <2>8 DEF DraftInv, DraftIsReady, Busy
  <2>10. EditingInv'
    BY <2>1, <2>4 DEF EditingInv
  <2> QED
    BY <2>1, <2>6, <2>7, <2>9, <2>10 DEF OthersSeeNothing
<1>4. CASE BeginEdit
  <2>1. /\ owner /\ asked["correction"].kind = "none" /\ draft' = draft /\ read' = read
        /\ draft.channel \in Channels \ {Correction}
    BY <1>4 DEF BeginEdit, CorrectionIsReady, Busy, Drafts
  <2>2. known' = [known EXCEPT ![Mine[Correction]] = shown.version]
    BY <1>4 DEF BeginEdit, OpenAt
  <2>3. /\ known'[Mine[Correction]] = shown.version
        /\ \A ch \in Channels \ {Correction} : known'[Mine[ch]] = known[Mine[ch]]
    BY <2>2 DEF CorrectionsInv, SaveInv, TypeOK
  <2>4. shown'.base = shown.version
    BY <1>4 DEF BeginEdit, Views
  <2>5. asked["draft"].channel \in Channels
    BY DEF Asks
  <2>6. ReadInv'
    BY <2>1 DEF ReadInv, Names
  <2>7. SavingInv'
    BY <2>1, <2>3, <2>5 DEF SavingInv, Names
  <2>8. DraftInv'
    BY <2>1, <2>3 DEF DraftInv, DraftIsReady, Busy, Names
  <2>9. EditingInv'
    BY <2>1, <2>3, <2>4 DEF EditingInv
  <2> QED
    BY <2>1, <2>6, <2>7, <2>8, <2>9 DEF OthersSeeNothing
<1> QED
  BY <1>3, <1>4

\* A save is sent with the version that its editor knows.
LEMMA AskKeeps ==
  ASSUME TabInv, SaveDraft \/ \E text \in Texts : SaveCorrection(text)
  PROVE  TabOwnInv'
<1> USE ConstantTypes, MineFacts DEF TabInv, TabTypeOK, TabOwnInv
<1>1. UNCHANGED <<present, saved, known, job, owner, draft, shown, read>>
  BY DEF SaveDraft, SaveCorrection, AskWith
<1>2. Forms = {"draft", "correction"}
  BY DEF Forms
<1> USE <1>1, <1>2
<1>3. ReadInv' /\ OthersSeeNothing'
  BY DEF ReadInv, Names, OthersSeeNothing
<1>4. /\ draft.channel \in Channels \ {Correction}
      /\ asked["draft"].channel \in Channels /\ asked["correction"].channel \in Channels
  BY DEF Drafts, Asks
<1>5. CASE SaveDraft
  <2>1. owner /\ DraftIsReady /\ asked["draft"].kind = "none"
    BY <1>5 DEF SaveDraft, DraftIsReady, Busy
  <2>2. /\ asked'["correction"] = asked["correction"]
        /\ asked'["draft"].kind = "save" /\ asked'["draft"].channel = draft.channel
        /\ asked'["draft"].version = draft.version /\ asked'["draft"].text = draft.text
        /\ asked'["draft"].answer = "none"
    BY <1>5 DEF SaveDraft
  <2>3. /\ sent' = [sent EXCEPT ![Mine[draft.channel]] = draft.version]
        /\ pc' = [pc EXCEPT ![Mine[draft.channel]] = "waiting"]
    BY <1>5 DEF SaveDraft, AskWith
  <2>4. /\ sent'[Mine[draft.channel]] = draft.version /\ pc'[Mine[draft.channel]] # "idle"
        /\ sent'[Mine[Correction]] = sent[Mine[Correction]]
        /\ pc'[Mine[Correction]] = pc[Mine[Correction]]
    BY <1>4, <2>3 DEF CorrectionsInv, SaveInv, TypeOK
  <2>5. SavingInv'
    BY <1>4, <2>2, <2>4 DEF SavingInv, Names
  <2>6. DraftInv'
    BY <2>1, <2>2 DEF DraftInv, DraftIsReady, Busy, Names
  <2>7. EditingInv'
    BY <2>2 DEF EditingInv
  <2> QED
    BY <1>3, <2>5, <2>6, <2>7
<1>6. ASSUME NEW text \in Texts, SaveCorrection(text) PROVE TabOwnInv'
  <2>1. owner /\ shown.editing /\ asked["correction"].kind = "none"
    BY <1>6 DEF SaveCorrection, CorrectionIsReady, Busy
  <2>2. /\ asked'["draft"] = asked["draft"]
        /\ asked'["correction"].kind = "save" /\ asked'["correction"].channel = Correction
        /\ asked'["correction"].version = shown.base /\ asked'["correction"].answer = "none"
    BY <1>6 DEF SaveCorrection, BaseVersion
  <2>3. /\ sent' = [sent EXCEPT ![Mine[Correction]] = shown.base]
        /\ pc' = [pc EXCEPT ![Mine[Correction]] = "waiting"]
    BY <1>6 DEF SaveCorrection, AskWith, BaseVersion
  <2>4. /\ sent'[Mine[Correction]] = shown.base /\ pc'[Mine[Correction]] # "idle"
        /\ \A ch \in Channels \ {Correction} : /\ sent'[Mine[ch]] = sent[Mine[ch]]
                                               /\ pc'[Mine[ch]] = pc[Mine[ch]]
    BY <2>3 DEF CorrectionsInv, SaveInv, TypeOK
  <2>5. SavingInv'
    BY <1>4, <2>2, <2>4 DEF SavingInv, Names
  <2>6. DraftInv'
    BY <2>2 DEF DraftInv, DraftIsReady, Busy, Names
  <2>7. EditingInv'
    BY <2>1, <2>2 DEF EditingInv
  <2> QED
    BY <1>3, <2>5, <2>6, <2>7
<1> QED
  BY <1>5, <1>6

\* What a step of the server does for a save of the tab.
LEMMA ServedEditor ==
  ASSUME TabInv, NEW f \in Forms, ServeSave(f)
  PROVE  LET e == Mine[asked[f].channel] IN
         /\ asked[f].answer = "none"
         /\ \A o \in Editors \ {e} : known'[o] = known[o] /\ sent'[o] = sent[o] /\ pc'[o] = pc[o]
         /\ \/ asked' = asked /\ known' = known /\ sent' = sent /\ pc'[e] # "idle"
            \/ asked' = [asked EXCEPT ![f].answer = "failed"] /\ known' = known /\ pc'[e] = "idle"
            \/ /\ asked' = [asked EXCEPT ![f].answer = "done"]
               /\ known'[e] = asked[f].version + 1 /\ pc'[e] = "idle"
               /\ asked[f].version < MaxVersion /\ present'
               /\ saved'[asked[f].channel].version = asked[f].version + 1
               /\ saved'[asked[f].channel].text = asked[f].text
<1> DEFINE e == Mine[asked[f].channel]
<1> USE ConstantTypes, MineFacts DEF TabInv, TabTypeOK, TabOwnInv
<1>1. /\ asked[f].channel \in Channels /\ asked[f].version \in Nat
      /\ asked[f].kind = "save" /\ e \in Editors /\ ChannelOf[e] = asked[f].channel
  BY DEF Asks, ServeSave
<1>2. pc[e] # "idle"
  BY DEF ServeSave, Lock, Check, NotFound, Refuse, Die, Save, Write
<1>3. asked[f].answer = "none" /\ sent[e] = asked[f].version
  BY <1>1, <1>2 DEF SavingInv
<1>4. /\ known \in [Editors -> Nat] /\ sent \in [Editors -> Nat]
      /\ pc \in [Editors -> {"idle", "waiting", "locked", "checked"}]
      /\ saved \in [Channels -> {Empty} \cup [version : Nat \ {0}, text : Texts]]
  BY DEF CorrectionsInv, SaveInv, TypeOK
<1> HIDE DEF e
<1>5. CASE (Lock(e) \/ Check(e)) /\ asked' = asked
  BY <1>1, <1>3, <1>4, <1>5 DEF Lock, Check, e
<1>6. CASE (NotFound(e) \/ Refuse(e) \/ Die(e)) /\ Answered(f, "failed")
  BY <1>1, <1>3, <1>4, <1>6 DEF NotFound, Refuse, Die, Leave, Answered, e
<1>7. CASE /\ Save(e) /\ saved'[ChannelOf[e]].text = asked[f].text
           /\ Answered(f, IF known' = known THEN "failed" ELSE "done")
  <2>1. /\ pc'[e] = "idle"
        /\ \A o \in Editors \ {e} : known'[o] = known[o] /\ sent'[o] = sent[o] /\ pc'[o] = pc[o]
        /\ known' = known \/ known'[e] = asked[f].version + 1
    BY <1>1, <1>3, <1>4, <1>7 DEF Save, Write, Leave
  <2>2. present /\ present' /\ sent[e] = saved[ChannelOf[e]].version
    BY <1>1, <1>7 DEF Save, Write, CorrectionsInv, SaveInv, WriterIsCurrent, Expected, Version
  <2>3. asked[f].version < MaxVersion
    BY <1>1, <1>3, <1>7, <2>2 DEF Save, Write, Version
  <2>4. saved'[asked[f].channel].version = asked[f].version + 1
    BY <1>1, <1>3, <1>4, <1>7 DEF Save, Write
  <2>5. CASE known' = known
    BY <1>3, <1>7, <2>1, <2>5 DEF Answered, e
  <2>6. CASE known' # known
    BY <1>1, <1>3, <1>7, <2>1, <2>2, <2>3, <2>4, <2>6 DEF Answered, e
  <2> QED
    BY <2>5, <2>6
<1> QED
  BY <1>5, <1>6, <1>7 DEF ServeSave, e

\* It keeps what the tab relies on: an accepted save is the text that was sent.
LEMMA ServeKeeps ==
  ASSUME TabInv, NEW f \in Forms, ServeSave(f)
  PROVE  TabOwnInv'
<1> DEFINE e == Mine[asked[f].channel]
<1> USE ConstantTypes, MineFacts DEF TabInv, TabTypeOK, TabOwnInv
<1>1. [CorrectionsNext]_correctionVars /\ UNCHANGED <<owner, draft, shown, read>>
  BY TabRefines DEF TextEditorsNext, ServeSave
<1>2. Forms = {"draft", "correction"}
  BY DEF Forms
<1>3. job' = job /\ asked[f].kind = "save"
  BY DEF ServeSave, Save
<1>4. \A g \in Forms : asked[g].channel \in Channels /\ asked[g].version \in Nat
  BY DEF Asks
<1>5. /\ asked[f].answer = "none" /\ pc[e] # "idle" /\ sent[e] = asked[f].version
      /\ known[e] = asked[f].version
  <2>1. asked[f].answer = "none"
    BY ServedEditor
  <2>2. e \in Editors /\ pc[e] # "idle" /\ sent[e] = asked[f].version
    BY <1>3, <1>4, <2>1 DEF SavingInv
  <2> QED
    BY <2>1, <2>2 DEF CorrectionsInv, SaveInv, SentInv
<1>6. /\ asked'[f].kind = "save" /\ asked'[f].channel = asked[f].channel
      /\ asked'[f].version = asked[f].version /\ asked'[f].text = asked[f].text
      /\ \A g \in Forms \ {f} : asked'[g] = asked[g]
  BY <1>3, ServedEditor DEF Asks
<1>7. \A g \in Forms \ {f} : asked[g].kind = "save" =>
        /\ Mine[asked[g].channel] \in Editors \ {e}
        /\ known'[Mine[asked[g].channel]] = known[Mine[asked[g].channel]]
        /\ sent'[Mine[asked[g].channel]] = sent[Mine[asked[g].channel]]
        /\ pc'[Mine[asked[g].channel]] = pc[Mine[asked[g].channel]]
  <2> SUFFICES ASSUME NEW g \in Forms \ {f}, asked[g].kind = "save"
               PROVE  Mine[asked[g].channel] \in Editors \ {e}
    BY ServedEditor
  <2>1. asked[g].channel # asked[f].channel
    BY <1>2, <1>3 DEF SavingInv
  <2> QED
    BY <1>4, <2>1
<1>8. ReadInv' /\ OthersSeeNothing'
  BY <1>1, ShownKeeps
<1>9. SavingInv'
  <2>1. /\ asked'["draft"].kind # "preview" /\ asked'["correction"].kind # "prepare"
        /\ \A g \in Forms : asked'[g].kind = "save" =>
             (asked'[g].channel = Correction <=> g = "correction")
    BY <1>2, <1>3, <1>6 DEF SavingInv
  <2>2. /\ asked'[f].answer = "none" => pc'[e] # "idle" /\ sent'[e] = asked[f].version
        /\ asked'[f].answer # "none" => pc'[e] = "idle"
        /\ asked'[f].answer = "failed" => known'[e] = asked[f].version
    BY <1>5, ServedEditor DEF Asks
  <2>3. asked'[f].answer = "done" =>
          /\ known'[e] = asked[f].version + 1
          /\ asked[f].version < MaxVersion
          /\ Names(asked[f].version + 1, asked[f].text, asked[f].channel)'
    <3>1. asked[f].version + 1 >= 1
      BY <1>4
    <3> QED
      BY <1>4, <1>5, <1>6, <3>1, ServedEditor DEF Asks, Names
  <2>4. \A g \in Forms \ {f} : asked[g].kind = "save" /\ asked[g].answer = "done" =>
          /\ present' => asked[g].version + 1 <= saved'[asked[g].channel].version
          /\ asked[g].version + 1 = saved'[asked[g].channel].version =>
               asked[g].text = saved'[asked[g].channel].text
    BY <1>1, SavedStays
  <2>5. ASSUME NEW g \in Forms \ {f}, asked[g].kind = "save"
        PROVE  LET o == Mine[asked'[g].channel] IN
               /\ asked'[g].answer = "none" => pc'[o] # "idle" /\ sent'[o] = asked'[g].version
               /\ asked'[g].answer # "none" => pc'[o] = "idle"
               /\ asked'[g].answer = "failed" => known'[o] = asked'[g].version
               /\ asked'[g].answer = "done" =>
                    /\ known'[o] = asked'[g].version + 1
                    /\ asked'[g].version < MaxVersion
                    /\ Names(asked[g].version + 1, asked[g].text, asked[g].channel)'
    <3>1. asked'[g] = asked[g]
      BY <1>6
    <3> QED
      BY <1>4, <1>7, <2>4, <2>5, <3>1 DEF SavingInv, Names
  <2> QED
    BY <1>6, <2>1, <2>2, <2>3, <2>5 DEF SavingInv, Names
<1>10. DraftInv'
  <2>1. draft.channel \in Channels \ {Correction}
    BY DEF Drafts
  <2>2. asked'["draft"].kind = asked["draft"].kind
    BY <1>3, <1>6
  <2>3. /\ asked'["draft"].channel = asked["draft"].channel
        /\ asked'["draft"].version = asked["draft"].version
        /\ asked'["draft"].text = asked["draft"].text
    BY <1>6, <1>2
  <2>4. asked["draft"].kind # "save" => known'[Mine[draft.channel]] = known[Mine[draft.channel]]
    <3> SUFFICES ASSUME asked["draft"].kind # "save"
                 PROVE  Mine[draft.channel] \in Editors \ {e}
      BY ServedEditor
    <3>1. asked[f].channel = Correction
      BY <1>2, <1>3 DEF SavingInv
    <3> QED
      BY <2>1, <3>1
  <2>5. (DraftIsReady /\ ~draft.dirty /\ draft.text # Nothing =>
           Names(draft.version, draft.text, draft.channel))'
    BY <1>1, ShownKeeps
  <2> QED
    BY <1>1, <2>2, <2>3, <2>4, <2>5 DEF DraftInv, DraftIsReady, Busy
<1>11. EditingInv'
  <2>1. /\ asked'["correction"].kind = asked["correction"].kind
        /\ asked'["correction"].version = asked["correction"].version
    BY <1>2, <1>3, <1>6
  <2>2. asked["correction"].kind # "save" =>
          known'[Mine[Correction]] = known[Mine[Correction]]
    <3> SUFFICES ASSUME asked["correction"].kind # "save"
                 PROVE  Mine[Correction] \in Editors \ {e}
      BY ServedEditor
    <3>1. asked[f].channel # Correction
      BY <1>2, <1>3 DEF SavingInv
    <3> QED
      BY <1>4, <3>1
  <2>3. job[MyJob] # NoJob => asked'["correction"] = asked["correction"]
    BY <1>2, <1>3, <1>6 DEF EditingInv
  <2> QED
    BY <1>1, <1>3, <2>1, <2>2, <2>3 DEF EditingInv
<1> QED
  BY <1>8, <1>9, <1>10, <1>11

\* The types of what the other steps change, one case for each of them.
LEMMA ServedTypes ==
  ASSUME TabInv,
         \/ ReceiveDraft \/ SaveDraft \/ BeginEdit \/ PreviewNotes \/ ServePreview \/ Others
         \/ \E text \in Texts : SaveCorrection(text)
         \/ \E f \in Forms : ServeSave(f)
  PROVE  TabTypeOK'
<1> USE ConstantTypes, MineFacts DEF TabInv, TabTypeOK
<1>1. CASE ReceiveDraft
  <2>1. /\ read["draft"].version \in 0..MaxVersion
        /\ read["draft"].text \in Texts \cup {Nothing}
    BY DEF Reads
  <2>2. draft' \in Drafts
    BY <1>1, <2>1 DEF ReceiveDraft, Drafts
  <2> QED
    BY <1>1, <2>2 DEF ReceiveDraft
<1>2. CASE BeginEdit
  <2>1. shown' \in Views
    BY <1>2 DEF BeginEdit, Views
  <2> QED
    BY <1>2, <2>1 DEF BeginEdit
<1>3. CASE SaveDraft
  <2>1. [kind |-> "save", channel |-> draft.channel, version |-> draft.version,
         text |-> draft.text, answer |-> "none"] \in Asks
    BY DEF Drafts, Asks
  <2> QED
    BY <1>3, <2>1 DEF SaveDraft
<1>4. ASSUME NEW text \in Texts, SaveCorrection(text) PROVE TabTypeOK'
  <2>1. [kind |-> "save", channel |-> Correction, version |-> BaseVersion,
         text |-> text, answer |-> "none"] \in Asks
    BY DEF Views, Asks, BaseVersion
  <2> QED
    BY <1>4, <2>1 DEF SaveCorrection
<1>5. ASSUME NEW f \in Forms, ServeSave(f) PROVE TabTypeOK'
  <2>1. UNCHANGED <<owner, draft, shown, read>>
    BY <1>5 DEF ServeSave
  <2>2. \/ asked' = asked
        \/ asked' = [asked EXCEPT ![f].answer = "failed"]
        \/ asked' = [asked EXCEPT ![f].answer = "done"]
    BY <1>5, ServedEditor
  <2>3. asked' \in [Forms -> Asks]
    BY <2>2 DEF Asks
  <2> QED
    BY <2>1, <2>3
<1>6. CASE PreviewNotes
  <2>1. [NoAsk EXCEPT !.kind = "preview", !.version = shown.version] \in Asks
    BY DEF Views, Asks
  <2> QED
    BY <1>6, <2>1 DEF PreviewNotes
<1>7. CASE ServePreview
  <2>1. job[MyJob].source \in Texts \cup {Nothing}
    BY DEF CorrectionsInv, CorrectionsTypeOK
  <2>2. asked' \in [Forms -> Asks]
    BY <1>7, <2>1 DEF ServePreview, Answered, Asks
  <2> QED
    BY <1>7, <2>2 DEF ServePreview
<1>8. CASE Others
  BY <1>8 DEF Others, tabVars
<1> QED
  BY <1>1, <1>2, <1>3, <1>4, <1>5, <1>6, <1>7, <1>8

-----------------------------------------------------------------------------
(* The inductive invariant *)

\* Nothing is saved at first.
LEMMA NothingIsSaved == CorrectionsInit => Bounded
<1> SUFFICES ASSUME CorrectionsInit
             PROVE  Bounded
  OBVIOUS
<1>1. present /\ saved = [ch \in Channels |-> Empty]
  BY DEF CorrectionsInit, Init
<1>2. \A ch \in Channels : saved[ch].version = 0
  BY <1>1 DEF Empty
<1>3. 0 <= MaxVersion
  BY VersionAssumption
<1>4. \A ch \in Channels : saved[ch].version <= MaxVersion
  BY <1>2, <1>3, Zenon
<1> QED
  BY <1>2, <1>4, Zenon DEF Bounded

\* A page that has just been opened waits for its first answers.
LEMMA TabInitial == TextEditorsInit => TabInv
<1> SUFFICES ASSUME TextEditorsInit
             PROVE  TabInv
  OBVIOUS
<1> USE ConstantTypes, MineFacts DEF TextEditorsInit
<1>1. CorrectionsInv
  BY CorrectionsInitial
<1>2. \A f \in Forms : [NoRead EXCEPT !.stage = "sent",
                                      !.channel = IF f = "draft" THEN "email" ELSE Correction] \in Reads
  BY EmailAssumption DEF Reads
<1>3. TabTypeOK
  BY <1>2 DEF TabTypeOK
<1>4. Bounded
  BY NothingIsSaved
<1>5. /\ owner /\ draft.loading /\ draft.channel = "email" /\ draft.text = Nothing
      /\ ~shown.editing /\ shown.text = Nothing /\ job[MyJob] = NoJob
  BY DEF NoDraft, NothingShown, CorrectionsInit
<1>6. \A f \in Forms : read[f].stage = "sent" /\ asked[f].kind = "none"
  BY DEF NoRead, NoAsk
<1>7. read["draft"].channel = "email"
  BY DEF NoRead
<1>8. ReadInv /\ SavingInv /\ DraftInv /\ EditingInv /\ OthersSeeNothing
  BY <1>5, <1>6, <1>7
  DEF ReadInv, SavingInv, DraftInv, EditingInv, OthersSeeNothing, DraftIsReady, Busy
<1> QED
  BY <1>1, <1>3, <1>4, <1>8 DEF TabInv, TabOwnInv

\* A step in which nothing happens changes nothing of it.
LEMMA TabStutters ==
  ASSUME TabInv, UNCHANGED allVars
  PROVE  TabTypeOK' /\ TabOwnInv'
  BY DEF TabInv, TabTypeOK, TabOwnInv, ReadInv, SavingInv, DraftInv, EditingInv, OthersSeeNothing,
         DraftIsReady, Busy, Names, allVars, tabVars, correctionVars, vars

\* Each step keeps it.
LEMMA TabStep == TabInv /\ [TextEditorsNext]_allVars => TabInv'
<1> SUFFICES ASSUME TabInv, [TextEditorsNext]_allVars
             PROVE  TabInv'
  OBVIOUS
<1>1. [CorrectionsNext]_correctionVars
  BY TabRefines
<1>2. CorrectionsInv'
  BY <1>1, CorrectionsStep DEF TabInv
<1>3. Bounded'
  BY <1>1, BoundedStays DEF TabInv
<1>4. TabTypeOK' /\ TabOwnInv'
  <2>1. CASE LocalStep
    BY <2>1, LocalTypes, LocalKeeps
  <2>2. CASE PreviewNotes \/ ServePreview \/ Others
    BY <2>2, ServedTypes, OthersStepKeeps
  <2>3. CASE ReceiveDraft \/ BeginEdit
    BY <2>3, ServedTypes, OpenKeeps
  <2>4. CASE SaveDraft \/ \E text \in Texts : SaveCorrection(text)
    BY <2>4, ServedTypes, AskKeeps
  <2>5. CASE \E f \in Forms : ServeSave(f)
    BY <2>5, ServedTypes, ServeKeeps
  <2>6. CASE UNCHANGED allVars
    BY <2>6, TabStutters
  <2> QED
    BY <2>1, <2>2, <2>3, <2>4, <2>5, <2>6 DEF TextEditorsNext, LocalStep
<1> QED
  BY <1>2, <1>3, <1>4 DEF TabInv

\* It always holds.
LEMMA TabInvHolds == TextEditorsSpec => []TabInv
  BY TabInitial, TabStep, PTL DEF TextEditorsSpec

-----------------------------------------------------------------------------
(* The results *)

\* A tab whose answers come late, and whose account changes, is a user of the saved texts
\* like any other: it sends no version but the one its editor knows
\* (PrepareFollowup.tsx 82-91, TranscriptCorrectionEditor.tsx 117-128).
THEOREM TabUsesTheSaves == TextEditorsSpec => CorrectionsSpec
<1>1. TextEditorsInit => CorrectionsInit
  BY DEF TextEditorsInit
<1>2. TabInv /\ [TextEditorsNext]_allVars => [CorrectionsNext]_correctionVars
  BY TabRefines
<1> QED
  BY <1>1, <1>2, TabInvHolds, PTL DEF TextEditorsSpec, CorrectionsSpec

\* Type correctness of the page.
THEOREM TabTypeCorrect == TextEditorsSpec => []TabTypeOK
  BY TabInvHolds, PTL DEF TabInv

\* What the page shows as saved is the text of its version: edits are not marked as saved by
\* the answer to another request (PrepareFollowup.tsx 82-91, 132-136).
THEOREM CleanDraftsAreSaved == TextEditorsSpec => []CleanIsSaved
<1>1. TabInv => CleanIsSaved
  BY DEF TabInv, TabOwnInv, DraftInv, CleanIsSaved, Names
<1> QED
  BY <1>1, TabInvHolds, PTL

\* The next account is shown nothing that was read for the one before
\* (app/providers.tsx 29-35).
THEOREM NothingIsShared == TextEditorsSpec => []OthersSeeNothing
  BY TabInvHolds, PTL DEF TabInv, TabOwnInv

\* No tab overwrites a text that its user has not seen, with the version it holds
\* (memory/drafts.py 65-73).
THEOREM TabSavesAreOptimistic == TextEditorsSpec => SavesAreOptimistic
  BY TabUsesTheSaves, SavesImplementPromise

\* The notes that are stored for the tab, or for others, are of the saved text
\* (transcription/corrections.py 89-132).
THEOREM TabPreviewMatchesText == TextEditorsSpec => []PreviewIsOfText
  BY TabUsesTheSaves, PreviewMatchesText
=============================================================================
