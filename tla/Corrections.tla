----------------------------- MODULE Corrections -----------------------------
(***************************************************************************)
(* The texts saved beside one COMPLETED conversation, and the notes        *)
(* preview of its corrected transcript (transcription/corrections.py). A   *)
(* preview is generated from the saved correction with no transaction      *)
(* open, and stored if that correction is still the saved one. preview     *)
(* names the text that the stored notes were generated from.               *)
(***************************************************************************)
EXTENDS SavedText

CONSTANT Correction

ASSUME CorrectionAssumption == Correction \in Channels

VARIABLES
  preview, \* transcript_corrections.preview
  job      \* the preview requests: their stage and the version and text they read

correctionVars == <<vars, preview, job>>

NoJob == [stage |-> "idle", version |-> 0, source |-> Nothing]

CorrectionsTypeOK ==
  /\ TypeOK
  /\ preview \in Texts \cup {Nothing}
  /\ job \in [Jobs -> [stage : {"idle", "generating", "generated", "storing"},
                       version : Nat, source : Texts \cup {Nothing}]]

CorrectionsInit ==
  /\ Init
  /\ preview = Nothing
  /\ job = [j \in Jobs |-> NoJob]

-----------------------------------------------------------------------------
(* The requests *)

\* A new correction has no preview yet; a draft has none at all.
Save(e) ==
  /\ Write(e)
  /\ preview' = IF ChannelOf[e] = Correction THEN Nothing ELSE preview
  /\ UNCHANGED job

\* Every other step of an editor.
Edit(e) ==
  /\ Open(e) \/ Ask(e) \/ Lock(e) \/ NotFound(e) \/ Check(e) \/ Refuse(e) \/ Die(e)
  /\ UNCHANGED <<preview, job>>

DeleteAll ==
  /\ Delete
  /\ preview' = Nothing
  /\ UNCHANGED job

\* The request names the saved version. The transaction ends here: the row is unlocked while the notes are generated.
BeginPreview(j) ==
  /\ job[j] = NoJob
  /\ present
  /\ saved[Correction].version > 0
  /\ job' = [job EXCEPT ![j] = [stage |-> "generating",
                                version |-> saved[Correction].version,
                                source |-> saved[Correction].text]]
  /\ UNCHANGED <<vars, preview>>

Generate(j) ==
  /\ job[j].stage = "generating"
  /\ job' = [job EXCEPT ![j].stage = "generated"]
  /\ UNCHANGED <<vars, preview>>

LockForPreview(j) ==
  /\ job[j].stage = "generated"
  /\ present
  /\ MayLock
  /\ lock' = j
  /\ job' = [job EXCEPT ![j].stage = "storing"]
  /\ UNCHANGED <<present, saved, known, sent, pc, preview>>

\* A mutant: the version is not compared again.
AnyVersion(j) == TRUE

SameVersion(j) == saved[Correction].version = job[j].version

StorePreview(j) ==
  /\ job[j].stage = "storing"
  /\ SameVersion(j)
  /\ preview' = job[j].source
  /\ lock' = Nothing
  /\ job' = [job EXCEPT ![j] = NoJob]
  /\ UNCHANGED <<present, saved, known, sent, pc>>

\* The notes cannot be generated (502), the conversation is gone (404), the version has
\* changed (409), or the request dies: nothing is stored.
EndPreview(j) ==
  /\ job[j] # NoJob
  /\ lock' = IF lock = j THEN Nothing ELSE lock
  /\ job' = [job EXCEPT ![j] = NoJob]
  /\ UNCHANGED <<present, saved, known, sent, pc, preview>>

CorrectionsNext ==
  \/ \E e \in Editors : Save(e) \/ Edit(e)
  \/ DeleteAll
  \/ \E j \in Jobs :
       \/ BeginPreview(j) \/ Generate(j) \/ LockForPreview(j)
       \/ StorePreview(j) \/ EndPreview(j)

CorrectionsSpec == CorrectionsInit /\ [][CorrectionsNext]_correctionVars

-----------------------------------------------------------------------------
(* Properties *)

\* The notes that are shown beside a correction were generated from its saved text,
\* although texts are saved and deleted while notes are generated
\* (transcription/corrections.py 114-132).
PreviewIsOfText == preview # Nothing => preview = saved[Correction].text
=============================================================================
