------------------------------ MODULE SavedText ------------------------------
(***************************************************************************)
(* How the texts that users write beside a conversation are saved: its     *)
(* follow-up drafts, one for each channel (memory/drafts.py), and its      *)
(* corrected transcript, which is a channel of its own here. A save locks  *)
(* the conversation's row, reads the version, compares it with the one the *)
(* editor expects, and writes; deletions and other requests compete for    *)
(* the same row. Corrections completes the model with the previews.        *)
(***************************************************************************)
EXTENDS Naturals

CONSTANTS
  Channels,  \* "email", "text" and the correction
  Editors,   \* browser tabs
  ChannelOf, \* the channel each editor works on
  Texts,
  Jobs,      \* other requests that lock the conversation's row
  MaxVersion \* bound: versions of a channel

Nothing == "nothing"
Empty == [version |-> 0, text |-> Nothing]

ASSUME ChannelAssumption == ChannelOf \in [Editors -> Channels]
ASSUME TextAssumption == Nothing \notin Texts
ASSUME LockerAssumption ==
  Editors \cap Jobs = {} /\ Nothing \notin Editors /\ Nothing \notin Jobs
ASSUME VersionAssumption == MaxVersion \in Nat

VARIABLES
  present, \* is the conversation there?
  saved,   \* followup_drafts and transcript_corrections; version 0 without a row
  known,   \* the version of its channel that each editor last received
  sent,    \* the expected_version of each editor's request, while there is one
  pc,      \* how far an editor's request is
  lock     \* who has locked the conversation's row

vars == <<present, saved, known, sent, pc, lock>>

TypeOK ==
  /\ present \in BOOLEAN
  /\ saved \in [Channels -> {Empty} \cup [version : Nat \ {0}, text : Texts]]
  /\ known \in [Editors -> Nat]
  /\ sent \in [Editors -> Nat]
  /\ pc \in [Editors -> {"idle", "waiting", "locked", "checked"}]
  /\ lock \in Editors \cup Jobs \cup {Nothing}

Init ==
  /\ present = TRUE
  /\ saved = [ch \in Channels |-> Empty]
  /\ known = [e \in Editors |-> 0]
  /\ sent = [e \in Editors |-> 0]
  /\ pc = [e \in Editors |-> "idle"]
  /\ lock = Nothing

-----------------------------------------------------------------------------
(* Helpers *)

MayLock == lock = Nothing

Version(e) == saved[ChannelOf[e]].version

\* A mutant: an editor's first save is taken without a comparison.
ExpectedOrFirst(e) == sent[e] \in {0, Version(e)}

Expected(e) == sent[e] = Version(e)

Leave(e) ==
  /\ pc' = [pc EXCEPT ![e] = "idle"]
  /\ sent' = [sent EXCEPT ![e] = 0]
  /\ lock' = IF lock = e THEN Nothing ELSE lock

-----------------------------------------------------------------------------
(* The editors' requests *)

\* An answer to a read may be older than what is saved by now.
OpenAt(e, version) ==
  /\ pc[e] = "idle"
  /\ present => version <= Version(e)
  /\ known' = [known EXCEPT ![e] = version]
  /\ UNCHANGED <<present, saved, sent, pc, lock>>

Open(e) == \E version \in 0..MaxVersion : OpenAt(e, version)

AskWith(e, version) ==
  /\ pc[e] = "idle"
  /\ pc' = [pc EXCEPT ![e] = "waiting"]
  /\ sent' = [sent EXCEPT ![e] = version]
  /\ UNCHANGED <<present, saved, known, lock>>

Ask(e) == AskWith(e, known[e])

Lock(e) ==
  /\ pc[e] = "waiting"
  /\ MayLock
  /\ present
  /\ lock' = e
  /\ pc' = [pc EXCEPT ![e] = "locked"]
  /\ UNCHANGED <<present, saved, known, sent>>

\* 404: there is no row to lock.
NotFound(e) ==
  /\ pc[e] = "waiting"
  /\ ~present
  /\ Leave(e)
  /\ UNCHANGED <<present, saved, known>>

Check(e) ==
  /\ pc[e] = "locked"
  /\ Expected(e)
  /\ pc' = [pc EXCEPT ![e] = "checked"]
  /\ UNCHANGED <<present, saved, known, sent, lock>>

\* 409: the editor keeps its text and what it knows.
Refuse(e) ==
  /\ pc[e] = "locked"
  /\ ~Expected(e)
  /\ Leave(e)
  /\ UNCHANGED <<present, saved, known>>

\* The version written is the one that was compared, plus one. The answer may be lost.
Write(e) ==
  /\ pc[e] = "checked"
  /\ Version(e) < MaxVersion
  /\ \E text \in Texts :
       saved' = [saved EXCEPT ![ChannelOf[e]] = [version |-> sent[e] + 1, text |-> text]]
  /\ known' \in {known, [known EXCEPT ![e] = sent[e] + 1]}
  /\ Leave(e)
  /\ UNCHANGED present

\* A request that dies is rolled back and its lock is released.
Die(e) ==
  /\ pc[e] # "idle"
  /\ Leave(e)
  /\ UNCHANGED <<present, saved, known>>

\* The deletion of the conversation waits for its row and takes the texts along.
Delete ==
  /\ present
  /\ MayLock
  /\ present' = FALSE
  /\ saved' = [ch \in Channels |-> Empty]
  /\ UNCHANGED <<known, sent, pc, lock>>

-----------------------------------------------------------------------------
(* Properties *)

Promise == INSTANCE OptimisticSave

\* Saves of several tabs, lost answers, repeated requests and deletions implement
\* OptimisticSave: nobody overwrites a text that they have not seen
\* (memory/drafts.py 65-73).
SavesAreOptimistic == Promise!Spec

\* The request that is about to write is the only one, and the version that it has
\* compared is still the saved one (memory/drafts.py 66-92).
WriterIsCurrent ==
  \A e \in Editors : pc[e] = "checked" => present /\ lock = e /\ Expected(e)
=============================================================================
