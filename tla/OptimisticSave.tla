--------------------------- MODULE OptimisticSave ---------------------------
(***************************************************************************)
(* What the saved drafts and corrections of a conversation promise their   *)
(* editors: a save replaces exactly the version its editor has seen, or    *)
(* nothing. Editors are browser tabs; each works on one channel.           *)
(***************************************************************************)
EXTENDS Naturals

CONSTANTS Channels, Editors, ChannelOf, Texts, MaxVersion

Nothing == "nothing"
Empty == [version |-> 0, text |-> Nothing]

VARIABLES
  present, \* is the conversation there?
  saved,   \* the saved text of each channel and its version
  known    \* the version each editor has last seen

vars == <<present, saved, known>>

Init ==
  /\ present = TRUE
  /\ saved = [ch \in Channels |-> Empty]
  /\ known = [e \in Editors |-> 0]

\* What an editor sees may have been replaced since it was read.
Open(e, version) ==
  /\ present => version <= saved[ChannelOf[e]].version
  /\ known' = [known EXCEPT ![e] = version]
  /\ UNCHANGED <<present, saved>>

\* The editor may not learn that its save was accepted.
Save(e, text) ==
  LET ch == ChannelOf[e] IN
  /\ present
  /\ saved[ch].version < MaxVersion
  /\ known[e] = saved[ch].version
  /\ saved' = [saved EXCEPT ![ch] = [version |-> known[e] + 1, text |-> text]]
  /\ known' \in {known, [known EXCEPT ![e] = @ + 1]}
  /\ UNCHANGED present

Delete ==
  /\ present
  /\ present' = FALSE
  /\ saved' = [ch \in Channels |-> Empty]
  /\ UNCHANGED known

Next ==
  \/ \E e \in Editors, version \in 0..MaxVersion : Open(e, version)
  \/ \E e \in Editors, text \in Texts : Save(e, text)
  \/ Delete

Spec == Init /\ [][Next]_vars
=============================================================================
