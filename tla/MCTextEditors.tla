--------------------------- MODULE MCTextEditors ---------------------------
(* One tab with its three editors; another on the text draft and on the correction; two
   preview requests. *)
EXTENDS TextEditors, TLC

Theirs == [text |-> "their text", correction |-> "their correction"]
MCMine == [email |-> "my email", text |-> "my text", correction |-> "my correction"]
MCEditors == {MCMine[ch] : ch \in Channels} \cup {Theirs[ch] : ch \in DOMAIN Theirs}
MCChannelOf ==
  [e \in Editors |-> CHOOSE ch \in Channels :
     e = MCMine[ch] \/ (ch \in DOMAIN Theirs /\ e = Theirs[ch])]

Symmetry == Permutations(Texts)

\* Bound: one behaviour is about the drafts or about the correction. The two share the
\* conversation's row and its lock.
Used(channels) ==
  \/ \E ch \in channels : saved[ch] # Empty
  \/ \E e \in Editors : ChannelOf[e] \in channels /\ (known[e] # 0 \/ pc[e] # "idle")
DraftsAreUsed ==
  \/ Used(Channels \ {Correction})
  \/ draft # NoDraft \/ read["draft"].stage # "sent" \/ asked["draft"] # NoAsk
CorrectionIsUsed ==
  \/ Used({Correction})
  \/ shown # NothingShown \/ read["correction"].stage # "sent" \/ asked["correction"] # NoAsk
OneFeature == ~(DraftsAreUsed /\ CorrectionIsUsed)

\* Bound: one preview is under way at a time (the proofs are for any number).
OnePreview == \A j \in Jobs : job[j] # NoJob => j = MyJob \/ job[MyJob] = NoJob
=============================================================================
