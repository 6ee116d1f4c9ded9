---------------------------- MODULE MCClientMerge ----------------------------
\* Instances of ClientMerge for TLC.
EXTENDS ClientMerge, TLC

CONSTANTS a1, x1, x2, x3, anna, bert

\* Two clients to begin with.
X1X2 == (x1 :> anna) @@ (x2 :> bert)

\* A single conversation that names the first client.
JustOne == a1 :> "c1"
JustAnna == "c1" :> <<anna>>
=============================================================================
