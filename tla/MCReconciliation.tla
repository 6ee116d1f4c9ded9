-------------------------- MODULE MCReconciliation --------------------------
\* Instances of Reconciliation for TLC.
EXTENDS Reconciliation, TLC

CONSTANTS a1, a2, a3, x1, x2, x3, x4, anna, bert

\* Two attempts of one conversation, which names two people, and one of another
\* conversation that names the first of them.
TwoOfOne == (a1 :> "c1") @@ (a2 :> "c1") @@ (a3 :> "c2")
AnnaFirst == ("c1" :> <<anna, bert>>) @@ ("c2" :> <<anna>>)

\* An attempt of each of two conversations, which name the same person.
OneEach == (a1 :> "c1") @@ (a2 :> "c2")
AnnaTwice == ("c1" :> <<anna>>) @@ ("c2" :> <<anna>>)

\* The ids that are not used yet are alike.
NewIds == Permutations({x2, x3, x4})

X1IsBert == x1 :> bert
=============================================================================
