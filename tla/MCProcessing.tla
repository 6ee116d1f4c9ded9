---------------------------- MODULE MCProcessing ----------------------------
(* Instances of Processing for TLC. *)
EXTENDS Processing, TLC

\* Retry requests are interchangeable (safety runs only).
Symmetry == Permutations(Requests)
=============================================================================
