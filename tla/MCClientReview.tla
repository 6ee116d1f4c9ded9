--------------------------- MODULE MCClientReview ---------------------------
\* Instances of ClientReview for TLC.
EXTENDS ClientReview, TLC

CONSTANT task1

\* The task comes from the first recording; the second may be its evidence.
FromFirst == task1 :> 1
=============================================================================
