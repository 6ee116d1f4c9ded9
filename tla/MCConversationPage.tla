------------------------- MODULE MCConversationPage -------------------------
(* The page over an inline upload; one retry is its own, the other another tab's. *)
EXTENDS ConversationPage, MCProcessing
=============================================================================
