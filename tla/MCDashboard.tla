----------------------------- MODULE MCDashboard -----------------------------
(* Instances of Dashboard for TLC. *)
EXTENDS Dashboard, TLC

CONSTANTS k1, k2, c1, c2, t1

\* The one action item is of the conversation that is there at first.
DashboardConversationOf == t1 :> c1
DashboardTextOf == t1 :> "send it"
=============================================================================
