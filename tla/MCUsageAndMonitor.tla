-------------------------- MODULE MCUsageAndMonitor --------------------------
(***************************************************************************)
(* Instances of Usage and of Monitor for TLC. The allowance and the        *)
(* operator monitor share no state and neither waits for the other, so a   *)
(* run looks at one of them in each behaviour: its part is chosen at the   *)
(* start, takes all the steps, and is what is fair.                        *)
(***************************************************************************)
EXTENDS Usage, Monitor, TLC

CONSTANTS u1, u2, a1, t1, old

\* Either upload fits beside the old recording, both do not.
UsageSize == (u1 :> 2) @@ (u2 :> 2) @@ (old :> 4)

UsageDailyLimit == [uploads |-> 2, audio_seconds |-> 5, ai |-> 1, retries |-> 1]

\* The second probe is known while the first one passes: the database and a count in it.
SecondOnFirst == 2 :> 1

VARIABLE part

PartsInit ==
  /\ Init /\ MonitorInit
  /\ \/ part = "usage" /\ mode = "health" \* where it is of no matter
     \/ part = "monitor"

PartsNext ==
  \/ part = "usage" /\ Next /\ UNCHANGED <<part, monitorVars>>
  \/ part = "monitor" /\ MonitorNext /\ UNCHANGED <<part, vars>>

PartsFairness ==
  \/ part = "usage" /\ Fairness
  \/ part = "monitor" /\ MonitorFairness

PartsSpec == PartsInit /\ [][PartsNext]_<<part, vars, monitorVars>> /\ PartsFairness
=============================================================================
