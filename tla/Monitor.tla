------------------------------- MODULE Monitor -------------------------------
(***************************************************************************)
(* The operator monitor (monitoring/__main__.py and service.py): one       *)
(* process polls the probes, counts how often each has failed or passed in *)
(* a row, tells a receiver when an incident begins and ends, saves what it *)
(* knows and only then pings its own heartbeat. With a webhook there is an *)
(* incident for each code; in health mode all codes make up a single one,  *)
(* whose state is sent again at every poll. The receiver may refuse an     *)
(* event or its answer may get lost, and the process may die anywhere and  *)
(* start again from the file it saved.                                     *)
(***************************************************************************)
EXTENDS Naturals, Sequences, FiniteSetsExt

CONSTANTS
  Codes,     \* probe codes, numbered in their sorted order from 1
  Modes,     \* the settings looked at, a subset of {"webhook", "health"}
  DependsOn, \* the code that must be healthy for another one to be known
  Threshold, \* monitoring_consecutive_checks
  MaxCrashes \* bound: how often the process dies

Overall == 0 \* operational_health
All == Codes \cup {Overall}

ASSUME CodesAssumption == Codes \subseteq Nat \ {0}
ASSUME ModesAssumption == Modes \subseteq {"webhook", "health"}
ASSUME DependsAssumption == DOMAIN DependsOn \subseteq Codes
ASSUME ThresholdAssumption == Threshold \in Nat \ {0}
ASSUME CrashesAssumption == MaxCrashes \in Nat

VARIABLES
  mode,     \* how the process is configured
  loop,     \* where its loop is
  signals,  \* what the last poll has seen of each code
  todo,     \* incidents the poll has not come to yet
  refused,  \* was an event of this poll not accepted?
  memory,   \* the incidents as the process knows them
  disk,     \* the incidents as the file has them
  receiver, \* the last event the receiver took for each incident
  past,     \* history: the last observations of each incident that were saved
  unsure,   \* history: incidents whose receiver knows more than the process
  crashes

monitorVars ==
  <<mode, loop, signals, todo, refused, memory, disk, receiver, past, unsure, crashes>>

Observations == {"bad", "good", "unknown"}
Incident == [bad : 0 .. Threshold, good : 0 .. Threshold, sent : BOOLEAN]

MonitorTypeOK ==
  /\ mode \in Modes
  /\ loop \in {"collect", "process", "ping", "off"}
  /\ signals \in [Codes -> Observations]
  /\ todo \subseteq All
  /\ refused \in BOOLEAN
  /\ memory \in [All -> Incident]
  /\ disk \in [All -> Incident]
  /\ receiver \in [All -> {"firing", "resolved"}]
  /\ \A i \in All : past[i] \in Seq(Observations) /\ Len(past[i]) <= Threshold
  /\ unsure \subseteq All
  /\ crashes \in 0 .. MaxCrashes

Unseen == [bad |-> 0, good |-> 0, sent |-> FALSE]

MonitorInit ==
  /\ mode \in Modes
  /\ loop = "collect"
  /\ signals = [c \in Codes |-> "unknown"]
  /\ todo = {}
  /\ refused = FALSE
  /\ memory = [i \in All |-> Unseen]
  /\ disk = memory
  /\ receiver = [i \in All |-> "resolved"]
  /\ past = [i \in All |-> <<>>]
  /\ unsure = {}
  /\ crashes = 0

-----------------------------------------------------------------------------
(* Helpers *)

Incidents == IF mode = "webhook" THEN Codes ELSE {Overall}

\* What a poll can see: a probe whose dependency is down is not known, and known if it is up.
Possible ==
  {s \in [Codes -> Observations] :
     \A c \in Codes :
       s[c] = "unknown" <=> c \in DOMAIN DependsOn /\ s[DependsOn[c]] # "good"}

\* The observation of an incident. One failure makes the whole unhealthy, and it is
\* healthy when every probe is known to pass.
Observed(i) ==
  IF i # Overall THEN signals[i]
  ELSE IF \E c \in Codes : signals[c] = "bad" THEN "bad"
  ELSE IF \A c \in Codes : signals[c] = "good" THEN "good"
  ELSE "unknown"

CountedIf(i, o, last) == IF o = Observed(i) THEN Min({last + 1, Threshold}) ELSE 0

CountedKept(i) == \* mutant: unknown leaves the counters alone
  IF Observed(i) = "unknown" THEN memory[i]
  ELSE [memory[i] EXCEPT !.bad = CountedIf(i, "bad", @), !.good = CountedIf(i, "good", @)]

\* Counters stop at the threshold; any other observation resets them.
Counted(i) ==
  [memory[i] EXCEPT !.bad = CountedIf(i, "bad", @), !.good = CountedIf(i, "good", @)]

\* The event that is due, given the counters of this poll: with a webhook when something
\* has changed, in health mode whenever the state is known and while it is not, for as long
\* as a failure that was sent has not recovered.
Due(i) ==
  LET n == Counted(i)
      fails == n.bad >= Threshold
      passes == n.good >= Threshold
  IN  CASE mode = "webhook" /\ fails /\ ~n.sent -> "firing"
        [] mode = "webhook" /\ passes /\ n.sent -> "resolved"
        [] mode = "health" /\ (fails \/ (~passes /\ n.sent)) -> "firing"
        [] mode = "health" /\ passes -> "resolved"
        [] OTHER -> "none"

\* Incidents are gone through in the order of their codes.
IsNext(i) == loop = "process" /\ i \in todo /\ \A j \in todo : i <= j

Last(s) == IF Len(s) > Threshold THEN Tail(s) ELSE s

-----------------------------------------------------------------------------
(* One poll *)

Collect ==
  /\ loop = "collect"
  /\ loop' = "process"
  /\ signals' \in Possible
  /\ todo' = Incidents
  /\ refused' = FALSE
  /\ UNCHANGED <<mode, memory, disk, receiver, past, unsure, crashes>>

Nothing(i) ==
  /\ IsNext(i)
  /\ Due(i) = "none"
  /\ memory' = [memory EXCEPT ![i] = Counted(i)]
  /\ todo' = todo \ {i}
  /\ UNCHANGED <<mode, loop, signals, refused, disk, receiver, past, unsure, crashes>>

\* The receiver takes the event and answers 2xx.
Accepted(i) ==
  /\ IsNext(i)
  /\ Due(i) # "none"
  /\ memory' = [memory EXCEPT ![i] = [Counted(i) EXCEPT !.sent = Due(i) = "firing"]]
  /\ receiver' = [receiver EXCEPT ![i] = Due(i)]
  /\ unsure' = unsure \ {i}
  /\ todo' = todo \ {i}
  /\ UNCHANGED <<mode, loop, signals, refused, disk, past, crashes>>

RejectedAsSent(i) == \* mutant: an event counts as sent whatever the answer is
  /\ IsNext(i)
  /\ Due(i) # "none"
  /\ memory' = [memory EXCEPT ![i] = [Counted(i) EXCEPT !.sent = Due(i) = "firing"]]
  /\ refused' = TRUE
  /\ todo' = todo \ {i}
  /\ UNCHANGED <<mode, loop, signals, disk, receiver, past, unsure, crashes>>

\* It is not reached, answers something else, or is not configured.
Rejected(i) ==
  /\ IsNext(i)
  /\ Due(i) # "none"
  /\ memory' = [memory EXCEPT ![i] = Counted(i)]
  /\ refused' = TRUE
  /\ todo' = todo \ {i}
  /\ UNCHANGED <<mode, loop, signals, disk, receiver, past, unsure, crashes>>

\* It takes the event and the answer is lost.
AnswerLost(i) ==
  /\ IsNext(i)
  /\ Due(i) # "none"
  /\ memory' = [memory EXCEPT ![i] = Counted(i)]
  /\ receiver' = [receiver EXCEPT ![i] = Due(i)]
  /\ unsure' = IF memory[i].sent = (Due(i) = "firing") THEN unsure \ {i} ELSE unsure \cup {i}
  /\ refused' = TRUE
  /\ todo' = todo \ {i}
  /\ UNCHANGED <<mode, loop, signals, disk, past, crashes>>

\* save_state replaces the file.
Save ==
  /\ loop = "process"
  /\ todo = {}
  /\ disk' = memory
  /\ past' = [i \in All |-> IF i \in Incidents THEN Last(Append(past[i], Observed(i)))
                            ELSE past[i]]
  /\ loop' = "ping"
  /\ UNCHANGED <<mode, signals, todo, refused, memory, receiver, unsure, crashes>>

MayPingAlways == TRUE \* mutant: events that were not accepted are overlooked

MayPing == ~refused

\* The heartbeat of the process itself.
Ping ==
  /\ loop = "ping"
  /\ MayPing
  /\ loop' = "collect"
  /\ UNCHANGED <<mode, signals, todo, refused, memory, disk, receiver, past, unsure, crashes>>

Withhold ==
  /\ loop = "ping"
  /\ ~MayPing
  /\ loop' = "collect"
  /\ UNCHANGED <<mode, signals, todo, refused, memory, disk, receiver, past, unsure, crashes>>

-----------------------------------------------------------------------------

\* The process dies, its file cannot be written, or it is stopped.
Crash ==
  /\ loop # "off"
  /\ crashes < MaxCrashes
  /\ crashes' = crashes + 1
  /\ loop' = "off"
  /\ unsure' = {i \in All : (receiver[i] = "firing") # disk[i].sent}
  /\ todo' = {}
  /\ UNCHANGED <<mode, signals, refused, memory, disk, receiver, past>>

\* load_state, which reads the file as it was saved, and proves it writable.
Start ==
  /\ loop = "off"
  /\ memory' = disk
  /\ loop' = "collect"
  /\ UNCHANGED <<mode, signals, todo, refused, disk, receiver, past, unsure, crashes>>

Process(i) == Nothing(i) \/ Accepted(i) \/ Rejected(i) \/ AnswerLost(i)

MonitorNext ==
  \/ Collect
  \/ \E i \in All : Process(i)
  \/ Save
  \/ Ping
  \/ Withhold
  \/ Crash
  \/ Start

MonitorSpec == MonitorInit /\ [][MonitorNext]_monitorVars

\* The loop goes on, the platform restarts the process, and a receiver that is sent an
\* event again and again accepts it at last.
MonitorFairness ==
  /\ WF_monitorVars(Collect \/ (\E i \in All : Process(i)) \/ Save \/ Ping \/ Withhold \/ Start)
  /\ \A i \in All : SF_monitorVars(Accepted(i))

-----------------------------------------------------------------------------

\* The saved observations of an incident end with a full row of o.
InARow(i, o) ==
  /\ Len(past[i]) = Threshold
  /\ \A k \in 1 .. Threshold : past[i][k] = o

\* So do they with what this poll sees.
InARowNow(i, o) ==
  /\ Observed(i) = o
  /\ Len(past[i]) + 1 >= Threshold
  /\ \A k \in 1 .. Threshold - 1 : past[i][Len(past[i]) + 1 - k] = o

\* The receiver is told of a failure only after that many failures in a row, and of a
\* recovery only after as many passes: an unknown probe, a crash or a refused event in
\* between does not shorten the row, and nothing recovers because it is not known.
ChangesAfterStreak ==
  [][\A i \in All \ unsure : receiver'[i] # receiver[i] =>
       InARowNow(i, IF receiver'[i] = "firing" THEN "bad" ELSE "good")]_monitorVars

\* When the process reports that it is well, what it knows is saved, and the receiver knows
\* of every incident that has lasted, and of none that is over; provided it does not know
\* more than the process.
PingMeansTold ==
  [][Ping => /\ disk = memory
             /\ \A i \in Incidents \ unsure :
                  /\ InARow(i, "bad") => receiver[i] = "firing"
                  /\ InARow(i, "good") => receiver[i] = "resolved"]_monitorVars

\* A failure that stays is announced and stays announced, and so is a recovery. In health
\* mode that is so whatever is lost; with a webhook if the receiver never knows more.
EndsAnnounced ==
  \A i \in All :
    (mode = "health" <=> i = Overall) /\ (mode = "health" \/ [](i \notin unsure)) =>
      /\ <>[](Observed(i) = "bad") => <>[](receiver[i] = "firing")
      /\ <>[](Observed(i) = "good") => <>[](receiver[i] = "resolved")
=============================================================================
