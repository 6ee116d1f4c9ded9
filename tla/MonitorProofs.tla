---------------------------- MODULE MonitorProofs ----------------------------
(***************************************************************************)
(* What holds of Monitor for any probes, dependencies, threshold and       *)
(* number of crashes, in both settings.                                    *)
(*                                                                         *)
(* The argument: a counter is the length of the row of its observations    *)
(* that ends what was saved and what the poll under way has seen (Counts), *)
(* no more and no less, up to the threshold; and unless the receiver has   *)
(* taken an event whose answer was lost, it knows what the process knows   *)
(* (InStep).                                                               *)
(***************************************************************************)
EXTENDS Monitor, TLAPS

Row == Seq(Observations)

\* The last n of what was observed are o.
EndsWith(s, o, n) == n <= Len(s) /\ \A k \in 1 .. n : s[Len(s) + 1 - k] = o

\* A counter has counted the o that s ends with, up to the threshold.
Counts(count, s, o) == \A n \in 0 .. Threshold : EndsWith(s, o, n) <=> n <= count

\* What has been counted of an incident.
Seen(i) ==
  IF loop = "process" /\ i \in Incidents \ todo THEN Last(Append(past[i], Observed(i))) ELSE past[i]

CountInv ==
  /\ \A i \in All : Counts(disk[i].bad, past[i], "bad") /\ Counts(disk[i].good, past[i], "good")
  /\ loop # "off" =>
       \A i \in All : Counts(memory[i].bad, Seen(i), "bad") /\ Counts(memory[i].good, Seen(i), "good")

\* The receiver knows what the process does, or will when it has started again.
InStep ==
  \A i \in All \ unsure :
    (receiver[i] = "firing") = (IF loop = "off" THEN disk[i].sent ELSE memory[i].sent)

\* What this poll has come to and was not refused, the receiver knows.
ToldInv ==
  \A i \in Incidents \ (unsure \cup todo) :
    loop \in {"process", "ping"} /\ ~refused =>
      /\ memory[i].bad >= Threshold => receiver[i] = "firing"
      /\ memory[i].good >= Threshold => receiver[i] = "resolved"

MonitorInv ==
  /\ MonitorTypeOK
  /\ todo \subseteq Incidents
  /\ loop # "process" => todo = {}
  /\ loop = "ping" => disk = memory
  /\ CountInv
  /\ InStep
  /\ ToldInv

-----------------------------------------------------------------------------
(* Rows and counters *)

LEMMA MinOfTwo == ASSUME NEW a \in Nat, NEW b \in Nat PROVE Min({a, b}) = IF a <= b THEN a ELSE b
<1>1. \E x \in {a, b} : \A y \in {a, b} : x <= y
  OBVIOUS
<1>2. Min({a, b}) \in {a, b} /\ \A y \in {a, b} : Min({a, b}) <= y
  BY <1>1 DEF Min
<1> QED
  BY <1>2

\* A row with one observation more, of which the last are kept.
LEMMA LastEnds ==
  ASSUME NEW s \in Row, Len(s) <= Threshold, NEW x \in Observations
  PROVE  /\ Last(Append(s, x)) \in Row /\ Len(Last(Append(s, x))) <= Threshold
         /\ \A o, n : n \in 1 .. Threshold =>
              (EndsWith(Last(Append(s, x)), o, n) <=> x = o /\ EndsWith(s, o, n - 1))
<1> USE ThresholdAssumption
<1> DEFINE a == Append(s, x)
           l == Last(a)
<1>1. /\ a \in Row /\ Len(s) \in Nat /\ Len(a) = Len(s) + 1 /\ a[Len(s) + 1] = x
      /\ \A k \in 1 .. Len(s) : a[k] = s[k]
  BY DEF Row
<1>2. /\ l \in Row /\ Len(l) \in Nat /\ Len(l) <= Threshold /\ Len(l) >= 1
      /\ Len(l) = Len(a) \/ Len(l) = Len(a) - 1
      /\ Len(l) = Len(a) - 1 => Len(l) = Threshold
      /\ \A k \in 0 .. Len(l) - 1 : l[Len(l) - k] = a[Len(a) - k]
  <2>1. CASE Len(a) > Threshold
    <3>1. l = Tail(a) /\ a # <<>>
      BY <1>1, <2>1 DEF Last
    <3>2. Len(l) = Len(a) - 1 /\ l \in Row /\ \A k \in 1 .. Len(l) : l[k] = a[k + 1]
      BY <1>1, <3>1 DEF Row
    <3> HIDE DEF a, l
    <3> QED
      BY <1>1, <2>1, <3>2
  <2>2. CASE ~(Len(a) > Threshold)
    <3>1. l = a
      BY <2>2 DEF Last
    <3> HIDE DEF a, l
    <3> QED
      BY <1>1, <2>2, <3>1
  <2> QED
    BY <2>1, <2>2
<1>3. ASSUME NEW o, NEW n \in 1 .. Threshold
      PROVE  EndsWith(l, o, n) <=> x = o /\ EndsWith(s, o, n - 1)
  <2> HIDE DEF a, l
  <2>1. n \in Nat /\ n <= Len(l) <=> n - 1 <= Len(s)
    BY <1>1, <1>2
  <2>2. ASSUME n <= Len(l) PROVE \A k \in 1 .. n : l[Len(l) + 1 - k] = a[Len(a) + 1 - k]
    <3> SUFFICES ASSUME NEW k \in 1 .. n PROVE l[Len(l) + 1 - k] = a[Len(a) + 1 - k]
      OBVIOUS
    <3>1. k - 1 \in 0 .. Len(l) - 1 /\ Len(l) - (k - 1) = Len(l) + 1 - k /\ Len(a) - (k - 1) = Len(a) + 1 - k
      BY <1>1, <1>2, <2>2
    <3> QED
      BY <1>2, <3>1
  <2>3. ASSUME EndsWith(l, o, n) PROVE x = o /\ EndsWith(s, o, n - 1)
    <3>1. n <= Len(l) /\ \A k \in 1 .. n : a[Len(a) + 1 - k] = o
      BY <2>2, <2>3 DEF EndsWith
    <3>2. a[Len(a) + 1 - 1] = o
      BY <3>1
    <3>3. x = o
      BY <1>1, <3>2
    <3>4. ASSUME NEW k \in 1 .. n - 1 PROVE s[Len(s) + 1 - k] = o
      <4>1. k + 1 \in 1 .. n /\ Len(a) + 1 - (k + 1) = Len(s) + 1 - k /\ Len(s) + 1 - k \in 1 .. Len(s)
        BY <1>1, <1>2, <3>1
      <4> QED
        BY <1>1, <3>1, <4>1
    <3> QED
      BY <2>1, <3>1, <3>3, <3>4 DEF EndsWith
  <2>4. ASSUME x = o, EndsWith(s, o, n - 1) PROVE EndsWith(l, o, n)
    <3>1. n <= Len(l)
      BY <2>1, <2>4 DEF EndsWith
    <3>2. ASSUME NEW k \in 1 .. n PROVE a[Len(a) + 1 - k] = o
      <4>1. CASE k = 1
        BY <1>1, <2>4, <4>1
      <4>2. CASE k > 1
        <5>1. /\ k - 1 \in 1 .. n - 1 /\ Len(s) + 1 - (k - 1) = Len(a) + 1 - k
              /\ Len(a) + 1 - k \in 1 .. Len(s)
          BY <1>1, <1>2, <3>1, <4>2
        <5> QED
          BY <1>1, <2>4, <5>1 DEF EndsWith
      <4> QED
        BY <4>1, <4>2
    <3> QED
      BY <2>2, <3>1, <3>2 DEF EndsWith
  <2> QED
    BY <2>3, <2>4
<1> QED
  BY <1>2, <1>3

\* So the counter counts on.
LEMMA CountsOn ==
  ASSUME NEW s \in Row, Len(s) <= Threshold, NEW x \in Observations, NEW o,
         NEW count \in 0 .. Threshold, Counts(count, s, o)
  PROVE  Counts(IF x = o THEN Min({count + 1, Threshold}) ELSE 0, Last(Append(s, x)), o)
<1> USE ThresholdAssumption
<1> DEFINE c == IF x = o THEN Min({count + 1, Threshold}) ELSE 0
<1>1. c = IF x = o THEN IF count + 1 <= Threshold THEN count + 1 ELSE Threshold ELSE 0
  BY MinOfTwo
<1> SUFFICES ASSUME NEW n \in 0 .. Threshold PROVE EndsWith(Last(Append(s, x)), o, n) <=> n <= c
  BY DEF Counts
<1>2. CASE n = 0
  <2>1. Last(Append(s, x)) \in Row
    BY LastEnds
  <2>2. Len(Last(Append(s, x))) \in Nat
    BY <2>1 DEF Row
  <2> QED
    BY <1>1, <1>2, <2>2 DEF EndsWith
<1>3. CASE n # 0
  <2>1. EndsWith(Last(Append(s, x)), o, n) <=> x = o /\ EndsWith(s, o, n - 1)
    BY <1>3, LastEnds
  <2>2. EndsWith(s, o, n - 1) <=> n - 1 <= count
    BY <1>3 DEF Counts
  <2> QED
    BY <1>1, <1>3, <2>1, <2>2
<1> QED
  BY <1>2, <1>3


-----------------------------------------------------------------------------
(* What a poll makes of an incident *)

LEMMA CodesAreNot == Overall \notin Codes /\ Incidents \subseteq All
BY CodesAssumption DEF Overall, Incidents, All

LEMMA ObservedType ==
  ASSUME MonitorTypeOK, NEW i \in All
  PROVE  Observed(i) \in Observations
BY CodesAreNot DEF MonitorTypeOK, Observed, All, Observations

\* Its counters, and that one of them is zero.
LEMMA CountedType ==
  ASSUME MonitorTypeOK, NEW i \in All
  PROVE  /\ Counted(i) \in Incident /\ Counted(i).sent = memory[i].sent
         /\ Counted(i).bad = (IF Observed(i) = "bad" THEN Min({memory[i].bad + 1, Threshold}) ELSE 0)
         /\ Counted(i).good = (IF Observed(i) = "good" THEN Min({memory[i].good + 1, Threshold}) ELSE 0)
         /\ ~(Counted(i).bad >= Threshold /\ Counted(i).good >= Threshold)
<1> USE ThresholdAssumption
<1>1. memory[i] \in Incident
  BY DEF MonitorTypeOK
<1>2. /\ Min({memory[i].bad + 1, Threshold}) \in 0 .. Threshold
      /\ Min({memory[i].good + 1, Threshold}) \in 0 .. Threshold
  BY <1>1, MinOfTwo DEF Incident
<1>3. /\ Counted(i).sent = memory[i].sent
      /\ Counted(i).bad = (IF Observed(i) = "bad" THEN Min({memory[i].bad + 1, Threshold}) ELSE 0)
      /\ Counted(i).good = (IF Observed(i) = "good" THEN Min({memory[i].good + 1, Threshold}) ELSE 0)
  BY <1>1 DEF Counted, CountedIf, Incident
<1>4. Counted(i) \in Incident
  <2>1. CountedIf(i, "bad", memory[i].bad) \in 0 .. Threshold /\ CountedIf(i, "good", memory[i].good) \in 0 .. Threshold
    BY <1>2 DEF CountedIf
  <2> QED
    BY <1>1, <2>1 DEF Counted, Incident
<1> QED
  BY <1>3, <1>4

\* The incident that the poll comes to, and what the counters say of it then.
LEMMA CountedCounts ==
  ASSUME MonitorInv, loop = "process", NEW i \in todo
  PROVE  /\ i \in Incidents /\ i \in All
         /\ Counts(Counted(i).bad, Last(Append(past[i], Observed(i))), "bad")
         /\ Counts(Counted(i).good, Last(Append(past[i], Observed(i))), "good")
<1>1. i \in Incidents /\ i \in All
  BY CodesAreNot DEF MonitorInv
<1>2. /\ past[i] \in Row /\ Len(past[i]) <= Threshold /\ memory[i] \in Incident /\ Observed(i) \in Observations
  BY <1>1, ObservedType DEF MonitorInv, MonitorTypeOK, Row
<1>3. Counts(memory[i].bad, past[i], "bad") /\ Counts(memory[i].good, past[i], "good")
  BY <1>1 DEF MonitorInv, CountInv, Seen
<1>4. memory[i].bad \in 0 .. Threshold /\ memory[i].good \in 0 .. Threshold
  BY <1>2 DEF Incident
<1> QED
  BY <1>1, <1>2, <1>3, <1>4, CountsOn, CountedType DEF MonitorInv

\* A step that takes an incident of the poll.
Takes(i) ==
  /\ loop = "process" /\ i \in todo
  /\ todo' = todo \ {i}
  /\ \A j \in All : j # i => memory'[j] = memory[j] /\ receiver'[j] = receiver[j]
  /\ memory'[i].bad = Counted(i).bad /\ memory'[i].good = Counted(i).good
  /\ memory' = [j \in All |-> memory'[j]] /\ receiver' = [j \in All |-> receiver'[j]]
  /\ memory'[i] \in Incident /\ receiver'[i] \in {"firing", "resolved"}
  /\ unsure' \subseteq All /\ \A j \in All : j # i => (j \in unsure' <=> j \in unsure)
  /\ i \notin unsure' => (receiver'[i] = "firing") = memory'[i].sent
  /\ refused' \in BOOLEAN
  /\ \/ refused' = TRUE
     \/ /\ refused' = refused
        /\ i \notin unsure' /\ Counted(i).bad >= Threshold => receiver'[i] = "firing"
        /\ i \notin unsure' /\ Counted(i).good >= Threshold => receiver'[i] = "resolved"
  /\ UNCHANGED <<mode, loop, signals, disk, past, crashes>>

LEMMA TakesKeeps ==
  ASSUME MonitorInv, NEW i \in All, Takes(i)
  PROVE  MonitorInv'
<1>1. MonitorTypeOK'
  <2>1. memory' \in [All -> Incident]
    <3>1. \A j \in All : memory'[j] \in Incident
      BY DEF Takes, MonitorInv, MonitorTypeOK
    <3>2. memory' = [j \in All |-> memory'[j]]
      BY DEF Takes
    <3> QED
      BY <3>1, <3>2
  <2>2. receiver' \in [All -> {"firing", "resolved"}]
    <3>1. \A j \in All : receiver'[j] \in {"firing", "resolved"}
      BY DEF Takes, MonitorInv, MonitorTypeOK
    <3>2. receiver' = [j \in All |-> receiver'[j]]
      BY DEF Takes
    <3> QED
      BY <3>1, <3>2
  <2> QED
    BY <2>1, <2>2 DEF Takes, MonitorInv, MonitorTypeOK
<1>2. Incidents' = Incidents /\ \A j : Observed(j)' = Observed(j)
  BY DEF Takes, Incidents, Observed
<1>3. CountInv'
  <2>1. \A j \in All : Counts(disk[j].bad, past[j], "bad")' /\ Counts(disk[j].good, past[j], "good")'
    BY DEF Takes, MonitorInv, CountInv, Counts, EndsWith
  <2>2. ASSUME NEW j \in All, j # i
        PROVE  Counts(memory[j].bad, Seen(j), "bad")' /\ Counts(memory[j].good, Seen(j), "good")'
    <3>1. Seen(j)' = Seen(j) /\ memory'[j] = memory[j]
      BY <1>2, <2>2 DEF Takes, Seen, Last
    <3> QED
      BY <3>1 DEF Takes, MonitorInv, CountInv, Counts, EndsWith
  <2>3. Counts(memory[i].bad, Seen(i), "bad")' /\ Counts(memory[i].good, Seen(i), "good")'
    <3>1. i \in Incidents /\ Counts(Counted(i).bad, Last(Append(past[i], Observed(i))), "bad")
          /\ Counts(Counted(i).good, Last(Append(past[i], Observed(i))), "good")
      BY CountedCounts DEF Takes
    <3>2. Seen(i)' = Last(Append(past[i], Observed(i)))
      BY <1>2, <3>1 DEF Takes, Seen, Last
    <3> QED
      BY <3>1, <3>2 DEF Takes, Counts, EndsWith
  <2> QED
    BY <2>1, <2>2, <2>3 DEF CountInv
<1>4. InStep'
  BY DEF Takes, MonitorInv, InStep
<1>5. ToldInv'
  <2> SUFFICES ASSUME NEW j \in Incidents \ (unsure' \cup todo'), ~refused'
               PROVE  /\ memory'[j].bad >= Threshold => receiver'[j] = "firing"
                      /\ memory'[j].good >= Threshold => receiver'[j] = "resolved"
    BY <1>2 DEF ToldInv
  <2>1. j \in All /\ ~refused
    BY CodesAreNot DEF Takes
  <2>2. CASE j = i
    BY <2>2 DEF Takes
  <2>3. CASE j # i
    <3>1. j \notin unsure \cup todo /\ memory'[j] = memory[j] /\ receiver'[j] = receiver[j] /\ loop = "process"
      BY <2>1, <2>3 DEF Takes
    <3> QED
      BY <2>1, <3>1 DEF MonitorInv, ToldInv
  <2> QED
    BY <2>2, <2>3
<1> QED
  BY <1>1, <1>2, <1>3, <1>4, <1>5 DEF Takes, MonitorInv


\* What it means that an event is due, or is not.
LEMMA DueMeans ==
  ASSUME MonitorTypeOK, NEW i \in All
  PROVE  /\ Due(i) \in {"none", "firing", "resolved"}
         /\ Due(i) = "firing" => ~(Counted(i).good >= Threshold)
         /\ Due(i) = "resolved" => Counted(i).good >= Threshold /\ ~(Counted(i).bad >= Threshold)
         /\ Due(i) = "none" /\ Counted(i).bad >= Threshold => memory[i].sent
         /\ Due(i) = "none" /\ Counted(i).good >= Threshold => ~memory[i].sent
         /\ Due(i) = "firing" => Counted(i).bad >= Threshold \/ memory[i].sent
<1>1. mode \in {"webhook", "health"}
  BY ModesAssumption DEF MonitorTypeOK
<1>2. /\ Counted(i).sent = memory[i].sent
      /\ ~(Counted(i).bad >= Threshold /\ Counted(i).good >= Threshold)
  BY CountedType
<1> QED
  BY <1>1, <1>2 DEF Due

LEMMA ProcessTakes ==
  ASSUME MonitorInv, NEW i \in All, Process(i)
  PROVE  Takes(i)
<1>1. /\ MonitorTypeOK /\ loop = "process" /\ i \in todo
      /\ memory \in [All -> Incident] /\ receiver \in [All -> {"firing", "resolved"}]
      /\ unsure \subseteq All /\ refused \in BOOLEAN
  BY DEF Process, Nothing, Accepted, Rejected, AnswerLost, IsNext, MonitorInv, MonitorTypeOK
<1>2. Counted(i) \in Incident /\ Counted(i).sent = memory[i].sent
  BY <1>1, CountedType
<1>3. i \notin unsure => (receiver[i] = "firing") = memory[i].sent
  BY <1>1 DEF MonitorInv, InStep
<1>4. PICK c \in Incident : c = Counted(i)
  BY <1>2
<1>5. CASE Nothing(i)
  <2>1. memory' = [memory EXCEPT ![i] = c] /\ Due(i) = "none"
        /\ UNCHANGED <<mode, loop, signals, refused, disk, receiver, past, unsure, crashes>> /\ todo' = todo \ {i}
    BY <1>4, <1>5 DEF Nothing
  <2>2. memory'[i] = c /\ \A j \in All : j # i => memory'[j] = memory[j]
    BY <1>1, <2>1
  <2>3. i \notin unsure => /\ Counted(i).bad >= Threshold => receiver[i] = "firing"
                           /\ Counted(i).good >= Threshold => receiver[i] = "resolved"
    BY <1>1, <1>3, <2>1, DueMeans
  <2> QED
    BY <1>1, <1>2, <1>3, <1>4, <2>1, <2>2, <2>3 DEF Takes
<1>6. CASE Rejected(i)
  <2>1. memory' = [memory EXCEPT ![i] = c] /\ refused' = TRUE /\ todo' = todo \ {i}
        /\ UNCHANGED <<mode, loop, signals, disk, receiver, past, unsure, crashes>>
    BY <1>4, <1>6 DEF Rejected
  <2>2. memory'[i] = c /\ \A j \in All : j # i => memory'[j] = memory[j]
    BY <1>1, <2>1
  <2> QED
    BY <1>1, <1>2, <1>3, <1>4, <2>1, <2>2 DEF Takes
<1>7. CASE AnswerLost(i)
  <2>0. Due(i) # "none" /\ Due(i) \in {"firing", "resolved"}
    BY <1>1, <1>7, DueMeans DEF AnswerLost
  <2>1. memory' = [memory EXCEPT ![i] = c] /\ refused' = TRUE /\ todo' = todo \ {i}
        /\ receiver' = [receiver EXCEPT ![i] = Due(i)]
        /\ unsure' = (IF memory[i].sent = (Due(i) = "firing") THEN unsure \ {i} ELSE unsure \cup {i})
        /\ UNCHANGED <<mode, loop, signals, disk, past, crashes>>
    BY <1>4, <1>7 DEF AnswerLost
  <2>2. /\ memory'[i] = c /\ \A j \in All : j # i => memory'[j] = memory[j]
        /\ receiver'[i] = Due(i) /\ \A j \in All : j # i => receiver'[j] = receiver[j]
        /\ memory' = [j \in All |-> memory'[j]] /\ receiver' = [j \in All |-> receiver'[j]]
    BY <1>1, <2>0, <2>1
  <2>3. ASSUME i \notin unsure' PROVE (receiver'[i] = "firing") = memory'[i].sent
    <3>1. memory[i].sent = (Due(i) = "firing")
      BY <2>1, <2>3
    <3> QED
      BY <1>2, <1>4, <2>2, <3>1
  <2>4. unsure' \subseteq All /\ \A j \in All : j # i => (j \in unsure' <=> j \in unsure)
    BY <1>1, <2>1
  <2>5. refused' = TRUE /\ todo' = todo \ {i} /\ UNCHANGED <<mode, loop, signals, disk, past, crashes>>
    BY <2>1
  <2>6. memory'[i] \in Incident /\ receiver'[i] \in {"firing", "resolved"}
    BY <2>0, <2>2
  <2> QED
    BY <1>1, <1>4, <2>2, <2>3, <2>4, <2>5, <2>6 DEF Takes
<1>8. CASE Accepted(i)
  <2>1. PICK d : d = [c EXCEPT !.sent = Due(i) = "firing"]
    OBVIOUS
  <2>2. d \in Incident /\ d.sent = (Due(i) = "firing") /\ d.bad = c.bad /\ d.good = c.good
    BY <2>1 DEF Incident
  <2>3. memory' = [memory EXCEPT ![i] = d] /\ refused' = refused /\ todo' = todo \ {i}
        /\ receiver' = [receiver EXCEPT ![i] = Due(i)] /\ Due(i) \in {"firing", "resolved"}
        /\ unsure' = unsure \ {i}
        /\ UNCHANGED <<mode, loop, signals, disk, past, crashes>>
    BY <1>1, <1>4, <1>8, <2>1, DueMeans DEF Accepted
  <2>4. /\ memory'[i] = d /\ \A j \in All : j # i => memory'[j] = memory[j]
        /\ receiver'[i] = Due(i) /\ \A j \in All : j # i => receiver'[j] = receiver[j]
        /\ memory' = [j \in All |-> memory'[j]] /\ receiver' = [j \in All |-> receiver'[j]]
    BY <1>1, <2>2, <2>3
  <2>5. /\ Counted(i).bad >= Threshold => receiver'[i] = "firing"
        /\ Counted(i).good >= Threshold => receiver'[i] = "resolved"
    BY <1>1, <2>3, <2>4, DueMeans
  <2> QED
    BY <1>1, <1>2, <1>4, <2>2, <2>3, <2>4, <2>5 DEF Takes
<1> QED
  BY <1>5, <1>6, <1>7, <1>8 DEF Process

-----------------------------------------------------------------------------
(* The other steps *)

LEMMA InvInit == MonitorInit => MonitorInv
<1> SUFFICES ASSUME MonitorInit PROVE MonitorInv
  OBVIOUS
<1> USE ThresholdAssumption, CrashesAssumption, CodesAreNot
<1>1. MonitorTypeOK
  <2>1. Unseen \in Incident
    BY DEF Unseen, Incident
  <2>2. \A i \in All : past[i] \in Seq(Observations) /\ Len(past[i]) <= Threshold
    BY DEF MonitorInit
  <2>3. memory \in [All -> Incident] /\ disk \in [All -> Incident] /\ receiver \in [All -> {"firing", "resolved"}]
    BY <2>1 DEF MonitorInit
  <2>4. signals \in [Codes -> Observations]
    BY DEF MonitorInit, Observations
  <2>5. /\ mode \in Modes /\ loop = "collect" /\ todo = {} /\ refused = FALSE /\ unsure = {}
        /\ crashes \in 0 .. MaxCrashes
    BY DEF MonitorInit
  <2> QED
    BY <2>2, <2>3, <2>4, <2>5 DEF MonitorTypeOK
<1>2. \A o : Counts(0, <<>>, o)
  BY DEF Counts, EndsWith
<1>3. CountInv
  BY <1>2 DEF MonitorInit, CountInv, Seen, Unseen
<1>4. InStep
  BY DEF MonitorInit, InStep, Unseen
<1>5. ToldInv
  BY DEF MonitorInit, ToldInv
<1> QED
  BY <1>1, <1>3, <1>4, <1>5 DEF MonitorInit, MonitorInv

LEMMA CollectKeeps == ASSUME MonitorInv, Collect PROVE MonitorInv'
<1>1. /\ loop = "collect" /\ loop' = "process" /\ todo' = Incidents /\ refused' = FALSE /\ signals' \in [Codes -> Observations]
      /\ UNCHANGED <<mode, memory, disk, receiver, past, unsure, crashes>>
  BY DEF Collect, Possible
<1>2. Incidents' = Incidents
  BY <1>1 DEF Incidents
<1>3. MonitorTypeOK'
  BY <1>1, CodesAreNot DEF MonitorInv, MonitorTypeOK
<1>4. \A i : Seen(i) = past[i] /\ Seen(i)' = past[i]
  BY <1>1, <1>2 DEF Seen
<1>5. CountInv'
  BY <1>1, <1>4 DEF MonitorInv, CountInv
<1>6. InStep' /\ ToldInv'
  BY <1>1, <1>2 DEF MonitorInv, InStep, ToldInv
<1> QED
  BY <1>1, <1>2, <1>3, <1>5, <1>6 DEF MonitorInv

LEMMA SaveKeeps == ASSUME MonitorInv, Save PROVE MonitorInv'
<1>1. /\ loop = "process" /\ todo = {} /\ disk' = memory /\ loop' = "ping"
      /\ past' = [i \in All |-> IF i \in Incidents THEN Last(Append(past[i], Observed(i))) ELSE past[i]]
      /\ UNCHANGED <<mode, signals, todo, refused, memory, receiver, unsure, crashes>>
  BY DEF Save
<1>2. Incidents' = Incidents
  BY <1>1 DEF Incidents
<1>3. \A i \in All : past'[i] = Seen(i) /\ Seen(i)' = Seen(i)
  BY <1>1, <1>2 DEF Seen
<1>4. \A i \in All : past'[i] \in Row /\ Len(past'[i]) <= Threshold
  <2> SUFFICES ASSUME NEW i \in All PROVE past'[i] \in Row /\ Len(past'[i]) <= Threshold
    OBVIOUS
  <2>1. past[i] \in Row /\ Len(past[i]) <= Threshold /\ Observed(i) \in Observations
    BY ObservedType DEF MonitorInv, MonitorTypeOK, Row
  <2> QED
    BY <1>1, <2>1, LastEnds
<1>5. MonitorTypeOK'
  BY <1>1, <1>4 DEF MonitorInv, MonitorTypeOK, Row
<1>6. CountInv'
  BY <1>1, <1>3 DEF MonitorInv, CountInv
<1>7. InStep' /\ ToldInv'
  BY <1>1, <1>2 DEF MonitorInv, InStep, ToldInv
<1> QED
  BY <1>1, <1>2, <1>5, <1>6, <1>7 DEF MonitorInv

LEMMA EndsKeep == ASSUME MonitorInv, Ping \/ Withhold PROVE MonitorInv'
<1>1. /\ loop = "ping" /\ loop' = "collect"
      /\ UNCHANGED <<mode, signals, todo, refused, memory, disk, receiver, past, unsure, crashes>>
  BY DEF Ping, Withhold
<1>2. Incidents' = Incidents /\ \A i : Seen(i) = past[i] /\ Seen(i)' = past[i]
  BY <1>1 DEF Incidents, Seen
<1>3. MonitorTypeOK'
  BY <1>1 DEF MonitorInv, MonitorTypeOK
<1>4. CountInv'
  BY <1>1, <1>2 DEF MonitorInv, CountInv
<1> QED
  BY <1>1, <1>2, <1>3, <1>4 DEF MonitorInv, InStep, ToldInv

LEMMA CrashKeeps == ASSUME MonitorInv, Crash PROVE MonitorInv'
<1>1. /\ loop' = "off" /\ todo' = {} /\ crashes' = crashes + 1 /\ crashes < MaxCrashes
      /\ unsure' = {i \in All : (receiver[i] = "firing") # disk[i].sent}
      /\ UNCHANGED <<mode, signals, refused, memory, disk, receiver, past>>
  BY DEF Crash
<1>2. MonitorTypeOK'
  BY <1>1, CrashesAssumption DEF MonitorInv, MonitorTypeOK
<1>3. CountInv'
  BY <1>1 DEF MonitorInv, CountInv, Counts, EndsWith
<1>4. InStep'
  BY <1>1 DEF InStep
<1> QED
  BY <1>1, <1>2, <1>3, <1>4 DEF MonitorInv, ToldInv

LEMMA StartKeeps == ASSUME MonitorInv, Start PROVE MonitorInv'
<1>1. /\ loop = "off" /\ loop' = "collect" /\ memory' = disk
      /\ UNCHANGED <<mode, signals, todo, refused, disk, receiver, past, unsure, crashes>>
  BY DEF Start
<1>2. MonitorTypeOK'
  BY <1>1 DEF MonitorInv, MonitorTypeOK
<1>3. \A i : Seen(i)' = past[i]
  BY <1>1 DEF Seen
<1>4. CountInv'
  BY <1>1, <1>3 DEF MonitorInv, CountInv
<1> QED
  BY <1>1, <1>2, <1>4 DEF MonitorInv, InStep, ToldInv, Incidents

LEMMA InvStep == MonitorInv /\ [MonitorNext]_monitorVars => MonitorInv'
<1>1. ASSUME MonitorInv, UNCHANGED monitorVars PROVE MonitorInv'
  <2>1. \A i : Seen(i)' = Seen(i)
    BY <1>1 DEF monitorVars, Seen, Incidents, Observed, Last
  <2>2. CountInv /\ UNCHANGED <<disk, past, memory, loop>>
    BY <1>1 DEF monitorVars, MonitorInv
  <2>3. CountInv'
    BY <2>1, <2>2 DEF CountInv, Counts, EndsWith
  <2> QED
    BY <1>1, <2>3 DEF monitorVars, MonitorInv, MonitorTypeOK, InStep, ToldInv, Incidents
<1> QED
  BY <1>1, CollectKeeps, ProcessTakes, TakesKeeps, SaveKeeps, EndsKeep, CrashKeeps, StartKeeps DEF MonitorNext

LEMMA AlwaysInv == MonitorSpec => []MonitorInv
BY InvInit, InvStep, PTL DEF MonitorSpec

\* The process, its file and its receiver stay within their types, and rows and counters
\* within the threshold.
THEOREM MonitorTypeCorrect == MonitorSpec => []MonitorTypeOK
BY AlwaysInv, PTL DEF MonitorInv

-----------------------------------------------------------------------------
(* The receiver *)

\* The receiver is told of a failure after that many failures in a row only, and of a
\* recovery after as many passes, whatever dies or is refused in between
\* (process_signals, process_health_heartbeat).
THEOREM ChangesNeedARow == MonitorSpec => ChangesAfterStreak
<1>1. ASSUME MonitorInv, [MonitorNext]_monitorVars, NEW i \in All \ unsure, receiver'[i] # receiver[i]
      PROVE  InARowNow(i, IF receiver'[i] = "firing" THEN "bad" ELSE "good")
  <2> USE ThresholdAssumption
  <2>1. PICK j \in All : Accepted(j) \/ AnswerLost(j)
    BY <1>1 DEF MonitorNext, Collect, Process, Nothing, Rejected, Save, Ping, Withhold, Crash, Start, monitorVars
  <2>2. i = j
    BY <1>1, <2>1 DEF Accepted, AnswerLost, MonitorInv, MonitorTypeOK
  <2>3. receiver'[i] = Due(i) /\ Due(i) \in {"firing", "resolved"} /\ loop = "process" /\ i \in todo
    <3>1. MonitorTypeOK /\ receiver \in [All -> {"firing", "resolved"}]
      BY <1>1 DEF MonitorInv, MonitorTypeOK
    <3>2. receiver' = [receiver EXCEPT ![i] = Due(i)] /\ Due(i) # "none" /\ IsNext(i)
      BY <2>1, <2>2 DEF Accepted, AnswerLost
    <3>3. Due(i) \in {"none", "firing", "resolved"}
      BY <3>1, DueMeans
    <3> QED
      BY <3>1, <3>2, <3>3 DEF IsNext
  <2>4. (receiver[i] = "firing") = memory[i].sent
    BY <1>1, <2>3 DEF MonitorInv, InStep
  <2>5. /\ Due(i) = "firing" => Counted(i).bad >= Threshold
        /\ Due(i) = "resolved" => Counted(i).good >= Threshold
    BY <1>1, <2>3, <2>4, DueMeans DEF MonitorInv
  <2>6. /\ Counts(Counted(i).bad, Last(Append(past[i], Observed(i))), "bad")
        /\ Counts(Counted(i).good, Last(Append(past[i], Observed(i))), "good")
    BY <1>1, <2>3, CountedCounts
  <2>7. PICK o \in {"bad", "good"} :
          o = (IF receiver'[i] = "firing" THEN "bad" ELSE "good")
          /\ EndsWith(Last(Append(past[i], Observed(i))), o, Threshold)
    BY <2>3, <2>5, <2>6 DEF Counts
  <2>8. past[i] \in Row /\ Len(past[i]) <= Threshold /\ Observed(i) \in Observations
    BY <1>1, ObservedType DEF MonitorInv, MonitorTypeOK, Row
  <2>9. Observed(i) = o /\ EndsWith(past[i], o, Threshold - 1)
    BY <2>7, <2>8, LastEnds
  <2>10. Len(past[i]) \in Nat
    BY <2>8 DEF Row
  <2> QED
    BY <2>7, <2>9, <2>10 DEF EndsWith, InARowNow
<1>2. MonitorInv /\ [MonitorNext]_monitorVars =>
        [\A i \in All \ unsure : receiver'[i] # receiver[i] =>
           InARowNow(i, IF receiver'[i] = "firing" THEN "bad" ELSE "good")]_monitorVars
  BY <1>1
<1> QED
  BY <1>2, AlwaysInv, PTL DEF MonitorSpec, ChangesAfterStreak

\* When the process pings its own heartbeat, what it knows is saved and the receiver knows of
\* every incident that has lasted and of none that is over, unless the receiver knows more
\* (the end of a poll in run).
THEOREM PingsMeanTold == MonitorSpec => PingMeansTold
<1>1. ASSUME MonitorInv, Ping, NEW i \in Incidents \ unsure
      PROVE  /\ InARow(i, "bad") => receiver[i] = "firing"
             /\ InARow(i, "good") => receiver[i] = "resolved"
  <2> USE ThresholdAssumption
  <2>1. loop = "ping" /\ ~refused /\ todo = {} /\ i \in All
    BY <1>1, CodesAreNot DEF Ping, MayPing, MonitorInv
  <2>2. Counts(memory[i].bad, past[i], "bad") /\ Counts(memory[i].good, past[i], "good")
    BY <1>1, <2>1 DEF MonitorInv, CountInv, Seen
  <2>3. ASSUME NEW o, InARow(i, o) PROVE EndsWith(past[i], o, Threshold)
    BY <2>3 DEF InARow, EndsWith
  <2>4. /\ InARow(i, "bad") => memory[i].bad >= Threshold
        /\ InARow(i, "good") => memory[i].good >= Threshold
    <3>1. memory[i] \in Incident
      BY <1>1, <2>1 DEF MonitorInv, MonitorTypeOK
    <3> QED
      BY <2>2, <2>3, <3>1 DEF Counts, Incident
  <2> QED
    BY <1>1, <2>1, <2>4 DEF MonitorInv, ToldInv
<1>2. ASSUME MonitorInv, Ping PROVE disk = memory
  BY <1>2 DEF Ping, MonitorInv
<1>3. MonitorInv /\ [MonitorNext]_monitorVars =>
        [Ping => /\ disk = memory
                 /\ \A i \in Incidents \ unsure :
                      /\ InARow(i, "bad") => receiver[i] = "firing"
                      /\ InARow(i, "good") => receiver[i] = "resolved"]_monitorVars
  BY <1>1, <1>2
<1> QED
  BY <1>3, AlwaysInv, PTL DEF MonitorSpec, PingMeansTold
=============================================================================
