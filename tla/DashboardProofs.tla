--------------------------- MODULE DashboardProofs ---------------------------
(***************************************************************************)
(* What holds of Dashboard for any number of clients, conversations and    *)
(* tasks, any day and delay, and any number of writes and changes.         *)
(*                                                                         *)
(* Time only adds days, so whoever is due when the first list is built is  *)
(* due when the others are (DueStays), and a list leaves a client out only *)
(* when it is full (ShortlistIs). A write that the page is told of begins  *)
(* the reading anew, so what is read at last is not older                  *)
(* (ReadInv). What is older than the request is there while it reads, if   *)
(* nothing has taken it away: a link that is still noted was read          *)
(* (LinksInv), and a log of events that lies between two others (Before)   *)
(* has the latest event in it that both have (LatestWasRead).              *)
(***************************************************************************)
EXTENDS Dashboard, FiniteSetTheorems, WellFoundedInduction, TLAPS

-----------------------------------------------------------------------------
(* The types *)

MaybeClient == Clients \cup {NoClient}

Conv == [state: {"new", "stored", "deleted"}, client: MaybeClient, created: Times]

Fetch ==
  [ at : {"idle"} \cup Reading \cup Building, clients : SUBSET Clients,
    linked : [Clients -> SUBSET Times], last : [Clients -> SUBSET Event],
    open : SUBSET (Tasks \X MaybeClient), completed : SUBSET Tasks,
    followups : SUBSET Clients, recommended : SUBSET Clients, due : SUBSET Clients,
    eventsAt : Nat, tasksAt : Nat ]

Page ==
  [ shown : BOOLEAN, recommended : SUBSET Clients, groups : SUBSET SUBSET Tasks,
    completed : SUBSET Tasks, eventsAt : Nat, tasksAt : Nat ]

Follow ==
  [ at : {"idle", "sent", "checked", "committed", "refetching"}, client : MaybeClient,
    action : Actions, since : Nat, commit : Nat ]

Batch == [at : {"idle", "sent", "refetching"}, todo : SUBSET Tasks, commit : Nat]

StoreTyped ==
  /\ now \in Times
  /\ present \subseteq Clients
  /\ conv \in [Conversations -> Conv]
  /\ events \in Seq(Event)
  /\ task \in [Tasks -> {"OPEN", "COMPLETED"}]
  /\ commits \in Nat

PageTyped ==
  /\ page \in Page
  /\ follow \in Follow
  /\ follow.at \in {"sent", "checked", "committed"} => follow.client \in Clients
  /\ batch \in [Mutations -> Batch]
  /\ told \in [events : Nat, tasks : Nat]

FetchTyped ==
  /\ fetch \in Fetch
  /\ since \in [links : [Conversations -> MaybeClient], events : Seq(Event)]

Typed == StoreTyped /\ PageTyped /\ FetchTyped

LEMMA TypedInit == Init => Typed
<1> SUFFICES ASSUME Init PROVE Typed
  OBVIOUS
<1>1. StoreTyped
  <2>1. now \in Times /\ present \subseteq Clients
    BY BoundsAssumption DEF Init, Times
  <2>2. conv \in [Conversations -> Conv]
    BY ClientsAssumption, BoundsAssumption DEF Init, Conv, MaybeClient, Times
  <2>3. events \in Seq(Event) /\ task \in [Tasks -> {"OPEN", "COMPLETED"}] /\ commits \in Nat
    BY DEF Init
  <2> QED
    BY <2>1, <2>2, <2>3 DEF StoreTyped
<1>2. PageTyped
  <2>1. page \in Page
    BY DEF Init, EmptyPage, Page
  <2>2. follow \in Follow /\ follow.at = "idle"
    BY DEF Init, Idle, Follow, MaybeClient, Actions
  <2>3. batch \in [Mutations -> Batch]
    BY DEF Init, NoBatch, Batch
  <2>4. told \in [events : Nat, tasks : Nat]
    BY DEF Init
  <2> QED
    BY <2>1, <2>2, <2>3, <2>4 DEF PageTyped
<1>3. FetchTyped
  <2>1. fetch \in Fetch
    BY DEF Init, Blank, Fetch
  <2>2. since \in [links : [Conversations -> MaybeClient], events : Seq(Event)]
    BY DEF Init, NothingSince, MaybeClient
  <2> QED
    BY <2>1, <2>2 DEF FetchTyped
<1> QED
  BY <1>1, <1>2, <1>3 DEF Typed

\* A sequence that is changed in its elements.
LEMMA Mapped ==
  ASSUME NEW S, NEW s \in Seq(S), NEW f, f = [i \in DOMAIN s |-> f[i]], \A i \in DOMAIN s : f[i] \in S
  PROVE  f \in Seq(S) /\ Len(f) = Len(s) /\ DOMAIN f = DOMAIN s
<1>1. DOMAIN s = 1 .. Len(s) /\ Len(s) \in Nat
  OBVIOUS
<1>2. f \in [1 .. Len(s) -> S]
  BY <1>1
<1> QED
  BY <1>1, <1>2

\* The last of the numbers up to n that are in a set.
LEMMA MaxIsIn ==
  ASSUME NEW n \in Nat, NEW S \in SUBSET (1 .. n), S # {}
  PROVE  Max(S) \in S /\ \A x \in S : x <= Max(S)
<1> DEFINE R == OpToRel(<, Nat)
           T == {n - x : x \in S}
<1>1. T \subseteq Nat /\ T # {}
  OBVIOUS
<1>2. PICK y \in T : \A z \in T : ~ (<<z, y>> \in R)
  <2> HIDE DEF T
  <2> QED
    BY <1>1, NatLessThanWellFounded, WFMin
<1>3. \A z \in T : ~(z < y)
  BY <1>1, <1>2 DEF OpToRel
<1>4. PICK m \in S : y = n - m
  BY <1>2
<1>5. \A x \in S : m >= x
  <2> SUFFICES ASSUME NEW x \in S PROVE m >= x
    OBVIOUS
  <2>1. ~(n - x < n - m)
    BY <1>3, <1>4
  <2> QED
    BY <2>1
<1>6. \E x \in S : \A z \in S : x >= z
  BY <1>5
<1> QED
  BY <1>6 DEF Max

\* A client's latest event.
LEMMA LatestIsOwn ==
  ASSUME NEW log \in Seq(Event), NEW k
  PROVE  \/ LatestEvent(log, k) = {} /\ \A i \in DOMAIN log : log[i].client # k
         \/ \E i \in DOMAIN log :
              /\ LatestEvent(log, k) = {log[i]} /\ log[i].client = k
              /\ \A j \in DOMAIN log : log[j].client = k => j <= i
<1> DEFINE own == {i \in 1 .. Len(log) : log[i].client = k}
<1>1. Len(log) \in Nat /\ DOMAIN log = 1 .. Len(log)
  OBVIOUS
<1>2. LatestEvent(log, k) = IF own = {} THEN {} ELSE {log[Max(own)]}
  BY DEF LatestEvent
<1>3. CASE own = {}
  BY <1>1, <1>2, <1>3
<1>4. CASE own # {}
  <2>1. Max(own) \in own /\ \A x \in own : x <= Max(own)
    BY <1>1, <1>4, MaxIsIn
  <2> QED
    BY <1>1, <1>2, <1>4, <2>1
<1> QED
  BY <1>3, <1>4

LEMMA LatestIsEvent ==
  ASSUME NEW log \in Seq(Event), NEW k
  PROVE  LatestEvent(log, k) \subseteq Event
BY LatestIsOwn

\* More time is no fewer days.
LEMMA DaysGrow ==
  ASSUME NEW a \in Int, NEW b \in Int, a <= b
  PROVE  a \div Day <= b \div Day
BY ClockAssumption

-----------------------------------------------------------------------------
(* The types are kept *)

LEMMA BlankTyped == Blank \in Fetch
BY DEF Blank, Fetch

LEMMA SettledTyped ==
  /\ \A f \in Follow : Released(f, Idle) \in Follow
  /\ \A b \in Batch : Released(b, NoBatch) \in Batch
BY DEF Released, Idle, NoBatch, Follow, Batch, MaybeClient, Actions

LEMMA NothingTyped == NothingSince \in [links : [Conversations -> MaybeClient], events : Seq(Event)]
BY DEF NothingSince, MaybeClient

LEMMA RefetchTyped ==
  ASSUME StoreTyped, Refetch
  PROVE  FetchTyped'
<1>1. fetch' \in Fetch
  BY BlankTyped DEF Refetch, Fetch, Reading
<1>2. [c \in Conversations |-> IF conv[c].state = "stored" THEN conv[c].client ELSE NoClient]
        \in [Conversations -> MaybeClient]
  BY DEF StoreTyped, Conv, MaybeClient
<1>3. since' \in [links : [Conversations -> MaybeClient], events : Seq(Event)]
  BY <1>2 DEF Refetch, StoreTyped
<1> QED
  BY <1>1, <1>3 DEF FetchTyped

LEMMA TickTyped == ASSUME Typed, Tick PROVE Typed'
BY BoundsAssumption DEF Tick, history, Typed, StoreTyped, PageTyped, FetchTyped, Times

\* The links that were there when the request began, without some.
LEMMA UnlinkedTyped ==
  ASSUME FetchTyped, NEW c \in Conversations
  PROVE  [since EXCEPT !.links[c] = NoClient] \in [links : [Conversations -> MaybeClient], events : Seq(Event)]
BY DEF FetchTyped, MaybeClient

LEMMA UploadTyped == ASSUME Typed, NEW c \in Conversations, Upload(c) PROVE Typed'
<1>1. PICK k \in present \cup {NoClient} :
        conv' = [conv EXCEPT ![c] = [state |-> "stored", client |-> k, created |-> now]]
  BY DEF Upload
<1>2. conv' \in [Conversations -> Conv]
  BY <1>1 DEF Typed, StoreTyped, Conv, MaybeClient
<1> QED
  BY <1>2 DEF Typed, StoreTyped, PageTyped, FetchTyped, Upload, Elsewhere

LEMMA LinkTyped == ASSUME Typed, NEW c \in Conversations, Link(c) \/ Delete(c) PROVE Typed'
<1>1. conv' \in [Conversations -> Conv]
  <2>1. CASE Link(c)
    <3>1. PICK k \in (present \cup {NoClient}) \ {conv[c].client} : conv' = [conv EXCEPT ![c].client = k]
      BY <2>1 DEF Link
    <3> QED
      BY <3>1 DEF Typed, StoreTyped, Conv, MaybeClient
  <2>2. CASE Delete(c)
    BY <2>2 DEF Delete, Typed, StoreTyped, Conv, MaybeClient
  <2> QED
    BY <2>1, <2>2
<1>2. since' \in [links : [Conversations -> MaybeClient], events : Seq(Event)]
  BY UnlinkedTyped DEF Link, Delete, Typed
<1> QED
  BY <1>1, <1>2 DEF Typed, StoreTyped, PageTyped, FetchTyped, Link, Delete, Elsewhere

\* What becomes of events in a merge.
LEMMA MergedEvents ==
  ASSUME events \in Seq(Event), NEW from \in Clients, NEW to \in Clients, Merge(from, to)
  PROVE  /\ events' \in Seq(Event) /\ Len(events') = Len(events) /\ DOMAIN events' = DOMAIN events
         /\ \A i \in DOMAIN events :
              /\ events'[i].action = events[i].action /\ events'[i].at = events[i].at
              /\ events'[i].until = events[i].until /\ events'[i].commit = events[i].commit
              /\ events'[i].client = IF events[i].client = from THEN to ELSE events[i].client
<1>1. events' = [i \in DOMAIN events |->
                  IF events[i].client = from THEN [events[i] EXCEPT !.client = to] ELSE events[i]]
  BY DEF Merge
<1>2. ASSUME NEW i \in DOMAIN events
      PROVE  /\ events'[i] \in Event
             /\ events'[i].action = events[i].action /\ events'[i].at = events[i].at
             /\ events'[i].until = events[i].until /\ events'[i].commit = events[i].commit
             /\ events'[i].client = IF events[i].client = from THEN to ELSE events[i].client
  <2>1. events[i] \in Event
    OBVIOUS
  <2>2. events'[i] = IF events[i].client = from THEN [events[i] EXCEPT !.client = to] ELSE events[i]
    BY <1>1
  <2> QED
    BY <2>1, <2>2 DEF Event
<1>3. events' = [i \in DOMAIN events |-> events'[i]]
  BY <1>1
<1>4. events' \in Seq(Event) /\ Len(events') = Len(events) /\ DOMAIN events' = DOMAIN events
  BY <1>2, <1>3, Mapped
<1> QED
  BY <1>2, <1>4

LEMMA MergeTyped == ASSUME Typed, NEW from \in Clients, NEW to \in Clients, Merge(from, to) PROVE Typed'
<1>1. conv' \in [Conversations -> Conv]
  BY DEF Merge, MergeConversations, Typed, StoreTyped, Conv, MaybeClient
<1>2. events' \in Seq(Event)
  BY MergedEvents DEF Typed, StoreTyped
<1>3. since' \in [links : [Conversations -> MaybeClient], events : Seq(Event)]
  <2>1. [c \in Conversations |-> IF conv[c].client = from THEN NoClient ELSE since.links[c]]
          \in [Conversations -> MaybeClient]
    BY DEF Typed, FetchTyped, MaybeClient
  <2> QED
    BY <2>1 DEF Merge, Typed, FetchTyped
<1> QED
  BY <1>1, <1>2, <1>3 DEF Typed, StoreTyped, PageTyped, FetchTyped, Merge, Elsewhere


\* A request reads: nothing but the request changes.
LEMMA FetchingTyped ==
  ASSUME Typed, Fetching, fetch' \in Fetch
  PROVE  Typed'
BY DEF Fetching, store, history, Typed, StoreTyped, PageTyped, FetchTyped

LEMMA ReadClientsTyped == ASSUME Typed, ReadClients PROVE Typed'
<1>1. fetch' \in Fetch
  BY DEF ReadClients, Typed, StoreTyped, FetchTyped, Fetch, Reading
<1> QED
  BY <1>1, FetchingTyped DEF ReadClients

LEMMA ReadLinksTyped == ASSUME Typed, ReadLinks PROVE Typed'
<1>1. [k \in Clients |-> {conv[c].created : c \in Linked(k)}] \in [Clients -> SUBSET Times]
  BY DEF Linked, Typed, StoreTyped, Conv
<1>2. fetch' \in Fetch
  BY <1>1 DEF ReadLinks, Typed, FetchTyped, Fetch, Reading
<1> QED
  BY <1>2, FetchingTyped DEF ReadLinks

LEMMA ReadEventsTyped == ASSUME Typed, ReadEvents PROVE Typed'
<1>1. [k \in Clients |-> LatestEvent(events, k)] \in [Clients -> SUBSET Event]
  BY LatestIsEvent DEF Typed, StoreTyped
<1>2. fetch' \in Fetch
  BY <1>1 DEF ReadEvents, Typed, StoreTyped, FetchTyped, Fetch, Reading
<1> QED
  BY <1>2, FetchingTyped DEF ReadEvents

LEMMA ReadTasksTyped == ASSUME Typed, ReadTasks PROVE Typed'
<1>1. {<<t, conv[ConversationOf[t]].client>> : t \in InStatus("OPEN")} \in SUBSET (Tasks \X MaybeClient)
  BY TasksAssumption DEF InStatus, Typed, StoreTyped, Conv
<1>2. InStatus("COMPLETED") \in SUBSET Tasks
  BY DEF InStatus
<1>3. fetch' \in Fetch
  BY <1>1, <1>2 DEF ReadTasks, Typed, StoreTyped, FetchTyped, Fetch, Building
<1> QED
  BY <1>3, FetchingTyped DEF ReadTasks

\* A list that is cut is full.
LEMMA ShortlistIs ==
  ASSUME NEW S, NEW R \in Shortlists(S)
  PROVE  R \subseteq S /\ (R = S \/ Cardinality(R) = ListLimit)
BY DEF Shortlists, kSubset

LEMMA BuildFollowupsTyped == ASSUME Typed, BuildFollowups PROVE Typed'
<1>1. PICK listed \in Shortlists({k \in fetch.clients : Due(k)}) :
        fetch' = [fetch EXCEPT !.at = "recommendations", !.followups = listed]
  BY DEF BuildFollowups
<1>2. listed \in SUBSET Clients
  BY ShortlistIs DEF Typed, FetchTyped, Fetch
<1>3. fetch' \in Fetch
  BY <1>1, <1>2 DEF Typed, FetchTyped, Fetch, Building
<1> QED
  BY <1>3, NothingTyped DEF BuildFollowups, store, Typed, StoreTyped, PageTyped, FetchTyped

LEMMA BuildRecommendationsTyped == ASSUME Typed, BuildRecommendations PROVE Typed'
<1>1. PICK listed \in MostUrgent({k \in fetch.clients : Recommended(k)}) :
        fetch' = [fetch EXCEPT !.at = "answer", !.recommended = listed,
                   !.due = {k \in fetch.clients : Due(k)},
                   !.clients = {}, !.linked = Blank.linked, !.last = Blank.last]
  BY DEF BuildRecommendations
<1>2. {k \in fetch.clients : Due(k)} \in SUBSET Clients /\ listed \in SUBSET Clients
  BY ShortlistIs DEF MostUrgent, Typed, FetchTyped, Fetch
<1>3. Blank.linked \in [Clients -> SUBSET Times] /\ Blank.last \in [Clients -> SUBSET Event]
  BY BlankTyped DEF Fetch
<1>4. fetch' \in Fetch
  BY <1>1, <1>2, <1>3 DEF Typed, FetchTyped, Fetch, Building
<1> QED
  BY <1>4, FetchingTyped DEF BuildRecommendations

\* Whoever waited for the answer waits no more.
LEMMA ReleasedTyped ==
  ASSUME PageTyped
  PROVE  /\ Released(follow, Idle) \in Follow
         /\ Released(follow, Idle).at \in {"sent", "checked", "committed"} =>
              Released(follow, Idle).client \in Clients
         /\ [m \in Mutations |-> Released(batch[m], NoBatch)] \in [Mutations -> Batch]
<1>1. Released(follow, Idle) \in Follow
  BY SettledTyped DEF PageTyped
<1>2. Released(follow, Idle).at \in {"sent", "checked", "committed"} => Released(follow, Idle).client \in Clients
  BY DEF PageTyped, Released, Idle
<1>3. \A m \in Mutations : Released(batch[m], NoBatch) \in Batch
  BY SettledTyped DEF PageTyped
<1> QED
  BY <1>1, <1>2, <1>3

LEMMA SettleTyped ==
  ASSUME Typed, Settle, page' \in Page
  PROVE  Typed'
<1>1. fetch' \in Fetch
  BY BlankTyped DEF Settle
<1>2. FetchTyped'
  BY <1>1, NothingTyped DEF Settle, FetchTyped
<1>3. StoreTyped'
  BY DEF Settle, store, Typed, StoreTyped
<1>4. PageTyped'
  BY ReleasedTyped DEF Settle, Typed, PageTyped
<1> QED
  BY <1>2, <1>3, <1>4 DEF Typed

LEMMA AnswerTyped == ASSUME Typed, Answer PROVE Typed'
<1>1. Groups \in SUBSET SUBSET Tasks
  BY DEF Groups, Typed, FetchTyped, Fetch
<1>2. page' \in Page
  BY <1>1 DEF Answer, Typed, FetchTyped, Fetch, Page
<1> QED
  BY <1>2, SettleTyped DEF Answer

LEMMA AnswerFailsTyped == ASSUME Typed, AnswerFails PROVE Typed'
<1>1. page' \in Page
  BY DEF AnswerFails, EmptyPage, Page
<1> QED
  BY <1>1, SettleTyped DEF AnswerFails

LEMMA VisitTyped == ASSUME Typed, Visit PROVE Typed'
BY RefetchTyped DEF Visit, store, Typed, StoreTyped, PageTyped

\* The mutation of the page moves on: nothing else does.
LEMMA FollowingTyped ==
  ASSUME Typed, follow' \in Follow, UNCHANGED <<store, fetch, page, batch, history>>,
         follow'.at \in {"sent", "checked", "committed"} => follow'.client \in Clients
  PROVE  Typed'
BY DEF store, history, Typed, StoreTyped, PageTyped, FetchTyped

LEMMA ActTyped == ASSUME Typed, NEW k \in Clients, NEW action \in Actions, Act(k, action) PROVE Typed'
<1>1. follow' \in Follow /\ follow'.client \in Clients
  BY DEF Act, Idle, Follow, MaybeClient
<1> QED
  BY <1>1, FollowingTyped DEF Act

LEMMA CheckTyped == ASSUME Typed, Check PROVE Typed'
<1>1. follow \in Follow /\ now \in Nat /\ follow.client \in Clients
  BY BoundsAssumption DEF Check, Typed, PageTyped, StoreTyped, Times
<1>2. follow' = [follow EXCEPT !.at = "checked", !.since = now]
  BY DEF Check
<1>3. follow' \in Follow /\ follow'.client \in Clients
  BY ONLY <1>1, <1>2 DEF Follow
<1> QED
  BY <1>3, FollowingTyped DEF Check

LEMMA FollowFailsTyped == ASSUME Typed, FollowFails PROVE Typed'
<1>1. follow' \in Follow /\ follow'.at = "idle"
  BY DEF FollowFails, Idle, Follow, MaybeClient, Actions
<1> QED
  BY <1>1, FollowingTyped DEF FollowFails

LEMMA InsertTyped == ASSUME Typed, Insert PROVE Typed'
<1>1. follow.client \in Clients /\ follow.action \in Actions /\ follow.since \in Nat /\ commits \in Nat
  BY DEF Insert, Typed, PageTyped, StoreTyped, Follow
<1>2. SnoozeDays * Day \in Nat
  BY ClockAssumption
<1>3. events' \in Seq(Event)
  <2> DEFINE u == IF follow.action = "SNOOZE" THEN follow.since + SnoozeDays * Day ELSE 0
  <2>1. u \in Nat
    BY <1>1, <1>2
  <2>2. events' = Append(events, [ client |-> follow.client, action |-> follow.action,
                                   at |-> follow.since, until |-> u, commit |-> commits + 1 ])
    BY DEF Insert
  <2> HIDE DEF u
  <2>3. [ client |-> follow.client, action |-> follow.action, at |-> follow.since, until |-> u,
          commit |-> commits + 1 ] \in Event
    BY <1>1, <2>1 DEF Event
  <2> QED
    BY <2>2, <2>3 DEF Typed, StoreTyped
<1>4. follow' \in Follow /\ follow'.client \in Clients
  <2>1. PICK c \in Nat : c = commits + 1
    BY <1>1
  <2>2. follow \in Follow /\ follow.client \in Clients /\ follow' = [follow EXCEPT !.at = "committed", !.commit = c]
    BY <1>1, <2>1 DEF Insert, Typed, PageTyped
  <2> QED
    BY ONLY <2>1, <2>2 DEF Follow
<1> QED
  BY <1>1, <1>3, <1>4 DEF Insert, Typed, StoreTyped, PageTyped, FetchTyped

LEMMA FollowToldTyped == ASSUME Typed, FollowTold PROVE Typed'
<1>1. told' \in [events : Nat, tasks : Nat]
  BY DEF FollowTold, Typed, PageTyped, Follow
<1>2. follow' \in Follow /\ follow'.at = "refetching"
  BY DEF FollowTold, Idle, Follow, MaybeClient, Actions
<1>3. FetchTyped'
  BY RefetchTyped DEF FollowTold, Typed
<1>4. PageTyped'
  BY <1>1, <1>2, ReleasedTyped DEF FollowTold, Typed, PageTyped
<1> QED
  BY <1>3, <1>4 DEF FollowTold, store, Typed, StoreTyped

LEMMA BeginTyped == ASSUME Typed, NEW m \in Mutations, NEW group \in SUBSET Tasks, Begin(m, group) PROVE Typed'
<1>1. batch' \in [Mutations -> Batch]
  BY DEF Begin, Typed, PageTyped, Batch
<1> QED
  BY <1>1 DEF Begin, store, history, Typed, StoreTyped, PageTyped, FetchTyped

LEMMA SetTaskTyped == ASSUME Typed, NEW m \in Mutations, NEW t \in Tasks, SetTask(m, t) PROVE Typed'
<1>1. task' \in [Tasks -> {"OPEN", "COMPLETED"}] /\ commits' \in Nat
  BY DEF SetTask, Target, Typed, StoreTyped
<1>2. batch' \in [Mutations -> Batch]
  <2>1. batch \in [Mutations -> Batch] /\ batch[m] \in Batch
    BY DEF Typed, PageTyped
  <2>2. PICK b : b = [batch[m] EXCEPT !.todo = @ \ {t}, !.commit = commits']
    OBVIOUS
  <2>3. b \in Batch
    BY <1>1, <2>1, <2>2 DEF Batch
  <2>4. batch' = [batch EXCEPT ![m] = b]
    BY <2>1, <2>2 DEF SetTask
  <2> QED
    BY <2>1, <2>3, <2>4
<1> QED
  BY <1>1, <1>2 DEF SetTask, Typed, StoreTyped, PageTyped, FetchTyped

LEMMA BatchFailsTyped == ASSUME Typed, NEW m \in Mutations, BatchFails(m) PROVE Typed' /\ commits' >= commits
<1>1. PICK done \in SUBSET {t \in batch[m].todo : conv[ConversationOf[t]].state = "stored"} :
        /\ task' = [t \in Tasks |-> IF t \in done THEN Target(m) ELSE task[t]]
        /\ commits' = commits + Cardinality({t \in done : task[t] # Target(m)})
  BY DEF BatchFails
<1>2. Cardinality({t \in done : task[t] # Target(m)}) \in Nat
  <2>1. {t \in done : task[t] # Target(m)} \in SUBSET Tasks
    BY DEF Typed, PageTyped, Batch
  <2> QED
    BY <2>1, TasksAssumption, FS_Subset, FS_CardinalityType
<1>3. task' \in [Tasks -> {"OPEN", "COMPLETED"}]
  BY <1>1 DEF Target, Typed, StoreTyped
<1>4. commits' \in Nat /\ commits' >= commits
  BY <1>1, <1>2 DEF Typed, StoreTyped
<1>5. batch' \in [Mutations -> Batch]
  BY DEF BatchFails, NoBatch, Typed, PageTyped, Batch
<1> QED
  BY <1>3, <1>4, <1>5 DEF BatchFails, Typed, StoreTyped, PageTyped, FetchTyped

\* The later of two commits.
LEMMA MaxOfTwo == ASSUME NEW a \in Nat, NEW b \in Nat PROVE Max({a, b}) = IF a >= b THEN a ELSE b
<1>1. \E x \in {a, b} : \A y \in {a, b} : x >= y
  OBVIOUS
<1>2. Max({a, b}) \in {a, b} /\ \A y \in {a, b} : Max({a, b}) >= y
  BY <1>1 DEF Max
<1> QED
  BY <1>2

LEMMA BatchToldTyped == ASSUME Typed, NEW m \in Mutations, BatchTold(m) PROVE Typed'
<1>1. told' \in [events : Nat, tasks : Nat]
  BY MaxOfTwo DEF BatchTold, Typed, PageTyped, Batch
<1>2. batch' \in [Mutations -> Batch]
  <2>1. [NoBatch EXCEPT !.at = "refetching"] \in Batch
    BY DEF NoBatch, Batch
  <2> QED
    BY <2>1, ReleasedTyped DEF BatchTold, Typed
<1>3. FetchTyped'
  BY RefetchTyped DEF BatchTold, Typed
<1>4. PageTyped'
  BY <1>1, <1>2, ReleasedTyped DEF BatchTold, Typed, PageTyped
<1> QED
  BY <1>3, <1>4 DEF BatchTold, store, Typed, StoreTyped

LEMMA TypedStep == Typed /\ [Next]_vars => Typed'
<1> SUFFICES ASSUME Typed, [Next]_vars PROVE Typed'
  OBVIOUS
<1>1. CASE Tick \/ Change
  BY <1>1, TickTyped, UploadTyped, LinkTyped, MergeTyped DEF Change
<1>2. CASE FetchStep \/ Visit
  BY <1>2, ReadClientsTyped, ReadLinksTyped, ReadEventsTyped, ReadTasksTyped, BuildFollowupsTyped,
     BuildRecommendationsTyped, AnswerTyped, AnswerFailsTyped, VisitTyped DEF FetchStep
<1>3. CASE FollowStep
  BY <1>3, ActTyped, CheckTyped, InsertTyped, FollowFailsTyped, FollowToldTyped DEF FollowStep
<1>4. CASE \E m \in Mutations : BatchStep(m)
  BY <1>4, BeginTyped, SetTaskTyped, BatchFailsTyped, BatchToldTyped DEF BatchStep
<1>5. CASE UNCHANGED vars
  BY <1>5 DEF vars, store, history, Typed, StoreTyped, PageTyped, FetchTyped
<1> QED
  BY <1>1, <1>2, <1>3, <1>4, <1>5 DEF Next

LEMMA AlwaysTyped == Spec => []Typed
BY TypedInit, TypedStep, PTL DEF Spec


\* The rows, the page and what a request has read have their types.
THEOREM DashboardTypeCorrect == Spec => []TypeOK
<1>1. Typed => TypeOK
  BY DEF Typed, StoreTyped, PageTyped, FetchTyped, Conv, Fetch, Page, Follow, Batch, MaybeClient, TypeOK
<1> QED
  BY <1>1, AlwaysTyped, PTL

-----------------------------------------------------------------------------
(* What a settled page shows *)

\* Nobody knows of a write that has not happened.
CommitInv ==
  /\ told.events <= commits /\ told.tasks <= commits
  /\ follow.commit <= commits
  /\ \A m \in Mutations : batch[m].commit <= commits

\* What was told of before a reading began is in it.
ReadInv ==
  /\ fetch.at \in {"tasks"} \cup Building => fetch.eventsAt >= told.events
  /\ fetch.at \in Building => fetch.tasksAt >= told.tasks

FreshInv == CommitInv /\ ReadInv /\ SettledIsFresh

LEMMA FreshInit == Init => FreshInv
BY DEF Init, FreshInv, CommitInv, ReadInv, SettledIsFresh, Idle, NoBatch, Blank, EmptyPage, Building

LEMMA ReleasedCommits ==
  ASSUME Typed, CommitInv
  PROVE  /\ Released(follow, Idle).commit <= commits
         /\ \A m \in Mutations : [n \in Mutations |-> Released(batch[n], NoBatch)][m].commit <= commits
BY DEF Released, Idle, NoBatch, CommitInv, Typed, StoreTyped

\* While nobody is told anything and no request moves on, nothing goes stale.
LEMMA FreshStays ==
  ASSUME FreshInv, CommitInv', UNCHANGED <<fetch, page, told>>
  PROVE  FreshInv'
BY DEF FreshInv, ReadInv, SettledIsFresh

LEMMA FreshCommits ==
  ASSUME Typed, FreshInv, \/ Tick \/ Change \/ (FollowStep /\ ~FollowTold)
                          \/ \E m \in Mutations : BatchStep(m) /\ ~BatchTold(m)
  PROVE  FreshInv'
<1> USE DEF CommitInv
<1>0. CommitInv /\ commits \in Nat
  BY DEF FreshInv, Typed, StoreTyped
<1>1. CASE Tick
  BY <1>0, <1>1, FreshStays DEF Tick, history
<1>2. CASE Change
  BY <1>0, <1>2, FreshStays DEF Change, Upload, Link, Delete, Merge, Elsewhere
<1>3. ASSUME NEW k \in Clients, NEW action \in Actions, Act(k, action) PROVE FreshInv'
  <2>1. follow'.commit = 0
    BY <1>3 DEF Act, Idle
  <2> QED
    BY <1>0, <1>3, <2>1, FreshStays DEF Act, history
<1>4. CASE Check
  <2>1. follow'.commit = follow.commit
    BY <1>4 DEF Check, Typed, PageTyped, Follow
  <2> QED
    BY <1>0, <1>4, <2>1, FreshStays DEF Check, history
<1>5. CASE Insert
  <2>1. follow'.commit = commits + 1 /\ commits' = commits + 1
    BY <1>5 DEF Insert, Typed, PageTyped, Follow
  <2>2. CommitInv'
    BY <1>0, <1>5, <2>1 DEF Insert, Typed, PageTyped, Batch
  <2> QED
    BY <1>5, <2>2, FreshStays DEF Insert
<1>6. CASE FollowFails
  <2>1. follow'.commit = 0
    BY <1>6 DEF FollowFails, Idle
  <2> QED
    BY <1>0, <1>6, <2>1, FreshStays DEF FollowFails, history
<1>7. ASSUME NEW m \in Mutations, NEW group \in SUBSET Tasks, Begin(m, group) PROVE FreshInv'
  <2>1. \A n \in Mutations : batch'[n].commit = 0 \/ batch'[n] = batch[n]
    BY <1>7 DEF Begin, Typed, PageTyped
  <2> QED
    BY <1>0, <1>7, <2>1, FreshStays DEF Begin, history
<1>8. ASSUME NEW m \in Mutations, NEW t \in Tasks, SetTask(m, t) PROVE FreshInv'
  <2>1. commits' \in Nat /\ commits <= commits'
    BY <1>0, <1>8 DEF SetTask
  <2>2. \A n \in Mutations : batch'[n].commit = commits' \/ batch'[n] = batch[n]
    BY <1>8 DEF SetTask, Typed, PageTyped, Batch
  <2>3. CommitInv'
    BY <1>0, <1>8, <2>1, <2>2 DEF SetTask, Typed, PageTyped, Batch, Follow
  <2> QED
    BY <1>8, <2>3, FreshStays DEF SetTask
<1>9. ASSUME NEW m \in Mutations, BatchFails(m) PROVE FreshInv'
  <2>1. commits' \in Nat /\ commits <= commits'
    BY <1>9, BatchFailsTyped DEF Typed, StoreTyped
  <2>2. \A n \in Mutations : batch'[n].commit = 0 \/ batch'[n] = batch[n]
    BY <1>9 DEF BatchFails, NoBatch, Typed, PageTyped
  <2>3. UNCHANGED <<told, follow>>
    BY <1>9 DEF BatchFails
  <2>4. told.events \in Nat /\ told.tasks \in Nat /\ follow.commit \in Nat /\ \A n \in Mutations : batch[n].commit \in Nat
    BY DEF Typed, PageTyped, Follow, Batch
  <2>5. told'.events <= commits' /\ told'.tasks <= commits' /\ follow'.commit <= commits'
    BY <1>0, <2>1, <2>3, <2>4
  <2>6. \A n \in Mutations : batch'[n].commit <= commits'
    BY <1>0, <2>1, <2>2, <2>4
  <2>7. CommitInv'
    BY <2>5, <2>6
  <2> QED
    BY <1>9, <2>7, FreshStays DEF BatchFails
<1> QED
  BY <1>1, <1>2, <1>3, <1>4, <1>5, <1>6, <1>7, <1>8, <1>9 DEF FollowStep, BatchStep

LEMMA FreshFetch ==
  ASSUME Typed, FreshInv, FetchStep \/ Visit
  PROVE  FreshInv'
<1>1. CASE ReadClients \/ ReadLinks \/ ReadEvents \/ ReadTasks \/ BuildFollowups \/ BuildRecommendations
  <2>1. UNCHANGED <<page, told, follow, batch, commits>>
    BY <1>1 DEF ReadClients, ReadLinks, ReadEvents, ReadTasks, BuildFollowups, BuildRecommendations,
                Fetching, store, history
  <2>2. ReadInv' /\ fetch'.at # "idle"
    BY <1>1, <2>1 DEF ReadClients, ReadLinks, ReadEvents, ReadTasks, BuildFollowups, BuildRecommendations,
                      Reading, Building, FreshInv, CommitInv, ReadInv, Typed, FetchTyped, Fetch
  <2> QED
    BY <2>1, <2>2 DEF FreshInv, CommitInv, SettledIsFresh
<1>2. CASE Answer \/ AnswerFails
  <2>1. UNCHANGED <<told, commits>> /\ fetch'.at = "idle"
    BY <1>2 DEF Answer, AnswerFails, Settle, Blank
  <2>2. CommitInv'
    BY <1>2, <2>1, ReleasedCommits DEF Answer, AnswerFails, Settle, FreshInv, CommitInv
  <2>3. SettledIsFresh'
    BY <1>2, <2>1 DEF Answer, AnswerFails, EmptyPage, Building, FreshInv, ReadInv, SettledIsFresh
  <2> QED
    BY <2>1, <2>2, <2>3 DEF FreshInv, ReadInv, Building
<1>3. CASE Visit
  BY <1>3 DEF Visit, Refetch, Blank, Building, FreshInv, CommitInv, ReadInv, SettledIsFresh
<1> QED
  BY <1>1, <1>2, <1>3 DEF FetchStep

LEMMA FreshTold ==
  ASSUME Typed, FreshInv, FollowTold \/ \E m \in Mutations : BatchTold(m)
  PROVE  FreshInv'
<1>1. Refetch /\ commits' = commits
  BY DEF FollowTold, BatchTold
<1>2. fetch'.at = "clients"
  BY <1>1 DEF Refetch, Blank
<1>3. CommitInv'
  <2>1. CASE FollowTold
    <3>1. told'.events = follow.commit /\ told'.tasks = told.tasks /\ follow'.commit = 0
      BY <2>1 DEF FollowTold, Idle, Typed, PageTyped
    <3> QED
      BY <1>1, <2>1, <3>1, ReleasedCommits DEF FollowTold, FreshInv, CommitInv, Typed, StoreTyped
  <2>2. ASSUME NEW m \in Mutations, BatchTold(m) PROVE CommitInv'
    <3>1. told'.events = told.events /\ told'.tasks <= commits
      BY <2>2, MaxOfTwo DEF BatchTold, FreshInv, CommitInv, Typed, PageTyped, Batch
    <3>2. \A n \in Mutations : batch'[n].commit = 0 \/ batch'[n] = Released(batch[n], NoBatch)
      BY <2>2 DEF BatchTold, NoBatch
    <3>3. \A n \in Mutations : batch'[n].commit <= commits
      BY <3>2, ReleasedCommits DEF FreshInv, Typed, StoreTyped
    <3> QED
      BY <1>1, <2>2, <3>1, <3>3, ReleasedCommits DEF BatchTold, FreshInv, CommitInv
  <2> QED
    BY <2>1, <2>2
<1> QED
  BY <1>2, <1>3 DEF FreshInv, ReadInv, SettledIsFresh, Building

LEMMA FreshStep == Typed /\ FreshInv /\ [Next]_vars => FreshInv'
<1>1. ASSUME FreshInv, UNCHANGED vars PROVE FreshInv'
  BY <1>1 DEF vars, history, FreshInv, CommitInv, ReadInv, SettledIsFresh
<1> QED
  BY <1>1, FreshCommits, FreshFetch, FreshTold DEF Next, FollowStep, BatchStep

\* When no request is under way and the page has no alert, it shows what was read after
\* every write it has been told of (SummaryCards.tsx, and the query cache it uses).
THEOREM SettledPageIsFresh == Spec => []SettledIsFresh
<1>1. Typed /\ FreshInv /\ [Next]_vars => FreshInv'
  BY FreshStep
<1> QED
  BY <1>1, FreshInit, AlwaysTyped, PTL DEF Spec, FreshInv


-----------------------------------------------------------------------------
(* The events that were recorded *)

HasEvent(commit) == \E i \in DOMAIN events : events[i].commit = commit

\* The foreign key, and what the page has been or is about to be told of.
KeptInv ==
  /\ \A i \in DOMAIN events : events[i].client \in present
  /\ follow.at = "committed" => HasEvent(follow.commit)
  /\ told.events # 0 => HasEvent(told.events)

LEMMA KeptInit == Init => KeptInv
BY DEF Init, KeptInv, Idle

LEMMA KeptOtherwise ==
  ASSUME KeptInv, UNCHANGED <<present, events>>, told'.events = told.events,
         follow'.at # "committed" \/ follow' = follow
  PROVE  KeptInv'
BY DEF KeptInv, HasEvent

LEMMA KeptStep == Typed /\ KeptInv /\ [Next]_vars => KeptInv'
<1> SUFFICES ASSUME Typed, KeptInv, [Next]_vars PROVE KeptInv'
  OBVIOUS
<1>1. ASSUME NEW from \in Clients, NEW to \in Clients, Merge(from, to) PROVE KeptInv'
  <2>1. /\ present' = present \ {from} /\ to \in present /\ from # to
        /\ UNCHANGED <<follow, told>>
    BY <1>1 DEF Merge, Elsewhere
  <2>2. DOMAIN events' = DOMAIN events
    BY <1>1, MergedEvents DEF Typed, StoreTyped
  <2>3. \A i \in DOMAIN events :
          /\ events'[i].commit = events[i].commit
          /\ events'[i].client = IF events[i].client = from THEN to ELSE events[i].client
    BY <1>1, MergedEvents DEF Typed, StoreTyped
  <2>4. \A c : HasEvent(c) => HasEvent(c)'
    BY <2>2, <2>3 DEF HasEvent
  <2> QED
    BY <2>1, <2>2, <2>3, <2>4 DEF KeptInv, HasEvent
<1>2. CASE Insert
  <2>1. PICK e : /\ events' = Append(events, e) /\ e.client = follow.client /\ e.commit = commits + 1
    BY <1>2 DEF Insert
  <2>2. /\ follow.client \in present /\ follow'.commit = commits + 1
        /\ UNCHANGED <<present, told>>
    BY <1>2 DEF Insert, Typed, PageTyped, Follow
  <2>3. /\ DOMAIN events' = 1 .. Len(events) + 1 /\ DOMAIN events = 1 .. Len(events)
        /\ Len(events) \in Nat /\ events'[Len(events) + 1] = e
        /\ \A i \in 1 .. Len(events) : events'[i] = events[i]
    BY <2>1 DEF Typed, StoreTyped
  <2>4. \A c : HasEvent(c) => HasEvent(c)'
    BY <2>3 DEF HasEvent
  <2>5. HasEvent(follow.commit)'
    BY <2>1, <2>2, <2>3 DEF HasEvent
  <2> QED
    BY <2>1, <2>2, <2>3, <2>4, <2>5 DEF KeptInv, HasEvent
<1>3. CASE FollowTold
  <2>1. told'.events = follow.commit /\ follow'.at = "refetching" /\ UNCHANGED <<present, events>>
    BY <1>3 DEF FollowTold, Idle, store, Typed, PageTyped
  <2> QED
    BY <1>3, <2>1 DEF FollowTold, KeptInv, HasEvent
<1>4. ASSUME NEW m \in Mutations, BatchTold(m) PROVE KeptInv'
  <2>1. told'.events = told.events /\ UNCHANGED <<present, events>>
    BY <1>4 DEF BatchTold, store, Typed, PageTyped
  <2>2. follow'.at # "committed" \/ follow' = follow
    BY <1>4 DEF BatchTold, Released, Idle
  <2> QED
    BY <2>1, <2>2, KeptOtherwise
<1>5. CASE Answer \/ AnswerFails
  <2>1. UNCHANGED <<present, events, told>> /\ (follow'.at # "committed" \/ follow' = follow)
    BY <1>5 DEF Answer, AnswerFails, Settle, store, Released, Idle
  <2> QED
    BY <2>1, KeptOtherwise
<1>6. CASE FollowFails \/ Check
  <2>1. UNCHANGED <<present, events, told>>
    BY <1>6 DEF FollowFails, Check, store, history
  <2>2. Check => follow'.at = "checked"
    BY DEF Check, Typed, PageTyped, Follow
  <2>3. FollowFails => follow'.at = "idle"
    BY DEF FollowFails, Idle
  <2> QED
    BY <1>6, <2>1, <2>2, <2>3, KeptOtherwise
<1>7. ASSUME NEW k \in Clients, NEW action \in Actions, Act(k, action) PROVE KeptInv'
  <2>1. UNCHANGED <<present, events, told>> /\ follow'.at # "committed"
    BY <1>7 DEF Act, Idle, store, history
  <2> QED
    BY <2>1, KeptOtherwise
<1>8. ASSUME NEW m \in Mutations, BatchStep(m), ~BatchTold(m) PROVE KeptInv'
  BY <1>8, KeptOtherwise DEF BatchStep, Begin, SetTask, BatchFails, store, history
<1>9. CASE ReadClients \/ ReadLinks \/ ReadEvents \/ ReadTasks \/ BuildFollowups \/ BuildRecommendations \/ Visit
  BY <1>9, KeptOtherwise DEF ReadClients, ReadLinks, ReadEvents, ReadTasks, BuildFollowups,
     BuildRecommendations, Visit, Fetching, store, history
<1>10. ASSUME Tick \/ \E c \in Conversations : Upload(c) \/ Link(c) \/ Delete(c) PROVE KeptInv'
  BY <1>10, KeptOtherwise DEF Tick, Upload, Link, Delete, Elsewhere, history
<1>11. CASE UNCHANGED vars
  BY <1>11, KeptOtherwise DEF vars, history
<1> QED
  BY <1>1, <1>2, <1>3, <1>4, <1>5, <1>6, <1>7, <1>8, <1>9, <1>10, <1>11
     DEF Next, Change, FetchStep, FollowStep

\* An event that the page was told of is kept, and is of a client that is there
\* (record_followup_action, and the merge of clients).
THEOREM RecordedEventsAreKept == Spec => []RecordedIsKept
<1>1. Typed /\ KeptInv /\ [Next]_vars => KeptInv'
  BY KeptStep
<1>2. KeptInv => RecordedIsKept
  BY DEF KeptInv, HasEvent, RecordedIsKept
<1> QED
  BY <1>1, <1>2, KeptInit, AlwaysTyped, PTL DEF Spec

-----------------------------------------------------------------------------
(* The lists of one answer *)

\* Whoever is due stays due while the lists are built.
ListedInv ==
  /\ fetch.at = "recommendations" =>
       fetch.followups \subseteq fetch.clients /\ \A k \in fetch.followups : Due(k)
  /\ ListedIsCounted

LEMMA DueStays ==
  ASSUME Typed, fetch' = fetch, now' \in Nat, now <= now', NEW k \in Clients, Due(k)
  PROVE  Due(k)'
<1>1. now \in Nat /\ fetch.last[k] \subseteq Event /\ fetch.linked[k] \subseteq Nat
  BY BoundsAssumption DEF Typed, StoreTyped, FetchTyped, Fetch, Times
<1>2. ~Suppressed(k)'
  <2> SUFFICES ASSUME NEW e \in fetch.last[k], e.action = "SNOOZE", e.until > now' PROVE FALSE
    BY <1>1 DEF Due, Suppressed
  <2>1. e.until \in Nat
    BY <1>1 DEF Event
  <2>2. e.until > now
    BY <1>1, <2>1
  <2> QED
    BY <2>2 DEF Due, Suppressed
<1>3. Contacts(k)' = Contacts(k) /\ Contacts(k) \subseteq Nat
  BY <1>1 DEF Contacts, Event
<1>4. ASSUME NEW contact \in Contacts(k) PROVE DaysSince(contact)' >= FollowupAfter
  <2>1. contact \in Nat /\ DaysSince(contact) >= FollowupAfter
    BY <1>3 DEF Due
  <2>2. (now - contact) \div Day <= (now' - contact) \div Day
    BY <1>1, <2>1, DaysGrow
  <2>3. (now - contact) \div Day \in Int /\ (now' - contact) \div Day \in Int
    BY <1>1, <2>1, ClockAssumption
  <2>4. PICK a \in Int, b \in Int : a = (now - contact) \div Day /\ b = (now' - contact) \div Day
    BY <2>3
  <2>5. a >= FollowupAfter /\ a <= b /\ DaysSince(contact)' = b
    BY <2>1, <2>2, <2>4 DEF DaysSince
  <2> QED
    BY <2>5, ClockAssumption
<1> QED
  BY <1>2, <1>3, <1>4 DEF Due

LEMMA ListedInit == Init => ListedInv
BY DEF Init, ListedInv, ListedIsCounted, Blank

LEMMA ListedStep == Typed /\ ListedInv /\ [Next]_vars => ListedInv'
<1> SUFFICES ASSUME Typed, ListedInv, [Next]_vars PROVE ListedInv'
  OBVIOUS
<1>1. ASSUME fetch' = fetch PROVE ListedInv'
  <2>1. now \in Nat /\ now' \in Nat /\ now <= now'
    <3>1. now \in Nat
      BY BoundsAssumption DEF Typed, StoreTyped, Times
    <3>2. now' = now \/ now' = now + 1
      BY DEF Next, Tick, Change, Upload, Link, Delete, Merge, Elsewhere, FetchStep, ReadClients, ReadLinks,
         ReadEvents, ReadTasks, BuildFollowups, BuildRecommendations, Answer, AnswerFails, Settle, Visit,
         FollowStep, Act, Check, Insert, FollowFails, FollowTold, BatchStep, Begin, SetTask, BatchFails,
         BatchTold, Fetching, store, history, vars
    <3> QED
      BY <3>1, <3>2
  <2>2. fetch.followups \subseteq Clients
    BY DEF Typed, FetchTyped, Fetch
  <2> QED
    BY <1>1, <2>1, <2>2, DueStays DEF ListedInv, ListedIsCounted
<1>2. ASSUME fetch'.at \in {"idle", "clients", "links", "events", "tasks", "followups"} PROVE ListedInv'
  BY <1>2 DEF ListedInv, ListedIsCounted
<1>3. CASE BuildFollowups
  <2>1. fetch'.at = "recommendations" /\ fetch'.clients = fetch.clients
        /\ fetch'.followups \subseteq {k \in fetch.clients : Due(k)}
        /\ fetch'.linked = fetch.linked /\ fetch'.last = fetch.last /\ now' = now
    <3>1. PICK listed \in Shortlists({k \in fetch.clients : Due(k)}) :
            fetch' = [fetch EXCEPT !.at = "recommendations", !.followups = listed] /\ now' = now
      BY <1>3 DEF BuildFollowups, store
    <3> QED
      BY <3>1, ShortlistIs DEF Typed, FetchTyped, Fetch
  <2>2. \A k : Due(k)' = Due(k)
    BY <2>1 DEF Due, Suppressed, Contacts, DaysSince
  <2> QED
    BY <2>1, <2>2 DEF ListedInv, ListedIsCounted
<1>4. CASE BuildRecommendations
  <2>1. /\ fetch'.at = "answer" /\ fetch'.followups = fetch.followups
        /\ fetch'.due = {k \in fetch.clients : Due(k)}
        /\ \/ fetch'.recommended = {k \in fetch.clients : Recommended(k)}
           \/ Cardinality(fetch'.recommended) = ListLimit
    <3>1. PICK listed \in MostUrgent({k \in fetch.clients : Recommended(k)}) :
            fetch' = [fetch EXCEPT !.at = "answer", !.recommended = listed,
                       !.due = {k \in fetch.clients : Due(k)},
                       !.clients = {}, !.linked = Blank.linked, !.last = Blank.last]
      BY <1>4 DEF BuildRecommendations
    <3>2. listed = {k \in fetch.clients : Recommended(k)} \/ Cardinality(listed) = ListLimit
      BY ShortlistIs DEF MostUrgent
    <3> QED
      BY <3>1, <3>2 DEF Typed, FetchTyped, Fetch
  <2>2. \A k : Due(k) => Recommended(k)
    BY DEF Due, Recommended
  <2>3. fetch.at = "recommendations"
    BY <1>4 DEF BuildRecommendations
  <2> QED
    BY <2>1, <2>2, <2>3 DEF ListedInv, ListedIsCounted
<1>5. CASE ReadClients \/ ReadLinks \/ ReadEvents \/ ReadTasks
  <2>1. fetch'.at \in {"links", "events", "tasks", "followups"}
    BY <1>5 DEF ReadClients, ReadLinks, ReadEvents, ReadTasks, Typed, FetchTyped, Fetch
  <2> QED
    BY <1>2, <2>1
<1>6. CASE Answer \/ AnswerFails \/ Visit \/ FollowTold \/ \E m \in Mutations : BatchTold(m)
  <2>1. fetch' = Blank \/ Refetch
    BY <1>6 DEF Answer, AnswerFails, Settle, Visit, FollowTold, BatchTold
  <2>2. fetch'.at \in {"idle", "clients"}
    BY <2>1 DEF Refetch, Blank
  <2> QED
    BY <1>2, <2>2
<1>7. CASE Tick \/ Change \/ UNCHANGED vars
  BY <1>1, <1>7 DEF Tick, Change, Upload, Link, Delete, Merge, Elsewhere, vars
<1>8. CASE FollowStep /\ ~FollowTold
  BY <1>1, <1>8 DEF FollowStep, Act, Check, Insert, FollowFails
<1>9. ASSUME NEW m \in Mutations, BatchStep(m), ~BatchTold(m) PROVE ListedInv'
  BY <1>1, <1>9 DEF BatchStep, Begin, SetTask, BatchFails
<1> QED
  BY <1>3, <1>4, <1>5, <1>6, <1>7, <1>8, <1>9 DEF Next, FetchStep

\* Whom an answer asks to follow up it counts as due, and recommends unless it already
\* recommends as many clients as it may show, whatever the time between the lists
\* (get_dashboard, and the cuts of _build_followups and _build_client_recommendations).
THEOREM ListsAgree == Spec => []ListedIsCounted
<1>1. Typed /\ ListedInv /\ [Next]_vars => ListedInv'
  BY ListedStep
<1> QED
  BY <1>1, ListedInit, AlwaysTyped, PTL DEF Spec, ListedInv


-----------------------------------------------------------------------------
(* Whom nobody is asked to follow up: the links *)

\* A link that is older than the request is there.
LinkedSince ==
  \A c \in Conversations :
    since.links[c] \in Clients => conv[c].state = "stored" /\ conv[c].client = since.links[c]

\* The conversations that were read: those of older links, and none that never was.
LinksRead ==
  fetch.at \in {"events", "tasks", "followups"} =>
    /\ \A c \in Conversations :
         since.links[c] \in Clients => conv[c].created \in fetch.linked[since.links[c]]
    /\ \A k \in Clients : \A x \in fetch.linked[k] :
         \E c \in Conversations : conv[c].state # "new" /\ conv[c].created = x

LinksInv == LinkedSince /\ LinksRead

LEMMA LinksInit == Init => LinksInv
BY ClientsAssumption DEF Init, LinksInv, LinkedSince, LinksRead, NothingSince, Blank

\* What becomes of a conversation elsewhere.
LEMMA ChangeOfLinks ==
  ASSUME Typed, LinkedSince, Change, NEW c \in Conversations
  PROVE  /\ conv[c].state # "new" => conv'[c].state # "new" /\ conv'[c].created = conv[c].created
         /\ since'.links[c] \in Clients =>
              /\ since'.links[c] = since.links[c] /\ conv[c].state = "stored"
              /\ conv'[c].state = "stored" /\ conv'[c].client = conv[c].client
<1> DEFINE Goal == /\ conv[c].state # "new" => conv'[c].state # "new" /\ conv'[c].created = conv[c].created
                   /\ since'.links[c] \in Clients =>
                        /\ since'.links[c] = since.links[c] /\ conv[c].state = "stored"
                        /\ conv'[c].state = "stored" /\ conv'[c].client = conv[c].client
<1>0. /\ conv \in [Conversations -> Conv]
      /\ since \in [links : [Conversations -> MaybeClient], events : Seq(Event)]
  BY DEF Typed, StoreTyped, FetchTyped
<1>1. ASSUME NEW d \in Conversations, Upload(d) PROVE Goal
  BY <1>0, <1>1 DEF Upload, LinkedSince, Conv
<1>2. ASSUME NEW d \in Conversations, Link(d) PROVE Goal
  BY <1>0, <1>2, ClientsAssumption DEF Link, LinkedSince, Conv
<1>3. ASSUME NEW d \in Conversations, Delete(d) PROVE Goal
  BY <1>0, <1>3, ClientsAssumption DEF Delete, LinkedSince, Conv
<1>4. ASSUME NEW from \in Clients, NEW to \in Clients, Merge(from, to) PROVE Goal
  <2>1. conv'[c] = IF conv[c].client = from THEN [conv[c] EXCEPT !.client = to] ELSE conv[c]
    BY <1>4 DEF Merge, MergeConversations
  <2>2. since'.links[c] = IF conv[c].client = from THEN NoClient ELSE since.links[c]
    BY <1>0, <1>4 DEF Merge
  <2> QED
    BY <1>0, <2>1, <2>2, ClientsAssumption DEF LinkedSince, Conv
<1> QED
  BY <1>1, <1>2, <1>3, <1>4 DEF Change

LEMMA LinksChange ==
  ASSUME Typed, LinksInv, Change
  PROVE  LinksInv'
<1>1. fetch' = fetch
  BY DEF Change, Upload, Link, Delete, Merge, Elsewhere
<1>2. LinkedSince'
  BY ChangeOfLinks DEF LinksInv, LinkedSince
<1>3. LinksRead'
  BY <1>1, ChangeOfLinks DEF LinksInv, LinkedSince, LinksRead
<1> QED
  BY <1>2, <1>3 DEF LinksInv

LEMMA LinksRefetch ==
  ASSUME Refetch, conv' = conv
  PROVE  LinksInv'
<1>1. since'.links = [c \in Conversations |-> IF conv[c].state = "stored" THEN conv[c].client ELSE NoClient]
  BY DEF Refetch
<1>2. LinkedSince'
  BY <1>1, ClientsAssumption DEF LinkedSince
<1>3. fetch'.at = "clients"
  BY DEF Refetch, Blank
<1> QED
  BY <1>2, <1>3 DEF LinksInv, LinksRead

LEMMA LinksNothing ==
  ASSUME since' = NothingSince, fetch'.at \notin {"events", "tasks", "followups"}
  PROVE  LinksInv'
BY ClientsAssumption DEF NothingSince, LinksInv, LinkedSince, LinksRead

LEMMA LinksStep == Typed /\ LinksInv /\ [Next]_vars => LinksInv'
<1> SUFFICES ASSUME Typed, LinksInv, [Next]_vars PROVE LinksInv'
  OBVIOUS
<1>1. ASSUME UNCHANGED <<conv, since, fetch>> PROVE LinksInv'
  BY <1>1 DEF LinksInv, LinkedSince, LinksRead
<1>2. CASE Change
  BY <1>2, LinksChange
<1>3. CASE Visit \/ FollowTold \/ \E m \in Mutations : BatchTold(m)
  BY <1>3, LinksRefetch DEF Visit, FollowTold, BatchTold, store
<1>4. CASE ReadClients
  <2>1. fetch'.at = "links" /\ UNCHANGED <<conv, since>>
    BY <1>4 DEF ReadClients, Fetching, store, history, Typed, FetchTyped, Fetch
  <2> QED
    BY <2>1 DEF LinksInv, LinkedSince, LinksRead
<1>5. CASE ReadLinks
  <2>1. fetch'.linked = [k \in Clients |-> {conv[c].created : c \in Linked(k)}] /\ UNCHANGED <<conv, since>>
    BY <1>5 DEF ReadLinks, Fetching, store, history, Typed, FetchTyped, Fetch
  <2>2. \A c \in Conversations : since.links[c] \in Clients => c \in Linked(since.links[c])
    BY DEF LinksInv, LinkedSince, Linked
  <2>3. \A k \in Clients : \A x \in fetch'.linked[k] :
          \E c \in Conversations : conv[c].state # "new" /\ conv[c].created = x
    BY <2>1 DEF Linked
  <2> QED
    BY <2>1, <2>2, <2>3 DEF LinksInv, LinkedSince, LinksRead
<1>6. CASE ReadEvents \/ ReadTasks
  <2>1. /\ fetch'.linked = fetch.linked /\ UNCHANGED <<conv, since>>
        /\ fetch.at \in {"events", "tasks"}
    BY <1>6 DEF ReadEvents, ReadTasks, Fetching, store, history, Typed, FetchTyped, Fetch
  <2> QED
    BY <2>1 DEF LinksInv, LinkedSince, LinksRead
<1>7. CASE BuildRecommendations
  <2>1. fetch'.at = "answer" /\ UNCHANGED <<conv, since>>
    BY <1>7 DEF BuildRecommendations, Fetching, store, history, Typed, FetchTyped, Fetch
  <2> QED
    BY <2>1 DEF LinksInv, LinkedSince, LinksRead
<1>8. CASE BuildFollowups \/ Answer \/ AnswerFails
  <2>1. BuildFollowups => fetch'.at = "recommendations" /\ since' = NothingSince
    BY DEF BuildFollowups, Typed, FetchTyped, Fetch
  <2>2. Answer \/ AnswerFails => fetch'.at = "idle" /\ since' = NothingSince
    BY DEF Answer, AnswerFails, Settle, Blank
  <2> QED
    BY <1>8, <2>1, <2>2, LinksNothing
<1>9. CASE Tick \/ UNCHANGED vars
  BY <1>1, <1>9 DEF Tick, history, vars
<1>10. CASE FollowStep /\ ~FollowTold
  BY <1>1, <1>10 DEF FollowStep, Act, Check, Insert, FollowFails, store, history
<1>11. ASSUME NEW m \in Mutations, BatchStep(m), ~BatchTold(m) PROVE LinksInv'
  BY <1>1, <1>11 DEF BatchStep, Begin, SetTask, BatchFails, store, history
<1> QED
  BY <1>2, <1>3, <1>4, <1>5, <1>6, <1>7, <1>8, <1>9, <1>10, <1>11 DEF Next, FetchStep

-----------------------------------------------------------------------------
(* Whom nobody is asked to follow up: the events *)

SameEvent(d, e) ==
  d.action = e.action /\ d.at = e.at /\ d.until = e.until /\ d.commit = e.commit

\* A log that has grown and was rewritten by merges: the events of who is left are theirs.
Before(older, newer) ==
  /\ Len(older) <= Len(newer)
  /\ \A i \in DOMAIN older :
       /\ SameEvent(older[i], newer[i])
       /\ older[i].client \in present => newer[i].client = older[i].client

\* Events are in the order of their commits.
Ordered ==
  /\ \A i \in DOMAIN events : events[i].commit <= commits
  /\ \A i, j \in DOMAIN events : i < j => events[i].commit < events[j].commit

\* What was read of the events is what they were at some time of the request.
EventsRead ==
  fetch.at \in {"tasks", "followups"} =>
    \E log \in Seq(Event) :
      /\ Before(since.events, log) /\ Before(log, events)
      /\ \A k \in Clients : fetch.last[k] = LatestEvent(log, k)

EventsInv == Ordered /\ Before(since.events, events) /\ EventsRead

LEMMA EventsInit == Init => EventsInv
BY DEF Init, EventsInv, Ordered, Before, EventsRead, NothingSince, Blank

LEMMA SequenceDomain == ASSUME NEW S, NEW s \in Seq(S) PROVE DOMAIN s = 1 .. Len(s) /\ Len(s) \in Nat
OBVIOUS

LEMMA BeforeItself == ASSUME NEW log \in Seq(Event) PROVE Before(log, log) /\ Before(<<>>, log)
BY DEF Before, SameEvent

\* Fewer clients, and a log that goes on.
LEMMA BeforeLater ==
  ASSUME NEW older \in Seq(Event), NEW log \in Seq(Event), Before(older, log), events \in Seq(Event), events' \in Seq(Event),
         Before(log, events), Len(events) <= Len(events'), present' \subseteq present,
         \A i \in DOMAIN events :
           /\ SameEvent(events[i], events'[i])
           /\ events[i].client \in present' => events'[i].client = events[i].client
  PROVE  Before(older, log)' /\ Before(log, events)'
<1>1. Before(older, log)'
  BY DEF Before
<1>2. Len(log) \in Nat /\ Len(events) \in Nat /\ Len(events') \in Nat /\ DOMAIN log = 1 .. Len(log)
      /\ DOMAIN events = 1 .. Len(events)
  BY SequenceDomain
<1>3. Len(log) <= Len(events')
  BY <1>2 DEF Before
<1>4. ASSUME NEW i \in DOMAIN log
      PROVE  /\ SameEvent(log[i], events'[i])
             /\ log[i].client \in present' => events'[i].client = log[i].client
  <2>1. i \in DOMAIN events
    BY <1>2 DEF Before
  <2> QED
    BY <2>1 DEF Before, SameEvent
<1> QED
  BY <1>1, <1>3, <1>4 DEF Before

LEMMA EventsGrow ==
  ASSUME Typed, Typed', EventsInv, since'.events = since.events, fetch' = fetch,
         Len(events) <= Len(events'), present' \subseteq present,
         \A i \in DOMAIN events :
           /\ SameEvent(events[i], events'[i])
           /\ events[i].client \in present' => events'[i].client = events[i].client,
         Ordered'
  PROVE  EventsInv'
<1>1. events \in Seq(Event) /\ events' \in Seq(Event) /\ since.events \in Seq(Event)
  BY DEF Typed, StoreTyped, FetchTyped
<1>2. Before(since.events, events)'
  <2>1. Before(since.events, since.events)
    BY <1>1, BeforeItself
  <2>2. PICK s \in Seq(Event) : s = since.events
    BY <1>1
  <2>3. Before(s, events)'
    BY <1>1, <2>1, <2>2, BeforeLater DEF EventsInv
  <2> QED
    BY <2>2, <2>3 DEF Before
<1>3. EventsRead'
  <2> SUFFICES ASSUME fetch.at \in {"tasks", "followups"}
               PROVE  \E log \in Seq(Event) :
                        /\ Before(since.events, log)' /\ Before(log, events)'
                        /\ \A k \in Clients : fetch.last[k] = LatestEvent(log, k)
    BY DEF EventsRead
  <2>1. PICK log \in Seq(Event) :
               /\ Before(since.events, log) /\ Before(log, events)
               /\ \A k \in Clients : fetch.last[k] = LatestEvent(log, k)
    BY DEF EventsInv, EventsRead
  <2>2. PICK s \in Seq(Event) : s = since.events
    BY <1>1
  <2>3. Before(s, log)' /\ Before(log, events)'
    BY <1>1, <2>1, <2>2, BeforeLater
  <2>4. Before(since.events, log)'
    BY <2>2, <2>3 DEF Before
  <2> QED
    BY <2>1, <2>3, <2>4
<1> QED
  BY <1>2, <1>3 DEF EventsInv


LEMMA OrderedCommits ==
  ASSUME Ordered, events \in Seq(Event), commits \in Nat, commits' \in Nat, commits <= commits', events' = events
  PROVE  Ordered'
<1>1. \A i \in DOMAIN events : events[i].commit \in Nat
  <2>1. \A i \in DOMAIN events : events[i] \in Event
    OBVIOUS
  <2> QED
    BY <2>1 DEF Event
<1> QED
  BY <1>1 DEF Ordered

LEMMA EventsMerge ==
  ASSUME Typed, Typed', EventsInv, NEW from \in Clients, NEW to \in Clients, Merge(from, to)
  PROVE  EventsInv'
<1>1. /\ Len(events') = Len(events) /\ DOMAIN events' = DOMAIN events
      /\ \A i \in DOMAIN events :
           /\ SameEvent(events[i], events'[i])
           /\ events'[i].client = IF events[i].client = from THEN to ELSE events[i].client
  BY MergedEvents DEF Typed, StoreTyped, SameEvent
<1>2. present' = present \ {from} /\ commits' = commits /\ fetch' = fetch
  BY DEF Merge, Elsewhere
<1>3. since'.events = since.events
  BY DEF Merge, Typed, FetchTyped
<1>4. Ordered'
  BY <1>1, <1>2 DEF EventsInv, Ordered, SameEvent
<1>5. Len(events) <= Len(events')
  BY <1>1, SequenceDomain DEF Typed, StoreTyped
<1> QED
  BY <1>1, <1>2, <1>3, <1>4, <1>5, EventsGrow

LEMMA EventsInsert ==
  ASSUME Typed, Typed', EventsInv, Insert
  PROVE  EventsInv'
<1>1. PICK e : events' = Append(events, e) /\ e.commit = commits + 1
  BY DEF Insert
<1>2. /\ DOMAIN events' = 1 .. Len(events) + 1 /\ DOMAIN events = 1 .. Len(events)
      /\ Len(events) \in Nat /\ Len(events') = Len(events) + 1 /\ events'[Len(events) + 1] = e
      /\ \A i \in 1 .. Len(events) : events'[i] = events[i]
  BY <1>1 DEF Typed, StoreTyped
<1>3. commits' = commits + 1 /\ commits \in Nat /\ UNCHANGED <<present, since, fetch>>
  BY DEF Insert, Typed, StoreTyped
<1>4. \A i \in DOMAIN events : events[i].commit \in Nat
  <2>1. \A i \in DOMAIN events : events[i] \in Event
    BY DEF Typed, StoreTyped
  <2> QED
    BY <2>1 DEF Event
<1>5. Ordered'
  BY <1>1, <1>2, <1>3, <1>4 DEF EventsInv, Ordered
<1>6. Len(events) <= Len(events') /\ \A i \in DOMAIN events : events'[i] = events[i]
  BY <1>2
<1> QED
  BY <1>3, <1>5, <1>6, EventsGrow DEF SameEvent

LEMMA EventsElsewhere ==
  ASSUME Typed, Typed', EventsInv, UNCHANGED <<present, events, fetch>>, since'.events = since.events,
         commits <= commits'
  PROVE  EventsInv'
<1>1. Ordered'
  BY OrderedCommits DEF Typed, StoreTyped, EventsInv
<1>2. Len(events) \in Nat
  BY SequenceDomain DEF Typed, StoreTyped
<1> QED
  BY <1>1, <1>2, EventsGrow DEF SameEvent

\* A request that begins has the events of its time.
LEMMA EventsBegin ==
  ASSUME Typed, Typed', EventsInv, UNCHANGED <<present, events, commits>>,
         since'.events \in {events, <<>>, since.events},
         fetch'.at \notin {"tasks", "followups"}
  PROVE  EventsInv'
<1>1. Ordered' /\ EventsRead'
  BY DEF EventsInv, Ordered, EventsRead
<1>2. events \in Seq(Event)
  BY DEF Typed, StoreTyped
<1>3. Before(events, events) /\ Before(<<>>, events) /\ Before(since.events, events)
  BY <1>2, BeforeItself DEF EventsInv
<1>4. Before(since.events, events)'
  BY <1>3 DEF Before
<1> QED
  BY <1>1, <1>4 DEF EventsInv

LEMMA EventsStep == Typed /\ EventsInv /\ [Next]_vars => EventsInv'
<1> SUFFICES ASSUME Typed, EventsInv, [Next]_vars PROVE EventsInv'
  OBVIOUS
<1>0. Typed' /\ commits \in Nat /\ commits' \in Nat
  <2>1. Typed'
    BY TypedStep
  <2> QED
    BY <2>1 DEF Typed, StoreTyped
<1>1. ASSUME UNCHANGED <<present, events, fetch, since, commits>> PROVE EventsInv'
  BY <1>0, <1>1, EventsElsewhere
<1>2. ASSUME NEW c \in Conversations, Upload(c) \/ Link(c) \/ Delete(c) PROVE EventsInv'
  <2>1. UNCHANGED <<present, events, fetch, commits>> /\ since'.events = since.events
    BY <1>2 DEF Upload, Link, Delete, Elsewhere, Typed, FetchTyped
  <2> QED
    BY <1>0, <2>1, EventsElsewhere
<1>3. CASE Visit \/ FollowTold \/ \E m \in Mutations : BatchTold(m)
  <2>1. Refetch /\ UNCHANGED <<present, events, commits>>
    BY <1>3 DEF Visit, FollowTold, BatchTold, store
  <2>2. since'.events = events /\ fetch'.at = "clients"
    BY <2>1 DEF Refetch, Blank
  <2> QED
    BY <1>0, <2>1, <2>2, EventsBegin
<1>4. CASE ReadClients \/ ReadLinks \/ BuildRecommendations
  <2>1. UNCHANGED <<present, events, since, commits>>
    BY <1>4 DEF ReadClients, ReadLinks, BuildRecommendations, Fetching, store, history
  <2>2. fetch'.at \in {"links", "events", "answer"}
    BY <1>4 DEF ReadClients, ReadLinks, BuildRecommendations, Typed, FetchTyped, Fetch
  <2> QED
    BY <1>0, <2>1, <2>2, EventsBegin
<1>5. CASE ReadEvents
  <2>1. /\ \A k \in Clients : fetch'.last[k] = LatestEvent(events, k)
        /\ UNCHANGED <<present, events, since, commits>>
    BY <1>5 DEF ReadEvents, Fetching, store, history, Typed, FetchTyped, Fetch
  <2>2. PICK log \in Seq(Event) : log = events
    BY DEF Typed, StoreTyped
  <2>3. Before(log, events)
    BY <2>2, BeforeItself
  <2>4. Before(since.events, log)' /\ Before(log, events)' /\ Before(since.events, events)'
    BY <2>1, <2>2, <2>3 DEF EventsInv, Before
  <2>5. \A k \in Clients : fetch'.last[k] = LatestEvent(log, k)
    BY <2>1, <2>2
  <2>6. EventsRead'
    BY <2>4, <2>5 DEF EventsRead
  <2>7. Ordered'
    BY <2>1 DEF EventsInv, Ordered
  <2> QED
    BY <2>4, <2>6, <2>7 DEF EventsInv
<1>6. CASE ReadTasks
  <2>1. /\ fetch'.last = fetch.last /\ fetch.at = "tasks"
        /\ UNCHANGED <<present, events, since, commits>>
    BY <1>6 DEF ReadTasks, Fetching, store, history, Typed, FetchTyped, Fetch
  <2>2. EventsRead'
    BY <2>1 DEF EventsInv, EventsRead, Before
  <2> QED
    BY <2>1, <2>2 DEF EventsInv, Ordered, Before
<1>7. CASE BuildFollowups
  <2>1. fetch'.at = "recommendations" /\ since'.events = <<>> /\ UNCHANGED <<present, events, commits>>
    BY <1>7 DEF BuildFollowups, NothingSince, store, Typed, FetchTyped, Fetch
  <2> QED
    BY <1>0, <2>1, EventsBegin
<1>8. CASE Answer \/ AnswerFails
  <2>1. fetch'.at = "idle" /\ since'.events = <<>> /\ UNCHANGED <<present, events, commits>>
    BY <1>8 DEF Answer, AnswerFails, Settle, Blank, NothingSince, store
  <2> QED
    BY <1>0, <2>1, EventsBegin
<1>9. CASE Tick \/ UNCHANGED vars
  BY <1>1, <1>9 DEF Tick, history, vars
<1>10. CASE FollowStep /\ ~FollowTold /\ ~Insert
  BY <1>1, <1>10 DEF FollowStep, Act, Check, FollowFails, store, history
<1>11. ASSUME NEW m \in Mutations, BatchStep(m), ~BatchTold(m) PROVE EventsInv'
  <2>1. UNCHANGED <<present, events, fetch, since>>
    BY <1>11 DEF BatchStep, Begin, SetTask, BatchFails, store, history
  <2>2. ASSUME NEW t \in Tasks, SetTask(m, t) PROVE commits <= commits'
    BY <1>0, <2>2 DEF SetTask
  <2>3. ASSUME NEW group \in SUBSET Tasks, Begin(m, group) PROVE commits <= commits'
    BY <1>0, <2>3 DEF Begin, history
  <2>4. BatchFails(m) => commits <= commits'
    BY <1>0, BatchFailsTyped
  <2>5. commits <= commits'
    BY <1>11, <2>2, <2>3, <2>4 DEF BatchStep
  <2> QED
    BY <1>0, <2>1, <2>5, EventsElsewhere
<1> QED
  BY <1>0, <1>2, <1>3, <1>4, <1>5, <1>6, <1>7, <1>8, <1>9, <1>10, <1>11, EventsMerge, EventsInsert
     DEF Next, Change, FetchStep, FollowStep

\* An event that is a client's latest before the request and after it was read as that.
LEMMA LatestWasRead ==
  ASSUME Typed, EventsInv, fetch.at = "followups", NEW k \in Clients \cap present,
         NEW e \in LatestEvent(events, k) \cap LatestEvent(since.events, k)
  PROVE  \E d \in fetch.last[k] : SameEvent(d, e)
<1>1. PICK log \in Seq(Event) :
        Before(since.events, log) /\ Before(log, events) /\ fetch.last[k] = LatestEvent(log, k)
  BY DEF EventsInv, EventsRead
<1>2. PICK older \in Seq(Event) : older = since.events
  BY DEF Typed, FetchTyped
<1>3. events \in Seq(Event)
  BY DEF Typed, StoreTyped
<1>4. PICK i0 \in DOMAIN older : e = older[i0] /\ older[i0].client = k
  BY <1>2, LatestIsOwn
<1>5. PICK i2 \in DOMAIN events :
        e = events[i2] /\ \A j \in DOMAIN events : events[j].client = k => j <= i2
  BY <1>3, LatestIsOwn
<1>6. /\ DOMAIN older = 1 .. Len(older) /\ DOMAIN log = 1 .. Len(log) /\ DOMAIN events = 1 .. Len(events)
      /\ Len(older) \in Nat /\ Len(log) \in Nat /\ Len(events) \in Nat
  BY <1>3, SequenceDomain
<1>7. Len(older) <= Len(log) /\ Len(log) <= Len(events)
  BY <1>1, <1>2 DEF Before
<1>8. i0 \in DOMAIN log /\ log[i0].client = k /\ SameEvent(older[i0], log[i0])
  BY <1>1, <1>2, <1>4, <1>6, <1>7 DEF Before
<1>9. PICK i1 \in DOMAIN log :
        fetch.last[k] = {log[i1]} /\ log[i1].client = k /\ i0 <= i1
  BY <1>1, <1>8, LatestIsOwn
<1>10. i1 \in DOMAIN events /\ events[i1].client = k /\ SameEvent(log[i1], events[i1])
  BY <1>1, <1>6, <1>7, <1>9 DEF Before
<1>11. i1 <= i2
  BY <1>5, <1>10
<1>12. i0 \in DOMAIN events /\ SameEvent(log[i0], events[i0])
  BY <1>1, <1>6, <1>7, <1>8 DEF Before
<1>13. events[i0].commit = events[i2].commit
  BY <1>4, <1>5, <1>8, <1>12 DEF SameEvent
<1>14. i0 = i2
  <2>1. events[i2].commit \in Nat
    <3>1. events[i2] \in Event
      BY <1>3
    <3> QED
      BY <3>1 DEF Event
  <2>2. i0 < i2 => events[i0].commit < events[i2].commit
    BY <1>12 DEF EventsInv, Ordered
  <2> QED
    BY <1>6, <1>9, <1>11, <1>13, <2>1, <2>2
<1>15. i1 = i2
  BY <1>6, <1>9, <1>11, <1>14
<1> QED
  BY <1>5, <1>9, <1>10, <1>15

\* Nobody is asked to follow up a client against a recent conversation that was linked
\* before the request, nor against what was recorded last (_followup_state, and the list
\* of followups).
THEOREM QuietClientsAreLeft == Spec => QuietIsKept
<1> DEFINE Quiet ==
      fetch.at = "followups" /\ fetch'.at = "recommendations" =>
        \A k \in fetch'.followups \cap present :
          /\ \A c \in Conversations :
               since.links[c] = k => DaysSince(conv[c].created) >= FollowupAfter
          /\ \A e \in LatestEvent(events, k) \cap LatestEvent(since.events, k) :
               CASE e.action = "RECORD_CONTACT" -> DaysSince(e.at) >= FollowupAfter
                 [] e.action = "SNOOZE" -> e.until <= now
                 [] e.action = "COMPLETE" ->
                      \E c \in Conversations : conv[c].state # "new" /\ conv[c].created > e.at
<1>1. Typed /\ LinksInv /\ EventsInv /\ [Next]_vars => [Quiet]_vars
  <2> SUFFICES ASSUME Typed, LinksInv, EventsInv, Next, fetch.at = "followups",
                      fetch'.at = "recommendations", NEW k \in fetch'.followups \cap present
               PROVE  /\ \A c \in Conversations :
                           since.links[c] = k => DaysSince(conv[c].created) >= FollowupAfter
                      /\ \A e \in LatestEvent(events, k) \cap LatestEvent(since.events, k) :
                           CASE e.action = "RECORD_CONTACT" -> DaysSince(e.at) >= FollowupAfter
                             [] e.action = "SNOOZE" -> e.until <= now
                             [] e.action = "COMPLETE" ->
                                  \E c \in Conversations : conv[c].state # "new" /\ conv[c].created > e.at
    OBVIOUS
  <2>1. BuildFollowups
    <3>1. fetch' # fetch /\ fetch' # Blank /\ ~Refetch
      BY DEF Refetch, Blank
    <3> QED
      BY <3>1 DEF Next, Tick, Change, Upload, Link, Delete, Merge, Elsewhere, FetchStep, ReadClients, ReadLinks,
         ReadEvents, ReadTasks, BuildRecommendations, Answer, AnswerFails, Settle, Visit,
         FollowStep, Act, Check, Insert, FollowFails, FollowTold, BatchStep, Begin, SetTask, BatchFails, BatchTold
  <2>2. k \in Clients /\ k \in present /\ Due(k)
    <3>1. PICK listed \in Shortlists({x \in fetch.clients : Due(x)}) :
            fetch' = [fetch EXCEPT !.at = "recommendations", !.followups = listed]
      BY <2>1 DEF BuildFollowups
    <3> QED
      BY <3>1, ShortlistIs DEF Typed, FetchTyped, Fetch
  <2>3. ASSUME NEW c \in Conversations, since.links[c] = k PROVE DaysSince(conv[c].created) >= FollowupAfter
    <3>1. conv[c].created \in Contacts(k)
      BY <2>2, <2>3 DEF LinksInv, LinksRead, Contacts
    <3> QED
      BY <2>2, <3>1 DEF Due
  <2>4. ASSUME NEW e \in LatestEvent(events, k) \cap LatestEvent(since.events, k)
        PROVE  /\ e.action \in Actions
               /\ e.action = "RECORD_CONTACT" => DaysSince(e.at) >= FollowupAfter
               /\ e.action = "SNOOZE" => e.until <= now
               /\ e.action = "COMPLETE" =>
                    \E c \in Conversations : conv[c].state # "new" /\ conv[c].created > e.at
    <3>1. PICK d \in fetch.last[k] : SameEvent(d, e)
      BY <2>2, LatestWasRead
    <3>2. d \in Event /\ now \in Nat
      BY <2>2, BoundsAssumption DEF Typed, FetchTyped, Fetch, StoreTyped, Times
    <3>3. d.action \in Actions /\ d.at \in Nat /\ d.until \in Nat
      BY <3>2 DEF Event
    <3>4. ASSUME d.action = "RECORD_CONTACT" PROVE DaysSince(d.at) >= FollowupAfter
      <4>1. d.at \in Contacts(k)
        BY <3>4 DEF Contacts
      <4> QED
        BY <2>2, <4>1 DEF Due
    <3>5. ASSUME d.action = "SNOOZE" PROVE d.until <= now
      BY <2>2, <3>2, <3>3, <3>5 DEF Due, Suppressed
    <3>6. ASSUME d.action = "COMPLETE"
          PROVE  \E c \in Conversations : conv[c].state # "new" /\ conv[c].created > d.at
      <4>1. PICK x \in fetch.linked[k] : ~(x <= d.at)
        BY <2>2, <3>6 DEF Due, Suppressed
      <4>2. x \in Nat
        BY <2>2, BoundsAssumption DEF Typed, FetchTyped, Fetch, Times
      <4>3. PICK c \in Conversations : conv[c].state # "new" /\ conv[c].created = x
        BY <2>2 DEF LinksInv, LinksRead
      <4> QED
        BY <3>3, <4>1, <4>2, <4>3
    <3> QED
      BY <3>1, <3>3, <3>4, <3>5, <3>6 DEF SameEvent
  <2> QED
    BY <2>3, <2>4 DEF Actions
<1>2. Spec => [](LinksInv /\ EventsInv)
  <2>1. Typed /\ (LinksInv /\ EventsInv) /\ [Next]_vars => (LinksInv /\ EventsInv)'
    BY LinksStep, EventsStep
  <2> QED
    BY <2>1, LinksInit, EventsInit, AlwaysTyped, PTL DEF Spec
<1> QED
  BY <1>1, <1>2, AlwaysTyped, PTL DEF Spec, QuietIsKept
=============================================================================
