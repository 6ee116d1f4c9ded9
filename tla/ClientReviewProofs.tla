------------------------- MODULE ClientReviewProofs -------------------------
(***************************************************************************)
(* What holds of ClientReview for any number of recordings, tasks,         *)
(* requests and changes.                                                   *)
(*                                                                         *)
(* The argument: a version never comes back (Past), and the words of a     *)
(* task change with the version of its recording. So whatever has read a   *)
(* version before the words of a task and finds the same version now has   *)
(* read the words that are there now (SeenAt). A generator reads the words *)
(* between two readings of the versions, of which the draft keeps the      *)
(* first; a loader reads them after the versions of the review it holds.   *)
(***************************************************************************)
EXTENDS ClientReview, TLAPS

\* Versions that were read are of the past.
Past(linked) ==
  \A r \in DOMAIN linked : r \in Recordings /\ linked[r] \in Nat /\ linked[r] <= version[r]

\* Of a recording that has the version still, the words of a task are what was read.
SeenAt(linked, tasks) ==
  \A t \in DOMAIN tasks :
    t \in Tasks /\ (OriginOf[t] \in DOMAIN linked /\ linked[OriginOf[t]] = version[OriginOf[t]]
                      => tasks[t] = wording[t])

\* A saved review: its tasks are those of its versions, and what it quotes are its sources.
ReviewOK(review) ==
  review.kind # "none" =>
    /\ Past(review.of[2])
    /\ SeenAt(review.of[2], review.assessed)
    /\ DOMAIN review.completed \subseteq DOMAIN review.assessed
    /\ Cites(review) \subseteq review.of[1]

IsContext(c) == c = [sources |-> c.sources, tasks |-> c.tasks, linked |-> c.linked]

\* The requests' variables.
Shapes ==
  /\ DOMAIN pc = Requests /\ DOMAIN pass = Requests /\ DOMAIN ctx = Requests
  /\ DOMAIN base = Generators /\ DOMAIN draft = Generators
  /\ DOMAIN held = Loaders /\ DOMAIN shown = Loaders
  /\ \A q \in Requests : IsContext(ctx[q])
  /\ \A q \in Generators :
       /\ pass[q] \in {"first", "again"}
       /\ pc[q] = "asking" => pass[q] = "first"
       /\ pc[q] = "publishing" => pass[q] = "again"
  /\ \A q \in Loaders : pc[q] \notin {"asking", "publishing"}

\* What a draft was made from.
DraftOK(q) ==
  /\ pc[q] = "asking" => Past(ctx[q].linked)
  /\ pass[q] = "again" =>
       /\ Past(base[q].linked)
       /\ Cites(draft[q]) \subseteq base[q].sources
       /\ DOMAIN draft[q].completed \subseteq DOMAIN base[q].tasks
  /\ pass[q] = "again" /\ pc[q] \in {"linked", "publishing"} => SeenAt(base[q].linked, ctx[q].tasks)

LoadOK(q) ==
  /\ ReviewOK(held[q])
  /\ held[q].kind # "none" /\ pc[q] = "linked" => SeenAt(held[q].of[2], ctx[q].tasks)

ReviewInv ==
  /\ Shapes
  /\ ReviewOK(saved)
  /\ \A q \in Generators : DraftOK(q)
  /\ \A q \in Loaders : LoadOK(q)

Typed == TypeOK /\ ReviewInv

-----------------------------------------------------------------------------
(* The types *)

LEMMA TypedInit == Init => Typed
<1> SUFFICES ASSUME Init PROVE Typed
  OBVIOUS
<1> USE OriginAssumption, RequestsAssumption, ChangesAssumption
<1>1. TypeOK
  <2>1. /\ place \in [Recordings -> {"linked", "elsewhere", "deleted"}]
        /\ \A r \in Recordings : place[r] # "deleted"
        /\ task \in [Tasks -> {"none", "open", "completed"}]
        /\ transcribed \subseteq Recordings
    BY DEF Init
  <2>2. /\ version \in [Recordings -> Nat] /\ wording \in [Tasks -> Nat]
        /\ saved.kind \in {"none", "saved"} /\ changes \in 0 .. MaxChanges
    BY DEF Init, NoReview
  <2>3. /\ pc \in [Requests -> {"idle", "sources", "tasks", "linked", "asking", "publishing", "done"}]
        /\ pass \in [Requests -> {"first", "again", "load"}]
    BY DEF Init
  <2> QED
    BY <2>1, <2>2, <2>3 DEF TypeOK
<1>2. Shapes
  BY DEF Init, Shapes, Requests, Nothing, IsContext
<1>3. ReviewOK(saved)
  BY DEF Init, ReviewOK, NoReview
<1>4. ASSUME NEW q \in Generators PROVE DraftOK(q)
  BY DEF Init, DraftOK, Requests
<1>5. ASSUME NEW q \in Loaders PROVE LoadOK(q)
  BY DEF Init, LoadOK, ReviewOK, NoReview
<1> QED
  BY <1>1, <1>2, <1>3, <1>4, <1>5 DEF Typed, ReviewInv

\* A step of a request leaves the rows alone.
RequestStep ==
  \/ \E q \in Requests : ReadSources(q) \/ ReadTasks(q)
  \/ \E q \in Generators :
       ReadLinked(q) \/ Draft(q) \/ DraftFails(q) \/ Publish(q) \/ Conflict(q)
  \/ \E q \in Loaders : Begin(q) \/ Show(q)

\* A step of somebody else leaves the requests and the saved review alone.
ChangeStep ==
  \/ \E r \in Recordings :
       Link(r) \/ DeleteRecording(r) \/ Transcribe(r) \/ Extract(r) \/ Touch(r)
  \/ \E t \in Tasks : Toggle(t) \/ EditItem(t)

LEMMA RequestsKeepRows ==
  ASSUME RequestStep
  PROVE  UNCHANGED rows /\ UNCHANGED changes
BY DEF RequestStep, ReadSources, ReadTasks, ReadLinked, Draft, DraftFails, Publish, Conflict,
       EndGenerator, Begin, Show

LEMMA RequestsTyped ==
  ASSUME TypeOK, RequestStep
  PROVE  TypeOK'
<1> USE RequestsAssumption DEF Requests
<1>1. UNCHANGED <<place, transcribed, version, task, wording, changes>>
  BY RequestsKeepRows DEF rows
<1>0. /\ saved.kind \in {"none", "saved"}
      /\ pc \in [Requests -> {"idle", "sources", "tasks", "linked", "asking", "publishing", "done"}]
      /\ pass \in [Requests -> {"first", "again", "load"}]
  BY DEF TypeOK
<1> DEFINE T == /\ saved'.kind \in {"none", "saved"}
                /\ pc' \in [Requests -> {"idle", "sources", "tasks", "linked", "asking", "publishing", "done"}]
                /\ pass' \in [Requests -> {"first", "again", "load"}]
<1>2. ASSUME NEW q \in Requests, ReadSources(q) \/ ReadTasks(q) PROVE T
  BY <1>0, <1>2 DEF ReadSources, ReadTasks
<1>3. ASSUME NEW q \in Generators, ReadLinked(q) PROVE T
  BY <1>0, <1>3 DEF ReadLinked
<1>4. ASSUME NEW q \in Generators, Draft(q) PROVE T
  BY <1>0, <1>4 DEF Draft
<1>5. ASSUME NEW q \in Generators, DraftFails(q) \/ Publish(q) \/ Conflict(q) PROVE T
  <2>1. pc' = [pc EXCEPT ![q] = "done"] /\ pass' = pass
    BY <1>5 DEF DraftFails, Publish, Conflict, EndGenerator, End
  <2>2. saved' = saved \/ saved'.kind = "saved"
    BY <1>5 DEF DraftFails, Publish, Conflict
  <2> QED
    BY <1>0, <2>1, <2>2
<1>6. ASSUME NEW q \in Loaders, Begin(q) PROVE T
  BY <1>0, <1>6 DEF Begin
<1>7. ASSUME NEW q \in Loaders, Show(q) PROVE T
  <2>1. pc' = [pc EXCEPT ![q] = "done"] /\ pass' = pass /\ saved' = saved
    BY <1>7 DEF Show, End
  <2> QED
    BY <1>0, <2>1
<1>8. T
  BY <1>2, <1>3, <1>4, <1>5, <1>6, <1>7 DEF RequestStep
<1> QED
  BY <1>1, <1>8 DEF TypeOK

\* A counter of a function that is raised.
LEMMA Raised ==
  ASSUME NEW D, NEW f \in [D -> Nat], NEW d \in D, NEW g, g = [f EXCEPT ![d] = @ + 1]
  PROVE  /\ g \in [D -> Nat] /\ f[d] < g[d]
         /\ \A x \in D : f[x] <= g[x] /\ (x # d => g[x] = f[x])
OBVIOUS

LEMMA ChangesTyped ==
  ASSUME TypeOK, ChangeStep
  PROVE  TypeOK'
<1> USE OriginAssumption, ChangesAssumption DEF TypeOK, Change, Touched, requests
<1>1. ASSUME NEW r \in Recordings, Link(r) PROVE TypeOK'
  BY <1>1 DEF Link
<1>2. ASSUME NEW r \in Recordings, DeleteRecording(r) PROVE TypeOK'
  BY <1>2 DEF DeleteRecording
<1>3. ASSUME NEW r \in Recordings, Transcribe(r) PROVE TypeOK'
  BY <1>3 DEF Transcribe
<1>4. ASSUME NEW r \in Recordings, Extract(r) PROVE TypeOK'
  BY <1>4 DEF Extract
<1>5. ASSUME NEW r \in Recordings, Touch(r) PROVE TypeOK'
  BY <1>5 DEF Touch
<1>6. ASSUME NEW t \in Tasks, Toggle(t) PROVE TypeOK'
  BY <1>6 DEF Toggle
<1>7. ASSUME NEW t \in Tasks, EditItem(t) PROVE TypeOK'
  <2>1. OriginOf[t] \in Recordings
    OBVIOUS
  <2>2. version' \in [Recordings -> Nat] /\ wording' \in [Tasks -> Nat]
    <3>1. version \in [Recordings -> Nat] /\ wording \in [Tasks -> Nat]
      OBVIOUS
    <3>2. /\ wording' = [wording EXCEPT ![t] = @ + 1]
          /\ version' = [version EXCEPT ![OriginOf[t]] = @ + 1]
      BY <1>7 DEF EditItem
    <3> QED
      BY ONLY <2>1, <3>1, <3>2, t \in Tasks, Raised
  <2>3. changes' \in 0 .. MaxChanges
    BY <1>7 DEF EditItem
  <2> QED
    BY <1>7, <2>2, <2>3 DEF EditItem
<1> QED
  BY <1>1, <1>2, <1>3, <1>4, <1>5, <1>6, <1>7 DEF ChangeStep

-----------------------------------------------------------------------------
(* What others write *)

\* Versions only grow, and they do when words change.
Grow ==
  /\ version \in [Recordings -> Nat] /\ version' \in [Recordings -> Nat]
  /\ \A r \in Recordings : version[r] <= version'[r]
  /\ \A t \in Tasks : wording'[t] = wording[t] \/ version[OriginOf[t]] < version'[OriginOf[t]]

LEMMA ChangesGrow ==
  ASSUME TypeOK, ChangeStep
  PROVE  Grow /\ UNCHANGED <<saved, requests>>
<1> USE OriginAssumption DEF TypeOK, Touched, requests, Grow
<1>1. ASSUME NEW r \in Recordings, Link(r) \/ DeleteRecording(r) \/ Transcribe(r) \/ Extract(r) \/ Touch(r)
      PROVE  Grow /\ UNCHANGED <<saved, requests>>
  BY <1>1 DEF Link, DeleteRecording, Transcribe, Extract, Touch
<1>2. ASSUME NEW t \in Tasks, Toggle(t) PROVE Grow /\ UNCHANGED <<saved, requests>>
  BY <1>2 DEF Toggle
<1>3. ASSUME NEW t \in Tasks, EditItem(t) PROVE Grow /\ UNCHANGED <<saved, requests>>
  <2>1. OriginOf[t] \in Recordings
    OBVIOUS
  <2>2. /\ wording' = [wording EXCEPT ![t] = @ + 1]
        /\ version' = [version EXCEPT ![OriginOf[t]] = @ + 1]
    BY <1>3 DEF EditItem
  <2>3. /\ version' \in [Recordings -> Nat]
        /\ \A r \in Recordings : version[r] <= version'[r]
    <3>1. version \in [Recordings -> Nat]
      OBVIOUS
    <3> QED
      BY ONLY <2>1, <2>2, <3>1, Raised
  <2>4. version[OriginOf[t]] < version'[OriginOf[t]]
    <3>1. version \in [Recordings -> Nat]
      OBVIOUS
    <3> QED
      BY ONLY <2>1, <2>2, <3>1, Raised
  <2>5. \A u \in Tasks : u # t => wording'[u] = wording[u]
    BY <2>2
  <2> QED
    BY <1>3, <2>3, <2>4, <2>5 DEF EditItem
<1> QED
  BY <1>1, <1>2, <1>3 DEF ChangeStep

\* So what was read of the past stays of the past, and words that were read with a
\* version stay those of the version.
LEMMA PastStays ==
  ASSUME Grow, NEW linked, Past(linked)
  PROVE  Past(linked)' /\ \A tasks : SeenAt(linked, tasks) => SeenAt(linked, tasks)'
<1>1. Past(linked)'
  BY DEF Grow, Past
<1>2. ASSUME NEW tasks, SeenAt(linked, tasks) PROVE SeenAt(linked, tasks)'
  <2> SUFFICES ASSUME NEW t \in DOMAIN tasks,
                      OriginOf[t] \in DOMAIN linked, linked[OriginOf[t]] = version'[OriginOf[t]]
               PROVE  tasks[t] = wording'[t]
    BY <1>2 DEF SeenAt
  <2>1. t \in Tasks /\ OriginOf[t] \in Recordings
    BY <1>2, OriginAssumption DEF SeenAt
  <2>2. linked[OriginOf[t]] <= version[OriginOf[t]] /\ version[OriginOf[t]] <= version'[OriginOf[t]]
    BY <2>1 DEF Past, Grow
  <2>3. version[OriginOf[t]] = version'[OriginOf[t]]
    BY <2>1, <2>2 DEF Grow
  <2>4. wording'[t] = wording[t]
    BY <2>1, <2>3 DEF Grow
  <2> QED
    BY <1>2, <2>3, <2>4 DEF SeenAt
<1> QED
  BY <1>1, <1>2

LEMMA ReviewStays ==
  ASSUME Grow, NEW review, ReviewOK(review)
  PROVE  ReviewOK(review)'
BY PastStays DEF ReviewOK, Cites

LEMMA ChangesKeep ==
  ASSUME Typed, ChangeStep
  PROVE  Typed'
<1>1. Grow /\ UNCHANGED <<saved, pc, pass, ctx, base, draft, held, shown>>
  BY ChangesGrow DEF Typed, requests
<1>2. Shapes'
  BY <1>1 DEF Typed, ReviewInv, Shapes
<1>3. ReviewOK(saved)'
  BY <1>1, ReviewStays DEF Typed, ReviewInv, ReviewOK
<1>4. ASSUME NEW q \in Generators PROVE DraftOK(q)'
  <2>1. DraftOK(q)
    BY DEF Typed, ReviewInv
  <2>2. pc[q] = "asking" => Past(ctx[q].linked)'
    BY <1>1, <2>1, PastStays DEF DraftOK
  <2>3. pass[q] = "again" => Past(base[q].linked)'
    BY <1>1, <2>1, PastStays DEF DraftOK
  <2>4. pass[q] = "again" /\ pc[q] \in {"linked", "publishing"} => SeenAt(base[q].linked, ctx[q].tasks)'
    BY <1>1, <2>1, PastStays DEF DraftOK
  <2> QED
    BY <1>1, <2>1, <2>2, <2>3, <2>4 DEF DraftOK, Past, SeenAt, Cites
<1>5. ASSUME NEW q \in Loaders PROVE LoadOK(q)'
  <2>1. LoadOK(q)
    BY DEF Typed, ReviewInv
  <2>2. ReviewOK(held[q])'
    BY <1>1, <2>1, ReviewStays DEF LoadOK, ReviewOK
  <2>3. held[q].kind # "none" /\ pc[q] = "linked" => SeenAt(held[q].of[2], ctx[q].tasks)'
    BY <1>1, <2>1, PastStays DEF LoadOK, ReviewOK
  <2> QED
    BY <1>1, <2>2, <2>3 DEF LoadOK, ReviewOK, SeenAt
<1> QED
  BY <1>2, <1>3, <1>4, <1>5, ChangesTyped DEF Typed, ReviewInv

-----------------------------------------------------------------------------
(* What a request does *)

\* A step of one request is none of the others'.
LEMMA OthersStay ==
  ASSUME Typed, RequestStep, ReviewOK(saved)', Shapes',
         \A q \in Generators :
           DraftOK(q)' \/ UNCHANGED <<pc[q], pass[q], ctx[q], base[q], draft[q]>>,
         \A q \in Loaders : LoadOK(q)' \/ UNCHANGED <<pc[q], ctx[q], held[q]>>
  PROVE  Typed'
<1>1. UNCHANGED <<version, wording>>
  BY RequestsKeepRows DEF rows
<1>2. ASSUME NEW q \in Generators PROVE DraftOK(q)'
  BY <1>1 DEF Typed, ReviewInv, DraftOK, Past, SeenAt, Cites
<1>3. ASSUME NEW q \in Loaders PROVE LoadOK(q)'
  BY <1>1 DEF Typed, ReviewInv, LoadOK, ReviewOK, Past, SeenAt, Cites
<1> QED
  BY <1>2, <1>3, RequestsTyped DEF Typed, ReviewInv

\* The saved review stays what it is while nothing is published.
LEMMA SavedStays ==
  ASSUME Typed, RequestStep, UNCHANGED saved
  PROVE  ReviewOK(saved)'
<1>1. UNCHANGED <<version, wording>>
  BY RequestsKeepRows DEF rows
<1> QED
  BY <1>1 DEF Typed, ReviewInv, ReviewOK, Past, SeenAt, Cites

\* A field of a context that is read.
LEMMA ContextFields ==
  ASSUME NEW c, IsContext(c), NEW x
  PROVE  /\ \A d : d = [c EXCEPT !.sources = x] =>
                     IsContext(d) /\ d.sources = x /\ d.tasks = c.tasks /\ d.linked = c.linked
         /\ \A d : d = [c EXCEPT !.tasks = x] =>
                     IsContext(d) /\ d.sources = c.sources /\ d.tasks = x /\ d.linked = c.linked
         /\ \A d : d = [c EXCEPT !.linked = x] =>
                     IsContext(d) /\ d.sources = c.sources /\ d.tasks = c.tasks /\ d.linked = x
<1>1. ASSUME NEW d, d = [c EXCEPT !.sources = x]
      PROVE  IsContext(d) /\ d.sources = x /\ d.tasks = c.tasks /\ d.linked = c.linked
  <2>1. IsContext(d)
    BY <1>1 DEF IsContext
  <2> QED
    BY <1>1, <2>1 DEF IsContext
<1>2. ASSUME NEW d, d = [c EXCEPT !.tasks = x]
      PROVE  IsContext(d) /\ d.sources = c.sources /\ d.tasks = x /\ d.linked = c.linked
  <2>1. IsContext(d)
    BY <1>2 DEF IsContext
  <2> QED
    BY <1>2, <2>1 DEF IsContext
<1>3. ASSUME NEW d, d = [c EXCEPT !.linked = x]
      PROVE  IsContext(d) /\ d.sources = c.sources /\ d.tasks = c.tasks /\ d.linked = x
  <2>1. IsContext(d)
    BY <1>3 DEF IsContext
  <2> QED
    BY <1>3, <2>1 DEF IsContext
<1> QED
  BY <1>1, <1>2, <1>3

LEMMA ReadSourcesKeeps ==
  ASSUME Typed, NEW q \in Requests, ReadSources(q)
  PROVE  Typed'
<1>1. /\ pc[q] = "sources" /\ pc' = [pc EXCEPT ![q] = "tasks"]
      /\ ctx' = [ctx EXCEPT ![q] = [ctx[q] EXCEPT !.sources = Linked \cap transcribed]]
      /\ UNCHANGED <<rows, saved, pass, base, draft, held, shown, changes>>
  BY DEF ReadSources
<1>2. RequestStep
  BY DEF RequestStep
<1>3. Shapes
  BY DEF Typed, ReviewInv
<1>4. IsContext(ctx[q]) /\ ctx'[q] = [ctx[q] EXCEPT !.sources = Linked \cap transcribed]
  BY <1>1, <1>3 DEF Shapes
<1>5. IsContext(ctx'[q])
  BY <1>4, ContextFields
<1>6. Shapes'
  BY <1>1, <1>3, <1>5 DEF Shapes, Requests
<1>7. ASSUME NEW p \in Generators
      PROVE  DraftOK(p)' \/ UNCHANGED <<pc[p], pass[p], ctx[p], base[p], draft[p]>>
  <2>1. CASE p # q
    BY <1>1, <1>3, <2>1 DEF Shapes
  <2>2. CASE p = q
    <3>1. pc'[q] = "tasks" /\ UNCHANGED <<version, pass, base, draft>>
      BY <1>1, <1>3 DEF Shapes, rows
    <3> QED
      BY <2>2, <3>1 DEF Typed, ReviewInv, DraftOK, Past, Cites
  <2> QED
    BY <2>1, <2>2
<1>8. ASSUME NEW p \in Loaders PROVE LoadOK(p)' \/ UNCHANGED <<pc[p], ctx[p], held[p]>>
  <2>1. CASE p # q
    BY <1>1, <1>3, <2>1 DEF Shapes
  <2>2. CASE p = q
    <3>1. pc'[q] = "tasks" /\ UNCHANGED <<version, wording, held>>
      BY <1>1, <1>3 DEF Shapes, rows
    <3> QED
      BY <2>2, <3>1 DEF Typed, ReviewInv, LoadOK, ReviewOK, Past, SeenAt, Cites
  <2> QED
    BY <2>1, <2>2
<1>9. ReviewOK(saved)'
  BY <1>1, <1>2, SavedStays
<1> QED
  BY <1>2, <1>6, <1>7, <1>8, <1>9, OthersStay

\* The words of the tasks are read: they are those of every version.
LEMMA ReadTasksKeeps ==
  ASSUME Typed, NEW q \in Requests, ReadTasks(q)
  PROVE  Typed'
<1>1. /\ pc[q] = "tasks" /\ pc' = [pc EXCEPT ![q] = "linked"]
      /\ ctx' = [ctx EXCEPT ![q] = [ctx[q] EXCEPT !.tasks = [t \in OpenTasks |-> wording[t]]]]
      /\ UNCHANGED <<rows, saved, pass, base, draft, held, shown, changes>>
  BY DEF ReadTasks
<1>2. RequestStep
  BY DEF RequestStep
<1>3. Shapes
  BY DEF Typed, ReviewInv
<1>4. IsContext(ctx[q]) /\ ctx'[q] = [ctx[q] EXCEPT !.tasks = [t \in OpenTasks |-> wording[t]]]
  BY <1>1, <1>3 DEF Shapes
<1>5. IsContext(ctx'[q]) /\ ctx'[q].tasks = [t \in OpenTasks |-> wording[t]]
  BY <1>4, ContextFields
<1>6. Shapes'
  BY <1>1, <1>3, <1>5 DEF Shapes, Requests
<1>7. UNCHANGED <<version, wording>>
  BY <1>1 DEF rows
<1>8. \A linked : SeenAt(linked, ctx[q].tasks)'
  BY <1>5, <1>7 DEF SeenAt, OpenTasks
<1>9. ASSUME NEW p \in Generators
      PROVE  DraftOK(p)' \/ UNCHANGED <<pc[p], pass[p], ctx[p], base[p], draft[p]>>
  <2>1. CASE p # q
    BY <1>1, <1>3, <2>1 DEF Shapes
  <2>2. CASE p = q
    <3>1. pc'[q] = "linked" /\ UNCHANGED <<pass, base, draft>>
      BY <1>1, <1>3 DEF Shapes
    <3>2. SeenAt(base[q].linked, ctx[q].tasks)'
      BY <1>8, <3>1 DEF SeenAt
    <3> QED
      BY <1>7, <2>2, <3>1, <3>2 DEF Typed, ReviewInv, DraftOK, Past, Cites
  <2> QED
    BY <2>1, <2>2
<1>10. ASSUME NEW p \in Loaders PROVE LoadOK(p)' \/ UNCHANGED <<pc[p], ctx[p], held[p]>>
  <2>1. CASE p # q
    BY <1>1, <1>3, <2>1 DEF Shapes
  <2>2. CASE p = q
    <3>1. pc'[q] = "linked" /\ UNCHANGED held
      BY <1>1, <1>3 DEF Shapes
    <3>2. SeenAt(held[q].of[2], ctx[q].tasks)'
      BY <1>8, <3>1 DEF SeenAt
    <3> QED
      BY <1>7, <2>2, <3>1, <3>2 DEF Typed, ReviewInv, LoadOK, ReviewOK, Past, SeenAt, Cites
  <2> QED
    BY <2>1, <2>2
<1>11. ReviewOK(saved)'
  BY <1>1, <1>2, SavedStays
<1> QED
  BY <1>2, <1>6, <1>9, <1>10, <1>11, OthersStay

LEMMA ReadLinkedKeeps ==
  ASSUME Typed, NEW q \in Generators, ReadLinked(q)
  PROVE  Typed'
<1>1. /\ pc[q] = "linked" /\ pc' = [pc EXCEPT ![q] = IF pass[q] = "first" THEN "asking" ELSE "publishing"]
      /\ ctx' = [ctx EXCEPT ![q] = [ctx[q] EXCEPT !.linked = [r \in Linked |-> version[r]]]]
      /\ UNCHANGED <<rows, saved, pass, base, draft, held, shown, changes>>
  BY DEF ReadLinked, Completed
<1>2. RequestStep
  BY DEF RequestStep
<1>3. Shapes /\ q \in Requests /\ q \notin Loaders
  BY RequestsAssumption DEF Typed, ReviewInv, Requests
<1>4. IsContext(ctx[q]) /\ ctx'[q] = [ctx[q] EXCEPT !.linked = [r \in Linked |-> version[r]]]
  BY <1>1, <1>3 DEF Shapes
<1>5. IsContext(ctx'[q]) /\ ctx'[q].linked = [r \in Linked |-> version[r]] /\ ctx'[q].tasks = ctx[q].tasks
  BY <1>4, ContextFields
<1>6. Shapes'
  BY <1>1, <1>3, <1>5 DEF Shapes
<1>7. UNCHANGED <<version, wording, pass, base, draft>>
  BY <1>1 DEF rows
<1>8. Past(ctx[q].linked)'
  <2>1. \A r \in Linked : r \in Recordings /\ version[r] \in Nat /\ version[r] <= version[r]
    BY DEF Typed, TypeOK, Linked
  <2>2. PICK read : read = [r \in Linked |-> version[r]]
    OBVIOUS
  <2>3. DOMAIN read = Linked /\ \A r \in Linked : read[r] = version[r]
    BY <2>2
  <2>4. Past(read)
    BY <2>1, <2>3 DEF Past
  <2>5. ctx'[q].linked = read /\ version' = version
    BY <1>5, <1>7, <2>2
  <2> QED
    BY <2>4, <2>5 DEF Past
<1>9. ASSUME NEW p \in Generators
      PROVE  DraftOK(p)' \/ UNCHANGED <<pc[p], pass[p], ctx[p], base[p], draft[p]>>
  <2>1. CASE p # q
    BY <1>1, <1>3, <2>1 DEF Shapes
  <2>2. CASE p = q
    <3>1. DraftOK(q)
      BY DEF Typed, ReviewInv
    <3>2. pass[q] = "again" => SeenAt(base[q].linked, ctx[q].tasks)'
      BY <1>1, <1>5, <1>7, <3>1 DEF DraftOK, SeenAt
    <3> QED
      BY <1>7, <1>8, <2>2, <3>1, <3>2 DEF DraftOK, Past, Cites
  <2> QED
    BY <2>1, <2>2
<1>10. \A p \in Loaders : UNCHANGED <<pc[p], ctx[p], held[p]>>
  BY <1>1, <1>3 DEF Shapes
<1>11. ReviewOK(saved)'
  BY <1>1, <1>2, SavedStays
<1> QED
  BY <1>2, <1>6, <1>9, <1>10, <1>11, OthersStay

LEMMA EmptyContext == IsContext(Nothing)
BY DEF IsContext, Nothing

\* The draft quotes what it was sent and closes what it was sent.
LEMMA DraftKeeps ==
  ASSUME Typed, NEW q \in Generators, Draft(q)
  PROVE  Typed'
<1>1. PICK cited \in SUBSET ctx[q].sources, done \in SUBSET DOMAIN ctx[q].tasks :
        \E evidence \in [done -> Recordings] :
          /\ \A t \in done : evidence[t] \in Evidence(ctx[q], t)
          /\ draft' = [draft EXCEPT ![q] = [cited |-> cited, completed |-> evidence]]
  BY DEF Draft
<1>2. PICK evidence \in [done -> Recordings] :
        /\ \A t \in done : evidence[t] \in Evidence(ctx[q], t)
        /\ draft' = [draft EXCEPT ![q] = [cited |-> cited, completed |-> evidence]]
  BY <1>1
<1>3. /\ pc[q] = "asking" /\ pc' = [pc EXCEPT ![q] = "sources"]
      /\ base' = [base EXCEPT ![q] = ctx[q]] /\ ctx' = [ctx EXCEPT ![q] = Nothing]
      /\ pass' = [pass EXCEPT ![q] = "again"]
      /\ UNCHANGED <<rows, saved, held, shown, changes>>
  BY DEF Draft
<1>4. RequestStep
  BY DEF RequestStep
<1>5. Shapes /\ q \in Requests /\ q \notin Loaders
  BY RequestsAssumption DEF Typed, ReviewInv, Requests
<1>6. Shapes'
  BY <1>2, <1>3, <1>5, EmptyContext DEF Shapes, Requests
<1>7. /\ pc'[q] = "sources" /\ base'[q] = ctx[q]
      /\ draft'[q].cited = cited /\ draft'[q].completed = evidence /\ DOMAIN evidence = done
  BY <1>2, <1>3, <1>5 DEF Shapes
<1>8. Past(ctx[q].linked)
  BY <1>3 DEF Typed, ReviewInv, DraftOK
<1>9. Cites(draft'[q]) \subseteq ctx[q].sources
  <2>1. \A t \in done : evidence[t] \in ctx[q].sources
    BY <1>2 DEF Evidence
  <2> QED
    BY <1>1, <1>7, <2>1 DEF Cites
<1>10. version' = version
  BY <1>3 DEF rows
<1>11. DraftOK(q)'
  BY <1>7, <1>8, <1>9, <1>10 DEF DraftOK, Past, Cites
<1>12. ASSUME NEW p \in Generators
       PROVE  DraftOK(p)' \/ UNCHANGED <<pc[p], pass[p], ctx[p], base[p], draft[p]>>
  <2>1. CASE p # q
    BY <1>2, <1>3, <1>5, <2>1 DEF Shapes, Requests
  <2>2. CASE p = q
    BY <1>11, <2>2
  <2> QED
    BY <2>1, <2>2
<1>13. \A p \in Loaders : UNCHANGED <<pc[p], ctx[p], held[p]>>
  BY <1>3, <1>5 DEF Shapes
<1>14. ReviewOK(saved)'
  BY <1>3, <1>4, SavedStays
<1> QED
  BY <1>4, <1>6, <1>12, <1>13, <1>14, OthersStay

\* A generator that ends forgets what it read.
LEMMA EndKeeps ==
  ASSUME Typed, NEW q \in Generators, EndGenerator(q), RequestStep, ReviewOK(saved)'
  PROVE  Typed'
<1>1. /\ pc' = [pc EXCEPT ![q] = "done"] /\ ctx' = [ctx EXCEPT ![q] = Nothing] /\ pass' = pass
      /\ base' = [base EXCEPT ![q] = Nothing] /\ draft' = [draft EXCEPT ![q] = NoDraft]
      /\ UNCHANGED <<held, shown>>
  BY DEF EndGenerator, End
<1>2. Shapes /\ q \in Requests /\ q \notin Loaders
  BY RequestsAssumption DEF Typed, ReviewInv, Requests
<1>3. Shapes'
  BY <1>1, <1>2, EmptyContext DEF Shapes, Requests
<1>4. pc'[q] = "done" /\ base'[q] = Nothing /\ draft'[q] = NoDraft
  BY <1>1, <1>2 DEF Shapes
<1>5. DraftOK(q)'
  BY <1>4 DEF DraftOK, Past, Cites, Nothing, NoDraft
<1>6. ASSUME NEW p \in Generators
      PROVE  DraftOK(p)' \/ UNCHANGED <<pc[p], pass[p], ctx[p], base[p], draft[p]>>
  <2>1. CASE p # q
    BY <1>1, <1>2, <2>1 DEF Shapes, Requests
  <2>2. CASE p = q
    BY <1>5, <2>2
  <2> QED
    BY <2>1, <2>2
<1>7. \A p \in Loaders : UNCHANGED <<pc[p], ctx[p], held[p]>>
  BY <1>1, <1>2 DEF Shapes
<1> QED
  BY <1>3, <1>6, <1>7, OthersStay

\* What is published was assessed by the words of its versions.
LEMMA PublishKeeps ==
  ASSUME Typed, NEW q \in Generators, Publish(q)
  PROVE  Typed'
<1>1. /\ pc[q] = "publishing" /\ Same(q) /\ EndGenerator(q)
      /\ saved' = [kind |-> "saved", of |-> Fingerprint(base[q]), cited |-> draft[q].cited,
                   completed |-> draft[q].completed, assessed |-> base[q].tasks]
  BY DEF Publish
<1>2. RequestStep
  BY DEF RequestStep
<1>3. pass[q] = "again" /\ DraftOK(q)
  BY <1>1 DEF Typed, ReviewInv, Shapes
<1>4. /\ Past(base[q].linked) /\ SeenAt(base[q].linked, ctx[q].tasks)
      /\ Cites(draft[q]) \subseteq base[q].sources
      /\ DOMAIN draft[q].completed \subseteq DOMAIN base[q].tasks
  BY <1>1, <1>3 DEF DraftOK
<1>5. ctx[q].tasks = base[q].tasks
  BY <1>1 DEF Same, Payload
<1>6. UNCHANGED <<version, wording>>
  BY <1>2, RequestsKeepRows DEF rows
<1>7. ReviewOK(saved)'
  <2>1. /\ saved'.of[1] = base[q].sources /\ saved'.of[2] = base[q].linked
        /\ saved'.cited = draft[q].cited /\ saved'.completed = draft[q].completed
        /\ saved'.assessed = base[q].tasks
    BY <1>1 DEF Fingerprint
  <2>2. Cites(saved') \subseteq base[q].sources
    BY <1>4, <2>1 DEF Cites
  <2>3. Past(saved'.of[2]) /\ SeenAt(saved'.of[2], saved'.assessed)
    BY <1>4, <1>5, <2>1
  <2> QED
    BY <1>4, <1>6, <2>1, <2>2, <2>3 DEF ReviewOK, Past, SeenAt, Cites
<1> QED
  BY <1>1, <1>2, <1>7, EndKeeps

LEMMA BeginKeeps ==
  ASSUME Typed, NEW q \in Loaders, Begin(q)
  PROVE  Typed'
<1>1. /\ pc' = [pc EXCEPT ![q] = "sources"] /\ held' = [held EXCEPT ![q] = saved]
      /\ UNCHANGED <<rows, saved, pass, ctx, base, draft, shown, changes>>
  BY DEF Begin
<1>2. RequestStep
  BY DEF RequestStep
<1>3. Shapes /\ q \in Requests /\ q \notin Generators
  BY RequestsAssumption DEF Typed, ReviewInv, Requests
<1>4. Shapes'
  BY <1>1, <1>3 DEF Shapes
<1>5. pc'[q] = "sources" /\ held'[q] = saved /\ saved' = saved
  BY <1>1, <1>3 DEF Shapes
<1>6. ReviewOK(saved)'
  BY <1>1, <1>2, SavedStays
<1>7. LoadOK(q)'
  BY <1>5, <1>6 DEF LoadOK, ReviewOK
<1>8. ASSUME NEW p \in Loaders PROVE LoadOK(p)' \/ UNCHANGED <<pc[p], ctx[p], held[p]>>
  <2>1. CASE p # q
    BY <1>1, <1>3, <2>1 DEF Shapes, Requests
  <2>2. CASE p = q
    BY <1>7, <2>2
  <2> QED
    BY <2>1, <2>2
<1>9. \A p \in Generators : UNCHANGED <<pc[p], pass[p], ctx[p], base[p], draft[p]>>
  BY <1>1, <1>3 DEF Shapes
<1> QED
  BY <1>2, <1>4, <1>6, <1>8, <1>9, OthersStay

LEMMA ShowKeeps ==
  ASSUME Typed, NEW q \in Loaders, Show(q)
  PROVE  Typed'
<1>1. /\ pc' = [pc EXCEPT ![q] = "done"] /\ ctx' = [ctx EXCEPT ![q] = Nothing] /\ pass' = pass
      /\ held' = [held EXCEPT ![q] = NoReview]
      /\ UNCHANGED <<rows, saved, base, draft, changes>>
  BY DEF Show, End
<1>2. RequestStep
  BY DEF RequestStep
<1>3. Shapes /\ q \in Requests /\ q \notin Generators
  BY RequestsAssumption DEF Typed, ReviewInv, Requests
<1>4. DOMAIN shown' = Loaders
  BY <1>3 DEF Show, Shapes
<1>5. Shapes'
  BY <1>1, <1>3, <1>4, EmptyContext DEF Shapes
<1>6. held'[q] = NoReview
  BY <1>1, <1>3 DEF Shapes
<1>7. LoadOK(q)'
  BY <1>6 DEF LoadOK, ReviewOK, NoReview
<1>8. ASSUME NEW p \in Loaders PROVE LoadOK(p)' \/ UNCHANGED <<pc[p], ctx[p], held[p]>>
  <2>1. CASE p # q
    BY <1>1, <1>3, <2>1 DEF Shapes, Requests
  <2>2. CASE p = q
    BY <1>7, <2>2
  <2> QED
    BY <2>1, <2>2
<1>9. \A p \in Generators : UNCHANGED <<pc[p], pass[p], ctx[p], base[p], draft[p]>>
  BY <1>1, <1>3 DEF Shapes
<1>10. ReviewOK(saved)'
  BY <1>1, <1>2, SavedStays
<1> QED
  BY <1>2, <1>5, <1>8, <1>9, <1>10, OthersStay

LEMMA RequestsKeep ==
  ASSUME Typed, RequestStep
  PROVE  Typed'
<1>1. ASSUME NEW q \in Generators, DraftFails(q) \/ Conflict(q) PROVE Typed'
  <2>1. EndGenerator(q) /\ UNCHANGED saved
    BY <1>1 DEF DraftFails, Conflict
  <2> QED
    BY <2>1, SavedStays, EndKeeps
<1> QED
  BY <1>1, ReadSourcesKeeps, ReadTasksKeeps, ReadLinkedKeeps, DraftKeeps, PublishKeeps, BeginKeeps,
     ShowKeeps DEF RequestStep

LEMMA TypedStep == Typed /\ [Next]_vars => Typed'
<1> SUFFICES ASSUME Typed, [Next]_vars PROVE Typed'
  OBVIOUS
<1>1. CASE RequestStep
  BY <1>1, RequestsKeep
<1>2. CASE ChangeStep
  BY <1>2, ChangesKeep
<1>3. CASE UNCHANGED vars
  BY <1>3 DEF vars, rows, requests, Typed, TypeOK, ReviewInv, Shapes, ReviewOK, DraftOK, LoadOK,
              Past, SeenAt, Cites, IsContext
<1> QED
  BY <1>1, <1>2, <1>3 DEF Next, RequestStep, ChangeStep

LEMMA AlwaysTyped == Spec => []Typed
BY TypedInit, TypedStep, PTL DEF Spec

\* The rows, the requests' places and the saved review have their types, and nothing is
\* left of the tasks of a recording that was deleted.
THEOREM ReviewTypeCorrect == Spec => []TypeOK
BY AlwaysTyped, PTL DEF Typed

-----------------------------------------------------------------------------
(* What is shown *)

\* Only a loader that answers changes what is shown, in its own answer.
LEMMA OnlyShow ==
  ASSUME Typed, [Next]_vars, NEW q \in Loaders, shown'[q] # shown[q]
  PROVE  Show(q)
<1>1. RequestStep
  <2>1. ChangeStep => UNCHANGED shown
    BY ChangesGrow DEF Typed, requests
  <2>2. ~UNCHANGED vars
    BY DEF vars, requests
  <2> QED
    BY <2>1, <2>2 DEF Next, RequestStep, ChangeStep
<1>2. PICK p \in Loaders : Show(p)
  BY <1>1 DEF RequestStep, ReadSources, ReadTasks, ReadLinked, Draft, DraftFails, Publish, Conflict,
              EndGenerator, Begin
<1>3. \A x \in Loaders : x # p => shown'[x] = shown[x]
  BY <1>2 DEF Show, Typed, ReviewInv, Shapes
<1> QED
  BY <1>2, <1>3

\* A fresh answer is the held review, made from the context that was just read.
FreshAnswer(q) ==
  /\ held[q].kind # "none" /\ held[q].of = <<ctx[q].sources, [r \in Linked |-> version[r]]>>
  /\ shown'[q].cited = held[q].cited /\ shown'[q].assessed = held[q].assessed
  /\ shown'[q].tasks = ctx[q].tasks
  /\ DOMAIN shown'[q].completed \subseteq DOMAIN held[q].completed \cap DOMAIN ctx[q].tasks
  /\ \A t \in DOMAIN shown'[q].completed : shown'[q].completed[t] = held[q].completed[t]

LEMMA Answered ==
  ASSUME Typed, NEW q \in Loaders, Show(q)
  PROVE  \/ shown'[q].cited = {} /\ DOMAIN shown'[q].completed = {}
         \/ FreshAnswer(q)
<1>1. Shapes /\ q \in Requests
  BY DEF Typed, ReviewInv, Requests
<1>2. PICK c : c = Completed(q)
  OBVIOUS
<1>3. c.sources = ctx[q].sources /\ c.tasks = ctx[q].tasks /\ c.linked = [r \in Linked |-> version[r]]
  <2>1. IsContext(ctx[q])
    BY <1>1 DEF Shapes
  <2> QED
    BY <1>2, <2>1, ContextFields DEF Completed
<1>4. shown'[q] = IF Fresh(q, c)
             THEN [kind |-> "fresh", cited |-> held[q].cited,
                   completed |-> [t \in DOMAIN held[q].completed \cap DOMAIN c.tasks |-> held[q].completed[t]],
                   assessed |-> held[q].assessed, tasks |-> c.tasks]
             ELSE [NoAnswer EXCEPT !.kind = IF held[q].kind = "none" THEN "none" ELSE "stale"]
  BY <1>1, <1>2 DEF Show, Shapes
<1>5. ASSUME Fresh(q, c) PROVE FreshAnswer(q)
  <2>1. held[q].kind # "none" /\ held[q].of = <<ctx[q].sources, [r \in Linked |-> version[r]]>>
    BY <1>3, <1>5 DEF Fresh, Fingerprint
  <2>2. /\ shown'[q].cited = held[q].cited /\ shown'[q].assessed = held[q].assessed
        /\ shown'[q].tasks = c.tasks
        /\ shown'[q].completed = [t \in DOMAIN held[q].completed \cap DOMAIN c.tasks |-> held[q].completed[t]]
    BY <1>4, <1>5
  <2> QED
    BY <1>3, <2>1, <2>2 DEF FreshAnswer
<1>6. ASSUME ~Fresh(q, c) PROVE shown'[q].cited = {} /\ DOMAIN shown'[q].completed = {}
  BY <1>4, <1>6 DEF NoAnswer
<1> QED
  BY <1>5, <1>6

\* A suggestion is shown with the words it was assessed by: whatever was edited before the
\* answer, of a task of a recording that is the client's (load_review and generate_review).
THEOREM ShownIsCurrent == Spec => ShownMatchesTasks
<1> DEFINE Current(q) ==
             shown'[q] # shown[q] =>
               \A t \in DOMAIN shown'[q].completed :
                 OriginOf[t] \in Linked => shown'[q].tasks[t] = shown'[q].assessed[t]
<1>1. Typed /\ [Next]_vars => [\A q \in Loaders : Current(q)]_vars
  <2> SUFFICES ASSUME Typed, [Next]_vars, NEW q \in Loaders, shown'[q] # shown[q],
                      NEW t \in DOMAIN shown'[q].completed, OriginOf[t] \in Linked
               PROVE  shown'[q].tasks[t] = shown'[q].assessed[t]
    OBVIOUS
  <2>1. Show(q)
    BY OnlyShow
  <2>2. FreshAnswer(q)
    BY <2>1, Answered
  <2>3. t \in DOMAIN held[q].completed /\ t \in DOMAIN ctx[q].tasks
    BY <2>2 DEF FreshAnswer
  <2>4. pc[q] = "linked" /\ LoadOK(q)
    BY <2>1 DEF Show, Typed, ReviewInv
  <2>5. /\ SeenAt(held[q].of[2], held[q].assessed) /\ SeenAt(held[q].of[2], ctx[q].tasks)
        /\ t \in DOMAIN held[q].assessed
    BY <2>2, <2>3, <2>4 DEF FreshAnswer, LoadOK, ReviewOK
  <2>6. OriginOf[t] \in DOMAIN held[q].of[2] /\ held[q].of[2][OriginOf[t]] = version[OriginOf[t]]
    BY <2>2 DEF FreshAnswer
  <2>7. held[q].assessed[t] = wording[t] /\ ctx[q].tasks[t] = wording[t]
    BY <2>3, <2>5, <2>6 DEF SeenAt
  <2> QED
    BY <2>2, <2>7 DEF FreshAnswer
<1> QED
  BY <1>1, AlwaysTyped, PTL DEF Spec, ShownMatchesTasks

\* An answer quotes only recordings that were the client's, with their text, when the
\* request read the sources (client/review.py 175).
THEOREM NothingGone == Spec => NothingGoneIsShown
<1>1. Typed /\ [Next]_vars =>
        [\A q \in Loaders : shown'[q] # shown[q] => Cites(shown'[q]) \subseteq ctx[q].sources]_vars
  <2> SUFFICES ASSUME Typed, [Next]_vars, NEW q \in Loaders, shown'[q] # shown[q]
               PROVE  Cites(shown'[q]) \subseteq ctx[q].sources
    OBVIOUS
  <2>1. Show(q)
    BY OnlyShow
  <2>2. CASE shown'[q].cited = {} /\ DOMAIN shown'[q].completed = {}
    BY <2>2 DEF Cites
  <2>3. CASE FreshAnswer(q)
    <3>1. Cites(shown'[q]) \subseteq Cites(held[q])
      BY <2>3 DEF FreshAnswer, Cites
    <3>2. Cites(held[q]) \subseteq held[q].of[1]
      BY <2>3 DEF FreshAnswer, Typed, ReviewInv, LoadOK, ReviewOK
    <3>3. held[q].of[1] = ctx[q].sources
      BY <2>3 DEF FreshAnswer
    <3> QED
      BY <3>1, <3>2, <3>3
  <2> QED
    BY <2>1, <2>2, <2>3, Answered
<1> QED
  BY <1>1, AlwaysTyped, PTL DEF Spec, NothingGoneIsShown
=============================================================================
