---------------------------- MODULE BackupProofs ----------------------------
(***************************************************************************)
(* Proofs about Backup, for every set of runs and of recordings: published *)
(* snapshots are of one time, and a heartbeat stands for objects that are  *)
(* still as they were verified.                                            *)
(***************************************************************************)
EXTENDS Backup, TLAPS

(* The inductive invariant *)

\* The source bucket and the dump. What a run has seen has been stored, and what is
\* stored then was stored all along, since nothing is stored twice.
Seen(r) ==
  /\ \A k \in dumped[r] : life[k] \in {"kept", "losing", "gone"}
  /\ \A k \in before[r] \cup seen[r] : life[k] # "new"

\* What the inventories have found so far.
Listed(r) ==
  /\ pc[r] \in {"idle", "dumped", "uploaded", "verified"} => at[r] = 0
  /\ pc[r] \in {"idle", "dumped", "uploaded", "verified", "listing", "copying", "copied"} =>
       again[r] = {}
  /\ pc[r] = "listing" => \A k \in before[r] \cap Stored : k <= at[r] => k \in seen[r]
  /\ pc[r] \in {"copying", "copied", "relisting"} => before[r] \cap Stored \subseteq seen[r]
  /\ pc[r] \in {"listing", "copying", "copied", "relisting"} =>
       dumped[r] \cap Stored \subseteq before[r]
  /\ pc[r] = "relisting" => (seen[r] \cap Stored) \cup (seen[r] \cap again[r]) \subseteq midway[r]

\* The snapshot of a run is of one time.
OfOneTime(r) ==
  /\ seen[r] \subseteq midway[r]
  /\ before[r] \cap after[r] \subseteq seen[r]
  /\ dumped[r] \cap after[r] \subseteq seen[r]

Compared(r) ==
  /\ pc[r] \in {"compared", "published", "done"} => OfOneTime(r)
  /\ <<r, "recordings">> \in manifests =>
       pc[r] \in {"published", "done", "failed"} /\ OfOneTime(r)

\* The backup bucket: what the run has verified is still there.
Kept(r) ==
  /\ pc[r] \in Stages \ {"idle", "dumped", "uploaded", "failed"} => Intact(r, Database)
  /\ pc[r] = "copying" => \A k \in seen[r] : k <= at[r] => Intact(r, k)
  /\ pc[r] = "copied" => \A k \in seen[r] : k < at[r] => Intact(r, k)
  /\ pc[r] \in {"relisting", "compared", "published", "done"} =>
       \A k \in seen[r] : Intact(r, k)

Announced(r) ==
  /\ pc[r] \in {"listing", "copying", "copied", "relisting", "compared", "published", "done"} =>
       <<r, "database">> \in manifests
  /\ pc[r] \in {"published", "done"} => <<r, "recordings">> \in manifests
  /\ r \in pinged => pc[r] = "done"

IInv ==
  /\ TypeOK
  /\ \A r \in Runs : Seen(r) /\ Listed(r) /\ Compared(r) /\ Kept(r) /\ Announced(r)

-----------------------------------------------------------------------------

\* Keys, and the position before the first one, are numbers, and keys compare.
LEMMA Numbers ==
  /\ \A x \in Keys \cup {0} : x \in Nat
  /\ \A x \in Keys : ~(x <= 0)
  /\ \A x, y \in Keys \cup {0} : x <= y => x < y \/ x = y
<1>1. \A x \in Keys : x \in Nat \ {0}
  BY KeysAssumption
<1>2. 0 \in Nat
  OBVIOUS
<1>3. \A x \in Keys \cup {0} : x \in Nat
  BY <1>1, <1>2, Zenon
<1>4. \A x, y \in Nat : x <= y => x < y \/ x = y
  OBVIOUS
<1>5. \A x \in Nat \ {0} : ~(x <= 0)
  OBVIOUS
<1> QED BY <1>1, <1>3, <1>4, <1>5, Zenon

\* The invariant holds when the backup bucket is empty and no run has begun.
LEMMA InitInv == Init => IInv
<1> SUFFICES ASSUME Init PROVE IInv OBVIOUS
<1> USE DEF Init
<1>1. TypeOK BY DEF TypeOK, Lives, Stages, Names
<1>2. \A r \in Runs : Seen(r) /\ Listed(r)
  BY DEF Seen, Listed
<1>3. \A r \in Runs : Compared(r) /\ Kept(r) /\ Announced(r)
  BY DEF Compared, Kept, Announced, Stages
<1> QED BY <1>1, <1>2, <1>3 DEF IInv

\* Uploads keep the bucket a function of names to ciphertexts, and change one name.
LEMMA UploadsOne ==
  ASSUME TypeOK, NEW r \in Runs, NEW i \in Items, Upload(r, i)
  PROVE  /\ remote' \in [Names -> {NothingYet, Damaged} \cup
                                   {Cipher(q, j) : q \in Runs, j \in Items}]
         /\ \A q \in Runs, j \in Items : <<q, j>> # <<r, i>> =>
              remote'[<<Prefix(q), j>>] = remote[<<Prefix(q), j>>]
<1>1. PICK c \in {Cipher(r, i), Damaged} : remote' = [remote EXCEPT ![<<Prefix(r), i>>] = c]
  BY DEF Upload
<1>2. c \in {NothingYet, Damaged} \cup {Cipher(q, j) : q \in Runs, j \in Items}
  BY <1>1
<1>3. remote \in [Names -> {NothingYet, Damaged} \cup {Cipher(q, j) : q \in Runs, j \in Items}]
  BY DEF TypeOK
<1> DEFINE Contents == {NothingYet, Damaged} \cup {Cipher(q, j) : q \in Runs, j \in Items}
<1>4. remote' \in [Names -> Contents]
  <2>1. c \in Contents /\ remote \in [Names -> Contents] BY <1>2, <1>3
  <2> HIDE DEF Contents
  <2> QED BY <1>1, <2>1
<1>5. \A q \in Runs, j \in Items : <<Prefix(q), j>> \in Names
  BY DEF Names
<1>6. \A q \in Runs, j \in Items : <<q, j>> # <<r, i>> => <<Prefix(q), j>> # <<Prefix(r), i>>
  BY DEF Prefix
<1> QED BY <1>1, <1>3, <1>4, <1>5, <1>6

\* Every step keeps the types.
LEMMA TypeStep == TypeOK /\ [Next]_vars => TypeOK'
<1> SUFFICES ASSUME TypeOK, [Next]_vars PROVE TypeOK' OBVIOUS
<1> USE KeysAssumption DEF TypeOK, Go, Stages, history
<1>1. ASSUME NEW r \in Runs, Dump(r) PROVE TypeOK'
  BY <1>1 DEF Dump, Rows
<1>2. ASSUME NEW r \in Runs, UploadDump(r) PROVE TypeOK'
  <2>1. Database \in Items BY DEF Items
  <2>2. remote' \in [Names -> {NothingYet, Damaged} \cup {Cipher(q, j) : q \in Runs, j \in Items}]
    BY <1>2, <2>1, UploadsOne DEF UploadDump
  <2> QED BY <1>2, <2>2 DEF UploadDump
<1>3. ASSUME NEW r \in Runs, VerifyDump(r) PROVE TypeOK'
  BY <1>3 DEF VerifyDump
<1>4. ASSUME NEW r \in Runs, PublishDatabase(r) PROVE TypeOK'
  BY <1>4 DEF PublishDatabase, Stored
<1>5. ASSUME NEW r \in Runs, List(r) PROVE TypeOK'
  BY <1>5 DEF List
<1>6. ASSUME NEW r \in Runs, EndList(r) PROVE TypeOK'
  BY <1>6 DEF EndList
<1>7. ASSUME NEW r \in Runs, Copy(r) PROVE TypeOK'
  <2>1. PICK k \in Keys : Upload(r, k) /\ at' = [at EXCEPT ![r] = k]
    BY <1>7 DEF Copy, Stored
  <2>2. remote' \in [Names -> {NothingYet, Damaged} \cup {Cipher(q, j) : q \in Runs, j \in Items}]
    BY <2>1, UploadsOne DEF Items
  <2> QED BY <1>7, <2>1, <2>2 DEF Copy
<1>8. ASSUME NEW r \in Runs, VerifyCopy(r) PROVE TypeOK'
  BY <1>8 DEF VerifyCopy
<1>9. ASSUME NEW r \in Runs, EndCopy(r) PROVE TypeOK'
  BY <1>9 DEF EndCopy, Stored
<1>10. ASSUME NEW r \in Runs, ListAgain(r) PROVE TypeOK'
  BY <1>10 DEF ListAgain
<1>11. ASSUME NEW r \in Runs, Compare(r) PROVE TypeOK'
  BY <1>11 DEF Compare, Stored
<1>12. ASSUME NEW r \in Runs, PublishRecordings(r) PROVE TypeOK'
  BY <1>12 DEF PublishRecordings
<1>13. ASSUME NEW r \in Runs, Ping(r) PROVE TypeOK'
  BY <1>13 DEF Ping
<1>14. ASSUME NEW r \in Runs, Fail(r) PROVE TypeOK'
  BY <1>14 DEF Fail
<1>15. ASSUME NEW r \in Runs, HeartbeatFails(r) PROVE TypeOK'
  BY <1>15 DEF HeartbeatFails
<1>16. ASSUME NEW k \in Keys, NEW from \in Lives, NEW to \in Lives, Becomes(k, from, to)
       PROVE  TypeOK'
  BY <1>16 DEF Becomes, Lives
<1>17. CASE UNCHANGED vars
  BY <1>17 DEF vars
<1> QED
  BY <1>1, <1>2, <1>3, <1>4, <1>5, <1>6, <1>7, <1>8, <1>9, <1>10, <1>11, <1>12, <1>13, <1>14,
     <1>15, <1>16, <1>17
  DEF Next, StoreObject, CommitRow, DeleteObject, DeleteRow, Lives

-----------------------------------------------------------------------------
(* A step of one run, seen by the others and by the recordings *)

RunStep(r) ==
  \/ Dump(r) \/ UploadDump(r) \/ VerifyDump(r) \/ PublishDatabase(r)
  \/ List(r) \/ EndList(r) \/ Copy(r) \/ VerifyCopy(r) \/ EndCopy(r)
  \/ ListAgain(r) \/ Compare(r) \/ PublishRecordings(r) \/ Ping(r)
  \/ Fail(r) \/ HeartbeatFails(r)

RecordingStep(k) == StoreObject(k) \/ CommitRow(k) \/ DeleteObject(k) \/ DeleteRow(k)

\* A step of r changes nothing the invariant says of q.
LEMMA OthersKeep ==
  ASSUME TypeOK, NEW r \in Runs, NEW q \in Runs, q # r, RunStep(r)
  PROVE  /\ pc'[q] = pc[q] /\ at'[q] = at[q] /\ life' = life
         /\ dumped'[q] = dumped[q] /\ seen'[q] = seen[q] /\ again'[q] = again[q]
         /\ before'[q] = before[q] /\ midway'[q] = midway[q] /\ after'[q] = after[q]
         /\ \A x : <<q, x>> \in manifests' <=> <<q, x>> \in manifests
         /\ q \in pinged' <=> q \in pinged
         /\ \A i \in Items : Intact(q, i)' <=> Intact(q, i)
<1>1. \A i \in Items : remote'[<<Prefix(q), i>>] = remote[<<Prefix(q), i>>]
  <2>1. CASE UploadDump(r)
    <3>1. Database \in Items /\ Upload(r, Database) BY <2>1 DEF UploadDump, Items
    <3> QED BY <3>1, UploadsOne
  <2>2. CASE Copy(r)
    <3>1. PICK k \in Keys : Upload(r, k) BY <2>2 DEF Copy, Stored
    <3> QED BY <3>1, UploadsOne DEF Items
  <2>3. CASE ~UploadDump(r) /\ ~Copy(r)
    <3>1. remote' = remote
      BY <2>3 DEF RunStep, Dump, VerifyDump, PublishDatabase, List, EndList, VerifyCopy, EndCopy,
         ListAgain, Compare, PublishRecordings, Ping, Fail, HeartbeatFails
    <3> QED BY <3>1
  <2> QED BY <2>1, <2>2, <2>3
<1>2. \A i \in Items : Intact(q, i)' <=> Intact(q, i)
  BY <1>1 DEF Intact, Cipher
<1>3. /\ pc'[q] = pc[q] /\ at'[q] = at[q] /\ life' = life
      /\ dumped'[q] = dumped[q] /\ seen'[q] = seen[q] /\ again'[q] = again[q]
      /\ before'[q] = before[q] /\ midway'[q] = midway[q] /\ after'[q] = after[q]
  BY DEF TypeOK, RunStep, Go, history, Dump, UploadDump, VerifyDump, PublishDatabase, List, EndList,
     Copy, VerifyCopy, EndCopy, ListAgain, Compare, PublishRecordings, Ping, Fail, HeartbeatFails
<1>4. /\ \A x : <<q, x>> \in manifests' <=> <<q, x>> \in manifests
      /\ q \in pinged' <=> q \in pinged
  BY DEF RunStep, Dump, UploadDump, VerifyDump, PublishDatabase, List, EndList,
     Copy, VerifyCopy, EndCopy, ListAgain, Compare, PublishRecordings, Ping, Fail, HeartbeatFails
<1> QED BY <1>2, <1>3, <1>4

\* What is stored after a step of a recording was stored before it, or is new.
LEMMA NothingReturns ==
  ASSUME TypeOK, NEW k \in Keys, RecordingStep(k)
  PROVE  /\ \A l \in Stored' : l \in Stored \/ life[l] = "new"
         /\ \A l \in Keys : life[l] # "new" => life'[l] # "new"
         /\ \A l \in Keys : life[l] \in {"kept", "losing", "gone"} =>
              life'[l] \in {"kept", "losing", "gone"}
         /\ UNCHANGED <<pc, at, dumped, seen, again, remote, manifests, pinged, history>>
BY DEF TypeOK, RecordingStep, StoreObject, CommitRow, DeleteObject, DeleteRow, Becomes, Stored

-----------------------------------------------------------------------------
(* The parts of the invariant *)

\* Uploads and deletions by users leave what runs rely on.
LEMMA RecordingsKeepInv == ASSUME IInv, NEW k \in Keys, RecordingStep(k)
                           PROVE \A q \in Runs : Seen(q)' /\ Listed(q)' /\ Compared(q)' /\
                                                  Kept(q)' /\ Announced(q)'
<1> SUFFICES ASSUME NEW q \in Runs
             PROVE  Seen(q)' /\ Listed(q)' /\ Compared(q)' /\ Kept(q)' /\ Announced(q)'
  OBVIOUS
<1>1. /\ \A l \in Stored' : l \in Stored \/ life[l] = "new"
      /\ \A l \in Keys : life[l] # "new" => life'[l] # "new"
      /\ \A l \in Keys : life[l] \in {"kept", "losing", "gone"} =>
           life'[l] \in {"kept", "losing", "gone"}
      /\ UNCHANGED <<pc, at, dumped, seen, again, remote, manifests, pinged, before, midway, after>>
  BY NothingReturns DEF IInv, history
<1>2. dumped[q] \subseteq Keys /\ before[q] \subseteq Keys /\ seen[q] \subseteq Keys
  BY DEF IInv, TypeOK
<1>3. Seen(q) /\ Listed(q) /\ Compared(q) /\ Kept(q) /\ Announced(q)
  BY DEF IInv
<1>4. Seen(q)'
  BY <1>1, <1>2, <1>3 DEF Seen
<1>5. \A l \in Stored' : l \in dumped[q] \cup before[q] \cup seen[q] => l \in Stored
  BY <1>1, <1>3 DEF Seen
<1>6. Listed(q)'
  BY <1>1, <1>3, <1>5 DEF Listed
<1>7. Compared(q)'
  BY <1>1, <1>3 DEF Compared, OfOneTime
<1>8. Kept(q)'
  BY <1>1, <1>3 DEF Kept, Intact
<1>9. Announced(q)'
  BY <1>1, <1>3 DEF Announced
<1> QED BY <1>4, <1>6, <1>7, <1>8, <1>9

\* So do the steps of the other runs.
LEMMA OthersKeepInv == ASSUME IInv, NEW r \in Runs, NEW q \in Runs, q # r, RunStep(r)
                       PROVE Seen(q)' /\ Listed(q)' /\ Compared(q)' /\ Kept(q)' /\ Announced(q)'
<1>1. /\ pc'[q] = pc[q] /\ at'[q] = at[q] /\ life' = life
      /\ dumped'[q] = dumped[q] /\ seen'[q] = seen[q] /\ again'[q] = again[q]
      /\ before'[q] = before[q] /\ midway'[q] = midway[q] /\ after'[q] = after[q]
      /\ \A x : <<q, x>> \in manifests' <=> <<q, x>> \in manifests
      /\ q \in pinged' <=> q \in pinged
      /\ \A i \in Items : Intact(q, i)' <=> Intact(q, i)
  BY OthersKeep DEF IInv
<1>2. Seen(q) /\ Listed(q) /\ Compared(q) /\ Kept(q) /\ Announced(q)
  BY DEF IInv
<1>3. seen[q] \subseteq Items /\ Database \in Items
  BY DEF IInv, TypeOK, Items
<1>4. Stored' = Stored
  BY <1>1 DEF Stored
<1>5. Seen(q)' BY <1>1, <1>2 DEF Seen
<1>6. Listed(q)' BY <1>1, <1>2, <1>4 DEF Listed
<1>7. Compared(q)' BY <1>1, <1>2 DEF Compared, OfOneTime
<1>8. Kept(q)' BY <1>1, <1>2, <1>3 DEF Kept
<1>9. Announced(q)' BY <1>1, <1>2 DEF Announced
<1> QED BY <1>5, <1>6, <1>7, <1>8, <1>9

\* What a run dumps or lists is stored at that time.
LEMMA OwnSeen == ASSUME IInv, NEW r \in Runs, RunStep(r) PROVE Seen(r)'
<1> USE KeysAssumption DEF IInv, TypeOK, Go, history, Stages, Seen, Stored, Rows, Lives
<1>1. CASE Dump(r)
  BY <1>1 DEF Dump
<1>2. CASE UploadDump(r)
  BY <1>2 DEF UploadDump
<1>3. CASE VerifyDump(r)
  BY <1>3 DEF VerifyDump
<1>4. CASE PublishDatabase(r)
  BY <1>4 DEF PublishDatabase
<1>5. CASE List(r)
  BY <1>5 DEF List
<1>6. CASE EndList(r)
  BY <1>6 DEF EndList
<1>7. CASE Copy(r)
  BY <1>7 DEF Copy
<1>8. CASE VerifyCopy(r)
  BY <1>8 DEF VerifyCopy
<1>9. CASE EndCopy(r)
  BY <1>9 DEF EndCopy
<1>10. CASE ListAgain(r)
  BY <1>10 DEF ListAgain
<1>11. CASE Compare(r)
  BY <1>11 DEF Compare
<1>12. CASE PublishRecordings(r)
  BY <1>12 DEF PublishRecordings
<1>13. CASE Ping(r)
  BY <1>13 DEF Ping
<1>14. CASE Fail(r)
  BY <1>14 DEF Fail
<1>15. CASE HeartbeatFails(r)
  BY <1>15 DEF HeartbeatFails
<1> QED
  BY <1>1, <1>2, <1>3, <1>4, <1>5, <1>6, <1>7, <1>8, <1>9, <1>10, <1>11, <1>12, <1>13, <1>14,
     <1>15
  DEF RunStep

\* Inventories find what was stored all along.
LEMMA OwnListed == ASSUME IInv, NEW r \in Runs, RunStep(r) PROVE Listed(r)'
<1> USE KeysAssumption
        DEF IInv, TypeOK, Go, history, Stages, Seen, Listed, Stored, Rows, Lives, Comes, AtEnd
<1>1. CASE Dump(r)
  BY <1>1 DEF Dump
<1>2. CASE UploadDump(r)
  BY <1>2 DEF UploadDump
<1>3. CASE VerifyDump(r)
  BY <1>3 DEF VerifyDump
<1>4. CASE PublishDatabase(r)
  <2>1. /\ pc'[r] = "listing" /\ at'[r] = 0 /\ before'[r] = Stored /\ again'[r] = {}
        /\ life' = life /\ dumped' = dumped
    BY <1>4 DEF PublishDatabase
  <2>2. Stored' = Stored /\ \A k \in Stored : ~(k <= 0)
    BY <2>1
  <2> QED BY ONLY <2>1, <2>2 DEF Listed
<1>5. CASE List(r)
  <2>1. PICK k \in Keys : /\ Comes(r, Keys, k)
                         /\ seen' = [seen EXCEPT ![r] = @ \cup ({k} \cap Stored)]
                         /\ at' = [at EXCEPT ![r] = k]
    BY <1>5 DEF List
  <2>2. /\ pc[r] = "listing" /\ pc' = pc /\ life' = life /\ dumped' = dumped
        /\ again' = again /\ before' = before
    BY <1>5 DEF List
  <2>3. at'[r] = k /\ seen'[r] = seen[r] \cup ({k} \cap Stored) /\ again[r] = {}
    BY <2>1, <2>2
  <2>4. Stored' = Stored
    BY <2>2
  <2>5. ASSUME NEW l \in before[r] \cap Stored, l <= k PROVE l \in seen'[r]
    <3>0. at[r] \in Keys \cup {0} /\ k \in Keys /\ l \in Keys
      BY <2>5
    <3>1. at[r] \in Nat /\ k \in Nat /\ l \in Nat /\ l \in Keys
      BY ONLY <3>0, Numbers, Zenon
    <3>2. CASE l <= at[r]
      BY <3>2, <2>2, <2>3, <2>5
    <3>3. CASE l > at[r]
      <4>1. l = k BY <3>1, <3>3, <2>1, <2>5
      <4> QED BY <4>1, <2>3, <2>5
    <3> QED BY <3>1, <3>2, <3>3
  <2>6. dumped[r] \cap Stored \subseteq before[r]
    BY <2>2
  <2> QED BY ONLY <2>2, <2>3, <2>4, <2>5, <2>6 DEF Listed
<1>6. CASE EndList(r)
  <2>1. /\ pc[r] = "listing" /\ pc'[r] = "copying" /\ again'[r] = {} /\ life' = life
        /\ dumped' = dumped /\ before' = before /\ seen' = seen
    BY <1>6 DEF EndList
  <2>2. \A k \in Stored : k <= at[r]
    BY <1>6 DEF EndList
  <2>3. Stored' = Stored
    BY <2>1
  <2>4. Listed(r)
    BY DEF IInv
  <2>5. before[r] \cap Stored \subseteq seen[r] /\ dumped[r] \cap Stored \subseteq before[r]
    BY ONLY <2>1, <2>2, <2>4 DEF Listed
  <2> QED BY ONLY <2>1, <2>3, <2>5 DEF Listed
<1>7. CASE Copy(r)
  BY <1>7 DEF Copy
<1>8. CASE VerifyCopy(r)
  BY <1>8 DEF VerifyCopy
<1>9. CASE EndCopy(r)
  BY <1>9 DEF EndCopy
<1>10. CASE ListAgain(r)
  BY <1>10 DEF ListAgain
<1>11. CASE Compare(r)
  BY <1>11 DEF Compare
<1>12. CASE PublishRecordings(r)
  BY <1>12 DEF PublishRecordings
<1>13. CASE Ping(r)
  BY <1>13 DEF Ping
<1>14. CASE Fail(r)
  BY <1>14 DEF Fail
<1>15. CASE HeartbeatFails(r)
  BY <1>15 DEF HeartbeatFails
<1> QED
  BY <1>1, <1>2, <1>3, <1>4, <1>5, <1>6, <1>7, <1>8, <1>9, <1>10, <1>11, <1>12, <1>13, <1>14,
     <1>15
  DEF RunStep

\* Equal inventories make a snapshot of one time.
LEMMA OwnCompared == ASSUME IInv, NEW r \in Runs, RunStep(r) PROVE Compared(r)'
<1> USE KeysAssumption
        DEF IInv, TypeOK, Go, history, Stages, Listed, Compared, OfOneTime, Stored, UnchangedSource
<1>1. CASE Dump(r)
  BY <1>1 DEF Dump
<1>2. CASE UploadDump(r)
  BY <1>2 DEF UploadDump
<1>3. CASE VerifyDump(r)
  BY <1>3 DEF VerifyDump
<1>4. CASE PublishDatabase(r)
  BY <1>4 DEF PublishDatabase
<1>5. CASE List(r)
  BY <1>5 DEF List
<1>6. CASE EndList(r)
  BY <1>6 DEF EndList
<1>7. CASE Copy(r)
  BY <1>7 DEF Copy
<1>8. CASE VerifyCopy(r)
  BY <1>8 DEF VerifyCopy
<1>9. CASE EndCopy(r)
  BY <1>9 DEF EndCopy
<1>10. CASE ListAgain(r)
  BY <1>10 DEF ListAgain
<1>11. CASE Compare(r)
  BY <1>11 DEF Compare
<1>12. CASE PublishRecordings(r)
  <2>1. /\ pc[r] = "compared" /\ pc'[r] = "published"
        /\ UNCHANGED <<dumped, seen, before, midway, after>>
    BY <1>12 DEF PublishRecordings
  <2>2. Compared(r)
    BY DEF IInv
  <2>3. OfOneTime(r)
    BY ONLY <2>1, <2>2 DEF Compared
  <2> QED BY ONLY <2>1, <2>3 DEF Compared, OfOneTime
<1>13. CASE Ping(r)
  BY <1>13 DEF Ping
<1>14. CASE Fail(r)
  BY <1>14 DEF Fail
<1>15. CASE HeartbeatFails(r)
  BY <1>15 DEF HeartbeatFails
<1> QED
  BY <1>1, <1>2, <1>3, <1>4, <1>5, <1>6, <1>7, <1>8, <1>9, <1>10, <1>11, <1>12, <1>13, <1>14,
     <1>15
  DEF RunStep

\* The heartbeat comes after both manifests.
LEMMA OwnAnnounced == ASSUME IInv, NEW r \in Runs, RunStep(r) PROVE Announced(r)'
<1>0. pc \in [Runs -> Stages] /\ Announced(r)
  BY DEF IInv, TypeOK
<1> USE <1>0 DEF Announced, Go
<1>1. CASE Dump(r)
  BY <1>1 DEF Dump
<1>2. CASE UploadDump(r)
  BY <1>2 DEF UploadDump
<1>3. CASE VerifyDump(r)
  BY <1>3 DEF VerifyDump
<1>4. CASE PublishDatabase(r)
  BY <1>4 DEF PublishDatabase
<1>5. CASE List(r)
  BY <1>5 DEF List
<1>6. CASE EndList(r)
  BY <1>6 DEF EndList
<1>7. CASE Copy(r)
  BY <1>7 DEF Copy
<1>8. CASE VerifyCopy(r)
  BY <1>8 DEF VerifyCopy
<1>9. CASE EndCopy(r)
  BY <1>9 DEF EndCopy
<1>10. CASE ListAgain(r)
  BY <1>10 DEF ListAgain
<1>11. CASE Compare(r)
  BY <1>11 DEF Compare
<1>12. CASE PublishRecordings(r)
  BY <1>12 DEF PublishRecordings
<1>13. CASE Ping(r)
  BY <1>13 DEF Ping
<1>14. CASE Fail(r)
  BY <1>14 DEF Fail
<1>15. CASE HeartbeatFails(r)
  BY <1>15 DEF HeartbeatFails
<1> QED
  BY <1>1, <1>2, <1>3, <1>4, <1>5, <1>6, <1>7, <1>8, <1>9, <1>10, <1>11, <1>12, <1>13, <1>14,
     <1>15
  DEF RunStep

\* What a run has verified stays in the backup bucket until it is done.
LEMMA OwnKept == ASSUME IInv, NEW r \in Runs, RunStep(r) PROVE Kept(r)'
<1>1. /\ pc \in [Runs -> Stages] /\ seen \in [Runs -> SUBSET Keys] /\ Kept(r)
      /\ at \in [Runs -> Keys \cup {0}] /\ Keys \subseteq Nat \ {0}
  BY KeysAssumption DEF IInv, TypeOK
<1>2. CASE UploadDump(r)
  <2>1. pc'[r] = "uploaded" BY <1>1, <1>2 DEF UploadDump, Go
  <2> QED BY <2>1 DEF Kept
<1>3. CASE Copy(r)
  <2>1. PICK k \in Keys : k \in seen[r] /\ Comes(r, seen[r], k) /\ Upload(r, k)
                          /\ at' = [at EXCEPT ![r] = k]
    BY <1>3 DEF Copy, Stored
  <2>2. pc[r] = "copying" /\ pc'[r] = "copied" /\ seen' = seen /\ at'[r] = k
    BY <1>1, <1>3, <2>1 DEF Copy, Go
  <2>3. \A i \in Items : i # k => (Intact(r, i)' <=> Intact(r, i))
    <3>1. TypeOK /\ k \in Items BY DEF IInv, Items
    <3>2. \A i \in Items : i # k => remote'[<<Prefix(r), i>>] = remote[<<Prefix(r), i>>]
      BY <2>1, <3>1, UploadsOne
    <3> QED BY <3>2 DEF Intact, Cipher
  <2>4. Database \in Items /\ Database # k /\ seen[r] \subseteq Items
    BY <1>1 DEF Items, Database
  <2>5. Intact(r, Database)'
    <3>1. Intact(r, Database) BY <1>1, <2>2 DEF Kept, Stages
    <3> QED BY <3>1, <2>3, <2>4
  <2>6. ASSUME NEW l \in seen[r], l < k PROVE Intact(r, l)'
    <3>0. l \in Keys /\ at[r] \in Keys \cup {0} BY <1>1
    <3>1. l \in Nat /\ k \in Nat /\ at[r] \in Nat BY ONLY <3>0, k \in Keys, Numbers, Zenon
    <3>2. l <= at[r] BY <2>1, <2>6, <3>1 DEF Comes
    <3>3. Intact(r, l) BY <1>1, <2>2, <3>2 DEF Kept
    <3>4. l # k BY <2>6, <3>1
    <3> QED BY <2>3, <2>4, <3>3, <3>4
  <2> QED BY <2>2, <2>5, <2>6 DEF Kept
<1>4. CASE remote' = remote
  <2>1. \A i : Intact(r, i)' <=> Intact(r, i)
    BY <1>4 DEF Intact, Cipher, Prefix
  <2> USE <1>1, <2>1 DEF Kept, Go, Stages
  <2>2. CASE Dump(r)
    BY <2>2 DEF Dump
  <2>3. CASE VerifyDump(r)
    BY <2>3 DEF VerifyDump
  <2>4. CASE PublishDatabase(r)
    BY <2>4 DEF PublishDatabase
  <2>5. CASE List(r)
    BY <2>5 DEF List
  <2>6. CASE EndList(r)
    <3>1. pc[r] = "listing" /\ pc'[r] = "copying" /\ at'[r] = 0 /\ seen' = seen
      BY <2>6 DEF EndList
    <3>2. \A k \in seen[r] : ~(k <= 0)
      OBVIOUS
    <3> QED BY <3>1, <3>2
  <2>7. CASE VerifyCopy(r)
    <3>1. /\ pc[r] = "copied" /\ pc'[r] = "copying" /\ at' = at /\ seen' = seen
          /\ Intact(r, at[r])
      BY <2>7 DEF VerifyCopy
    <3>2. \A k \in seen[r] : k <= at[r] => k < at[r] \/ k = at[r]
      BY ONLY <1>1, Numbers
    <3> QED BY <3>1, <3>2
  <2>8. CASE EndCopy(r)
    BY <2>8 DEF EndCopy, AtEnd
  <2>9. CASE ListAgain(r)
    BY <2>9 DEF ListAgain
  <2>10. CASE Compare(r)
    BY <2>10 DEF Compare
  <2>11. CASE PublishRecordings(r)
    BY <2>11 DEF PublishRecordings
  <2>12. CASE Ping(r)
    BY <2>12 DEF Ping
  <2>13. CASE Fail(r)
    BY <2>13 DEF Fail
  <2>14. CASE HeartbeatFails(r)
    BY <2>14 DEF HeartbeatFails
  <2>15. CASE UploadDump(r) \/ Copy(r)
    BY <2>15, <1>2, <1>3
  <2> QED
    BY <2>2, <2>3, <2>4, <2>5, <2>6, <2>7, <2>8, <2>9, <2>10, <2>11, <2>12, <2>13, <2>14, <2>15
    DEF RunStep
<1>5. UploadDump(r) \/ Copy(r) \/ remote' = remote
  BY DEF RunStep, Dump, VerifyDump, PublishDatabase, List, EndList, VerifyCopy, EndCopy,
     ListAgain, Compare, PublishRecordings, Ping, Fail, HeartbeatFails
<1> QED BY <1>2, <1>3, <1>4, <1>5

-----------------------------------------------------------------------------

\* Every step keeps the invariant.
LEMMA Inductive == IInv /\ [Next]_vars => IInv'
<1> SUFFICES ASSUME IInv, [Next]_vars PROVE IInv' OBVIOUS
<1>1. TypeOK'
  BY TypeStep DEF IInv
<1>2. ASSUME NEW q \in Runs
      PROVE  Seen(q)' /\ Listed(q)' /\ Compared(q)' /\ Kept(q)' /\ Announced(q)'
  <2>1. ASSUME NEW r \in Runs, RunStep(r)
        PROVE  Seen(q)' /\ Listed(q)' /\ Compared(q)' /\ Kept(q)' /\ Announced(q)'
    <3>1. CASE q = r
      BY <2>1, <3>1, OwnSeen, OwnListed, OwnCompared, OwnKept, OwnAnnounced
    <3>2. CASE q # r
      BY <2>1, <3>2, OthersKeepInv
    <3> QED BY <3>1, <3>2
  <2>2. ASSUME NEW k \in Keys, RecordingStep(k)
        PROVE  Seen(q)' /\ Listed(q)' /\ Compared(q)' /\ Kept(q)' /\ Announced(q)'
    BY <2>2, RecordingsKeepInv
  <2>3. CASE UNCHANGED vars
    <3>1. Seen(q) /\ Listed(q) /\ Compared(q) /\ Kept(q) /\ Announced(q)
      BY DEF IInv
    <3> QED
      BY <2>3, <3>1
      DEF vars, Seen, Listed, Compared, OfOneTime, Kept, Announced, Stored, Intact
  <2> QED BY <2>1, <2>2, <2>3 DEF Next, RunStep, RecordingStep
<1> QED BY <1>1, <1>2 DEF IInv

\* So it holds in every behaviour.
LEMMA Invariant == Spec => []IInv
BY InitInv, Inductive, PTL DEF Spec

\* The variables have their types whatever runs and users do.
THEOREM TypeCorrect == Spec => []TypeOK
<1>1. IInv => TypeOK BY DEF IInv
<1> QED BY <1>1, Invariant, PTL

\* Whatever runs overlap and whatever is uploaded and deleted meanwhile, a recordings
\* manifest is published only of inventories that hold what was stored at one time.
THEOREM SnapshotsAreOfOneTime == Spec => []SnapshotIsOfOneTime
<1>1. IInv => SnapshotIsOfOneTime
  BY DEF IInv, Compared, OfOneTime, SnapshotIsOfOneTime
<1> QED BY <1>1, Invariant, PTL

\* The heartbeat of a run stands for both its manifests and for objects that nothing has
\* replaced since the run verified them.
THEOREM HeartbeatsMeanRestorable == Spec => []HeartbeatMeansRestorable
<1>1. ASSUME IInv, NEW r \in pinged
      PROVE  /\ {<<r, "database">>, <<r, "recordings">>} \subseteq manifests
             /\ \A i \in seen[r] \cup {Database} : Intact(r, i)
  <2>1. r \in Runs /\ Kept(r) /\ Announced(r)
    BY <1>1 DEF IInv, TypeOK
  <2> QED BY <2>1, <1>1 DEF Kept, Announced, Stages
<1>2. IInv => HeartbeatMeansRestorable
  BY <1>1 DEF HeartbeatMeansRestorable
<1> QED BY <1>2, Invariant, PTL
=============================================================================
