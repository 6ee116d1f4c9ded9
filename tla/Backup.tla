------------------------------- MODULE Backup -------------------------------
(***************************************************************************)
(* The nightly backup (infrastructure/backup): a run dumps the database,   *)
(* uploads the dump, reads it back and publishes a manifest; then it takes *)
(* an inventory of the recordings' bucket, copies each recording, takes    *)
(* the inventory again and publishes a second manifest, and at last pings  *)
(* a heartbeat. Users go on uploading and deleting, an inventory takes     *)
(* several pages, uploads can be damaged, a run can fail anywhere, and the *)
(* platform may start a run before another one has ended.                  *)
(***************************************************************************)
EXTENDS Naturals, FiniteSets

CONSTANTS
  Keys, \* storage keys of recordings, in the order of the listing from 1
  Runs  \* executions of the backup

ASSUME KeysAssumption == Keys \subseteq Nat \ {0} /\ IsFiniteSet(Keys)

VARIABLES
  life,      \* each recording: its object in the source bucket and its database row
  pc,        \* how far each run is
  at,        \* the last key the run has listed or copied
  dumped,    \* the rows of its dump
  seen,      \* its first inventory
  again,     \* its second one
  remote,    \* the backup bucket: whose ciphertext each object is
  manifests, \* the manifests in it: a run and what it is of
  pinged,    \* runs whose heartbeat was sent
  \* history: what was stored at the begin of the first inventory, between the
  \* inventories, and at the end of the second one
  before, midway, after

vars == <<life, pc, at, dumped, seen, again, remote, manifests, pinged, before, midway, after>>
history == <<before, midway, after>>

\* A recording's object is written before its row and deleted before it. Nothing is
\* written under the same key again.
Lives == {"new", "orphan", "kept", "losing", "gone"}
Stored == {k \in Keys : life[k] \in {"orphan", "kept"}}
Rows == {k \in Keys : life[k] \in {"kept", "losing"}}

Stages ==
  {"idle", "dumped", "uploaded", "verified", "listing", "copying", "copied",
   "relisting", "compared", "published", "done", "failed"}

Database == 0
Items == Keys \cup {Database}

-----------------------------------------------------------------------------
(* Helpers *)

PrefixOfSecond(r) == "prefix" \* mutant: two runs of one second write under the same names

\* The objects and manifests of a run have the execution's id in their names.
Prefix(r) == r

Names == {<<Prefix(r), i>> : r \in Runs, i \in Items}

\* What this run would have uploaded for an item.
Cipher(r, i) == [item |-> i, run |-> r]

NothingYet == [item |-> "none"]
Damaged == [item |-> "damaged"]

TypeOK ==
  /\ life \in [Keys -> Lives]
  /\ pc \in [Runs -> Stages]
  /\ at \in [Runs -> Keys \cup {0}]
  /\ dumped \in [Runs -> SUBSET Keys]
  /\ seen \in [Runs -> SUBSET Keys]
  /\ again \in [Runs -> SUBSET Keys]
  /\ remote \in [Names -> {NothingYet, Damaged} \cup {Cipher(r, i) : r \in Runs, i \in Items}]
  /\ manifests \subseteq Runs \X {"database", "recordings"}
  /\ pinged \subseteq Runs
  /\ {before, midway, after} \subseteq [Runs -> SUBSET Keys]

Init ==
  /\ life \in [Keys -> {"new", "kept"}]
  /\ pc = [r \in Runs |-> "idle"]
  /\ at = [r \in Runs |-> 0]
  /\ dumped = [r \in Runs |-> {}]
  /\ seen = dumped
  /\ again = dumped
  /\ remote = [n \in Names |-> NothingYet]
  /\ manifests = {}
  /\ pinged = {}
  /\ before = dumped
  /\ midway = dumped
  /\ after = dumped

\* upload_file, which the store may keep otherwise than it was sent.
Upload(r, i) ==
  \E c \in {Cipher(r, i), Damaged} : remote' = [remote EXCEPT ![<<Prefix(r), i>>] = c]

\* verify_remote reads the object back and compares its hash.
Intact(r, i) == remote[<<Prefix(r), i>>] = Cipher(r, i)

Go(r, stage) == pc' = [pc EXCEPT ![r] = stage]

\* The listing or the copying of the keys ks comes to key k.
Comes(r, ks, k) == k \in ks /\ k > at[r] /\ \A l \in ks : l > at[r] => k <= l
AtEnd(r, ks) == \A k \in ks : k <= at[r]

-----------------------------------------------------------------------------
(* The database *)

Dump(r) ==
  /\ pc[r] = "idle"
  /\ dumped' = [dumped EXCEPT ![r] = Rows]
  /\ Go(r, "dumped")
  /\ UNCHANGED <<life, at, seen, again, remote, manifests, pinged, history>>

UploadDump(r) ==
  /\ pc[r] = "dumped"
  /\ Upload(r, Database)
  /\ Go(r, "uploaded")
  /\ UNCHANGED <<life, at, dumped, seen, again, manifests, pinged, history>>

VerifyDump(r) ==
  /\ pc[r] = "uploaded"
  /\ Intact(r, Database)
  /\ Go(r, "verified")
  /\ UNCHANGED <<life, at, dumped, seen, again, remote, manifests, pinged, history>>

PublishDatabase(r) ==
  /\ pc[r] = "verified"
  /\ manifests' = manifests \cup {<<r, "database">>}
  /\ before' = [before EXCEPT ![r] = Stored]
  /\ Go(r, "listing")
  /\ UNCHANGED <<life, at, dumped, seen, again, remote, pinged, midway, after>>

-----------------------------------------------------------------------------
(* The recordings *)

\* A page of the first inventory, of one key.
List(r) ==
  /\ pc[r] = "listing"
  /\ \E k \in Keys :
       /\ Comes(r, Keys, k)
       /\ seen' = [seen EXCEPT ![r] = @ \cup ({k} \cap Stored)]
       /\ at' = [at EXCEPT ![r] = k]
  /\ UNCHANGED <<life, pc, dumped, again, remote, manifests, pinged, history>>

EndList(r) ==
  /\ pc[r] = "listing"
  /\ AtEnd(r, Keys)
  /\ at' = [at EXCEPT ![r] = 0]
  /\ Go(r, "copying")
  /\ UNCHANGED <<life, dumped, seen, again, remote, manifests, pinged, history>>

\* get_object with IfMatch, encryption and the upload; it fails if the object is gone.
Copy(r) ==
  /\ pc[r] = "copying"
  /\ \E k \in seen[r] \cap Stored :
       /\ Comes(r, seen[r], k)
       /\ Upload(r, k)
       /\ at' = [at EXCEPT ![r] = k]
  /\ Go(r, "copied")
  /\ UNCHANGED <<life, dumped, seen, again, manifests, pinged, history>>

VerifyCopy(r) ==
  /\ pc[r] = "copied"
  /\ Intact(r, at[r])
  /\ Go(r, "copying")
  /\ UNCHANGED <<life, at, dumped, seen, again, remote, manifests, pinged, history>>

EndCopy(r) ==
  /\ pc[r] = "copying"
  /\ AtEnd(r, seen[r])
  /\ at' = [at EXCEPT ![r] = 0]
  /\ midway' = [midway EXCEPT ![r] = Stored]
  /\ Go(r, "relisting")
  /\ UNCHANGED <<life, dumped, seen, again, remote, manifests, pinged, before, after>>

ListAgain(r) ==
  /\ pc[r] = "relisting"
  /\ \E k \in Keys :
       /\ Comes(r, Keys, k)
       /\ again' = [again EXCEPT ![r] = @ \cup ({k} \cap Stored)]
       /\ at' = [at EXCEPT ![r] = k]
  /\ UNCHANGED <<life, pc, dumped, seen, remote, manifests, pinged, history>>

UnchangedUnread(r) == TRUE \* mutant: the inventories are not compared

UnchangedSource(r) == again[r] = seen[r]

Compare(r) ==
  /\ pc[r] = "relisting"
  /\ AtEnd(r, Keys)
  /\ UnchangedSource(r)
  /\ after' = [after EXCEPT ![r] = Stored]
  /\ Go(r, "compared")
  /\ UNCHANGED <<life, at, dumped, seen, again, remote, manifests, pinged, before, midway>>

PublishRecordings(r) ==
  /\ pc[r] = "compared"
  /\ manifests' = manifests \cup {<<r, "recordings">>}
  /\ Go(r, "published")
  /\ UNCHANGED <<life, at, dumped, seen, again, remote, pinged, history>>

Ping(r) ==
  /\ pc[r] = "published"
  /\ pinged' = pinged \cup {r}
  /\ Go(r, "done")
  /\ UNCHANGED <<life, at, dumped, seen, again, remote, manifests, history>>

\* A step of the run raises, for one of the reasons above or any other, or the run dies.
\* What it has written stays.
Fail(r) ==
  /\ pc[r] \notin {"idle", "published", "done", "failed"}
  /\ Go(r, "failed")
  /\ at' = [at EXCEPT ![r] = 0]
  /\ dumped' = [dumped EXCEPT ![r] = {}]
  /\ seen' = [seen EXCEPT ![r] = {}]
  /\ again' = [again EXCEPT ![r] = {}]
  /\ before' = [before EXCEPT ![r] = {}]
  /\ midway' = [midway EXCEPT ![r] = {}]
  /\ UNCHANGED <<life, remote, manifests, pinged, after>>

\* The heartbeat is not answered, or the run dies before it.
HeartbeatFails(r) ==
  /\ pc[r] = "published"
  /\ Go(r, "failed")
  /\ UNCHANGED <<life, at, dumped, seen, again, remote, manifests, pinged, history>>

-----------------------------------------------------------------------------
(* The application *)

\* An upload writes the object and then the row; one that fails in between leaves the
\* object. delete_conversation deletes the object and then the row.
Becomes(k, from, to) ==
  /\ life[k] = from
  /\ life' = [life EXCEPT ![k] = to]
  /\ UNCHANGED <<pc, at, dumped, seen, again, remote, manifests, pinged, history>>

StoreObject(k) == Becomes(k, "new", "orphan")
CommitRow(k) == Becomes(k, "orphan", "kept")
DeleteObject(k) == Becomes(k, "kept", "losing")
DeleteRow(k) == Becomes(k, "losing", "gone")

Next ==
  \/ \E r \in Runs :
       \/ Dump(r) \/ UploadDump(r) \/ VerifyDump(r) \/ PublishDatabase(r)
       \/ List(r) \/ EndList(r) \/ Copy(r) \/ VerifyCopy(r) \/ EndCopy(r)
       \/ ListAgain(r) \/ Compare(r) \/ PublishRecordings(r) \/ Ping(r)
       \/ Fail(r) \/ HeartbeatFails(r)
  \/ \E k \in Keys : StoreObject(k) \/ CommitRow(k) \/ DeleteObject(k) \/ DeleteRow(k)

Spec == Init /\ [][Next]_vars

-----------------------------------------------------------------------------

\* A published snapshot is of one time: its recordings were all stored together between
\* the two inventories, whatever the pages saw; nothing that was stored throughout is
\* missing, and so the rows of the dump whose recording was not deleted meanwhile have it.
SnapshotIsOfOneTime ==
  \A r \in Runs : <<r, "recordings">> \in manifests =>
    /\ seen[r] \subseteq midway[r]
    /\ before[r] \cap after[r] \subseteq seen[r]
    /\ dumped[r] \cap after[r] \subseteq seen[r]

\* A heartbeat stands for a backup that can be restored, and it stays so whatever runs
\* and fails at the same time or later: both manifests are there, and every object they
\* name is, as this run has made it.
HeartbeatMeansRestorable ==
  \A r \in pinged :
    /\ {<<r, "database">>, <<r, "recordings">>} \subseteq manifests
    /\ \A i \in seen[r] \cup {Database} : Intact(r, i)
=============================================================================
