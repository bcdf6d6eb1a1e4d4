-------------------------- MODULE ArchivePipeline --------------------------
(***************************************************************************)
(* The archive-first pipeline.  Three scripts share a bucket (S3) and a    *)
(* database (Postgres) and may run at the same time:                       *)
(*   ingest     (scripts/ingest.ts, runArchiveFirst)  - intent, upload,    *)
(*              verification, then one transaction that accepts the match; *)
(*   reconcile  (scripts/reconcile-archive.ts)  - compares both sides as   *)
(*              it read them at its start and repairs what it can;         *)
(*   rebuild    (scripts/rebuild-from-archives.ts --apply)  - accepts a    *)
(*              match again from its verified archive.                     *)
(*                                                                         *)
(* An action is what a script does between two awaits; a transaction is    *)
(* one action.  Reads of the bucket that follow each other and a read of   *)
(* the database after them are one action, since no write of the database  *)
(* depends on the bucket.  A script may stop at every await: a crash, or   *)
(* an exception of the database client, whose uncertain commits are never  *)
(* replayed (a commit whose answer is lost is the action followed by the   *)
(* script's end).                                                          *)
(*                                                                         *)
(* A source is the compressed bytes of one fetch of a match; its key is    *)
(* its checksum, so it stands for its key too.  Two fetches of a match may *)
(* differ.  The columns that only report (attempts, errors, times) are not *)
(* kept.  At the start the bucket may hold anything and the database no    *)
(* manifest: a bucket older than the manifests, or a restored database.    *)
(***************************************************************************)
EXTENDS Integers, FiniteSets

CONSTANTS
  Sources, Matches,
  MatchOf,            (* sourceMatchIdentity: the match of each source       *)
  Valid,              (* the sources that pass the checks of patch and shape *)
  Ingesters,          (* the ingest runs                                     *)
  NoSource, Legacy,
  MaxLosses,          (* bound: how often the bucket loses or damages bytes  *)
  MaxFaults           (* bound: how often a reconcile run is cut off or      *)
                      (* cannot read an object that is there                 *)

ASSUME ArchiveAssumption ==
  /\ MatchOf \in [Sources -> Matches]
  /\ Valid \subseteq Sources
  /\ NoSource \notin Sources /\ Legacy \notin Sources /\ NoSource # Legacy
  /\ MaxLosses \in Nat /\ MaxFaults \in Nat

VARIABLES
  bucket,      (* the objects, by source                                     *)
  descriptor,  (* archive_objects: the source of the row of a match          *)
  status,      (* archive_objects.status, "none" without a row               *)
  pointer,     (* matches: what raw points at, or a legacy row, or no row    *)
  ledger,      (* archive_orphans.state, "none" without a row                *)
  at, held,    (* ingest: the await a run stands at and the source it has    *)
  rAt,         (* reconcile: the await it stands at                          *)
  rSafe,       (* reconcile: --repair-orphans                                *)
  rListed,     (* reconcile: the objects it listed                           *)
  rStatus,     (* reconcile: the status column as it read it                 *)
  rTodo,       (* reconcile: what is left of the loop it is in               *)
  rItem,       (* reconcile: the source it is working on                     *)
  rPointer,    (* reconcile: the pointer it has read                         *)
  bAt, bItem,  (* rebuild                                                    *)
  inherited,   (* history: the bucket at the start                           *)
  uploaded,    (* history: what the ingest runs have put                     *)
  lost,        (* history: what the bucket has lost or damaged               *)
  faults       (* how often a reconcile run was cut off or misread           *)

db == <<descriptor, status, pointer>>
ingest == <<at, held>>
reconcile == <<rAt, rSafe, rListed, rStatus, rTodo, rItem, rPointer>>
rebuild == <<bAt, bItem>>
store == <<bucket, inherited, uploaded, lost, faults>>
vars == <<store, db, ledger, ingest, reconcile, rebuild>>

Statuses == {"none", "pending", "verified", "failed"}
IngestAwaits == {"idle", "intent", "head", "put", "verify", "failing", "finalize"}
Working == {"condemn", "repair", "ensure", "publish", "register", "persist", "record"}
ReconcileAwaits == {"idle", "aborted", "rows", "manifests", "orphans"} \cup Working

TypeOK ==
  /\ bucket \in [Sources -> {"absent", "intact", "damaged"}]
  /\ inherited \in [Sources -> {"absent", "intact", "damaged"}]
  /\ descriptor \in [Matches -> Sources \cup {NoSource}]
  /\ status \in [Matches -> Statuses]
  /\ pointer \in [Matches -> Sources \cup {NoSource, Legacy}]
  /\ ledger \in [Sources -> {"none", "unresolved", "registered"}]
  /\ at \in [Ingesters -> IngestAwaits]
  /\ held \in [Ingesters -> Sources \cup {NoSource}]
  /\ \A p \in Ingesters : at[p] = "idle" <=> held[p] = NoSource
  /\ rAt \in ReconcileAwaits /\ rSafe \in BOOLEAN
  /\ rListed \subseteq Sources /\ rTodo \subseteq Sources
  /\ rStatus \in [Matches -> Statuses]
  /\ rItem \in Sources \cup {NoSource} /\ rPointer \in Sources \cup {NoSource}
  /\ rAt \in Working <=> rItem # NoSource
  /\ bAt \in {"idle", "check", "apply"} /\ bItem \in Sources \cup {NoSource}
  /\ bAt = "idle" <=> bItem = NoSource
  /\ uploaded \subseteq Sources /\ lost \subseteq Sources
  /\ faults \in 0..MaxFaults
  /\ \A m \in Matches : descriptor[m] = NoSource <=> status[m] = "none"

Init ==
  /\ bucket \in [Sources -> {"absent", "intact", "damaged"}]
  /\ inherited = bucket /\ uploaded = {} /\ lost = {}
  /\ descriptor = [m \in Matches |-> NoSource]
  /\ status = [m \in Matches |-> "none"]
  /\ pointer \in [Matches -> {NoSource, Legacy}]
  /\ ledger = [s \in Sources |-> "none"]
  /\ at = [p \in Ingesters |-> "idle"]
  /\ held = [p \in Ingesters |-> NoSource]
  /\ rAt = "idle" /\ rSafe = FALSE /\ rListed = {} /\ rTodo = {}
  /\ rStatus = [m \in Matches |-> "none"]
  /\ rItem = NoSource /\ rPointer = NoSource /\ faults = 0
  /\ bAt = "idle" /\ bItem = NoSource

-----------------------------------------------------------------------------
(* The transactions. *)

Conflict_Unchecked(s) == descriptor[MatchOf[s]] \notin Sources \cup {NoSource}

(* The row of the match already has other bytes: ensurePendingArchiveIntent *)
(* throws.                                                                  *)
Conflict(s) == descriptor[MatchOf[s]] \notin {NoSource, s}

(* A new row is pending, a failed one becomes pending again. *)
EnsurePending(s) ==
  /\ descriptor' = [descriptor EXCEPT ![MatchOf[s]] = s]
  /\ status' = [status EXCEPT ![MatchOf[s]] = IF @ = "verified" THEN @ ELSE "pending"]
  /\ UNCHANGED pointer

MarkFailed(s) ==
  /\ status' = [status EXCEPT ![MatchOf[s]] = "failed"]
  /\ UNCHANGED <<descriptor, pointer>>

(* The row must still be there with these bytes. *)
MarkVerified(s) ==
  /\ descriptor[MatchOf[s]] = s
  /\ status' = [status EXCEPT ![MatchOf[s]] = "verified"]
  /\ UNCHANGED <<descriptor, pointer>>

(* persistArchivedMatch; it refuses to replace a legacy row. *)
Persist(s) ==
  /\ pointer[MatchOf[s]] # Legacy
  /\ descriptor[MatchOf[s]] = s
  /\ status' = [status EXCEPT ![MatchOf[s]] = "verified"]
  /\ pointer' = [pointer EXCEPT ![MatchOf[s]] = s]
  /\ UNCHANGED descriptor

-----------------------------------------------------------------------------
(* ingest: one match of a run. *)

GoTo(p, await) ==
  /\ at' = [at EXCEPT ![p] = await]
  /\ UNCHANGED <<held, ledger, reconcile, rebuild>>

Leave(p) ==
  /\ at' = [at EXCEPT ![p] = "idle"]
  /\ held' = [held EXCEPT ![p] = NoSource]
  /\ UNCHANGED <<ledger, reconcile, rebuild>>

(* The match is not known yet; the bytes fetched for it are s. *)
SelectMatch(p, s) ==
  /\ at[p] = "idle"
  /\ s \in Valid
  /\ pointer[MatchOf[s]] = NoSource
  /\ at' = [at EXCEPT ![p] = "intent"]
  /\ held' = [held EXCEPT ![p] = s]
  /\ UNCHANGED <<store, db, ledger, reconcile, rebuild>>

(* createPendingIntent, and markUploadAttempt, which only reports. *)
CreateIntent(p) ==
  /\ at[p] = "intent"
  /\ ~Conflict(held[p])
  /\ EnsurePending(held[p])
  /\ GoTo(p, "head")
  /\ UNCHANGED store

(* putImmutableAndVerify: only a key that is not there is put, *)
HeadObject_TrustExisting(p) ==
  /\ at[p] = "head"
  /\ GoTo(p, IF bucket[held[p]] = "absent" THEN "put" ELSE "finalize")
  /\ UNCHANGED <<store, db>>

HeadObject(p) ==
  /\ at[p] = "head"
  /\ GoTo(p, IF bucket[held[p]] = "absent" THEN "put" ELSE "verify")
  /\ UNCHANGED <<store, db>>

Put(s) ==
  /\ bucket' = [bucket EXCEPT ![s] = "intact"]
  /\ uploaded' = uploaded \cup {s}
  /\ UNCHANGED <<inherited, lost, faults>>

PutObject(p) ==
  /\ at[p] = "put"
  /\ Put(held[p])
  /\ GoTo(p, "verify")
  /\ UNCHANGED db

(* and whatever is there is downloaded and compared. *)
VerifyObject(p) ==
  /\ at[p] = "verify"
  /\ GoTo(p, IF bucket[held[p]] = "intact" THEN "finalize" ELSE "failing")
  /\ UNCHANGED <<store, db>>

(* A call of the bucket throws; a put may have arrived all the same. *)
UploadThrows(p) ==
  /\ at[p] \in {"head", "put", "verify"}
  /\ GoTo(p, "failing")
  /\ \/ UNCHANGED store
     \/ at[p] = "put" /\ Put(held[p])
  /\ UNCHANGED db

(* markUploadFailed writes by the id of the row, whatever it says by now; *)
(* then the run fails.                                                    *)
MarkUploadFailed(p) ==
  /\ at[p] = "failing"
  /\ MarkFailed(held[p])
  /\ Leave(p)
  /\ UNCHANGED store

FinalizeTransactionally(p) ==
  /\ at[p] = "finalize"
  /\ Persist(held[p])
  /\ Leave(p)
  /\ UNCHANGED store

(* The run ends where it stands. *)
StopIngest(p) ==
  /\ at[p] # "idle"
  /\ Leave(p)
  /\ UNCHANGED <<store, db>>

Ingest(p) ==
  \/ \E s \in Sources : SelectMatch(p, s)
  \/ CreateIntent(p) \/ HeadObject(p) \/ PutObject(p) \/ VerifyObject(p)
  \/ UploadThrows(p) \/ MarkUploadFailed(p) \/ FinalizeTransactionally(p)
  \/ StopIngest(p)

-----------------------------------------------------------------------------
(* reconcile: the bucket is listed first, the manifests are read next. *)

StartReconcile(safe) ==
  /\ rAt \in {"idle", "aborted"}
  /\ rAt' = "rows"
  /\ rSafe' = safe
  /\ rListed' = {s \in Sources : bucket[s] # "absent"}
  /\ rTodo' = {}
  /\ UNCHANGED <<rStatus, rItem, rPointer, store, db, ledger, ingest, rebuild>>

(* A row keeps its source, so that the status column is what may be stale. *)
LoadManifests ==
  /\ rAt = "rows"
  /\ rAt' = "manifests"
  /\ rStatus' = status
  /\ rTodo' = {descriptor[m] : m \in {n \in Matches : status[n] # "none"}}
  /\ UNCHANGED <<rSafe, rListed, rItem, rPointer, store, db, ledger, ingest, rebuild>>

(* The loop of the script goes on with the next object. *)
NextObject(s, loop) ==
  /\ rAt' = loop
  /\ rTodo' = rTodo \ {s}
  /\ rItem' = NoSource /\ rPointer' = NoSource
  /\ UNCHANGED <<rSafe, rListed, rStatus>>

(* The script goes on with s at its next await. *)
GoOn(s, await, seen) ==
  /\ rAt' = await
  /\ rItem' = s /\ rPointer' = seen
  /\ UNCHANGED <<rSafe, rListed, rStatus, rTodo>>

NeedsRepair_PendingOnly(s) ==
  CASE rStatus[MatchOf[s]] = "verified" -> pointer[MatchOf[s]] = NoSource
    [] OTHER -> rStatus[MatchOf[s]] = "pending"

(* A manifest with a sound object: verified without a match, or not yet    *)
(* verified.                                                               *)
NeedsRepair(s) ==
  rStatus[MatchOf[s]] = "verified" => pointer[MatchOf[s]] = NoSource

CheckManifest(s) ==
  /\ rAt = "manifests" /\ s \in rTodo
  /\ CASE bucket[s] # "intact" /\ rStatus[MatchOf[s]] = "verified" -> GoOn(s, "condemn", NoSource)
       [] bucket[s] = "intact" /\ NeedsRepair(s) /\ rSafe          -> GoOn(s, "repair", NoSource)
       [] OTHER                                                    -> NextObject(s, "manifests")
  /\ UNCHANGED <<store, db, ledger, ingest, rebuild>>

(* markArchiveObjectFailed, by the id of the row as well. *)
Condemn ==
  /\ rAt = "condemn"
  /\ MarkFailed(rItem)
  /\ NextObject(rItem, "manifests")
  /\ UNCHANGED <<store, ledger, ingest, rebuild>>

(* tryRepairManifest reads the match, *)
ReadPointer ==
  /\ rAt = "repair"
  /\ IF rItem \in Valid /\ pointer[MatchOf[rItem]] \in {NoSource, rItem}
     THEN GoOn(rItem, "ensure", pointer[MatchOf[rItem]])
     ELSE NextObject(rItem, "manifests")
  /\ UNCHANGED <<store, db, ledger, ingest, rebuild>>

(* makes the intent pending again, *)
EnsureIntent ==
  /\ rAt = "ensure"
  /\ ~Conflict(rItem)
  /\ EnsurePending(rItem)
  /\ GoOn(rItem, "publish", rPointer)
  /\ UNCHANGED <<store, ledger, ingest, rebuild>>

PublishRepair_VerifyOnly ==
  /\ rAt = "publish"
  /\ MarkVerified(rItem)
  /\ NextObject(rItem, "manifests")
  /\ UNCHANGED <<store, ledger, ingest, rebuild>>

(* and verifies it, or accepts the match where it had found none. *)
PublishRepair ==
  /\ rAt = "publish"
  /\ IF rPointer = NoSource THEN Persist(rItem) ELSE MarkVerified(rItem)
  /\ NextObject(rItem, "manifests")
  /\ UNCHANGED <<store, ledger, ingest, rebuild>>

Unmanifested_ListedLate ==
  {s \in Sources : bucket[s] # "absent"} \ {descriptor[m] : m \in {n \in Matches : rStatus[n] # "none"}}

(* The listed objects without a manifest among those it had read. *)
Unmanifested ==
  rListed \ {descriptor[m] : m \in {n \in Matches : rStatus[n] # "none"}}

StartOrphans ==
  /\ rAt = "manifests" /\ rTodo = {}
  /\ rAt' = "orphans"
  /\ rTodo' = Unmanifested
  /\ UNCHANGED <<rSafe, rListed, rStatus, rItem, rPointer, store, db, ledger, ingest, rebuild>>

Record(s, state) ==
  /\ ledger' = [ledger EXCEPT ![s] = state]
  /\ NextObject(s, "orphans")

CheckOrphan(s) ==
  /\ rAt = "orphans" /\ s \in rTodo
  /\ IF /\ bucket[s] = "intact" /\ rSafe /\ s \in Valid
        /\ pointer[MatchOf[s]] \in {NoSource, s}
     THEN GoOn(s, "register", pointer[MatchOf[s]]) /\ UNCHANGED ledger
     ELSE Record(s, "unresolved")
  /\ UNCHANGED <<store, db, ingest, rebuild>>

(* The intent; and, if the match was there, its verification with it. *)
RegisterOrphan ==
  /\ rAt = "register"
  /\ ~Conflict(rItem)
  /\ IF rPointer = NoSource
     THEN EnsurePending(rItem) /\ GoOn(rItem, "persist", rPointer)
     ELSE /\ descriptor' = [descriptor EXCEPT ![MatchOf[rItem]] = rItem]
          /\ status' = [status EXCEPT ![MatchOf[rItem]] = "verified"]
          /\ UNCHANGED pointer
          /\ GoOn(rItem, "record", rPointer)
  /\ UNCHANGED <<store, ledger, ingest, rebuild>>

PersistOrphan ==
  /\ rAt = "persist"
  /\ Persist(rItem)
  /\ GoOn(rItem, "record", rPointer)
  /\ UNCHANGED <<store, ledger, ingest, rebuild>>

RecordOrphan ==
  /\ rAt = "record"
  /\ Record(rItem, "registered")
  /\ UNCHANGED <<store, db, ingest, rebuild>>

FinishReconcile ==
  /\ rAt = "orphans" /\ rTodo = {}
  /\ rAt' = "idle"
  /\ UNCHANGED <<rSafe, rListed, rStatus, rTodo, rItem, rPointer, store, db, ledger, ingest, rebuild>>

(* Nothing catches the exception of an intent in conflict. *)
AbortReconcile ==
  /\ rAt \in {"ensure", "register"}
  /\ Conflict(rItem)
  /\ rAt' = "aborted"
  /\ rItem' = NoSource /\ rPointer' = NoSource
  /\ UNCHANGED <<rSafe, rListed, rStatus, rTodo, store, db, ledger, ingest, rebuild>>

Fault ==
  /\ faults < MaxFaults
  /\ faults' = faults + 1
  /\ UNCHANGED <<bucket, inherited, uploaded, lost>>

(* A download that fails counts as an object that is not sound. *)
MisreadManifest(s) ==
  /\ rAt = "manifests" /\ s \in rTodo
  /\ IF rStatus[MatchOf[s]] = "verified"
     THEN GoOn(s, "condemn", NoSource)
     ELSE NextObject(s, "manifests")
  /\ Fault
  /\ UNCHANGED <<db, ledger, ingest, rebuild>>

MisreadOrphan(s) ==
  /\ rAt = "orphans" /\ s \in rTodo
  /\ Record(s, "unresolved")
  /\ Fault
  /\ UNCHANGED <<db, ingest, rebuild>>

(* The run ends where it stands. *)
StopReconcile ==
  /\ rAt \notin {"idle", "aborted"}
  /\ rAt' = "idle"
  /\ rItem' = NoSource /\ rPointer' = NoSource
  /\ Fault
  /\ UNCHANGED <<rSafe, rListed, rStatus, rTodo, db, ledger, ingest, rebuild>>

(* What a run does once it has started and nothing goes wrong. *)
Reconcile ==
  \/ LoadManifests \/ StartOrphans \/ FinishReconcile \/ AbortReconcile
  \/ \E s \in Sources : CheckManifest(s) \/ CheckOrphan(s)
  \/ Condemn \/ ReadPointer \/ EnsureIntent \/ PublishRepair
  \/ RegisterOrphan \/ PersistOrphan \/ RecordOrphan

-----------------------------------------------------------------------------
(* rebuild --apply: one manifest of a run, read with all the others at the *)
(* start.                                                                  *)

ReadVerified(m) ==
  /\ bAt = "idle" /\ status[m] = "verified"
  /\ bAt' = "check" /\ bItem' = descriptor[m]
  /\ UNCHANGED <<store, db, ledger, ingest, reconcile>>

LeaveRebuild ==
  /\ bAt' = "idle" /\ bItem' = NoSource
  /\ UNCHANGED <<store, ledger, ingest, reconcile>>

(* The object is sound, and the rows derived from it equal those in place. *)
CheckRebuild ==
  /\ bAt = "check" /\ bucket[bItem] = "intact"
  /\ bAt' = "apply"
  /\ UNCHANGED <<bItem, store, db, ledger, ingest, reconcile>>

ApplyRebuild ==
  /\ bAt = "apply"
  /\ Persist(bItem)
  /\ LeaveRebuild

(* The manifest is passed over, or the run ends where it stands. *)
StopRebuild ==
  /\ bAt # "idle"
  /\ LeaveRebuild /\ UNCHANGED db

Rebuild ==
  \/ \E m \in Matches : ReadVerified(m)
  \/ CheckRebuild \/ ApplyRebuild \/ StopRebuild

-----------------------------------------------------------------------------
(* The bucket loses an object, or the bytes of one are damaged. *)
Lose(s) ==
  /\ Cardinality(lost) < MaxLosses /\ s \notin lost
  /\ bucket[s] = "intact"
  /\ bucket' \in {[bucket EXCEPT ![s] = "absent"], [bucket EXCEPT ![s] = "damaged"]}
  /\ lost' = lost \cup {s}
  /\ UNCHANGED <<inherited, uploaded, faults, db, ledger, ingest, reconcile, rebuild>>

Next ==
  \/ \E p \in Ingesters : Ingest(p)
  \/ \E safe \in BOOLEAN : StartReconcile(safe)
  \/ Reconcile
  \/ \E s \in Sources : MisreadManifest(s) \/ MisreadOrphan(s)
  \/ StopReconcile
  \/ Rebuild
  \/ \E s \in Sources : Lose(s)

Spec == Init /\ [][Next]_vars

(* The operator runs the repairing reconciliation again and again, and a   *)
(* run that has started goes on.  Nothing is assumed of the other scripts. *)
Operated ==
  /\ SF_vars(StartReconcile(TRUE))
  /\ WF_vars(Reconcile)

LiveSpec == Spec /\ Operated

-----------------------------------------------------------------------------
Stored == uploaded \cup {s \in Sources : inherited[s] = "intact"}

Promise == INSTANCE ArchivedMatches WITH stored <- Stored, accepted <- pointer

(* A match is accepted once, with bytes that were in the archive before,   *)
(* and keeps them - also when two ingest runs fetch different bytes for    *)
(* it, and whatever reconcile and rebuild do with what they read earlier.  *)
AcceptedOnce == Promise!Spec

(* The three counts of scripts/storage-audit.ts over the tables.            *)
AcceptedMissingManifest == {m \in Matches : pointer[m] \in Sources /\ status[m] = "none"}

PointerMismatches ==
  {m \in Matches : pointer[m] \in Sources /\ status[m] # "none" /\ descriptor[m] # pointer[m]}

ManifestMissingMatch == {m \in Matches : status[m] = "verified" /\ pointer[m] = NoSource}

(* Whenever the audit is run, its counts are zero: no accepted match is    *)
(* without a manifest or has other bytes than its manifest, and no         *)
(* verified manifest is without a match.                                   *)
AuditClean ==
  /\ AcceptedMissingManifest = {}
  /\ PointerMismatches = {}
  /\ ManifestMissingMatch = {}

(* A verified manifest has a sound object, unless the bucket lost it after *)
(* it was there: what an earlier upload has left damaged under the key is  *)
(* never taken for the source.                                             *)
VerifiedSound ==
  \A m \in Matches :
    status[m] = "verified" => bucket[descriptor[m]] = "intact" \/ descriptor[m] \in lost

(* An object that an ingest run has put is never recorded as an orphan,    *)
(* however far that run has come when the reconciliation reads the two     *)
(* sides.                                                                  *)
NoFalseOrphans ==
  \A s \in uploaded : ledger[s] # "none" => inherited[s] # "absent"

(* A manifest whose object is sound ends up verified, with its match       *)
(* accepted, and stays so - however often ingest runs have failed or died, *)
(* and also when a late failure was written over a verified row.           *)
Settled(m) ==
  status[m] # "none" /\ bucket[descriptor[m]] = "intact" /\ pointer[m] # Legacy
    => status[m] = "verified" /\ pointer[m] = descriptor[m]

Recovered == \A m \in Matches : <>[]Settled(m)

(* docs/storage-safety.md: reconciliation "leaves unmanifested objects in  *)
(* the archive_orphans ledger unless ... the existing match state make[s]  *)
(* registration safe".  A run that ends by itself has done with every      *)
(* unmanifested object it listed.                                          *)
OrphansAccounted ==
  rAt = "aborted" => \A s \in rTodo : ledger[s] # "none"
=============================================================================
