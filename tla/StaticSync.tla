----------------------------- MODULE StaticSync ------------------------------
(***************************************************************************)
(* The static sources of a patch (scripts/sync-static.ts).  A run fetches  *)
(* the champions and the items of a Data Dragon version, makes a manifest  *)
(* row for each, uploads both at the same time, and writes in one          *)
(* transaction that both are verified, the patch with its version, and the *)
(* rows derived from the two sources.  If an upload fails both manifests   *)
(* are marked failed, while the other upload may go on.                    *)
(*                                                                         *)
(* As in module ArchivePipeline an action is what a script does between    *)
(* two awaits, a source is the bytes of one fetch and stands for its key,  *)
(* and a run may end at every await.  A reconciliation                     *)
(* (scripts/reconcile-archive.ts) runs beside it: static manifests have no *)
(* match, so that it verifies or fails them by their object alone.         *)
(*                                                                         *)
(* All runs are of one patch; the runs of other patches share nothing with *)
(* them.  The rows of a kind are known by the sources they derive from: an *)
(* upsert leaves the rows of champions or items the new version lacks.     *)
(***************************************************************************)
EXTENDS FiniteSets

CONSTANTS
  StaticSources, Versions,
  VersionOf, KindOf,   (* the version and the kind of each source            *)
  Fetches,             (* what a run may fetch: a source of each kind        *)
  Syncs,               (* the runs                                           *)
  NoStatic, NoVersion

Kinds == {"champions", "items"}

ASSUME StaticAssumption ==
  /\ VersionOf \in [StaticSources -> Versions]
  /\ KindOf \in [StaticSources -> Kinds]
  /\ Fetches \subseteq [Kinds -> StaticSources]
  /\ \A f \in Fetches, k \in Kinds :
       KindOf[f[k]] = k /\ VersionOf[f[k]] = VersionOf[f["champions"]]
  /\ NoStatic \notin StaticSources /\ NoVersion \notin Versions

VARIABLES
  objects,     (* the bucket, by source                                      *)
  manifest,    (* archive_objects: the source of the row of an identity      *)
  state,       (* its status, "none" without a row                           *)
  dragon,      (* patches.ddragon_version                                    *)
  derived,     (* champions, items: the sources with rows                    *)
  sAt,         (* per run, the await it stands at                            *)
  fetched,     (* and its two sources                                        *)
  upload,      (* and where the upload of each kind stands                   *)
  unmarked,    (* and the manifests it has yet to mark as failed             *)
  checker      (* the manifest a reconciliation is at, and what it had read  *)

tables == <<manifest, state, dragon, derived>>
sync == <<sAt, fetched, upload, unmarked>>
staticVars == <<objects, tables, sync, checker>>

(* staticSourceIdentity *)
Identities == Versions \X Kinds
Identity(s) == <<VersionOf[s], KindOf[s]>>

NoUploads == [k \in Kinds |-> "none"]
Resting == [at |-> "idle", row |-> {}, seen |-> "none"]

-----------------------------------------------------------------------------
StaticInit ==
  /\ objects \in [StaticSources -> {"absent", "damaged"}]
  /\ manifest = [i \in Identities |-> NoStatic]
  /\ state = [i \in Identities |-> "none"]
  /\ dragon = NoVersion
  /\ derived = [k \in Kinds |-> {}]
  /\ sAt = [p \in Syncs |-> "idle"]
  /\ fetched = [p \in Syncs |-> [k \in Kinds |-> NoStatic]]
  /\ upload = [p \in Syncs |-> NoUploads]
  /\ unmarked = [p \in Syncs |-> {}]
  /\ checker = Resting

(* The run ends, and with it its uploads. *)
LeaveSync(p) ==
  /\ sAt' = [sAt EXCEPT ![p] = "idle"]
  /\ fetched' = [fetched EXCEPT ![p] = [k \in Kinds |-> NoStatic]]
  /\ upload' = [upload EXCEPT ![p] = NoUploads]
  /\ unmarked' = [unmarked EXCEPT ![p] = {}]

FetchStatic(p, f) ==
  /\ sAt[p] = "idle"
  /\ sAt' = [sAt EXCEPT ![p] = "champions"]
  /\ fetched' = [fetched EXCEPT ![p] = f]
  /\ UNCHANGED <<upload, unmarked, objects, tables, checker>>

(* createPendingArchiveIntent of the champions and then of the items; it   *)
(* throws if the identity has other bytes.  Then both uploads start.       *)
StaticConflict(s) == manifest[Identity(s)] \notin {NoStatic, s}

CreateStaticIntent(p) ==
  /\ sAt[p] \in Kinds
  /\ LET s == fetched[p][sAt[p]]
     IN /\ ~StaticConflict(s)
        /\ manifest' = [manifest EXCEPT ![Identity(s)] = s]
        /\ state' = [state EXCEPT ![Identity(s)] = IF @ = "verified" THEN @ ELSE "pending"]
  /\ IF sAt[p] = "champions"
     THEN sAt' = [sAt EXCEPT ![p] = "items"] /\ UNCHANGED upload
     ELSE /\ sAt' = [sAt EXCEPT ![p] = "uploads"]
          /\ upload' = [upload EXCEPT ![p] = [k \in Kinds |-> "head"]]
  /\ UNCHANGED <<dragon, derived, fetched, unmarked, objects, checker>>

-----------------------------------------------------------------------------
(* putVerifiedStaticArchive, for each kind: put what is not there, download *)
(* and compare what is.                                                    *)
Uploading(p) == sAt[p] \in {"uploads", "failing"}

UploadStep(p, k, from, to) ==
  /\ Uploading(p) /\ upload[p][k] = from
  /\ upload' = [upload EXCEPT ![p][k] = to]
  /\ UNCHANGED <<sAt, fetched, unmarked, tables, checker>>

HeadStatic(p, k) ==
  /\ UploadStep(p, k, "head", IF objects[fetched[p][k]] = "absent" THEN "put" ELSE "verify")
  /\ UNCHANGED objects

PutStatic(p, k) ==
  /\ UploadStep(p, k, "put", "verify")
  /\ objects' = [objects EXCEPT ![fetched[p][k]] = "intact"]

VerifyStatic(p, k) ==
  /\ UploadStep(p, k, "verify", "done")
  /\ objects[fetched[p][k]] = "intact"
  /\ UNCHANGED objects

(* The object is not what it should be, or a call of the bucket throws; a  *)
(* put may have arrived all the same.  The first failure is the one that   *)
(* the run learns of.                                                      *)
UploadFails(p, k) ==
  /\ Uploading(p) /\ upload[p][k] \in {"head", "put", "verify"}
  /\ upload' = [upload EXCEPT ![p][k] = "failed"]
  /\ sAt' = [sAt EXCEPT ![p] = "failing"]
  /\ unmarked' = [unmarked EXCEPT ![p] = IF sAt[p] = "uploads" THEN Kinds ELSE @]
  /\ \/ UNCHANGED objects
     \/ /\ upload[p][k] = "put"
        /\ objects' = [objects EXCEPT ![fetched[p][k]] = "intact"]
  /\ UNCHANGED <<fetched, tables, checker>>

(* markArchiveFailed of both, at the same time, whatever the rows say by   *)
(* now; then the run ends with the error.                                  *)
MarkStaticFailed(p, k) ==
  /\ k \in unmarked[p]
  /\ state' = [state EXCEPT ![Identity(fetched[p][k])] = "failed"]
  /\ IF unmarked[p] = {k}
     THEN LeaveSync(p)
     ELSE /\ unmarked' = [unmarked EXCEPT ![p] = @ \ {k}]
          /\ UNCHANGED <<sAt, fetched, upload>>
  /\ UNCHANGED <<manifest, dragon, derived, objects, checker>>

Uploaded_Any(p) == \E k \in Kinds : upload[p][k] = "done"

Uploaded(p) == \A k \in Kinds : upload[p][k] = "done"

(* The transaction. *)
WriteRows(p) ==
  /\ sAt[p] = "uploads" /\ Uploaded(p)
  /\ \A k \in Kinds : manifest[Identity(fetched[p][k])] = fetched[p][k]
  /\ state' = [i \in Identities |->
                 IF \E k \in Kinds : i = Identity(fetched[p][k]) THEN "verified" ELSE state[i]]
  /\ dragon' = VersionOf[fetched[p]["champions"]]
  /\ \E kept \in [Kinds -> BOOLEAN] :
       derived' = [k \in Kinds |-> {fetched[p][k]} \cup (IF kept[k] THEN derived[k] ELSE {})]
  /\ LeaveSync(p)
  /\ UNCHANGED <<manifest, objects, checker>>

(* An exception, or the process is killed. *)
StopSync(p) ==
  /\ sAt[p] # "idle"
  /\ LeaveSync(p)
  /\ UNCHANGED <<objects, tables, checker>>

Sync(p) ==
  \/ \E f \in Fetches : FetchStatic(p, f)
  \/ CreateStaticIntent(p) \/ WriteRows(p) \/ StopSync(p)
  \/ \E k \in Kinds :
       \/ HeadStatic(p, k) \/ PutStatic(p, k) \/ VerifyStatic(p, k) \/ UploadFails(p, k)
       \/ MarkStaticFailed(p, k)

-----------------------------------------------------------------------------
(* The reconciliation has read all manifests at its start; it looks at      *)
(* each object some time later and then writes by what it had read.  Rows  *)
(* are looked at and written each by itself, so that it is followed on one *)
(* of them at a time.  A run that only reports still fails a verified      *)
(* manifest without a sound object.                                        *)
ReadStatic(i) ==
  /\ checker = Resting /\ state[i] # "none"
  /\ checker' = [at |-> "check", row |-> {i}, seen |-> state[i]]
  /\ UNCHANGED <<objects, tables, sync>>

CheckStatic(i, safe) ==
  /\ checker.at = "check" /\ i \in checker.row
  /\ checker' = CASE objects[manifest[i]] # "intact" /\ checker.seen = "verified" ->
                       [checker EXCEPT !.at = "condemn"]
                  [] objects[manifest[i]] = "intact" /\ checker.seen # "verified" /\ safe ->
                       [checker EXCEPT !.at = "repair"]
                  [] OTHER -> Resting
  /\ UNCHANGED <<objects, tables, sync>>

WriteStatic(i) ==
  /\ checker.at \in {"condemn", "repair"} /\ i \in checker.row
  /\ state' = [state EXCEPT ![i] = IF checker.at = "repair" THEN "verified" ELSE "failed"]
  /\ checker' = Resting
  /\ UNCHANGED <<objects, manifest, dragon, derived, sync>>

StopCheck ==
  /\ checker # Resting
  /\ checker' = Resting
  /\ UNCHANGED <<objects, tables, sync>>

StaticNext ==
  \/ \E p \in Syncs : Sync(p)
  \/ \E i \in Identities :
       \/ ReadStatic(i) \/ WriteStatic(i)
       \/ \E safe \in BOOLEAN : CheckStatic(i, safe)
  \/ StopCheck

StaticSpec == StaticInit /\ [][StaticNext]_staticVars

-----------------------------------------------------------------------------
StaticTypeOK ==
  /\ objects \in [StaticSources -> {"absent", "damaged", "intact"}]
  /\ manifest \in [Identities -> StaticSources \cup {NoStatic}]
  /\ state \in [Identities -> {"none", "pending", "failed", "verified"}]
  /\ dragon \in Versions \cup {NoVersion}
  /\ derived \in [Kinds -> SUBSET StaticSources]
  /\ sAt \in [Syncs -> {"idle", "uploads", "failing"} \cup Kinds]
  /\ fetched \in [Syncs -> [Kinds -> StaticSources \cup {NoStatic}]]
  /\ upload \in [Syncs -> [Kinds -> {"none", "head", "put", "verify", "done", "failed"}]]
  /\ unmarked \in [Syncs -> SUBSET Kinds]
  /\ checker \in [at : {"idle", "check", "condemn", "repair"}, row : SUBSET Identities,
                  seen : {"none", "pending", "failed", "verified"}]

(* A verified manifest has a sound object.  Every row of champions and     *)
(* items derives from a source that is archived, soundly, under the        *)
(* manifest of its identity.  And the patch is whole: for the version it   *)
(* names there are the champions and the items of that version, whichever  *)
(* upload failed, whatever other runs of other versions were doing, and    *)
(* whenever a run ended.                                                   *)
StaticArchived ==
  /\ \A i \in Identities : state[i] = "verified" => objects[manifest[i]] = "intact"
  /\ \A k \in Kinds : \A s \in derived[k] :
       objects[s] = "intact" /\ manifest[Identity(s)] = s
  /\ dragon # NoVersion =>
       \A k \in Kinds : \E s \in derived[k] : VersionOf[s] = dragon
==============================================================================
