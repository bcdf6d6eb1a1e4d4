----------------------------- MODULE StorageProofs -----------------------------
(***************************************************************************)
(* Proofs about the scripts around the archive and what they share: the    *)
(* static sources of a patch, for any sources, versions and number of      *)
(* runs; the database client, for any calls, size of the pool, number of   *)
(* pauses and of pools; the ingestion runs and their ceilings, for any     *)
(* number of runs, matches and sizes of matches; pinned source sets, for   *)
(* any drafts, bytes and paths.                                            *)
(***************************************************************************)
EXTENDS StaticSync, DatabaseClient, IngestRuns, SourceSets, InductionLemmas, SequenceTheorems

-----------------------------------------------------------------------------
(* The static sources of a patch.                                          *)

(* A row of archive_objects has a source; *)
RowsNamed == \A i \in Identities : state[i] # "none" => manifest[i] # NoStatic

(* a run has fetched what belongs together, from its intents on the         *)
(* manifests are those of its sources, and an upload that is done has left  *)
(* a sound object;                                                          *)
RunSound(p) ==
  /\ sAt[p] # "idle" => fetched[p] \in Fetches
  /\ sAt[p] = "items" =>
       manifest[Identity(fetched[p]["champions"])] = fetched[p]["champions"]
  /\ Uploading(p) => \A k \in Kinds :
       /\ manifest[Identity(fetched[p][k])] = fetched[p][k]
       /\ upload[p][k] = "done" => objects[fetched[p][k]] = "intact"
  /\ unmarked[p] # {} => sAt[p] = "failing"

(* and the reconciliation is at a row, whose object it has found sound if   *)
(* it is about to repair it.                                                *)
CheckerSound ==
  \A i \in checker.row :
    /\ checker.row = {i}
    /\ manifest[i] # NoStatic
    /\ checker.at = "repair" => objects[manifest[i]] = "intact"

StaticInv ==
  /\ StaticTypeOK
  /\ RowsNamed
  /\ \A p \in Syncs : RunSound(p)
  /\ CheckerSound
  /\ StaticArchived

LEMMA IdentityType ==
  ASSUME NEW s \in StaticSources
  PROVE  Identity(s) \in Identities
BY StaticAssumption DEF Identity, Identities

LEMMA FetchType ==
  ASSUME NEW f \in Fetches, NEW k \in Kinds
  PROVE  /\ f \in [Kinds -> StaticSources] /\ f[k] \in StaticSources
         /\ Identity(f[k]) \in Identities
         /\ VersionOf[f[k]] = VersionOf[f["champions"]] /\ KindOf[f[k]] = k
<1>1. f \in [Kinds -> StaticSources] /\ f[k] \in StaticSources
  BY StaticAssumption
<1> QED BY <1>1, IdentityType, StaticAssumption

LEMMA StaticInitInv == StaticInit => StaticInv
<1> SUFFICES ASSUME StaticInit PROVE StaticInv OBVIOUS
<1>1. StaticTypeOK
  <2>1. checker \in [at : {"idle", "check", "condemn", "repair"}, row : SUBSET Identities,
                     seen : {"none", "pending", "failed", "verified"}]
    BY DEF StaticInit, Resting
  <2>2. upload \in [Syncs -> [Kinds -> {"none", "head", "put", "verify", "done", "failed"}]]
    BY DEF StaticInit, NoUploads
  <2> QED BY <2>1, <2>2 DEF StaticInit, StaticTypeOK
<1>2. RowsNamed
  BY DEF StaticInit, RowsNamed
<1>3. \A p \in Syncs : RunSound(p)
  BY DEF StaticInit, RunSound, Uploading, Kinds
<1>4. CheckerSound
  BY DEF StaticInit, Resting, CheckerSound
<1>5. StaticArchived
  BY DEF StaticInit, StaticArchived
<1> QED BY <1>1, <1>2, <1>3, <1>4, <1>5 DEF StaticInv

-----------------------------------------------------------------------------
(* A run that ends. *)
LEMMA LeaveType ==
  ASSUME StaticTypeOK, NEW p \in Syncs, LeaveSync(p)
  PROVE  /\ sAt' \in [Syncs -> {"idle", "uploads", "failing"} \cup Kinds]
         /\ fetched' \in [Syncs -> [Kinds -> StaticSources \cup {NoStatic}]]
         /\ upload' \in [Syncs -> [Kinds -> {"none", "head", "put", "verify", "done", "failed"}]]
         /\ unmarked' \in [Syncs -> SUBSET Kinds]
BY DEF StaticTypeOK, LeaveSync, NoUploads

LEMMA LeaveSound ==
  ASSUME StaticTypeOK, NEW p \in Syncs, LeaveSync(p)
  PROVE  /\ RunSound(p)'
         /\ \A q \in Syncs : q # p =>
              /\ sAt'[q] = sAt[q] /\ fetched'[q] = fetched[q]
              /\ upload'[q] = upload[q] /\ unmarked'[q] = unmarked[q]
<1>1. sAt'[p] = "idle" /\ unmarked'[p] = {}
  BY DEF StaticTypeOK, LeaveSync
<1>2. RunSound(p)'
  BY <1>1 DEF RunSound, Uploading, Kinds
<1> QED BY <1>2 DEF StaticTypeOK, LeaveSync

(* Manifests keep the source they were created with, and a sound object     *)
(* stays sound.                                                             *)
Kept ==
  /\ \A i \in Identities : manifest[i] # NoStatic => manifest'[i] = manifest[i]
  /\ \A s \in StaticSources : objects[s] = "intact" => objects'[s] = "intact"

(* What is said of a run that rests stays true, *)
LEMMA OthersSound ==
  ASSUME StaticInv, Kept, NEW q \in Syncs,
         sAt'[q] = sAt[q], fetched'[q] = fetched[q], upload'[q] = upload[q], unmarked'[q] = unmarked[q]
  PROVE  RunSound(q)'
<1>1. RunSound(q)
  BY DEF StaticInv
<1>2. sAt[q] # "idle" => \A k \in Kinds : /\ fetched[q][k] \in StaticSources
                                          /\ Identity(fetched[q][k]) \in Identities
  BY <1>1, FetchType DEF RunSound
<1>3. "champions" \in Kinds
  BY DEF Kinds
<1>4. \A k \in Kinds : fetched[q][k] \in StaticSources => fetched[q][k] # NoStatic
  BY StaticAssumption
<1>5. sAt'[q] = "items" =>
        (manifest[Identity(fetched[q]["champions"])] = fetched[q]["champions"])'
  BY <1>1, <1>2, <1>3, <1>4 DEF RunSound, Kept, Identity
<1>6. Uploading(q)' => \A k \in Kinds :
        /\ manifest'[Identity(fetched[q][k])] = fetched[q][k]
        /\ upload[q][k] = "done" => objects'[fetched[q][k]] = "intact"
  BY <1>1, <1>2, <1>4 DEF RunSound, Kept, Uploading
<1> QED BY <1>1, <1>5, <1>6 DEF RunSound, Identity

(* and so does what is said of the reconciliation, and of the rows of a     *)
(* version that is in place.                                                *)
LEMMA CheckerStays == StaticInv /\ Kept /\ checker' = checker => CheckerSound'
<1> SUFFICES ASSUME StaticInv, Kept, checker' = checker, NEW i \in checker.row
             PROVE  /\ checker.row = {i}
                    /\ manifest'[i] # NoStatic
                    /\ checker.at = "repair" => objects'[manifest'[i]] = "intact"
  BY DEF CheckerSound
<1>1. i \in Identities /\ manifest[i] # NoStatic /\ manifest[i] \in StaticSources
  BY DEF StaticInv, CheckerSound, StaticTypeOK
<1> QED BY <1>1 DEF StaticInv, CheckerSound, Kept

LEMMA ArchivedStays ==
  ASSUME StaticInv, Kept, dragon' = dragon, derived' = derived,
         \A i \in Identities : state'[i] = "verified" =>
            state[i] = "verified" \/ (manifest[i] # NoStatic /\ objects[manifest[i]] = "intact")
  PROVE  StaticArchived'
<1>1. ASSUME NEW i \in Identities, state'[i] = "verified"
      PROVE  objects'[manifest'[i]] = "intact"
  <2>1. manifest[i] # NoStatic /\ manifest[i] \in StaticSources
    BY <1>1 DEF StaticInv, RowsNamed, StaticTypeOK
  <2>2. objects[manifest[i]] = "intact"
    BY <1>1 DEF StaticInv, StaticArchived
  <2> QED BY <2>1, <2>2 DEF Kept
<1>2. ASSUME NEW k \in Kinds, NEW s \in derived[k]
      PROVE  objects'[s] = "intact" /\ manifest'[Identity(s)] = s
  <2>1. s \in StaticSources /\ Identity(s) \in Identities /\ s # NoStatic
    BY IdentityType, StaticAssumption DEF StaticInv, StaticTypeOK
  <2>2. objects[s] = "intact" /\ manifest[Identity(s)] = s
    BY DEF StaticInv, StaticArchived
  <2> QED BY <2>1, <2>2 DEF Kept
<1>3. dragon' # NoVersion => \A k \in Kinds : \E s \in derived'[k] : VersionOf[s] = dragon'
  BY DEF StaticInv, StaticArchived
<1> QED BY <1>1, <1>2, <1>3 DEF StaticArchived, Identity

-----------------------------------------------------------------------------
(* Steps of a run that only move it on, or end it.                          *)
LEMMA Restore ==
  ASSUME StaticInv, StaticTypeOK', Kept, NEW p \in Syncs, RunSound(p)',
         \A q \in Syncs : q # p =>
           /\ sAt'[q] = sAt[q] /\ fetched'[q] = fetched[q]
           /\ upload'[q] = upload[q] /\ unmarked'[q] = unmarked[q],
         checker' = checker, RowsNamed', StaticArchived'
  PROVE  StaticInv'
<1>1. \A q \in Syncs : RunSound(q)'
  <2>1. ASSUME NEW q \in Syncs, q # p PROVE RunSound(q)'
    BY <2>1, OthersSound
  <2> QED BY <2>1
<1> QED BY <1>1, CheckerStays DEF StaticInv

LEMMA SameTables ==
  ASSUME StaticInv, Kept, UNCHANGED tables
  PROVE  RowsNamed' /\ StaticArchived'
<1>1. RowsNamed'
  BY DEF tables, StaticInv, RowsNamed
<1> QED BY <1>1, ArchivedStays DEF tables

LEMMA FetchStep == ASSUME StaticInv, NEW p \in Syncs, NEW f \in Fetches, FetchStatic(p, f) PROVE StaticInv'
<1>1. Kept
  BY DEF FetchStatic, tables, Kept
<1>2. f \in [Kinds -> StaticSources]
  BY StaticAssumption
<1>3. StaticTypeOK'
  <2>1. sAt' \in [Syncs -> {"idle", "uploads", "failing"} \cup Kinds]
    BY DEF FetchStatic, StaticInv, StaticTypeOK, Kinds
  <2>2. fetched' \in [Syncs -> [Kinds -> StaticSources \cup {NoStatic}]]
    <3>1. f \in [Kinds -> StaticSources \cup {NoStatic}]
      BY <1>2
    <3> QED BY <3>1 DEF FetchStatic, StaticInv, StaticTypeOK
  <2> QED BY <2>1, <2>2 DEF FetchStatic, tables, StaticInv, StaticTypeOK
<1>4. sAt'[p] = "champions" /\ fetched'[p] = f /\ unmarked'[p] = {}
  BY SMTT(30) DEF FetchStatic, StaticInv, StaticTypeOK, RunSound
<1>5. RunSound(p)'
  BY <1>4 DEF RunSound, Uploading
<1>6. \A q \in Syncs : q # p =>
        /\ sAt'[q] = sAt[q] /\ fetched'[q] = fetched[q]
        /\ upload'[q] = upload[q] /\ unmarked'[q] = unmarked[q]
  BY DEF FetchStatic, StaticInv, StaticTypeOK
<1>7. RowsNamed' /\ StaticArchived' /\ checker' = checker
  BY <1>1, SameTables DEF FetchStatic
<1> QED BY <1>1, <1>3, <1>5, <1>6, <1>7, Restore

(* What CreateStaticIntent writes; there was no row, or that of the source. *)
LEMMA IntentStep == ASSUME StaticInv, NEW p \in Syncs, CreateStaticIntent(p) PROVE StaticInv'
<1> DEFINE s == fetched[p][sAt[p]]
<1>1. fetched[p] \in Fetches /\ sAt[p] \in Kinds /\ unmarked[p] = {}
  <2>1. sAt[p] \in Kinds /\ sAt[p] # "idle" /\ sAt[p] # "failing"
    BY DEF CreateStaticIntent, Kinds
  <2>2. RunSound(p)
    BY DEF StaticInv
  <2> QED BY <2>1, <2>2 DEF RunSound
<1>2. s \in StaticSources /\ Identity(s) \in Identities /\ s # NoStatic
  BY <1>1, FetchType, StaticAssumption
<1>3. /\ manifest[Identity(s)] \in {NoStatic, s}
      /\ manifest' = [manifest EXCEPT ![Identity(s)] = s]
      /\ state' = [state EXCEPT ![Identity(s)] = IF @ = "verified" THEN @ ELSE "pending"]
      /\ UNCHANGED <<dragon, derived, fetched, unmarked, objects, checker>>
  BY DEF CreateStaticIntent, StaticConflict
<1>4. Kept
  BY <1>2, <1>3 DEF Kept, StaticInv, StaticTypeOK
<1>5. manifest' \in [Identities -> StaticSources \cup {NoStatic}] /\ manifest'[Identity(s)] = s
  BY <1>2, <1>3 DEF StaticInv, StaticTypeOK
<1>6. /\ sAt' \in [Syncs -> {"idle", "uploads", "failing"} \cup Kinds]
      /\ upload' \in [Syncs -> [Kinds -> {"none", "head", "put", "verify", "done", "failed"}]]
  <2>1. sAt' \in [Syncs -> {"idle", "uploads", "failing"} \cup Kinds]
    BY DEF CreateStaticIntent, StaticInv, StaticTypeOK, Kinds
  <2>2. [l \in Kinds |-> "head"] \in [Kinds -> {"none", "head", "put", "verify", "done", "failed"}]
    OBVIOUS
  <2>3. upload' = upload \/ upload' = [upload EXCEPT ![p] = [l \in Kinds |-> "head"]]
    BY DEF CreateStaticIntent
  <2>4. upload \in [Syncs -> [Kinds -> {"none", "head", "put", "verify", "done", "failed"}]]
    BY DEF StaticInv, StaticTypeOK
  <2>5. upload' \in [Syncs -> [Kinds -> {"none", "head", "put", "verify", "done", "failed"}]]
    BY <2>2, <2>3, <2>4
  <2> QED BY <2>1, <2>5
<1>7. state' \in [Identities -> {"none", "pending", "failed", "verified"}]
  BY <1>3 DEF StaticInv, StaticTypeOK
<1>8. StaticTypeOK'
  BY <1>3, <1>5, <1>6, <1>7 DEF StaticInv, StaticTypeOK
<1>9. RunSound(p)'
  <2>1. CASE sAt[p] = "champions"
    <3>1. sAt'[p] = "items" /\ fetched'[p] = fetched[p] /\ unmarked'[p] = {}
      BY <2>1, <1>1, <1>3 DEF CreateStaticIntent, StaticInv, StaticTypeOK
    <3> QED BY <3>1, <2>1, <1>1, <1>5 DEF RunSound, Uploading, Identity
  <2>2. CASE sAt[p] # "champions"
    <3>1. sAt[p] = "items"
      BY <2>2, <1>1 DEF Kinds
    <3>2. /\ sAt'[p] = "uploads" /\ fetched'[p] = fetched[p] /\ unmarked'[p] = {}
          /\ upload'[p] = [k \in Kinds |-> "head"]
      BY <3>1, <1>1, <1>3 DEF CreateStaticIntent, StaticInv, StaticTypeOK
    <3>3. manifest[Identity(fetched[p]["champions"])] = fetched[p]["champions"]
      BY <3>1 DEF StaticInv, RunSound
    <3>4. /\ fetched[p]["champions"] \in StaticSources /\ fetched[p]["champions"] # NoStatic
          /\ Identity(fetched[p]["champions"]) \in Identities
      BY <1>1, FetchType, StaticAssumption DEF Kinds
    <3>5. manifest'[Identity(fetched[p]["champions"])] = fetched[p]["champions"]
      BY <3>3, <3>4, <1>4 DEF Kept
    <3>6. \A k \in Kinds : manifest'[Identity(fetched[p][k])] = fetched[p][k] /\ upload'[p][k] # "done"
      BY <3>1, <3>2, <3>5, <1>5 DEF Kinds
    <3> QED BY <3>2, <3>6, <1>1 DEF RunSound, Identity
  <2> QED BY <2>1, <2>2
<1>10. \A q \in Syncs : q # p =>
         /\ sAt'[q] = sAt[q] /\ fetched'[q] = fetched[q]
         /\ upload'[q] = upload[q] /\ unmarked'[q] = unmarked[q]
  BY <1>3 DEF CreateStaticIntent, StaticInv, StaticTypeOK
<1>11. RowsNamed'
  BY <1>2, <1>3, <1>5 DEF StaticInv, RowsNamed, StaticTypeOK
<1>12. StaticArchived'
  <2>1. \A i \in Identities : state'[i] = "verified" => state[i] = "verified"
    BY <1>2, <1>3 DEF StaticInv, StaticTypeOK
  <2> QED BY <2>1, <1>3, <1>4, ArchivedStays
<1> QED BY <1>3, <1>4, <1>8, <1>9, <1>10, <1>11, <1>12, Restore

(* An upload goes on: it is done only with a sound object.                  *)
LEMMA UploadsStep ==
  ASSUME StaticInv, NEW p \in Syncs, NEW k \in Kinds,
         HeadStatic(p, k) \/ PutStatic(p, k) \/ VerifyStatic(p, k) \/ UploadFails(p, k)
  PROVE  StaticInv'
<1>1. /\ Uploading(p) /\ UNCHANGED <<fetched, tables, checker>>
      /\ sAt[p] \in {"uploads", "failing"} /\ sAt[p] # "idle"
  BY DEF HeadStatic, PutStatic, VerifyStatic, UploadFails, UploadStep, Uploading
<1>2. fetched[p] \in Fetches /\ fetched[p][k] \in StaticSources
  BY <1>1, FetchType DEF StaticInv, RunSound
<1>3. objects' = objects \/ objects' = [objects EXCEPT ![fetched[p][k]] = "intact"]
  BY DEF HeadStatic, PutStatic, VerifyStatic, UploadFails
<1>4. Kept
  BY <1>1, <1>2, <1>3 DEF Kept, tables, StaticInv, StaticTypeOK
<1>5. PICK to \in {"head", "put", "verify", "done", "failed"} :
        /\ upload' = [upload EXCEPT ![p][k] = to]
        /\ to = "done" => objects'[fetched[p][k]] = "intact"
  <2>1. CASE HeadStatic(p, k)
    BY <2>1 DEF HeadStatic, UploadStep
  <2>2. CASE PutStatic(p, k)
    BY <2>2 DEF PutStatic, UploadStep
  <2>3. CASE VerifyStatic(p, k)
    BY <2>3 DEF VerifyStatic, UploadStep
  <2>4. CASE UploadFails(p, k)
    BY <2>4 DEF UploadFails
  <2> QED BY <2>1, <2>2, <2>3, <2>4
<1>6. /\ (sAt' = sAt /\ unmarked' = unmarked)
      \/ /\ sAt' = [sAt EXCEPT ![p] = "failing"]
         /\ unmarked' = [unmarked EXCEPT ![p] = IF sAt[p] = "uploads" THEN Kinds ELSE @]
  BY DEF HeadStatic, PutStatic, VerifyStatic, UploadFails, UploadStep
<1>7. StaticTypeOK'
  <2>1. upload' \in [Syncs -> [Kinds -> {"none", "head", "put", "verify", "done", "failed"}]]
    BY <1>5 DEF StaticInv, StaticTypeOK
  <2>2. objects' \in [StaticSources -> {"absent", "damaged", "intact"}]
    BY <1>2, <1>3 DEF StaticInv, StaticTypeOK
  <2>3. sAt' \in [Syncs -> {"idle", "uploads", "failing"} \cup Kinds]
    BY <1>6 DEF StaticInv, StaticTypeOK
  <2>4. unmarked' \in [Syncs -> SUBSET Kinds]
    <3>1. unmarked \in [Syncs -> SUBSET Kinds] /\ unmarked[p] \in SUBSET Kinds
      BY DEF StaticInv, StaticTypeOK
    <3> QED BY <3>1, <1>6
  <2> QED BY <2>1, <2>2, <2>3, <2>4, <1>1 DEF tables, StaticInv, StaticTypeOK
<1>8. sAt'[p] \in {"uploads", "failing"} /\ (unmarked'[p] # {} => sAt'[p] = "failing")
  BY <1>1, <1>6 DEF StaticInv, StaticTypeOK, RunSound
<1>9. \A l \in Kinds : upload'[p][l] = "done" => objects'[fetched[p][l]] = "intact"
  <2>1. ASSUME NEW l \in Kinds, upload'[p][l] = "done", l # k
        PROVE  objects'[fetched[p][l]] = "intact"
    <3>1. upload[p][l] = "done"
      BY <2>1, <1>5 DEF StaticInv, StaticTypeOK
    <3>2. fetched[p][l] \in StaticSources /\ objects[fetched[p][l]] = "intact"
      BY <3>1, <1>1, <1>2, FetchType DEF StaticInv, RunSound
    <3> QED BY <3>2, <1>4 DEF Kept
  <2>2. upload'[p][k] = "done" => objects'[fetched[p][k]] = "intact"
    BY <1>5 DEF StaticInv, StaticTypeOK
  <2> QED BY <2>1, <2>2
<1>10. RunSound(p)'
  <2>1. \A l \in Kinds : manifest'[Identity(fetched[p][l])] = fetched[p][l]
    BY <1>1 DEF StaticInv, RunSound, tables
  <2>2. fetched'[p] = fetched[p] /\ sAt'[p] # "items" /\ sAt'[p] # "idle"
    BY <1>1, <1>8
  <2> QED BY <2>1, <2>2, <1>2, <1>8, <1>9 DEF RunSound, Identity
<1>11. \A q \in Syncs : q # p =>
         /\ sAt'[q] = sAt[q] /\ fetched'[q] = fetched[q]
         /\ upload'[q] = upload[q] /\ unmarked'[q] = unmarked[q]
  BY <1>1, <1>5, <1>6 DEF StaticInv, StaticTypeOK
<1> QED BY <1>1, <1>4, <1>7, <1>10, <1>11, SameTables, Restore

-----------------------------------------------------------------------------
(* A run ends: by its last mark, by its transaction or at any await.        *)
LEMMA MarkStep ==
  ASSUME StaticInv, NEW p \in Syncs, NEW k \in Kinds, MarkStaticFailed(p, k)
  PROVE  StaticInv'
<1> DEFINE i == Identity(fetched[p][k])
<1>1. sAt[p] = "failing" /\ RunSound(p) /\ unmarked[p] \in SUBSET Kinds
  BY DEF MarkStaticFailed, StaticInv, RunSound, StaticTypeOK
<1>2. fetched[p] \in Fetches /\ i \in Identities /\ manifest[i] # NoStatic
  <2>1. fetched[p] \in Fetches /\ manifest[i] = fetched[p][k]
    BY <1>1 DEF RunSound, Uploading
  <2> QED BY <2>1, FetchType, StaticAssumption
<1>3. /\ state' = [state EXCEPT ![i] = "failed"]
      /\ UNCHANGED <<manifest, dragon, derived, objects, checker>>
  BY DEF MarkStaticFailed
<1>4. Kept
  BY <1>3 DEF Kept
<1>5. RowsNamed'
  BY <1>2, <1>3 DEF StaticInv, RowsNamed, StaticTypeOK
<1>6. StaticArchived'
  <2>1. \A j \in Identities : state'[j] = "verified" => state[j] = "verified"
    BY <1>2, <1>3 DEF StaticInv, StaticTypeOK
  <2> QED BY <2>1, <1>3, <1>4, ArchivedStays
<1>7. state' \in [Identities -> {"none", "pending", "failed", "verified"}]
  BY <1>3 DEF StaticInv, StaticTypeOK
<1>8. CASE unmarked[p] = {k}
  <2>1. LeaveSync(p)
    BY <1>8 DEF MarkStaticFailed
  <2>2. StaticTypeOK'
    BY <2>1, <1>3, <1>7, LeaveType DEF StaticInv, StaticTypeOK
  <2> QED BY <2>1, <2>2, <1>3, <1>4, <1>5, <1>6, LeaveSound, Restore DEF StaticInv
<1>9. CASE unmarked[p] # {k}
  <2>1. /\ unmarked' = [unmarked EXCEPT ![p] = @ \ {k}]
        /\ UNCHANGED <<sAt, fetched, upload>>
    BY <1>9 DEF MarkStaticFailed
  <2>2. unmarked' \in [Syncs -> SUBSET Kinds]
    BY <2>1, <1>1 DEF StaticInv, StaticTypeOK
  <2>3. StaticTypeOK'
    BY <2>1, <2>2, <1>3, <1>7 DEF StaticInv, StaticTypeOK
  <2>4. RunSound(p)'
    BY <2>1, <1>1, <1>3 DEF RunSound, Uploading, Identity
  <2>5. \A q \in Syncs : q # p =>
          /\ sAt'[q] = sAt[q] /\ fetched'[q] = fetched[q]
          /\ upload'[q] = upload[q] /\ unmarked'[q] = unmarked[q]
    BY <2>1 DEF StaticInv, StaticTypeOK
  <2> QED BY <2>3, <2>4, <2>5, <1>3, <1>4, <1>5, <1>6, Restore
<1> QED BY <1>8, <1>9

LEMMA RowsStep == ASSUME StaticInv, NEW p \in Syncs, WriteRows(p) PROVE StaticInv'
<1> DEFINE f == fetched[p]
<1>1. /\ LeaveSync(p) /\ UNCHANGED <<manifest, objects, checker>>
      /\ dragon' = VersionOf[f["champions"]]
      /\ state' = [i \in Identities |->
                    IF \E k \in Kinds : i = Identity(f[k]) THEN "verified" ELSE state[i]]
  BY DEF WriteRows
<1>2. f \in Fetches /\ \A k \in Kinds : manifest[Identity(f[k])] = f[k] /\ objects[f[k]] = "intact"
  <2>1. sAt[p] = "uploads" /\ RunSound(p) /\ \A k \in Kinds : upload[p][k] = "done"
    BY DEF WriteRows, Uploaded, StaticInv
  <2> QED BY <2>1 DEF RunSound, Uploading
<1>3. \A k \in Kinds : /\ f[k] \in StaticSources /\ f[k] # NoStatic
                         /\ Identity(f[k]) \in Identities
                         /\ VersionOf[f[k]] = VersionOf[f["champions"]]
  BY <1>2, FetchType, StaticAssumption
<1>4. PICK kept \in [Kinds -> BOOLEAN] :
        derived' = [k \in Kinds |-> {f[k]} \cup (IF kept[k] THEN derived[k] ELSE {})]
  BY DEF WriteRows
<1>5. Kept
  BY <1>1 DEF Kept
<1>6. derived' \in [Kinds -> SUBSET StaticSources]
  BY <1>3, <1>4 DEF StaticInv, StaticTypeOK
<1>7. dragon' \in Versions
  BY <1>1, <1>3, StaticAssumption DEF Kinds
<1>8. state' \in [Identities -> {"none", "pending", "failed", "verified"}]
  BY <1>1 DEF StaticInv, StaticTypeOK
<1>9. StaticTypeOK'
  BY <1>1, <1>6, <1>7, <1>8, LeaveType DEF StaticInv, StaticTypeOK
<1>10. RowsNamed'
  <2>1. ASSUME NEW i \in Identities, state'[i] # "none" PROVE manifest[i] # NoStatic
    <3>1. CASE \E k \in Kinds : i = Identity(f[k])
      BY <3>1, <1>2, <1>3
    <3>2. CASE ~ \E k \in Kinds : i = Identity(f[k])
      BY <3>2, <2>1, <1>1 DEF StaticInv, RowsNamed
    <3> QED BY <3>1, <3>2
  <2> QED BY <2>1, <1>1 DEF RowsNamed
<1>11. StaticArchived'
  <2>1. ASSUME NEW i \in Identities, state'[i] = "verified" PROVE objects[manifest[i]] = "intact"
    <3>1. CASE \E k \in Kinds : i = Identity(f[k])
      BY <3>1, <1>2
    <3>2. CASE ~ \E k \in Kinds : i = Identity(f[k])
      BY <3>2, <2>1, <1>1 DEF StaticInv, StaticArchived
    <3> QED BY <3>1, <3>2
  <2>2. ASSUME NEW k \in Kinds, NEW s \in derived'[k]
        PROVE  objects[s] = "intact" /\ manifest[Identity(s)] = s
    <3>1. s = f[k] \/ s \in derived[k]
      BY <1>4
    <3> QED BY <3>1, <1>2 DEF StaticInv, StaticArchived
  <2>3. \A k \in Kinds : \E s \in derived'[k] : VersionOf[s] = dragon'
    <3>1. \A k \in Kinds : f[k] \in derived'[k]
      BY <1>4
    <3> QED BY <3>1, <1>1, <1>3
  <2> QED BY <2>1, <2>2, <2>3, <1>1 DEF StaticArchived, Identity
<1> QED BY <1>1, <1>5, <1>9, <1>10, <1>11, LeaveSound, Restore DEF StaticInv

LEMMA StopStep == ASSUME StaticInv, NEW p \in Syncs, StopSync(p) PROVE StaticInv'
<1>1. LeaveSync(p) /\ UNCHANGED <<objects, tables, checker>>
  BY DEF StopSync
<1>2. Kept
  BY <1>1 DEF Kept, tables
<1>3. StaticTypeOK'
  BY <1>1, LeaveType DEF tables, StaticInv, StaticTypeOK
<1> QED BY <1>1, <1>2, <1>3, LeaveSound, SameTables, Restore DEF StaticInv

-----------------------------------------------------------------------------
(* Steps of the reconciliation: they leave the runs alone.                  *)
LEMMA CheckerStep ==
  ASSUME StaticInv, StaticTypeOK', UNCHANGED <<objects, manifest, dragon, derived, sync>>,
         CheckerSound', RowsNamed',
         \A i \in Identities : state'[i] = "verified" =>
            state[i] = "verified" \/ (manifest[i] # NoStatic /\ objects[manifest[i]] = "intact")
  PROVE  StaticInv'
<1>1. Kept
  BY DEF Kept
<1>2. \A q \in Syncs : RunSound(q)'
  BY <1>1, OthersSound DEF sync
<1>3. StaticArchived'
  BY <1>1, ArchivedStays
<1> QED BY <1>2, <1>3 DEF StaticInv

LEMMA ReadStep == ASSUME StaticInv, NEW i \in Identities, ReadStatic(i) PROVE StaticInv'
<1>1. /\ state[i] # "none" /\ checker' = [at |-> "check", row |-> {i}, seen |-> state[i]]
      /\ UNCHANGED <<objects, tables, sync>>
  BY DEF ReadStatic
<1>2. StaticTypeOK'
  BY <1>1 DEF tables, sync, StaticInv, StaticTypeOK
<1>3. CheckerSound'
  BY <1>1 DEF tables, StaticInv, RowsNamed, CheckerSound
<1>4. RowsNamed'
  BY <1>1 DEF tables, StaticInv, RowsNamed
<1> QED BY <1>1, <1>2, <1>3, <1>4, CheckerStep DEF tables

LEMMA CheckStep ==
  ASSUME StaticInv, NEW i \in Identities, NEW safe \in BOOLEAN, CheckStatic(i, safe)
  PROVE  StaticInv'
<1>1. i \in checker.row /\ UNCHANGED <<objects, tables, sync>>
  BY DEF CheckStatic
<1>2. \/ checker' = [checker EXCEPT !.at = "condemn"]
      \/ checker' = [checker EXCEPT !.at = "repair"] /\ objects[manifest[i]] = "intact"
      \/ checker' = Resting
  BY DEF CheckStatic
<1>3. StaticTypeOK'
  BY <1>1, <1>2 DEF tables, sync, StaticInv, StaticTypeOK, Resting
<1>4. CheckerSound'
  <2>1. UNCHANGED <<objects, manifest>>
    BY <1>1 DEF tables
  <2>2. checker.row = {i} /\ manifest[i] # NoStatic
    BY <1>1 DEF StaticInv, CheckerSound
  <2>3. \/ checker'.row = {i} /\ checker'.at = "condemn"
        \/ checker'.row = {i} /\ objects[manifest[i]] = "intact"
        \/ checker'.row = {}
    BY <1>2, <2>2 DEF StaticInv, StaticTypeOK, Resting
  <2> QED BY <2>1, <2>2, <2>3 DEF CheckerSound
<1>5. RowsNamed'
  BY <1>1 DEF tables, StaticInv, RowsNamed
<1> QED BY <1>1, <1>3, <1>4, <1>5, CheckerStep DEF tables

LEMMA WriteStep == ASSUME StaticInv, NEW i \in Identities, WriteStatic(i) PROVE StaticInv'
<1>1. /\ checker.at \in {"condemn", "repair"} /\ i \in checker.row
      /\ state' = [state EXCEPT ![i] = IF checker.at = "repair" THEN "verified" ELSE "failed"]
      /\ checker' = Resting
      /\ UNCHANGED <<objects, manifest, dragon, derived, sync>>
  BY DEF WriteStatic
<1>2. manifest[i] # NoStatic /\ (checker.at = "repair" => objects[manifest[i]] = "intact")
  BY <1>1 DEF StaticInv, CheckerSound
<1>3. StaticTypeOK'
  BY <1>1 DEF sync, StaticInv, StaticTypeOK, Resting
<1>4. CheckerSound'
  BY <1>1 DEF CheckerSound, Resting
<1>5. RowsNamed'
  BY <1>1, <1>2 DEF StaticInv, RowsNamed, StaticTypeOK
<1>6. \A j \in Identities : state'[j] = "verified" =>
        state[j] = "verified" \/ (manifest[j] # NoStatic /\ objects[manifest[j]] = "intact")
  BY <1>1, <1>2 DEF StaticInv, StaticTypeOK
<1> QED BY <1>1, <1>3, <1>4, <1>5, <1>6, CheckerStep

LEMMA StopCheckStep == ASSUME StaticInv, StopCheck PROVE StaticInv'
<1>1. checker' = Resting /\ UNCHANGED <<objects, tables, sync>>
  BY DEF StopCheck
<1>2. StaticTypeOK'
  BY <1>1 DEF tables, sync, StaticInv, StaticTypeOK, Resting
<1>3. CheckerSound' /\ RowsNamed'
  BY <1>1 DEF tables, StaticInv, RowsNamed, CheckerSound, Resting
<1> QED BY <1>1, <1>2, <1>3, CheckerStep DEF tables

-----------------------------------------------------------------------------
LEMMA StutterStep == ASSUME StaticInv, UNCHANGED staticVars PROVE StaticInv'
<1>1. UNCHANGED <<objects, tables, sync, checker>>
  BY DEF staticVars
<1>2. StaticTypeOK' /\ RowsNamed' /\ CheckerSound'
  BY <1>1 DEF tables, sync, StaticInv, StaticTypeOK, RowsNamed, CheckerSound
<1> QED BY <1>1, <1>2, CheckerStep DEF tables

LEMMA StaticNextInv == StaticInv /\ [StaticNext]_staticVars => StaticInv'
<1> SUFFICES ASSUME StaticInv, [StaticNext]_staticVars PROVE StaticInv' OBVIOUS
<1>1. ASSUME NEW p \in Syncs, Sync(p) PROVE StaticInv'
  BY <1>1, FetchStep, IntentStep, RowsStep, StopStep, UploadsStep, MarkStep DEF Sync
<1>2. ASSUME NEW i \in Identities,
             ReadStatic(i) \/ WriteStatic(i) \/ \E safe \in BOOLEAN : CheckStatic(i, safe)
      PROVE  StaticInv'
  BY <1>2, ReadStep, WriteStep, CheckStep
<1>3. CASE StopCheck
  BY <1>3, StopCheckStep
<1>4. CASE UNCHANGED staticVars
  BY <1>4, StutterStep
<1> QED BY <1>1, <1>2, <1>3, <1>4 DEF StaticNext

(* Every step of every run and of the reconciliation keeps what the others  *)
(* know of the tables and the bucket.                                       *)
THEOREM StaticInvariant == StaticSpec => []StaticInv
BY StaticInitInv, StaticNextInv, PTL DEF StaticSpec

(* The types of the tables, the bucket, the runs and the reconciliation of  *)
(* sync-static.ts and reconcile-archive.ts.                                 *)
THEOREM StaticTyped == StaticSpec => []StaticTypeOK
<1>1. StaticInv => StaticTypeOK
  BY DEF StaticInv
<1> QED BY <1>1, StaticInvariant, PTL

(* However many runs of sync-static.ts there are, of whatever versions,     *)
(* beside a reconciliation, and wherever each of them ends: a verified      *)
(* manifest has a sound object, the rows of champions and items derive from *)
(* archived sources, and the version the patch names has both.              *)
THEOREM AlwaysArchived == StaticSpec => []StaticArchived
<1>1. StaticInv => StaticArchived
  BY DEF StaticInv
<1> QED BY <1>1, StaticInvariant, PTL

-----------------------------------------------------------------------------
(* The database client.                                                    *)

(* BeforeSql its own SQL a call has written nothing, and has nothing in doubt; *)
(* after it, it is over or rolls back.                                      *)
BeforeSql == {"idle", "paused", "connect", "probe", "sql", "commit"}

CallWrites(c) ==
  /\ cAt[c] \in BeforeSql => applied[c] = 0 /\ ~unsure[c]
  /\ cAt[c] \in {"rollback", "threw"} => applied[c] = 0 \/ (unsure[c] /\ applied[c] = 1)
  /\ cAt[c] = "returned" => applied[c] = 1

(* A call holds on to a pool only while it waits for it or has a connection *)
(* of it.                                                                   *)
CallHolds(c) == cAt[c] \in {"idle", "paused"} \cup Over => from[c] = 0

ClientInv ==
  /\ ClientTypeOK
  /\ \A c \in Calls : CallWrites(c) /\ CallHolds(c)
  /\ pool \notin ending

LEMMA ClientInvImplies == ClientInv => WrittenOnce
<1> SUFFICES ASSUME ClientInv, NEW c \in Calls
             PROVE  /\ cAt[c] = "returned" => applied[c] = 1
                    /\ cAt[c] # "returned" => applied[c] = 0 \/ (unsure[c] /\ applied[c] = 1)
                    /\ cAt[c] \in Over => from[c] = 0
  BY DEF WrittenOnce, ClientInv
<1>1. cAt[c] \in {"idle", "paused", "connect"} \cup Held \cup Over
  BY DEF ClientInv, ClientTypeOK
<1>2. cAt[c] \in BeforeSql \cup {"rollback", "threw", "returned"}
  BY <1>1 DEF Held, Over, BeforeSql
<1> QED BY <1>2 DEF ClientInv, CallWrites, CallHolds, BeforeSql

LEMMA ClientInitInv == ClientInit => ClientInv
<1> SUFFICES ASSUME ClientInit PROVE ClientInv OBVIOUS
<1>1. ClientTypeOK
  BY ClientAssumption DEF ClientInit, ClientTypeOK
<1>2. \A c \in Calls : CallWrites(c) /\ CallHolds(c)
  BY DEF ClientInit, CallWrites, CallHolds, BeforeSql
<1>3. pool \notin ending
  BY DEF ClientInit
<1> QED BY <1>1, <1>2, <1>3 DEF ClientInv

-----------------------------------------------------------------------------
(* A step of one call leaves the others alone: it keeps the invariant if    *)
(* the state keeps its type and what it says of that call holds again.      *)
LEMMA OneCall ==
  ASSUME ClientInv, NEW c \in Calls, ClientTypeOK',
         \A d \in Calls : d # c => /\ cAt'[d] = cAt[d] /\ from'[d] = from[d]
                                  /\ applied'[d] = applied[d] /\ unsure'[d] = unsure[d],
         CallWrites(c)', CallHolds(c)', pool' \notin ending'
  PROVE  ClientInv'
<1>1. ASSUME NEW d \in Calls PROVE CallWrites(d)' /\ CallHolds(d)'
  BY <1>1 DEF ClientInv, CallWrites, CallHolds
<1> QED BY <1>1 DEF ClientInv

LEMMA ClientNextInv == ClientInv /\ [ClientNext]_clientVars => ClientInv'
<1> SUFFICES ASSUME ClientInv, [ClientNext]_clientVars PROVE ClientInv' OBVIOUS
<1>t. ClientTypeOK
  BY DEF ClientInv
<1>o. opened \in Nat /\ opened \in 0..MaxPools /\ MaxPools \in Nat /\ Pauses \in Nat
  BY <1>t, ClientAssumption DEF ClientTypeOK
<1>w. ASSUME NEW c \in Calls, cAt[c] \in BeforeSql
      PROVE  applied[c] = 0 /\ ~unsure[c]
  BY <1>w DEF ClientInv, CallWrites
<1>p. pool \in 0..opened /\ pool \notin ending /\ ending \subseteq 1..opened
  BY <1>t DEF ClientInv, ClientTypeOK
<1>1. ASSUME NEW c \in Calls, AskPool(c) PROVE ClientInv'
  <2>1. ClientTypeOK'
    BY <1>1, <1>t, <1>o, <1>p DEF AskPool, Move, ClientTypeOK, Held, Over
  <2>2. \A d \in Calls : d # c => /\ cAt'[d] = cAt[d] /\ from'[d] = from[d]
                                  /\ applied'[d] = applied[d] /\ unsure'[d] = unsure[d]
    BY <1>1, <1>t DEF AskPool, Move, ClientTypeOK
  <2>3. CallWrites(c)'
    BY <1>1, <1>w, <1>t DEF AskPool, Move, BeforeSql, CallWrites, ClientTypeOK
  <2>4. CallHolds(c)'
    BY <1>1, <1>t DEF AskPool, Move, Over, CallHolds, ClientTypeOK
  <2>5. pool' \notin ending'
    BY <1>1, <1>o, <1>p DEF AskPool, Move
  <2> QED BY <2>1, <2>2, <2>3, <2>4, <2>5, OneCall
<1>2. ASSUME NEW c \in Calls, Connected(c) PROVE ClientInv'
  <2>1. ClientTypeOK'
    BY <1>2, <1>t, <1>o, <1>p DEF Connected, Move, ClientTypeOK, Held, Over
  <2>2. \A d \in Calls : d # c => /\ cAt'[d] = cAt[d] /\ from'[d] = from[d]
                                  /\ applied'[d] = applied[d] /\ unsure'[d] = unsure[d]
    BY <1>2, <1>t DEF Connected, Move, ClientTypeOK
  <2>3. CallWrites(c)'
    BY <1>2, <1>w, <1>t DEF Connected, Move, BeforeSql, CallWrites, ClientTypeOK
  <2>4. CallHolds(c)'
    BY <1>2, <1>t DEF Connected, Move, Over, CallHolds, ClientTypeOK
  <2>5. pool' \notin ending'
    BY <1>2, <1>o, <1>p DEF Connected, Move
  <2> QED BY <2>1, <2>2, <2>3, <2>4, <2>5, OneCall
<1>3. ASSUME NEW c \in Calls, NotReady(c) PROVE ClientInv'
  <2>1. ClientTypeOK'
    BY <1>3, <1>t, <1>o, <1>p DEF NotReady, Move, Give, ClientTypeOK, Held, Over
  <2>2. \A d \in Calls : d # c => /\ cAt'[d] = cAt[d] /\ from'[d] = from[d]
                                  /\ applied'[d] = applied[d] /\ unsure'[d] = unsure[d]
    BY <1>3, <1>t DEF NotReady, Move, Give, ClientTypeOK
  <2>3. CallWrites(c)'
    BY <1>3, <1>w, <1>t DEF NotReady, Move, Give, BeforeSql, CallWrites, ClientTypeOK
  <2>4. CallHolds(c)'
    BY <1>3, <1>t DEF NotReady, Move, Give, Over, CallHolds, ClientTypeOK
  <2>5. pool' \notin ending'
    BY <1>3, <1>o, <1>p DEF NotReady, Move, Give
  <2> QED BY <2>1, <2>2, <2>3, <2>4, <2>5, OneCall
<1>4. ASSUME NEW c \in Calls, Probed(c) PROVE ClientInv'
  <2>1. ClientTypeOK'
    BY <1>4, <1>t, <1>o, <1>p DEF Probed, Move, ClientTypeOK, Held, Over
  <2>2. \A d \in Calls : d # c => /\ cAt'[d] = cAt[d] /\ from'[d] = from[d]
                                  /\ applied'[d] = applied[d] /\ unsure'[d] = unsure[d]
    BY <1>4, <1>t DEF Probed, Move, ClientTypeOK
  <2>3. CallWrites(c)'
    BY <1>4, <1>w, <1>t DEF Probed, Move, BeforeSql, CallWrites, ClientTypeOK
  <2>4. CallHolds(c)'
    BY <1>4, <1>t DEF Probed, Move, Over, CallHolds, ClientTypeOK
  <2>5. pool' \notin ending'
    BY <1>4, <1>o, <1>p DEF Probed, Move
  <2> QED BY <2>1, <2>2, <2>3, <2>4, <2>5, OneCall
<1>5. ASSUME NEW c \in Calls, Answer(c) \/ Commit(c) PROVE ClientInv'
  <2>1. ClientTypeOK'
    <3>1. applied' \in [Calls -> Nat]
      BY <1>5, <1>t DEF Answer, Commit, Apply, ClientTypeOK
    <3>2. /\ cAt' \in [Calls -> {"idle", "paused", "connect"} \cup Held \cup Over]
          /\ from' \in [Calls -> 0..opened]
      BY <1>5, <1>t, <1>o DEF Answer, Commit, Move, Give, ClientTypeOK, Over
    <3>3. UNCHANGED <<pool, opened, ending, pauses, unsure>>
      BY <1>5 DEF Answer, Commit
    <3> QED BY <3>1, <3>2, <3>3, <1>t DEF ClientTypeOK
  <2>2. \A d \in Calls : d # c => /\ cAt'[d] = cAt[d] /\ from'[d] = from[d]
                                  /\ applied'[d] = applied[d] /\ unsure'[d] = unsure[d]
    BY <1>5, <1>t DEF Answer, Commit, Apply, Move, Give, ClientTypeOK
  <2>3. CallWrites(c)'
    BY <1>5, <1>w, <1>t DEF Answer, Commit, Apply, Move, Give, BeforeSql, CallWrites, ClientTypeOK
  <2>4. CallHolds(c)'
    BY <1>5, <1>t DEF Answer, Commit, Apply, Move, Give, Over, CallHolds, ClientTypeOK
  <2>5. pool' \notin ending'
    BY <1>5, <1>o, <1>p DEF Answer, Commit, Apply, Move, Give
  <2> QED BY <2>1, <2>2, <2>3, <2>4, <2>5, OneCall
<1>6. ASSUME NEW c \in Calls, Refuse(c) PROVE ClientInv'
  <2>1. ClientTypeOK'
    BY <1>6, <1>t, <1>o, <1>p DEF Refuse, Move, Give, ClientTypeOK, Held, Over
  <2>2. \A d \in Calls : d # c => /\ cAt'[d] = cAt[d] /\ from'[d] = from[d]
                                  /\ applied'[d] = applied[d] /\ unsure'[d] = unsure[d]
    BY <1>6, <1>t DEF Refuse, Move, Give, ClientTypeOK
  <2>3. CallWrites(c)'
    BY <1>6, <1>w, <1>t DEF Refuse, Move, Give, BeforeSql, CallWrites, ClientTypeOK
  <2>4. CallHolds(c)'
    BY <1>6, <1>t DEF Refuse, Move, Give, Over, CallHolds, ClientTypeOK
  <2>5. pool' \notin ending'
    BY <1>6, <1>o, <1>p DEF Refuse, Move, Give
  <2> QED BY <2>1, <2>2, <2>3, <2>4, <2>5, OneCall
<1>7. ASSUME NEW c \in Calls, LoseAnswer(c) PROVE ClientInv'
  <2>1. ClientTypeOK'
    BY <1>7, <1>t, <1>o, <1>p DEF LoseAnswer, Apply, Move, Give, ClientTypeOK, Held, Over
  <2>2. \A d \in Calls : d # c => /\ cAt'[d] = cAt[d] /\ from'[d] = from[d]
                                  /\ applied'[d] = applied[d] /\ unsure'[d] = unsure[d]
    BY <1>7, <1>t DEF LoseAnswer, Apply, Move, Give, ClientTypeOK
  <2>3. CallWrites(c)'
    BY <1>7, <1>w, <1>t DEF LoseAnswer, Apply, Move, Give, BeforeSql, CallWrites, ClientTypeOK
  <2>4. CallHolds(c)'
    BY <1>7, <1>t DEF LoseAnswer, Apply, Move, Give, Over, CallHolds, ClientTypeOK
  <2>5. pool' \notin ending'
    BY <1>7, <1>o, <1>p DEF LoseAnswer, Apply, Move, Give
  <2> QED BY <2>1, <2>2, <2>3, <2>4, <2>5, OneCall
<1>8. ASSUME NEW c \in Calls, Work(c) PROVE ClientInv'
  <2>1. ClientTypeOK'
    BY <1>8, <1>t, <1>o, <1>p DEF Work, Move, ClientTypeOK, Held, Over
  <2>2. \A d \in Calls : d # c => /\ cAt'[d] = cAt[d] /\ from'[d] = from[d]
                                  /\ applied'[d] = applied[d] /\ unsure'[d] = unsure[d]
    BY <1>8, <1>t DEF Work, Move, ClientTypeOK
  <2>3. CallWrites(c)'
    BY <1>8, <1>w, <1>t DEF Work, Move, BeforeSql, CallWrites, ClientTypeOK
  <2>4. CallHolds(c)'
    BY <1>8, <1>t DEF Work, Move, Over, CallHolds, ClientTypeOK
  <2>5. pool' \notin ending'
    BY <1>8, <1>o, <1>p DEF Work, Move
  <2> QED BY <2>1, <2>2, <2>3, <2>4, <2>5, OneCall
<1>9. ASSUME NEW c \in Calls, CommitFails(c) PROVE ClientInv'
  <2>1. ClientTypeOK'
    <3>a. applied' = applied \/ applied' = [applied EXCEPT ![c] = applied[c] + 1]
      BY <1>9 DEF CommitFails, Apply
    <3>b. unsure' = unsure \/ unsure' = [unsure EXCEPT ![c] = TRUE]
      BY <1>9 DEF CommitFails
    <3>c. applied \in [Calls -> Nat] /\ unsure \in [Calls -> BOOLEAN]
      BY <1>t DEF ClientTypeOK
    <3>d. applied' \in [Calls -> Nat]
      BY <3>a, <3>c
    <3>e. unsure' \in [Calls -> BOOLEAN]
      BY <3>b, <3>c
    <3>1. applied' \in [Calls -> Nat] /\ unsure' \in [Calls -> BOOLEAN]
      BY <3>d, <3>e
    <3>2. cAt' \in [Calls -> {"idle", "paused", "connect"} \cup Held \cup Over]
      BY <1>9, <1>t DEF CommitFails, Move, ClientTypeOK, Held
    <3>3. UNCHANGED <<pool, opened, ending, from, pauses>>
      BY <1>9 DEF CommitFails
    <3> QED BY <3>1, <3>2, <3>3, <1>t DEF ClientTypeOK
  <2>2. \A d \in Calls : d # c => /\ cAt'[d] = cAt[d] /\ from'[d] = from[d]
                                  /\ applied'[d] = applied[d] /\ unsure'[d] = unsure[d]
    BY <1>9, <1>t DEF CommitFails, Apply, Move, ClientTypeOK
  <2>3. CallWrites(c)'
    BY <1>9, <1>w, <1>t DEF CommitFails, Apply, Move, BeforeSql, CallWrites, ClientTypeOK
  <2>4. CallHolds(c)'
    BY <1>9, <1>t DEF CommitFails, Apply, Move, Over, CallHolds, ClientTypeOK
  <2>5. pool' \notin ending'
    BY <1>9, <1>o, <1>p DEF CommitFails, Apply, Move
  <2> QED BY <2>1, <2>2, <2>3, <2>4, <2>5, OneCall
<1>10. ASSUME NEW c \in Calls, Rollback(c) PROVE ClientInv'
  <2>1. ClientTypeOK'
    BY <1>10, <1>t, <1>o, <1>p DEF Rollback, Move, Give, ClientTypeOK, Held, Over
  <2>2. \A d \in Calls : d # c => /\ cAt'[d] = cAt[d] /\ from'[d] = from[d]
                                  /\ applied'[d] = applied[d] /\ unsure'[d] = unsure[d]
    BY <1>10, <1>t DEF Rollback, Move, Give, ClientTypeOK
  <2>3. CallWrites(c)'
    BY <1>10, <1>t DEF Rollback, Move, Give, ClientInv, BeforeSql, CallWrites, ClientTypeOK
  <2>4. CallHolds(c)'
    BY <1>10, <1>t DEF Rollback, Move, Give, Over, CallHolds, ClientTypeOK
  <2>5. pool' \notin ending'
    BY <1>10, <1>o, <1>p DEF Rollback, Move, Give
  <2> QED BY <2>1, <2>2, <2>3, <2>4, <2>5, OneCall
<1>11. CASE CloseDatabase
  <2>1. ClientTypeOK'
    BY <1>11, <1>t, <1>o, <1>p DEF CloseDatabase, ClientTypeOK
  <2>2. \A c \in Calls : CallWrites(c)' /\ CallHolds(c)'
    BY <1>11 DEF CloseDatabase, ClientInv, CallWrites, CallHolds
  <2>3. pool' \notin ending'
    BY <1>11, <1>o, <1>p DEF CloseDatabase
  <2> QED BY <2>1, <2>2, <2>3 DEF ClientInv
<1>12. CASE UNCHANGED clientVars
  BY <1>12 DEF clientVars, ClientInv, ClientTypeOK, CallWrites, CallHolds
<1> QED BY <1>1, <1>2, <1>3, <1>4, <1>5, <1>6, <1>7, <1>8, <1>9, <1>10, <1>11, <1>12 DEF ClientNext

-----------------------------------------------------------------------------
(* The state of the client has its type (client.ts, query and transaction). *)
THEOREM ClientTyped == ClientSpec => []ClientTypeOK
<1>1. ClientInv => ClientTypeOK
  BY DEF ClientInv
<1> QED BY <1>1, ClientInitInv, ClientNextInv, PTL DEF ClientSpec

(* For any number of calls, connections, attempts and closings of the pool, *)
(* a call that returned has written once, one that threw at most once, and  *)
(* then only if its answer was lost (client.ts:31).                         *)
THEOREM NeverReplayed == ClientSpec => []WrittenOnce
BY ClientInitInv, ClientNextInv, ClientInvImplies, PTL DEF ClientSpec

-----------------------------------------------------------------------------
(* The ceilings of ingestion runs.                                         *)

(* While a run goes on, its counters are those of what it has taken, and    *)
(* it has put nothing else but the match it is about to finalize.           *)
Counting(r) == stage[r] \notin Ended \cup {"failing"}

Counted(r) == Counting(r) =>
  /\ ingested[r] = Cardinality(took[r])
  /\ bytes[r] = Total(Bytes, took[r])
  /\ pgBytes[r] = Total(PgBytes, took[r])
  /\ took[r] \subseteq accepted
  /\ put[r] = IF stage[r] = "finalize" THEN took[r] \cup {Head(selected[r])} ELSE took[r]

(* The match it works on is one it has not taken, and past the boundary     *)
(* there is room for it.                                                    *)
Affordable(r) ==
  /\ stage[r] \in {"match", "timeline", "put", "finalize"} =>
       /\ selected[r] # <<>>
       /\ Head(selected[r]) \notin took[r]
       /\ ingested[r] < MaxAccepted
  /\ stage[r] \in {"put", "finalize"} =>
       /\ bytes[r] + Bytes[Head(selected[r])] <= MaxBytes
       /\ pgBytes[r] + PgBytes[Head(selected[r])] <= MaxPgBytes
  /\ stage[r] = "checkpoint" => selected[r] # <<>>

(* Its row lags behind by what the next checkpoint will write, and a run    *)
(* that is over is known by its row.                                        *)
RowLags(r) ==
  /\ Counting(r) =>
       rows[r].ingested = Cardinality(took[r]) - (IF stage[r] = "checkpoint" THEN 1 ELSE 0)
  /\ stage[r] # "ended" => rows[r].status \in {"none", "running"}
  /\ rows[r].requests <= used[r] /\ used[r] <= cap[r]
  /\ ~UnderWay(r) => rows[r].requests = Recorded[r]
  /\ stage[r] \in {"idle", "start"} =>
       rows[r] = NoRow /\ used[r] = 0 /\ took[r] = {} /\ put[r] = {} /\ selected[r] = <<>>

(* The parts of WithinCeilings that are about one run.                      *)
RunWithin(r) ==
  /\ Cardinality(took[r]) <= MaxAccepted
  /\ Total(Bytes, put[r]) <= MaxBytes
  /\ Total(PgBytes, took[r]) <= MaxPgBytes
  /\ rows[r].ingested <= Cardinality(took[r]) /\ Cardinality(took[r]) <= rows[r].ingested + 1
  /\ rows[r].status \in {"complete", "stopped"} => rows[r].ingested = Cardinality(took[r])

RunInv(r) == Counted(r) /\ Affordable(r) /\ RowLags(r) /\ RunWithin(r)

(* Without an overlap, the one run under way may still ask for its whole    *)
(* budget.                                                                  *)
Budget == Max({0, GlobalCeiling - Reserve})

Budgeted == ~overlap =>
  /\ Total(Recorded, Runs) <= Budget
  /\ \A r \in Runs : UnderWay(r) =>
       /\ \A q \in Runs : UnderWay(q) => q = r
       /\ (Total(Recorded, Runs) - used[r]) + cap[r] <= Budget

RunsInv == RunsTypeOK /\ (\A r \in Runs : RunInv(r)) /\ Budgeted

LEMMA RunsInvImplies == RunsInv => WithinCeilings
BY DEF RunsInv, RunInv, RunWithin, Budgeted, Budget, WithinCeilings

LEMMA TotalIsSum == \A w, S : Total(w, S) = SumOf(w, S)
BY DEF Total, SumOf

LEMMA BudgetInt ==
  /\ Budget \in Int
  /\ \A n \in Int : Max({0, n}) = IF 0 >= n THEN 0 ELSE n
  /\ \A m, n \in Int : Min({m, n}) = IF m <= n THEN m ELSE n
BY MaxMinOfTwo, RunAssumption DEF Budget

(* The requests of the rows and those recorded are numbers,                 *)
LEMMA RecordedType ==
  ASSUME RunsTypeOK
  PROVE  \A r \in Runs : Recorded[r] \in Int
BY DEF RunsTypeOK, Recorded

(* and what one match adds to the total of a set of them.                   *)
LEMMA OneMoreMatch ==
  \A S \in SUBSET Offered : \A m \in Offered \ S :
    /\ Total(Bytes, S \cup {m}) = Total(Bytes, S) + Bytes[m]
    /\ Total(PgBytes, S \cup {m}) = Total(PgBytes, S) + PgBytes[m]
    /\ Cardinality(S \cup {m}) = Cardinality(S) + 1
    /\ Cardinality(S) \in Nat
    /\ Total(Bytes, S) \in Int /\ Total(PgBytes, S) \in Int
<1> SUFFICES ASSUME NEW S \in SUBSET Offered, NEW m \in Offered \ S
             PROVE  /\ Total(Bytes, S \cup {m}) = Total(Bytes, S) + Bytes[m]
                    /\ Total(PgBytes, S \cup {m}) = Total(PgBytes, S) + PgBytes[m]
                    /\ Cardinality(S \cup {m}) = Cardinality(S) + 1
                    /\ Cardinality(S) \in Nat
                    /\ Total(Bytes, S) \in Int /\ Total(PgBytes, S) \in Int
  OBVIOUS
<1>1. IsFiniteSet(S) /\ m \notin S
  BY FS_Subset, RunAssumption
<1>2. \A y \in S \cup {m} : Bytes[y] \in Int /\ PgBytes[y] \in Int
  BY RunAssumption
<1>3. SumOf(Bytes, S \cup {m}) = SumOf(Bytes, S) + Bytes[m] /\ SumOf(Bytes, S) \in Int
  BY <1>1, <1>2, SumOneMore
<1>4. SumOf(PgBytes, S \cup {m}) = SumOf(PgBytes, S) + PgBytes[m] /\ SumOf(PgBytes, S) \in Int
  BY <1>1, <1>2, SumOneMore
<1>5. Cardinality(S \cup {m}) = Cardinality(S) + 1 /\ Cardinality(S) \in Nat
  BY <1>1, FS_AddElement, FS_CardinalityType
<1> QED BY <1>3, <1>4, <1>5, TotalIsSum

(* No step of a run touches what is another's, and nothing accepted goes.   *)
OthersStay(r) ==
  /\ accepted \subseteq accepted'
  /\ \A q \in Runs \ {r} :
       /\ rows'[q] = rows[q] /\ stage'[q] = stage[q] /\ cap'[q] = cap[q] /\ used'[q] = used[q]
       /\ selected'[q] = selected[q] /\ ingested'[q] = ingested[q]
       /\ bytes'[q] = bytes[q] /\ pgBytes'[q] = pgBytes[q]
       /\ put'[q] = put[q] /\ took'[q] = took[q]

LEMMA OthersKeep ==
  ASSUME NEW r \in Runs, OthersStay(r), NEW q \in Runs \ {r}, RunInv(q), RunsTypeOK, RunsTypeOK'
  PROVE  RunInv(q)'
<1>1. /\ Recorded[q] = IF stage[q] = "killed" THEN rows[q].requests ELSE used[q]
      /\ Recorded'[q] = IF stage'[q] = "killed" THEN rows'[q].requests ELSE used'[q]
  BY DEF Recorded
<1>2. Counted(q)'
  BY DEF OthersStay, RunInv, Counted, Counting
<1>3. Affordable(q)'
  BY DEF OthersStay, RunInv, Affordable
<1>4. RowLags(q)'
  BY <1>1 DEF OthersStay, RunInv, RowLags, Counting, UnderWay
<1>5. RunWithin(q)'
  BY DEF OthersStay, RunInv, RunWithin
<1> QED BY <1>2, <1>3, <1>4, <1>5 DEF RunInv

LEMMA BudgetKept ==
  ASSUME RunsInv, RunsTypeOK', NEW r \in Runs, OthersStay(r), UnderWay(r),
         overlap' = overlap, cap'[r] = cap[r],
         Recorded'[r] <= cap[r], UnderWay(r)' => Recorded'[r] = used'[r]
  PROVE  Budgeted'
<1> SUFFICES ASSUME ~overlap
             PROVE  /\ Total(Recorded', Runs) <= Budget
                    /\ \A p \in Runs : UnderWay(p)' =>
                         /\ \A q \in Runs : UnderWay(q)' => q = p
                         /\ (Total(Recorded', Runs) - used'[p]) + cap'[p] <= Budget
  BY DEF Budgeted
<1>1. /\ Total(Recorded, Runs) <= Budget
      /\ \A q \in Runs : UnderWay(q) => q = r
      /\ (Total(Recorded, Runs) - used[r]) + cap[r] <= Budget
  BY DEF RunsInv, Budgeted
<1>2. \A y \in Runs : Recorded[y] \in Int /\ Recorded'[y] \in Int
  <2>1. \A y \in Runs : Recorded[y] \in Int
    BY RecordedType DEF RunsInv
  <2>2. \A y \in Runs : Recorded'[y] \in Int
    BY DEF RunsTypeOK, Recorded
  <2> QED BY <2>1, <2>2
<1>3. \A y \in Runs \ {r} : Recorded'[y] = Recorded[y]
  BY DEF OthersStay, Recorded
<1>4. Recorded[r] = used[r]
  BY DEF UnderWay, Ended, Recorded
<1>5. /\ Total(Recorded', Runs) = (Total(Recorded, Runs) - Recorded[r]) + Recorded'[r]
      /\ Total(Recorded, Runs) \in Int /\ Total(Recorded', Runs) \in Int
  <2>1. IsFiniteSet(Runs)
    BY RunAssumption
  <2>2. \A w, v : /\ \A y \in Runs : w[y] \in Int /\ v[y] \in Int
                  /\ \A y \in Runs \ {r} : v[y] = w[y]
                  => /\ SumOf(v, Runs) = (SumOf(w, Runs) - w[r]) + v[r]
                     /\ SumOf(w, Runs) \in Int /\ SumOf(v, Runs) \in Int
    BY <2>1, SumWithOther
  <2> QED BY <1>2, <1>3, <2>2, TotalIsSum
<1>6. cap[r] \in Int /\ used[r] \in Int /\ used'[r] \in Int /\ Budget \in Int
  BY BudgetInt DEF RunsInv, RunsTypeOK
<1>7. Total(Recorded', Runs) <= Budget
  BY <1>1, <1>2, <1>4, <1>5, <1>6
<1>8. \A q \in Runs : UnderWay(q)' => q = r
  BY <1>1 DEF OthersStay, UnderWay
<1>9. UnderWay(r)' => (Total(Recorded', Runs) - used'[r]) + cap'[r] <= Budget
  BY <1>1, <1>2, <1>4, <1>5, <1>6
<1> QED BY <1>7, <1>8, <1>9

LEMMA OnlyOwn ==
  ASSUME RunsTypeOK, NEW r \in Runs, Run(r)
  PROVE  OthersStay(r)
<1> USE DEF RunsTypeOK, OthersStay, tally, plan, past
<1>1. CASE ReadHistory(r)
  BY <1>1 DEF ReadHistory, Proceed
<1>2. CASE StartRun(r)
  BY <1>2 DEF StartRun, Proceed
<1>3. CASE AtCeiling(r)
  BY <1>3 DEF AtCeiling, LeaveRun, Proceed
<1>4. CASE AskAgain(r)
  BY SMTT(30), <1>4 DEF AskAgain, Ask, LeaveRun, Proceed
<1>5. CASE Discover(r)
  BY <1>5 DEF Discover, Answered, Ask, Proceed
<1>6. CASE ReadKnown(r)
  BY <1>6 DEF ReadKnown, Proceed
<1>7. CASE SelectMatches(r)
  BY <1>7 DEF SelectMatches, Proceed
<1>8. CASE LeaveLoop(r)
  BY <1>8 DEF LeaveLoop, Proceed
<1>9. CASE TakeMatch(r)
  BY SMTT(20), <1>9 DEF TakeMatch, Skip, Proceed
<1>10. CASE FetchMatch(r)
  BY <1>10 DEF FetchMatch, Answered, Ask, Skip, Proceed
<1>11. CASE FetchTimeline(r)
  BY <1>11 DEF FetchTimeline, Answered, Ask, Proceed
<1>12. CASE PutArchive(r)
  BY <1>12 DEF PutArchive, Proceed
<1>13. CASE Finalize(r)
  BY <1>13 DEF Finalize, Proceed
<1>14. CASE Checkpoint(r)
  BY <1>14 DEF Checkpoint, Skip, Proceed
<1>15. CASE Finish(r)
  BY <1>15 DEF Finish, LeaveRun, Proceed
<1>16. CASE Throw(r)
  BY <1>16 DEF Throw, LeaveRun, Proceed
<1>17. CASE RecordFailure(r)
  BY <1>17 DEF RecordFailure, LeaveRun, Proceed
<1>18. CASE Kill(r)
  BY <1>18 DEF Kill, LeaveRun, Proceed
<1> QED BY <1>1, <1>2, <1>3, <1>4, <1>5, <1>6, <1>7, <1>8, <1>9, <1>10, <1>11, <1>12, <1>13, <1>14, <1>15, <1>16, <1>17, <1>18 DEF Run

(* The budget of a run is a number, and with what the rows say it stays     *)
(* below the ceiling.                                                       *)
LEMMA LeftBounds ==
  ASSUME RunsTypeOK
  PROVE  /\ Spent \in Int
         /\ Min({ConfiguredRequests, Left}) \in 0..ConfiguredRequests
         /\ Min({ConfiguredRequests, Left}) # 0 =>
              Spent + Min({ConfiguredRequests, Left}) <= Budget
<1>1. Spent \in Int
  <2> DEFINE asked == [r \in Runs |-> rows[r].requests]
  <2>1. \A r \in Runs : asked[r] \in Int
    BY DEF RunsTypeOK
  <2>2. Spent = SumOf(asked, Runs)
    BY TotalIsSum DEF Spent
  <2> HIDE DEF asked
  <2> QED BY <2>1, <2>2, SumAtAny, RunAssumption
<1> DEFINE rest == (GlobalCeiling - Spent) - Reserve
<1>2. rest \in Int /\ ConfiguredRequests \in Nat
  BY <1>1, RunAssumption
<1>3. Left = IF 0 >= rest THEN 0 ELSE rest
  BY <1>2, BudgetInt DEF Left
<1>4. Left \in Int /\ Left >= 0
  BY <1>2, <1>3
<1>5. Min({ConfiguredRequests, Left}) = IF ConfiguredRequests <= Left THEN ConfiguredRequests ELSE Left
  BY <1>2, <1>4, BudgetInt
<1>6. Budget = IF 0 >= GlobalCeiling - Reserve THEN 0 ELSE GlobalCeiling - Reserve
  BY BudgetInt, RunAssumption DEF Budget
<1> QED BY <1>1, <1>2, <1>3, <1>4, <1>5, <1>6, RunAssumption

(* What a run leaves behind has its type, and so does what it goes on with. *)
Places == Trying \cup Ended \cup {"idle", "start", "failing"}

LEMMA PlacesAre ==
  Places = {"idle", "start", "leagues", "ids", "match", "timeline", "read", "select", "loop", "put",
            "finalize", "checkpoint", "finish", "failing", "ended", "killed"}
BY DEF Places, Trying, Calling, Ended

LEMMA LeaveTypes ==
  ASSUME RunsTypeOK, NEW r \in Runs, NEW place \in Places, LeaveRun(r, place)
  PROVE  /\ stage' \in [Runs -> Places]
         /\ attempt' \in [Runs -> 0..(Attempts - 1)]
         /\ known' \in [Runs -> SUBSET Offered] /\ selected' \in [Runs -> Seq(Offered)]
         /\ ingested' \in [Runs -> Nat] /\ bytes' \in [Runs -> Nat] /\ pgBytes' \in [Runs -> Nat]
         /\ stopped' \in [Runs -> Reasons \cup {"none"}]
<1>1. stage' \in [Runs -> Places]
  BY DEF RunsTypeOK, LeaveRun, Proceed, Places
<1>2. attempt' \in [Runs -> 0..(Attempts - 1)]
  <2>1. 0 \in 0..(Attempts - 1)
    BY RunAssumption
  <2> QED BY <2>1 DEF RunsTypeOK, LeaveRun
<1>3. known' \in [Runs -> SUBSET Offered] /\ selected' \in [Runs -> Seq(Offered)]
  BY SMTT(30) DEF RunsTypeOK, LeaveRun
<1>4. ingested' \in [Runs -> Nat] /\ bytes' \in [Runs -> Nat] /\ pgBytes' \in [Runs -> Nat]
  BY DEF RunsTypeOK, LeaveRun
<1>5. stopped' \in [Runs -> Reasons \cup {"none"}]
  BY DEF RunsTypeOK, LeaveRun
<1> QED BY <1>1, <1>2, <1>3, <1>4, <1>5

(* The types of the ledger, of the plan and of the tally, each of which an  *)
(* action changes as a whole or not at all.                                 *)
RowTypes == rows \in [Runs -> [status : {"none", "running", "complete", "stopped", "failed"},
                               ingested : Nat, requests : Nat, stop : Reasons \cup {"none"}]]
PlaceTypes == stage \in [Runs -> Places]
CountTypes == /\ cap \in [Runs -> 0..ConfiguredRequests] /\ used \in [Runs -> Nat]
              /\ attempt \in [Runs -> 0..(Attempts - 1)]
PlanTypes == known \in [Runs -> SUBSET Offered] /\ selected \in [Runs -> Seq(Offered)]
TallyTypes == /\ ingested \in [Runs -> Nat] /\ bytes \in [Runs -> Nat] /\ pgBytes \in [Runs -> Nat]
              /\ stopped \in [Runs -> Reasons \cup {"none"}]
PastTypes == /\ accepted \subseteq Offered /\ overlap \in BOOLEAN
             /\ put \in [Runs -> SUBSET Offered] /\ took \in [Runs -> SUBSET Offered]

LEMMA TypesTogether ==
  RunsTypeOK <=> RowTypes /\ PlaceTypes /\ CountTypes /\ PlanTypes /\ TallyTypes /\ PastTypes
BY DEF RunsTypeOK, RowTypes, PlaceTypes, CountTypes, PlanTypes, TallyTypes, PastTypes, Places

LEMMA TypeKept ==
  ASSUME RunsInv, NEW r \in Runs, Run(r)
  PROVE  RunsTypeOK'
<1> SUFFICES RowTypes' /\ PlaceTypes' /\ CountTypes' /\ PlanTypes' /\ TallyTypes' /\ PastTypes'
  BY DEF RunsTypeOK, RowTypes, PlaceTypes, CountTypes, PlanTypes, TallyTypes, PastTypes, Places
<1>t. RunsTypeOK /\ RowTypes /\ PlaceTypes /\ CountTypes /\ PlanTypes /\ TallyTypes /\ PastTypes
  BY TypesTogether DEF RunsInv
<1>p. Places = {"idle", "start", "leagues", "ids", "match", "timeline", "read", "select", "loop", "put",
                "finalize", "checkpoint", "finish", "failing", "ended", "killed"}
  BY PlacesAre
<1>h. /\ selected[r] # <<>> => Head(selected[r]) \in Offered /\ Tail(selected[r]) \in Seq(Offered)
      /\ stage[r] \in {"match", "timeline", "put", "finalize", "checkpoint"} => selected[r] # <<>>
  BY <1>t DEF PlanTypes, RunsInv, RunInv, Affordable
<1>z. 0 \in 0..(Attempts - 1) /\ attempt[r] \in Nat /\ used[r] \in Nat /\ used[r] + 1 \in Nat
  BY <1>t, RunAssumption DEF CountTypes
<1>g. /\ UNCHANGED rows => RowTypes'
      /\ UNCHANGED stage => PlaceTypes'
      /\ UNCHANGED <<known, selected>> => PlanTypes'
      /\ UNCHANGED <<ingested, bytes, pgBytes, stopped>> => TallyTypes'
      /\ UNCHANGED <<accepted, put, took, overlap>> => PastTypes'
      /\ UNCHANGED <<cap, used, attempt>> => CountTypes'
  BY <1>t DEF RowTypes, PlaceTypes, CountTypes, PlanTypes, TallyTypes, PastTypes
<1>l. ASSUME NEW place \in Places, LeaveRun(r, place)
      PROVE  PlaceTypes' /\ PlanTypes' /\ TallyTypes' /\ attempt' \in [Runs -> 0..(Attempts - 1)]
  BY <1>t, <1>l, LeaveTypes DEF PlaceTypes, PlanTypes, TallyTypes
<1> USE DEF tally, plan, past
<1>1. CASE ReadHistory(r)
  <2>1. RowTypes' /\ PlanTypes' /\ TallyTypes'
    BY <1>1, <1>g DEF ReadHistory
  <2>2. PlaceTypes'
    BY <1>1, <1>t, <1>p DEF PlaceTypes, ReadHistory, Proceed
  <2>3. CountTypes'
    <3>1. Min({ConfiguredRequests, Left}) \in 0..ConfiguredRequests
      BY <1>t, LeftBounds
    <3> QED BY <1>1, <1>t, <3>1 DEF CountTypes, ReadHistory
  <2>4. PastTypes'
    BY <1>1, <1>t DEF PastTypes, ReadHistory
  <2> QED BY <2>1, <2>2, <2>3, <2>4
<1>2. CASE StartRun(r)
  <2>1. CountTypes' /\ PlanTypes' /\ TallyTypes' /\ PastTypes'
    BY <1>2, <1>g DEF StartRun
  <2>2. RowTypes'
    BY <1>2, <1>t DEF RowTypes, StartRun, NoRow
  <2>3. PlaceTypes'
    BY <1>2, <1>t, <1>p DEF PlaceTypes, StartRun, Proceed
  <2> QED BY <2>1, <2>2, <2>3
<1>3. CASE AtCeiling(r)
  <2>1. PlaceTypes' /\ PlanTypes' /\ TallyTypes' /\ CountTypes'
    BY <1>3, <1>l, <1>p, <1>t DEF AtCeiling, CountTypes
  <2>2. RowTypes' /\ PastTypes'
    BY <1>3, <1>g DEF AtCeiling
  <2> QED BY <2>1, <2>2
<1>4. CASE AskAgain(r)
  <2>1. RowTypes' /\ PastTypes'
    BY <1>4, <1>g DEF AskAgain
  <2>2. PlaceTypes'
    BY <1>4, <1>l, <1>p, <1>g DEF AskAgain
  <2>3. CountTypes'
    <3>1. cap' \in [Runs -> 0..ConfiguredRequests] /\ used' \in [Runs -> Nat]
      BY <1>4, <1>t, <1>z DEF CountTypes, AskAgain, Ask
    <3>2. attempt' \in [Runs -> 0..(Attempts - 1)]
      <4>1. CASE LeaveRun(r, "failing")
        BY <1>l, <1>p, <4>1
      <4>2. CASE attempt[r] + 1 < Attempts /\ attempt' = [attempt EXCEPT ![r] = @ + 1]
        <5>1. attempt[r] + 1 \in 0..(Attempts - 1)
          BY <1>z, <4>2, RunAssumption
        <5> QED BY <1>t, <4>2, <5>1 DEF CountTypes
      <4> QED BY <1>4, <4>1, <4>2 DEF AskAgain
    <3> QED BY <3>1, <3>2 DEF CountTypes
  <2>4. PlanTypes'
    BY <1>4, <1>l, <1>p, <1>g DEF AskAgain
  <2>5. TallyTypes'
    BY <1>4, <1>l, <1>p, <1>g DEF AskAgain
  <2> QED BY <2>1, <2>2, <2>3, <2>4, <2>5
<1>5. CASE Discover(r)
  <2>1. RowTypes' /\ PlanTypes' /\ TallyTypes' /\ PastTypes'
    BY <1>5, <1>g DEF Discover
  <2>2. PlaceTypes'
    BY <1>5, <1>t, <1>p DEF PlaceTypes, Discover, Proceed
  <2>3. CountTypes'
    BY <1>5, <1>t, <1>z DEF CountTypes, Discover, Answered, Ask
  <2> QED BY <2>1, <2>2, <2>3
<1>6. CASE ReadKnown(r)
  <2>1. RowTypes' /\ CountTypes' /\ TallyTypes' /\ PastTypes'
    BY <1>6, <1>g DEF ReadKnown
  <2>2. PlaceTypes'
    BY <1>6, <1>t, <1>p DEF PlaceTypes, ReadKnown, Proceed
  <2>3. PlanTypes'
    BY <1>6, <1>t DEF PlanTypes, PastTypes, ReadKnown
  <2> QED BY <2>1, <2>2, <2>3
<1>7. CASE SelectMatches(r)
  <2>1. RowTypes' /\ CountTypes' /\ TallyTypes' /\ PastTypes'
    BY <1>7, <1>g DEF SelectMatches
  <2>2. PlaceTypes'
    BY <1>7, <1>t, <1>p DEF PlaceTypes, SelectMatches, Proceed
  <2>3. PlanTypes'
    <3>0. PICK S \in SUBSET (Offered \ known[r]) :
                 \E s \in SetToSeqs(S) : selected' = [selected EXCEPT ![r] = s]
      BY <1>7 DEF SelectMatches
    <3>1. PICK s \in SetToSeqs(S) : selected' = [selected EXCEPT ![r] = s]
      BY <3>0
    <3>2. s \in Seq(Offered)
      <4>1. Cardinality(S) \in Nat
        BY FS_Subset, FS_CardinalityType, RunAssumption
      <4>2. s \in [1..Cardinality(S) -> S]
        BY DEF SetToSeqs
      <4>3. s \in Seq(S)
        BY <4>1, <4>2
      <4> QED BY <4>3
    <3> QED BY <1>7, <1>t, <3>1, <3>2 DEF PlanTypes, SelectMatches
  <2> QED BY <2>1, <2>2, <2>3
<1>8. CASE LeaveLoop(r)
  <2>1. RowTypes' /\ CountTypes' /\ PlanTypes' /\ PastTypes'
    BY <1>8, <1>g DEF LeaveLoop
  <2>2. PlaceTypes'
    BY <1>8, <1>t, <1>p DEF PlaceTypes, LeaveLoop, Proceed
  <2>3. TallyTypes'
    BY <1>8, <1>t DEF TallyTypes, LeaveLoop, Reasons
  <2> QED BY <2>1, <2>2, <2>3
<1>9. CASE TakeMatch(r)
  <2>1. RowTypes' /\ CountTypes' /\ TallyTypes' /\ PastTypes'
    BY <1>9, <1>g DEF TakeMatch
  <2>2. PlaceTypes'
    BY <1>9, <1>t, <1>p DEF PlaceTypes, TakeMatch, Proceed
  <2>3. PlanTypes'
    BY <1>9, <1>t, <1>h DEF PlanTypes, TakeMatch, Skip
  <2> QED BY <2>1, <2>2, <2>3
<1>10. CASE FetchMatch(r)
  <2>1. RowTypes' /\ TallyTypes' /\ PastTypes'
    BY <1>10, <1>g DEF FetchMatch
  <2>2. PlaceTypes'
    BY <1>10, <1>t, <1>p DEF PlaceTypes, FetchMatch, Proceed
  <2>3. CountTypes'
    BY <1>10, <1>t, <1>z DEF CountTypes, FetchMatch, Answered, Ask
  <2>4. PlanTypes'
    BY <1>10, <1>t, <1>h DEF PlanTypes, FetchMatch, Skip
  <2> QED BY <2>1, <2>2, <2>3, <2>4
<1>11. CASE FetchTimeline(r)
  <2>1. RowTypes' /\ PlanTypes' /\ PastTypes'
    BY <1>11, <1>g DEF FetchTimeline
  <2>2. PlaceTypes'
    BY <1>11, <1>t, <1>p DEF PlaceTypes, FetchTimeline, Proceed
  <2>3. CountTypes'
    BY <1>11, <1>t, <1>z DEF CountTypes, FetchTimeline, Answered, Ask
  <2>4. TallyTypes'
    <3>1. Boundary(r, Head(selected[r]), used[r] + 1) \in Reasons \cup {"none"}
      <4>1. cap[r] \in Nat /\ used[r] + 1 <= cap[r]
        BY <1>11, <1>t, <1>z, RunAssumption DEF CountTypes, FetchTimeline, Answered, Ask, MayAsk
      <4> QED BY <1>z, <4>1 DEF Boundary, Reasons
    <3> QED BY <1>11, <1>t, <3>1 DEF TallyTypes, FetchTimeline
  <2> QED BY <2>1, <2>2, <2>3, <2>4
<1>12. CASE PutArchive(r)
  <2>1. RowTypes' /\ CountTypes' /\ PlanTypes' /\ TallyTypes'
    BY <1>12, <1>g DEF PutArchive
  <2>2. PlaceTypes'
    BY <1>12, <1>t, <1>p DEF PlaceTypes, PutArchive, Proceed
  <2>3. PastTypes'
    BY <1>12, <1>t, <1>h DEF PastTypes, PutArchive
  <2> QED BY <2>1, <2>2, <2>3
<1>13. CASE Finalize(r)
  <2>1. RowTypes' /\ CountTypes' /\ PlanTypes'
    BY <1>13, <1>g DEF Finalize
  <2>2. PlaceTypes'
    BY <1>13, <1>t, <1>p DEF PlaceTypes, Finalize, Proceed
  <2>3. TallyTypes'
    <3>1. Head(selected[r]) \in Offered
      BY <1>13, <1>h DEF Finalize
    <3>2. Bytes[Head(selected[r])] \in Nat /\ PgBytes[Head(selected[r])] \in Nat
      BY <3>1, RunAssumption
    <3> QED BY <1>13, <1>t, <3>2 DEF TallyTypes, Finalize
  <2>4. PastTypes'
    BY <1>13, <1>t, <1>h DEF PastTypes, Finalize
  <2> QED BY <2>1, <2>2, <2>3, <2>4
<1>14. CASE Checkpoint(r)
  <2>1. CountTypes' /\ TallyTypes' /\ PastTypes'
    BY <1>14, <1>g DEF Checkpoint
  <2>2. RowTypes'
    <3>1. ingested[r] \in Nat /\ used[r] \in Nat
      BY <1>t, <1>z DEF TallyTypes
    <3> QED BY <1>14, <1>t, <3>1 DEF RowTypes, Checkpoint
  <2>3. PlaceTypes'
    BY <1>14, <1>t, <1>p DEF PlaceTypes, Checkpoint, Proceed
  <2>4. PlanTypes'
    BY <1>14, <1>t, <1>h DEF PlanTypes, Checkpoint, Skip
  <2> QED BY <2>1, <2>2, <2>3, <2>4
<1>15. CASE Finish(r)
  <2>1. PlaceTypes' /\ PlanTypes' /\ TallyTypes' /\ CountTypes'
    BY <1>15, <1>l, <1>p, <1>t DEF Finish, CountTypes
  <2>2. RowTypes'
    <3>1. stopped[r] \in Reasons \cup {"none"} /\ used[r] \in Nat
      BY <1>t, <1>z DEF TallyTypes
    <3>2. \A row \in [status : {"none", "running", "complete", "stopped", "failed"},
                     ingested : Nat, requests : Nat, stop : Reasons \cup {"none"}] :
            [row EXCEPT !.requests = used[r], !.stop = stopped[r],
                       !.status = IF stopped[r] = "none" THEN "complete" ELSE "stopped"] \in
              [status : {"none", "running", "complete", "stopped", "failed"},
               ingested : Nat, requests : Nat, stop : Reasons \cup {"none"}]
      BY <3>1
    <3> QED BY ZenonT(60), <1>15, <1>t, <3>2 DEF Finish, RowTypes
  <2>3. PastTypes'
    BY <1>15, <1>g DEF Finish
  <2> QED BY <2>1, <2>2, <2>3
<1>16. CASE Throw(r)
  <2>1. PlaceTypes' /\ PlanTypes' /\ TallyTypes' /\ CountTypes'
    BY <1>16, <1>l, <1>p, <1>t DEF Throw, CountTypes
  <2>2. RowTypes' /\ PastTypes'
    BY <1>16, <1>g DEF Throw
  <2> QED BY <2>1, <2>2
<1>17. CASE RecordFailure(r)
  <2>1. PlaceTypes' /\ PlanTypes' /\ TallyTypes' /\ CountTypes'
    BY <1>17, <1>l, <1>p, <1>t DEF RecordFailure, CountTypes
  <2>2. RowTypes'
    <3>1. stopped[r] \in Reasons \cup {"none"} /\ used[r] \in Nat
      BY <1>t, <1>z DEF TallyTypes
    <3>2. \A row \in [status : {"none", "running", "complete", "stopped", "failed"},
                     ingested : Nat, requests : Nat, stop : Reasons \cup {"none"}] :
            [row EXCEPT !.requests = used[r], !.stop = "none", !.status = "failed"] \in
              [status : {"none", "running", "complete", "stopped", "failed"},
               ingested : Nat, requests : Nat, stop : Reasons \cup {"none"}]
      BY <3>1
    <3> QED BY ZenonT(30), <1>17, <1>t, <3>2 DEF RecordFailure, RowTypes
  <2>3. PastTypes'
    BY <1>17, <1>g DEF RecordFailure
  <2> QED BY <2>1, <2>2, <2>3
<1>18. CASE Kill(r)
  <2>1. PlaceTypes' /\ PlanTypes' /\ TallyTypes' /\ CountTypes'
    BY <1>18, <1>l, <1>p, <1>t DEF Kill, CountTypes
  <2>2. RowTypes' /\ PastTypes'
    BY <1>18, <1>g DEF Kill
  <2> QED BY <2>1, <2>2
<1> QED BY <1>1, <1>2, <1>3, <1>4, <1>5, <1>6, <1>7, <1>8, <1>9, <1>10, <1>11, <1>12, <1>13, <1>14, <1>15, <1>16, <1>17, <1>18 DEF Run
(* A step keeps what is said of its own run.                               *)
LEMMA OwnKept ==
  ASSUME RunsInv, NEW r \in Runs, Run(r), RunsTypeOK'
  PROVE  RunInv(r)'
<1>i. RunsTypeOK /\ Counted(r) /\ Affordable(r) /\ RowLags(r) /\ RunWithin(r)
  BY DEF RunsInv, RunInv
<1>r. /\ Recorded[r] = IF stage[r] = "killed" THEN rows[r].requests ELSE used[r]
      /\ Recorded'[r] = IF stage'[r] = "killed" THEN rows'[r].requests ELSE used'[r]
  BY DEF Recorded
<1>v. /\ cap[r] \in Int /\ used[r] \in Nat /\ rows[r].requests \in Nat /\ rows[r].ingested \in Nat
      /\ took[r] \in SUBSET Offered
  BY SMTT(30), <1>i DEF RunsTypeOK
<1>c. Cardinality(took[r]) \in Nat
  BY <1>v, FS_Subset, FS_CardinalityType, RunAssumption
<1>m. ASSUME stage[r] \in {"timeline", "put", "finalize"}
      PROVE  LET m == Head(selected[r])
             IN /\ m \in Offered \ took[r]
                /\ Total(Bytes, took[r] \cup {m}) = Total(Bytes, took[r]) + Bytes[m]
                /\ Total(PgBytes, took[r] \cup {m}) = Total(PgBytes, took[r]) + PgBytes[m]
                /\ Cardinality(took[r] \cup {m}) = Cardinality(took[r]) + 1
  <2>1. Head(selected[r]) \in Offered \ took[r]
    BY SMTT(30), <1>i, <1>m DEF RunsTypeOK, Affordable
  <2> QED BY <1>v, <2>1, OneMoreMatch
<1> USE DEF tally, plan, past
<1>1. CASE ReadHistory(r)
  <2>1. Counted(r)'
    BY <1>1, <1>i, <1>r, <1>v, <1>c DEF RunsTypeOK, Counted, Counting, UnderWay, Ended, Calling, Trying, ReadHistory, Proceed
  <2>2. Affordable(r)'
    BY <1>1, <1>i, <1>r, <1>v, <1>c DEF RunsTypeOK, Affordable, Counting, UnderWay, Ended, Calling, Trying, ReadHistory, Proceed
  <2>3. RowLags(r)'
    BY <1>1, <1>i, <1>r, <1>v, <1>c DEF RunsTypeOK, RowLags, Counting, UnderWay, Ended, Calling, Trying, ReadHistory, Proceed
  <2>4. RunWithin(r)'
    BY <1>1, <1>i, <1>r, <1>v, <1>c DEF RunsTypeOK, RunWithin, Counting, UnderWay, Ended, Calling, Trying, ReadHistory, Proceed
  <2> QED BY <2>1, <2>2, <2>3, <2>4 DEF RunInv
<1>2. CASE StartRun(r)
  <2>1. Counted(r)'
    BY <1>2, <1>i, <1>r, <1>v, <1>c DEF RunsTypeOK, Counted, Counting, UnderWay, Ended, Calling, Trying, StartRun, Proceed
  <2>2. Affordable(r)'
    BY <1>2, <1>i, <1>r, <1>v, <1>c DEF RunsTypeOK, Affordable, Counting, UnderWay, Ended, Calling, Trying, StartRun, Proceed
  <2>3. RowLags(r)'
    BY <1>2, <1>i, <1>r, <1>v, <1>c DEF RunsTypeOK, RowLags, Counting, UnderWay, Ended, Calling, Trying, StartRun, Proceed
  <2>4. RunWithin(r)'
    BY <1>2, <1>i, <1>v, <1>c DEF RunsTypeOK, RunWithin, RowLags, Counting, Ended, StartRun, NoRow
  <2> QED BY <2>1, <2>2, <2>3, <2>4 DEF RunInv
<1>3. CASE AtCeiling(r)
  <2>1. Counted(r)'
    BY <1>3, <1>i, <1>r, <1>v, <1>c DEF RunsTypeOK, Counted, Counting, UnderWay, Ended, Calling, Trying, AtCeiling, LeaveRun, Proceed
  <2>2. Affordable(r)'
    BY <1>3, <1>i, <1>r, <1>v, <1>c DEF RunsTypeOK, Affordable, Counting, UnderWay, Ended, Calling, Trying, AtCeiling, LeaveRun, Proceed
  <2>3. RowLags(r)'
    BY <1>3, <1>i, <1>r, <1>v, <1>c DEF RunsTypeOK, RowLags, Counting, UnderWay, Ended, Calling, Trying, AtCeiling, LeaveRun, Proceed
  <2>4. RunWithin(r)'
    BY <1>3, <1>i, <1>r, <1>v, <1>c DEF RunsTypeOK, RunWithin, Counting, UnderWay, Ended, Calling, Trying, AtCeiling, LeaveRun, Proceed
  <2> QED BY <2>1, <2>2, <2>3, <2>4 DEF RunInv
<1>4. CASE AskAgain(r)
  <2>1. Counted(r)'
    BY <1>4, <1>i, <1>r, <1>v, <1>c DEF RunsTypeOK, Counted, Counting, UnderWay, Ended, Calling, Trying, AskAgain, Ask, MayAsk, LeaveRun, Proceed
  <2>2. Affordable(r)'
    BY <1>4, <1>i, <1>r, <1>v, <1>c DEF RunsTypeOK, Affordable, Counting, UnderWay, Ended, Calling, Trying, AskAgain, Ask, MayAsk, LeaveRun, Proceed
  <2>3. RowLags(r)'
    <3>1. /\ rows' = rows /\ cap' = cap /\ took' = took
          /\ used'[r] = used[r] + 1 /\ used[r] < cap[r] /\ stage[r] \in Calling
      BY <1>4, <1>i DEF RunsTypeOK, AskAgain, Ask, MayAsk
    <3>2. stage'[r] \in {stage[r], "failing"}
      BY <1>4, <1>i DEF RunsTypeOK, AskAgain, LeaveRun, Proceed
    <3>3. stage'[r] # "killed" /\ Recorded'[r] = used'[r]
      BY <1>r, <3>1, <3>2 DEF Calling
    <3> QED BY <1>i, <1>v, <3>1, <3>2, <3>3 DEF RowLags, Counting, UnderWay, Ended, Calling
  <2>4. RunWithin(r)'
    BY <1>4, <1>i, <1>r, <1>v, <1>c DEF RunsTypeOK, RunWithin, Counting, UnderWay, Ended, Calling, Trying, AskAgain, Ask, MayAsk, LeaveRun, Proceed
  <2> QED BY <2>1, <2>2, <2>3, <2>4 DEF RunInv
<1>5. CASE Discover(r)
  <2>1. Counted(r)'
    BY <1>5, <1>i, <1>r, <1>v, <1>c DEF RunsTypeOK, Counted, Counting, UnderWay, Ended, Calling, Trying, Discover, Answered, Ask, MayAsk, Proceed
  <2>2. Affordable(r)'
    BY <1>5, <1>i, <1>r, <1>v, <1>c DEF RunsTypeOK, Affordable, Counting, UnderWay, Ended, Calling, Trying, Discover, Answered, Ask, MayAsk, Proceed
  <2>3. RowLags(r)'
    BY <1>5, <1>i, <1>r, <1>v, <1>c DEF RunsTypeOK, RowLags, Counting, UnderWay, Ended, Calling, Trying, Discover, Answered, Ask, MayAsk, Proceed
  <2>4. RunWithin(r)'
    BY <1>5, <1>i, <1>r, <1>v, <1>c DEF RunsTypeOK, RunWithin, Counting, UnderWay, Ended, Calling, Trying, Discover, Answered, Ask, MayAsk, Proceed
  <2> QED BY <2>1, <2>2, <2>3, <2>4 DEF RunInv
<1>6. CASE ReadKnown(r)
  <2>1. Counted(r)'
    BY <1>6, <1>i, <1>r, <1>v, <1>c DEF RunsTypeOK, Counted, Counting, UnderWay, Ended, Calling, Trying, ReadKnown, Proceed
  <2>2. Affordable(r)'
    BY <1>6, <1>i, <1>r, <1>v, <1>c DEF RunsTypeOK, Affordable, Counting, UnderWay, Ended, Calling, Trying, ReadKnown, Proceed
  <2>3. RowLags(r)'
    BY <1>6, <1>i, <1>r, <1>v, <1>c DEF RunsTypeOK, RowLags, Counting, UnderWay, Ended, Calling, Trying, ReadKnown, Proceed
  <2>4. RunWithin(r)'
    BY <1>6, <1>i, <1>r, <1>v, <1>c DEF RunsTypeOK, RunWithin, Counting, UnderWay, Ended, Calling, Trying, ReadKnown, Proceed
  <2> QED BY <2>1, <2>2, <2>3, <2>4 DEF RunInv
<1>7. CASE SelectMatches(r)
  <2>1. Counted(r)'
    BY <1>7, <1>i, <1>r, <1>v, <1>c DEF RunsTypeOK, Counted, Counting, UnderWay, Ended, Calling, Trying, SelectMatches, Proceed
  <2>2. Affordable(r)'
    BY <1>7, <1>i, <1>r, <1>v, <1>c DEF RunsTypeOK, Affordable, Counting, UnderWay, Ended, Calling, Trying, SelectMatches, Proceed
  <2>3. RowLags(r)'
    BY <1>7, <1>i, <1>r, <1>v, <1>c DEF RunsTypeOK, RowLags, Counting, UnderWay, Ended, Calling, Trying, SelectMatches, Proceed
  <2>4. RunWithin(r)'
    BY <1>7, <1>i, <1>r, <1>v, <1>c DEF RunsTypeOK, RunWithin, Counting, UnderWay, Ended, Calling, Trying, SelectMatches, Proceed
  <2> QED BY <2>1, <2>2, <2>3, <2>4 DEF RunInv
<1>8. CASE LeaveLoop(r)
  <2>1. Counted(r)'
    BY <1>8, <1>i, <1>r, <1>v, <1>c DEF RunsTypeOK, Counted, Counting, UnderWay, Ended, Calling, Trying, LeaveLoop, Proceed
  <2>2. Affordable(r)'
    BY <1>8, <1>i, <1>r, <1>v, <1>c DEF RunsTypeOK, Affordable, Counting, UnderWay, Ended, Calling, Trying, LeaveLoop, Proceed
  <2>3. RowLags(r)'
    BY <1>8, <1>i, <1>r, <1>v, <1>c DEF RunsTypeOK, RowLags, Counting, UnderWay, Ended, Calling, Trying, LeaveLoop, Proceed
  <2>4. RunWithin(r)'
    BY <1>8, <1>i, <1>r, <1>v, <1>c DEF RunsTypeOK, RunWithin, Counting, UnderWay, Ended, Calling, Trying, LeaveLoop, Proceed
  <2> QED BY <2>1, <2>2, <2>3, <2>4 DEF RunInv
<1>9. CASE TakeMatch(r)
  <2>1. Counted(r)'
    BY <1>9, <1>i, <1>r, <1>v, <1>c DEF RunsTypeOK, Counted, Counting, UnderWay, Ended, Calling, Trying, TakeMatch, Skip, Proceed
  <2>2. Affordable(r)'
    BY <1>9, <1>i DEF RunsTypeOK, Affordable, Counted, Counting, Ended, TakeMatch, Skip, Proceed
  <2>3. RowLags(r)'
    BY <1>9, <1>i, <1>r, <1>v, <1>c DEF RunsTypeOK, RowLags, Counting, UnderWay, Ended, Calling, Trying, TakeMatch, Skip, Proceed
  <2>4. RunWithin(r)'
    BY <1>9, <1>i, <1>r, <1>v, <1>c DEF RunsTypeOK, RunWithin, Counting, UnderWay, Ended, Calling, Trying, TakeMatch, Skip, Proceed
  <2> QED BY <2>1, <2>2, <2>3, <2>4 DEF RunInv
<1>10. CASE FetchMatch(r)
  <2>1. Counted(r)'
    BY <1>10, <1>i, <1>r, <1>v, <1>c DEF RunsTypeOK, Counted, Counting, UnderWay, Ended, Calling, Trying, FetchMatch, Answered, Ask, MayAsk, Skip, Proceed
  <2>2. Affordable(r)'
    BY <1>10, <1>i, <1>r, <1>v, <1>c DEF RunsTypeOK, Affordable, Counting, UnderWay, Ended, Calling, Trying, FetchMatch, Answered, Ask, MayAsk, Skip, Proceed
  <2>3. RowLags(r)'
    BY <1>10, <1>i, <1>r, <1>v, <1>c DEF RunsTypeOK, RowLags, Counting, UnderWay, Ended, Calling, Trying, FetchMatch, Answered, Ask, MayAsk, Skip, Proceed
  <2>4. RunWithin(r)'
    BY <1>10, <1>i, <1>r, <1>v, <1>c DEF RunsTypeOK, RunWithin, Counting, UnderWay, Ended, Calling, Trying, FetchMatch, Answered, Ask, MayAsk, Skip, Proceed
  <2> QED BY <2>1, <2>2, <2>3, <2>4 DEF RunInv
<1>11. CASE FetchTimeline(r)
  <2>1. Counted(r)'
    BY <1>11, <1>i, <1>r, <1>v, <1>c DEF RunsTypeOK, Counted, Counting, UnderWay, Ended, Calling, Trying, FetchTimeline, Answered, Ask, MayAsk, Proceed
  <2>2. Affordable(r)'
    <3>1. /\ selected' = selected /\ took' = took /\ ingested' = ingested
          /\ bytes' = bytes /\ pgBytes' = pgBytes
          /\ stage'[r] \in {"put", "finish"}
          /\ stage'[r] = "put" => Boundary(r, Head(selected[r]), used[r] + 1) = "none"
      BY <1>11, <1>i DEF RunsTypeOK, FetchTimeline, Proceed
    <3>2. stage'[r] = "put" =>
            /\ ~(bytes[r] + Bytes[Head(selected[r])] > MaxBytes)
            /\ ~(pgBytes[r] + PgBytes[Head(selected[r])] > MaxPgBytes)
      BY <3>1 DEF Boundary
    <3>3. /\ bytes[r] + Bytes[Head(selected[r])] \in Int
          /\ pgBytes[r] + PgBytes[Head(selected[r])] \in Int
          /\ MaxBytes \in Int /\ MaxPgBytes \in Int
      <4>1. Head(selected[r]) \in Offered
        BY <1>11, <1>m DEF FetchTimeline
      <4>2. Bytes[Head(selected[r])] \in Nat /\ PgBytes[Head(selected[r])] \in Nat
        BY <4>1, RunAssumption
      <4>3. bytes[r] \in Nat /\ pgBytes[r] \in Nat
        BY <1>i DEF RunsTypeOK
      <4> QED BY <4>2, <4>3, RunAssumption
    <3>4. stage[r] = "timeline"
      BY <1>11 DEF FetchTimeline
    <3> QED BY <1>i, <3>1, <3>2, <3>3, <3>4 DEF Affordable
  <2>3. RowLags(r)'
    BY <1>11, <1>i, <1>r, <1>v, <1>c DEF RunsTypeOK, RowLags, Counting, UnderWay, Ended, Calling, Trying, FetchTimeline, Answered, Ask, MayAsk, Proceed
  <2>4. RunWithin(r)'
    BY <1>11, <1>i, <1>r, <1>v, <1>c DEF RunsTypeOK, RunWithin, Counting, UnderWay, Ended, Calling, Trying, FetchTimeline, Answered, Ask, MayAsk, Proceed
  <2> QED BY <2>1, <2>2, <2>3, <2>4 DEF RunInv
<1>12. CASE PutArchive(r)
  <2>1. Counted(r)'
    BY <1>12, <1>i, <1>r, <1>v, <1>c DEF RunsTypeOK, Counted, Counting, UnderWay, Ended, Calling, Trying, PutArchive, Proceed
  <2>2. Affordable(r)'
    BY <1>12, <1>i, <1>r, <1>v, <1>c DEF RunsTypeOK, Affordable, Counting, UnderWay, Ended, Calling, Trying, PutArchive, Proceed
  <2>3. RowLags(r)'
    BY <1>12, <1>i, <1>r, <1>v, <1>c DEF RunsTypeOK, RowLags, Counting, UnderWay, Ended, Calling, Trying, PutArchive, Proceed
  <2>4. RunWithin(r)'
    <3>1. stage[r] = "put" /\ put'[r] = put[r] \cup {Head(selected[r])} /\ took' = took /\ rows' = rows
      BY <1>12, <1>i DEF RunsTypeOK, PutArchive
    <3>2. put[r] = took[r] /\ bytes[r] = Total(Bytes, took[r])
      BY <1>i, <3>1 DEF Counted, Counting, Ended
    <3>3. Total(Bytes, put'[r]) <= MaxBytes
      BY <1>i, <1>m, <3>1, <3>2 DEF Affordable
    <3> QED BY <1>i, <3>1, <3>3 DEF RunWithin
  <2> QED BY <2>1, <2>2, <2>3, <2>4 DEF RunInv
<1>13. CASE Finalize(r)
  <2>1. Counted(r)'
    <3>1. /\ stage[r] = "finalize" /\ stage'[r] = "checkpoint"
          /\ accepted' = accepted \cup {Head(selected[r])}
          /\ took'[r] = took[r] \cup {Head(selected[r])}
          /\ ingested'[r] = ingested[r] + 1 /\ bytes'[r] = bytes[r] + Bytes[Head(selected[r])]
          /\ pgBytes'[r] = pgBytes[r] + PgBytes[Head(selected[r])]
          /\ put' = put /\ rows' = rows /\ cap' = cap /\ used' = used
      BY <1>13, <1>i DEF RunsTypeOK, Finalize, Proceed
    <3>2. /\ ingested[r] = Cardinality(took[r]) /\ ingested[r] < MaxAccepted
          /\ bytes[r] = Total(Bytes, took[r])
          /\ pgBytes[r] = Total(PgBytes, took[r]) /\ took[r] \subseteq accepted
          /\ put[r] = took[r] \cup {Head(selected[r])}
          /\ rows[r].ingested = Cardinality(took[r]) /\ rows[r].status \in {"none", "running"}
      BY <1>i, <1>c, <3>1 DEF Counted, Affordable, RowLags, Counting, Ended
    <3> QED BY <1>m, <3>1, <3>2 DEF Counted
  <2>2. Affordable(r)'
    BY <1>13, <1>i, <1>r, <1>v, <1>c DEF RunsTypeOK, Affordable, Counting, UnderWay, Ended, Calling, Trying, Finalize, Proceed
  <2>3. RowLags(r)'
    <3>1. /\ stage[r] = "finalize" /\ stage'[r] = "checkpoint"
          /\ accepted' = accepted \cup {Head(selected[r])}
          /\ took'[r] = took[r] \cup {Head(selected[r])}
          /\ ingested'[r] = ingested[r] + 1 /\ bytes'[r] = bytes[r] + Bytes[Head(selected[r])]
          /\ pgBytes'[r] = pgBytes[r] + PgBytes[Head(selected[r])]
          /\ put' = put /\ rows' = rows /\ cap' = cap /\ used' = used
      BY <1>13, <1>i DEF RunsTypeOK, Finalize, Proceed
    <3>2. /\ ingested[r] = Cardinality(took[r]) /\ ingested[r] < MaxAccepted
          /\ bytes[r] = Total(Bytes, took[r])
          /\ pgBytes[r] = Total(PgBytes, took[r]) /\ took[r] \subseteq accepted
          /\ put[r] = took[r] \cup {Head(selected[r])}
          /\ rows[r].ingested = Cardinality(took[r]) /\ rows[r].status \in {"none", "running"}
      BY <1>i, <1>c, <3>1 DEF Counted, Affordable, RowLags, Counting, Ended
    <3>3. Cardinality(took'[r]) = Cardinality(took[r]) + 1
      BY <1>m, <3>1
    <3> QED BY <1>i, <1>c, <1>v, <3>1, <3>2, <3>3 DEF RowLags, UnderWay, Ended
  <2>4. RunWithin(r)'
    <3>1. /\ stage[r] = "finalize" /\ stage'[r] = "checkpoint"
          /\ accepted' = accepted \cup {Head(selected[r])}
          /\ took'[r] = took[r] \cup {Head(selected[r])}
          /\ ingested'[r] = ingested[r] + 1 /\ bytes'[r] = bytes[r] + Bytes[Head(selected[r])]
          /\ pgBytes'[r] = pgBytes[r] + PgBytes[Head(selected[r])]
          /\ put' = put /\ rows' = rows /\ cap' = cap /\ used' = used
      BY <1>13, <1>i DEF RunsTypeOK, Finalize, Proceed
    <3>2. /\ ingested[r] = Cardinality(took[r]) /\ ingested[r] < MaxAccepted
          /\ bytes[r] = Total(Bytes, took[r])
          /\ pgBytes[r] = Total(PgBytes, took[r]) /\ took[r] \subseteq accepted
          /\ put[r] = took[r] \cup {Head(selected[r])}
          /\ rows[r].ingested = Cardinality(took[r]) /\ rows[r].status \in {"none", "running"}
      BY <1>i, <1>c, <3>1 DEF Counted, Affordable, RowLags, Counting, Ended
    <3>3. /\ Cardinality(took'[r]) = Cardinality(took[r]) + 1
          /\ Total(PgBytes, took'[r]) <= MaxPgBytes
      BY <1>i, <1>m, <3>1, <3>2 DEF Affordable
    <3>4. MaxAccepted \in Nat
      BY RunAssumption
    <3> QED BY <1>i, <1>c, <1>v, <3>1, <3>2, <3>3, <3>4 DEF RunWithin
  <2> QED BY <2>1, <2>2, <2>3, <2>4 DEF RunInv
<1>14. CASE Checkpoint(r)
  <2>1. Counted(r)'
    BY <1>14, <1>i, <1>r, <1>v, <1>c DEF RunsTypeOK, Counted, Counting, UnderWay, Ended, Calling, Trying, Checkpoint, Skip, Proceed
  <2>2. Affordable(r)'
    BY <1>14, <1>i, <1>r, <1>v, <1>c DEF RunsTypeOK, Affordable, Counting, UnderWay, Ended, Calling, Trying, Checkpoint, Skip, Proceed
  <2>3. RowLags(r)'
    <3>1. /\ stage[r] = "checkpoint" /\ stage'[r] = "loop"
          /\ rows'[r].ingested = ingested[r] /\ rows'[r].requests = used[r]
          /\ rows'[r].status = rows[r].status
          /\ put' = put /\ took' = took /\ cap' = cap /\ used' = used
      BY <1>14, <1>i DEF RunsTypeOK, Checkpoint, Proceed
    <3>2. ingested[r] = Cardinality(took[r])
      BY <1>i, <3>1 DEF Counted, Counting, Ended
    <3> QED BY <1>i, <1>c, <1>v, <3>1, <3>2 DEF RowLags, UnderWay, Ended
  <2>4. RunWithin(r)'
    <3>1. /\ stage[r] = "checkpoint" /\ stage'[r] = "loop"
          /\ rows'[r].ingested = ingested[r] /\ rows'[r].requests = used[r]
          /\ rows'[r].status = rows[r].status
          /\ put' = put /\ took' = took /\ cap' = cap /\ used' = used
      BY <1>14, <1>i DEF RunsTypeOK, Checkpoint, Proceed
    <3>2. ingested[r] = Cardinality(took[r])
      BY <1>i, <3>1 DEF Counted, Counting, Ended
    <3> QED BY <1>i, <1>c, <1>v, <3>1, <3>2 DEF RunWithin
  <2> QED BY <2>1, <2>2, <2>3, <2>4 DEF RunInv
<1>15. CASE Finish(r)
  <2>1. Counted(r)'
    BY <1>15, <1>i, <1>r, <1>v, <1>c DEF RunsTypeOK, Counted, Counting, UnderWay, Ended, Calling, Trying, Finish, LeaveRun, Proceed
  <2>2. Affordable(r)'
    BY <1>15, <1>i, <1>r, <1>v, <1>c DEF RunsTypeOK, Affordable, Counting, UnderWay, Ended, Calling, Trying, Finish, LeaveRun, Proceed
  <2>3. RowLags(r)'
    BY <1>15, <1>i, <1>r, <1>v, <1>c DEF RunsTypeOK, RowLags, Counting, UnderWay, Ended, Calling, Trying, Finish, LeaveRun, Proceed
  <2>4. RunWithin(r)'
    BY <1>15, <1>i, <1>r, <1>v, <1>c DEF RunsTypeOK, RunWithin, Counting, UnderWay, Ended, Calling, Trying, Finish, LeaveRun, Proceed
  <2> QED BY <2>1, <2>2, <2>3, <2>4 DEF RunInv
<1>16. CASE Throw(r)
  <2>1. Counted(r)'
    BY <1>16, <1>i, <1>r, <1>v, <1>c DEF RunsTypeOK, Counted, Counting, UnderWay, Ended, Calling, Trying, Throw, LeaveRun, Proceed
  <2>2. Affordable(r)'
    BY <1>16, <1>i, <1>r, <1>v, <1>c DEF RunsTypeOK, Affordable, Counting, UnderWay, Ended, Calling, Trying, Throw, LeaveRun, Proceed
  <2>3. RowLags(r)'
    BY <1>16, <1>i, <1>r, <1>v, <1>c DEF RunsTypeOK, RowLags, Counting, UnderWay, Ended, Calling, Trying, Throw, LeaveRun, Proceed
  <2>4. RunWithin(r)'
    BY <1>16, <1>i, <1>r, <1>v, <1>c DEF RunsTypeOK, RunWithin, Counting, UnderWay, Ended, Calling, Trying, Throw, LeaveRun, Proceed
  <2> QED BY <2>1, <2>2, <2>3, <2>4 DEF RunInv
<1>17. CASE RecordFailure(r)
  <2>1. Counted(r)'
    BY <1>17, <1>i, <1>r, <1>v, <1>c DEF RunsTypeOK, Counted, Counting, UnderWay, Ended, Calling, Trying, RecordFailure, LeaveRun, Proceed
  <2>2. Affordable(r)'
    BY <1>17, <1>i, <1>r, <1>v, <1>c DEF RunsTypeOK, Affordable, Counting, UnderWay, Ended, Calling, Trying, RecordFailure, LeaveRun, Proceed
  <2>3. RowLags(r)'
    BY <1>17, <1>i, <1>r, <1>v, <1>c DEF RunsTypeOK, RowLags, Counting, UnderWay, Ended, Calling, Trying, RecordFailure, LeaveRun, Proceed
  <2>4. RunWithin(r)'
    BY <1>17, <1>i, <1>r, <1>v, <1>c DEF RunsTypeOK, RunWithin, Counting, UnderWay, Ended, Calling, Trying, RecordFailure, LeaveRun, Proceed
  <2> QED BY <2>1, <2>2, <2>3, <2>4 DEF RunInv
<1>18. CASE Kill(r)
  <2>1. Counted(r)'
    BY <1>18, <1>i, <1>r, <1>v, <1>c DEF RunsTypeOK, Counted, Counting, UnderWay, Ended, Calling, Trying, Kill, LeaveRun, Proceed
  <2>2. Affordable(r)'
    BY <1>18, <1>i, <1>r, <1>v, <1>c DEF RunsTypeOK, Affordable, Counting, UnderWay, Ended, Calling, Trying, Kill, LeaveRun, Proceed
  <2>3. RowLags(r)'
    BY <1>18, <1>i, <1>r, <1>v, <1>c DEF RunsTypeOK, RowLags, Counting, UnderWay, Ended, Calling, Trying, Kill, LeaveRun, Proceed
  <2>4. RunWithin(r)'
    BY <1>18, <1>i, <1>r, <1>v, <1>c DEF RunsTypeOK, RunWithin, Counting, UnderWay, Ended, Calling, Trying, Kill, LeaveRun, Proceed
  <2> QED BY <2>1, <2>2, <2>3, <2>4 DEF RunInv
<1> QED BY <1>1, <1>2, <1>3, <1>4, <1>5, <1>6, <1>7, <1>8, <1>9, <1>10, <1>11, <1>12, <1>13, <1>14, <1>15, <1>16, <1>17, <1>18 DEF Run

(* Reading the history takes what is left of the budget, if nobody else is  *)
(* under way;                                                               *)
LEMMA BudgetTaken ==
  ASSUME RunsInv, NEW r \in Runs, ReadHistory(r)
  PROVE  Budgeted'
<1>1. /\ rows' = rows /\ used' = used /\ stage[r] = "idle"
      /\ cap' = [cap EXCEPT ![r] = Min({ConfiguredRequests, Left})]
      /\ stage' = [stage EXCEPT ![r] = IF Min({ConfiguredRequests, Left}) = 0 THEN "ended" ELSE "start"]
      /\ overlap' = (overlap \/ \E q \in Runs : UnderWay(q))
  BY DEF ReadHistory, Proceed
<1>t. RunsTypeOK
  BY DEF RunsInv
<1>2. SUFFICES ASSUME ~overlap'
               PROVE  /\ Total(Recorded', Runs) <= Budget
                      /\ \A p \in Runs : UnderWay(p)' =>
                           /\ \A q \in Runs : UnderWay(q)' => q = p
                           /\ (Total(Recorded', Runs) - used'[p]) + cap'[p] <= Budget
  BY DEF Budgeted
<1>3. Total(Recorded, Runs) <= Budget /\ \A q \in Runs : ~UnderWay(q)
  BY <1>1, <1>2 DEF RunsInv, Budgeted
<1>4. Recorded' = Recorded
  BY <1>1, <1>t DEF RunsTypeOK, Recorded
<1>5. Total(Recorded, Runs) = Spent
  <2>1. Recorded = [q \in Runs |-> rows[q].requests]
    BY <1>3 DEF RunsInv, RunInv, RowLags, Recorded
  <2> QED BY <2>1 DEF Spent
<1>6. \A p \in Runs : UnderWay(p)' => p = r /\ Min({ConfiguredRequests, Left}) # 0
  BY <1>1, <1>3, <1>t DEF RunsTypeOK, UnderWay, Ended
<1>7. used'[r] = 0 /\ cap'[r] = Min({ConfiguredRequests, Left})
  BY <1>1, <1>t DEF RunsInv, RunInv, RowLags, RunsTypeOK
<1>8. /\ Spent \in Int /\ Min({ConfiguredRequests, Left}) \in Int
      /\ Min({ConfiguredRequests, Left}) # 0 => Spent + Min({ConfiguredRequests, Left}) <= Budget
  BY <1>t, LeftBounds
<1>9. UnderWay(r)' => (Total(Recorded', Runs) - used'[r]) + cap'[r] <= Budget
  <2>1. Total(Recorded', Runs) = Spent
    BY <1>4, <1>5
  <2>2. UnderWay(r)' => Min({ConfiguredRequests, Left}) # 0
    BY <1>6
  <2> QED BY <1>7, <1>8, <2>1, <2>2
<1> QED BY <1>3, <1>4, <1>6, <1>9

(* every other step stays within it.                                        *)
LEMMA BudgetStays ==
  ASSUME RunsInv, NEW r \in Runs, Run(r), RunsTypeOK', RunInv(r)'
  PROVE  Budgeted'
<1>1. CASE ReadHistory(r)
  BY <1>1, BudgetTaken
<1>2. CASE ~ReadHistory(r)
  <2>t. RunsTypeOK /\ OthersStay(r)
    BY OnlyOwn DEF RunsInv
  <2>1. UnderWay(r)
    BY <1>2 DEF Run, StartRun, AtCeiling, AskAgain, Ask, Discover, Answered, ReadKnown, SelectMatches,
         LeaveLoop, TakeMatch, FetchMatch, FetchTimeline, PutArchive, Finalize, Checkpoint, Finish,
         Throw, RecordFailure, Kill, UnderWay, Ended, Trying, Calling
  <2>2. overlap' = overlap /\ cap' = cap
    BY <1>2 DEF Run, StartRun, AtCeiling, AskAgain, Discover, ReadKnown, SelectMatches,
         LeaveLoop, TakeMatch, FetchMatch, FetchTimeline, PutArchive, Finalize, Checkpoint, Finish,
         Throw, RecordFailure, Kill, past
  <2>3. Recorded'[r] = IF stage'[r] = "killed" THEN rows'[r].requests ELSE used'[r]
    BY DEF Recorded
  <2>4. rows'[r].requests <= used'[r] /\ used'[r] <= cap'[r]
    BY DEF RunInv, RowLags
  <2>5. /\ rows'[r].requests \in Int /\ used'[r] \in Int /\ cap'[r] \in Int
        /\ cap'[r] = cap[r]
    BY <2>2 DEF RunsTypeOK
  <2>6. Recorded'[r] <= cap[r] /\ (UnderWay(r)' => Recorded'[r] = used'[r])
    BY <2>3, <2>4, <2>5 DEF UnderWay, Ended
  <2> QED BY <2>t, <2>1, <2>2, <2>5, <2>6, BudgetKept
<1> QED BY <1>1, <1>2

LEMMA RunsInitInv == RunsInit => RunsInv
<1> SUFFICES ASSUME RunsInit PROVE RunsInv
  OBVIOUS
<1>1. RunsTypeOK
  <2>1. 0 \in 0..ConfiguredRequests /\ 0 \in 0..(Attempts - 1)
    BY RunAssumption
  <2>2. RowTypes /\ PlaceTypes
    BY PlacesAre DEF RunsInit, RowTypes, PlaceTypes, NoRow
  <2>3. CountTypes
    BY <2>1 DEF RunsInit, CountTypes
  <2>4. PlanTypes
    BY DEF RunsInit, PlanTypes
  <2>5. TallyTypes /\ PastTypes
    BY DEF RunsInit, TallyTypes, PastTypes
  <2> QED BY <2>2, <2>3, <2>4, <2>5, TypesTogether
<1>2. Cardinality({}) = 0 /\ Total(Bytes, {}) = 0 /\ Total(PgBytes, {}) = 0
  BY FS_EmptySet, SumAtChosen, TotalIsSum
<1>3. ASSUME NEW r \in Runs PROVE RunInv(r)
  <2>1. /\ stage[r] = "idle" /\ took[r] = {} /\ put[r] = {} /\ rows[r] = NoRow /\ used[r] = 0
        /\ cap[r] = 0 /\ ingested[r] = 0 /\ bytes[r] = 0 /\ pgBytes[r] = 0 /\ selected[r] = <<>>
        /\ Recorded[r] = 0
    BY DEF RunsInit, Recorded
  <2>2. Counted(r)
    BY <1>2, <2>1 DEF Counted
  <2>3. Affordable(r)
    BY <2>1 DEF Affordable
  <2>4. RowLags(r)
    BY <1>2, <2>1 DEF RowLags, NoRow
  <2>5. RunWithin(r)
    BY <1>2, <2>1, RunAssumption DEF RunWithin, NoRow
  <2> QED BY <2>2, <2>3, <2>4, <2>5 DEF RunInv
<1>4. Budgeted
  <2>1. \A r \in Runs : ~UnderWay(r)
    BY DEF RunsInit, UnderWay
  <2>2. Total(Recorded, Runs) = 0
    <3> DEFINE Good == {S \in SUBSET Runs : SumOf(Recorded, S) = 0}
    <3>0. \A r \in Runs : Recorded[r] = 0
      BY DEF RunsInit, Recorded
    <3>1. {} \in Good
      BY SumAtChosen, FS_EmptySet
    <3>2. \A S \in SUBSET Runs : \A r \in Runs \ S : S \in Good => S \cup {r} \in Good
      <4>1. ASSUME NEW S \in SUBSET Runs, NEW r \in Runs \ S, SumOf(Recorded, S) = 0
            PROVE  SumOf(Recorded, S \cup {r}) = 0
        <5>1. IsFiniteSet(S) /\ r \notin S /\ \A q \in S \cup {r} : Recorded[q] \in Int
          BY <3>0, FS_Subset, RunAssumption
        <5>2. SumOf(Recorded, S \cup {r}) = SumOf(Recorded, S) + Recorded[r]
          BY <5>1, SumOneMore
        <5> QED BY <3>0, <4>1, <5>2
      <4> QED BY <4>1
    <3>3. Runs \in Good
      <4> HIDE DEF Good
      <4> QED BY <3>1, <3>2, ByElements, RunAssumption
    <3> QED BY <3>3, TotalIsSum
  <2>3. 0 <= Budget
    <3>1. GlobalCeiling - Reserve \in Int
      BY RunAssumption
    <3> QED BY <3>1, BudgetInt DEF Budget
  <2> QED BY <2>1, <2>2, <2>3 DEF Budgeted
<1> QED BY <1>1, <1>3, <1>4 DEF RunsInv

LEMMA RunsNextInv == RunsInv /\ [RunsNext]_runVars => RunsInv'
<1> SUFFICES ASSUME RunsInv, [RunsNext]_runVars PROVE RunsInv'
  OBVIOUS
<1>1. ASSUME NEW r \in Runs, Run(r) PROVE RunsInv'
  <2>1. RunsTypeOK' /\ OthersStay(r) /\ RunsTypeOK
    BY <1>1, TypeKept, OnlyOwn DEF RunsInv
  <2>2. RunInv(r)'
    BY <1>1, <2>1, OwnKept
  <2>3. ASSUME NEW q \in Runs \ {r} PROVE RunInv(q)'
    <3>1. RunInv(q)
      BY DEF RunsInv
    <3> QED BY <2>1, <3>1, OthersKeep
  <2>4. Budgeted'
    BY <1>1, <2>1, <2>2, BudgetStays
  <2>5. \A q \in Runs : RunInv(q)'
    BY <2>2, <2>3
  <2> QED BY <2>1, <2>4, <2>5 DEF RunsInv
<1>2. ASSUME UNCHANGED runVars PROVE RunsInv'
  <2> USE <1>2 DEF runVars, plan, tally, past
  <2>1. RunsTypeOK'
    BY DEF RunsInv, RunsTypeOK
  <2>2. Recorded' = Recorded
    BY DEF Recorded
  <2>3. ASSUME NEW r \in Runs PROVE RunInv(r)'
    <3>1. Counted(r)' /\ Affordable(r)'
      BY DEF RunsInv, RunInv, Counted, Counting, Affordable
    <3>2. RowLags(r)' /\ RunWithin(r)'
      BY <2>2 DEF RunsInv, RunInv, RowLags, RunWithin, Counting, UnderWay
    <3> QED BY <3>1, <3>2 DEF RunInv
  <2>4. Budgeted'
    BY <2>2 DEF RunsInv, Budgeted, UnderWay
  <2> QED BY <2>1, <2>3, <2>4 DEF RunsInv
<1> QED BY <1>1, <1>2 DEF RunsNext

(* The runs, their rows and what they put have their types (ingest.ts).     *)
THEOREM RunsTyped == RunsSpec => []RunsTypeOK
<1>1. RunsInv => RunsTypeOK
  BY DEF RunsInv
<1> QED BY <1>1, RunsInitInv, RunsNextInv, PTL DEF RunsSpec

(* For any number of runs, matches of any size and any ceilings: no run     *)
(* puts or takes more than its ceilings allow, runs that do not overlap     *)
(* never record more requests than the global ceiling leaves beside its     *)
(* reserve, and a row lags behind by one match at most (ingest.ts:190-438,  *)
(* limits.ts:15).                                                           *)
THEOREM AlwaysWithinCeilings == RunsSpec => []WithinCeilings
BY RunsInitInv, RunsNextInv, RunsInvImplies, PTL DEF RunsSpec

-----------------------------------------------------------------------------
(* Lists of identifiers, and what they are when they are sorted. *)
LEMMA FiniteToSet ==
  ASSUME NEW S, NEW s \in Seq(S)
  PROVE  /\ IsFiniteSet(ToSet(s)) /\ ToSet(s) \subseteq S
         /\ Cardinality(ToSet(s)) <= Len(s) /\ Cardinality(ToSet(s)) \in Nat
         /\ Cardinality(ToSet(s)) = Len(s) <=> NoRepeat(s)
<1>1. Len(s) \in Nat /\ DOMAIN s = 1..Len(s) /\ s \in [1..Len(s) -> S]
  BY LenProperties
<1>2. IsFiniteSet(1..Len(s)) /\ Cardinality(1..Len(s)) = Len(s)
  BY <1>1, FS_Interval
<1>3. s \in [1..Len(s) -> ToSet(s)] /\ ToSet(s) \subseteq S
  BY <1>1 DEF ToSet
<1>4. s \in Surjection(1..Len(s), ToSet(s))
  <2>1. \A x \in ToSet(s) : \E i \in 1..Len(s) : s[i] = x
    BY <1>1 DEF ToSet
  <2> QED BY <1>3, <2>1 DEF Surjection
<1>5. s \in Injection(1..Len(s), ToSet(s)) <=> NoRepeat(s)
  BY <1>1, <1>3 DEF Injection, IsInjective, NoRepeat
<1> QED BY <1>2, <1>3, <1>4, <1>5, FS_Surjection, FS_CardinalityType

LEMMA AscendingList ==
  ASSUME NEW K, K \subseteq Int, IsFiniteSet(K)
  PROVE  /\ Ascending(K) \in Seq(K) /\ Len(Ascending(K)) = Cardinality(K)
         /\ DOMAIN Ascending(K) = 1..Cardinality(K)
         /\ ToSet(Ascending(K)) = K /\ NoRepeat(Ascending(K))
<1>1. /\ Cardinality(K) \in Nat
      /\ \A n \in 1..Cardinality(K) : Nth(K, n) \in K /\ Place(K, Nth(K, n)) = n
      /\ \A i \in K : Place(K, i) \in 1..Cardinality(K) /\ Nth(K, Place(K, i)) = i
  BY NthPlace
<1>2. /\ DOMAIN Ascending(K) = 1..Cardinality(K)
      /\ \A n \in 1..Cardinality(K) : Ascending(K)[n] = Nth(K, n)
  BY DEF Ascending
<1>3. Ascending(K) \in [1..Cardinality(K) -> K]
  BY <1>1 DEF Ascending
<1>4. Ascending(K) \in Seq(K) /\ Len(Ascending(K)) = Cardinality(K)
  BY <1>1, <1>3
<1>5. ToSet(Ascending(K)) = K
  BY <1>1, <1>2 DEF ToSet
<1>6. NoRepeat(Ascending(K))
  BY <1>1, <1>2 DEF NoRepeat
<1> QED BY <1>2, <1>4, <1>5, <1>6

LEMMA SortedAgain ==
  ASSUME NEW s \in Seq(Nat)
  PROVE  /\ SortedIds(s) \in Seq(Nat) /\ SortedIds(SortedIds(s)) = SortedIds(s)
         /\ NoRepeat(SortedIds(s)) /\ (s # << >> => SortedIds(s) # << >>)
<1>1. IsFiniteSet(ToSet(s)) /\ ToSet(s) \subseteq Int /\ ToSet(s) \subseteq Nat
  BY FiniteToSet
<1>2. /\ Ascending(ToSet(s)) \in Seq(ToSet(s)) /\ ToSet(Ascending(ToSet(s))) = ToSet(s)
      /\ NoRepeat(Ascending(ToSet(s)))
  BY <1>1, AscendingList
<1>3. Ascending(ToSet(s)) \in Seq(Nat)
  BY <1>1, <1>2, SeqMonotonic
<1>4. s # << >> => Ascending(ToSet(s)) # << >>
  <2> SUFFICES ASSUME s # << >>, Ascending(ToSet(s)) = << >> PROVE FALSE
    OBVIOUS
  <2>1. 1 \in DOMAIN s
    BY LenProperties, EmptySeq
  <2>2. s[1] \in ToSet(s)
    BY <2>1 DEF ToSet
  <2>3. ToSet(<< >>) = {}
    BY DEF ToSet
  <2> QED BY <1>2, <2>2, <2>3
<1> QED BY <1>2, <1>3, <1>4 DEF SortedIds

IdList(list) == Field(list, LAMBDA e : e.id)
Identified(list, S) == list \in Seq(S) /\ (\A e \in S : e.id \in Nat) /\ NoRepeat(IdList(list))

LEMMA IdentifiedList ==
  ASSUME NEW S, NEW list, Identified(list, S)
  PROVE  /\ IsFiniteSet(IdsOf(list)) /\ IdsOf(list) \subseteq Nat
         /\ Cardinality(IdsOf(list)) = Len(list) /\ Len(list) \in Nat /\ DOMAIN list = 1..Len(list)
         /\ \A i \in DOMAIN list : ById(list, list[i].id) = list[i]
         /\ \A id \in IdsOf(list) : ById(list, id).id = id /\ \E i \in DOMAIN list : list[i] = ById(list, id)
<1>1. /\ Len(list) \in Nat /\ DOMAIN list = 1..Len(list) /\ \A i \in DOMAIN list : list[i] \in S
      /\ \A e \in S : e.id \in Nat
  BY LenProperties, ElementOfSeq DEF Identified
<1>2. IdList(list) = [i \in DOMAIN list |-> list[i].id]
  BY DEF IdList, Field
<1>3. IdList(list) \in Seq(Nat) /\ Len(IdList(list)) = Len(list)
  <2>1. IdList(list) \in [1..Len(list) -> Nat]
    BY <1>1, <1>2
  <2> QED BY <1>1, <2>1
<1>4. ToSet(IdList(list)) = IdsOf(list)
  BY <1>2 DEF ToSet, IdsOf
<1>5. NoRepeat(IdList(list))
  BY DEF Identified
<1>6. IsFiniteSet(IdsOf(list)) /\ IdsOf(list) \subseteq Nat /\ Cardinality(IdsOf(list)) = Len(list)
  BY <1>3, <1>4, <1>5, FiniteToSet
<1>7. \A i, j \in DOMAIN list : list[i].id = list[j].id => i = j
  BY <1>2, <1>5 DEF NoRepeat
<1>8. ASSUME NEW i \in DOMAIN list PROVE ById(list, list[i].id) = list[i]
  <2>1. (CHOOSE j \in DOMAIN list : list[j].id = list[i].id) = i
    BY <1>7
  <2> QED BY <2>1 DEF ById
<1>9. ASSUME NEW id \in IdsOf(list)
      PROVE  ById(list, id).id = id /\ \E i \in DOMAIN list : list[i] = ById(list, id)
  <2>1. PICK i \in DOMAIN list : list[i].id = id
    BY DEF IdsOf
  <2> QED BY <1>8, <2>1
<1> QED BY <1>1, <1>6, <1>8, <1>9

Artifacts == [id : Nat, path : STRING, pinned : BOOLEAN]
Retained == [id : Nat, bytes : STRING]

LEMMA DraftsAndStores ==
  /\ \A d \in Drafts : /\ d.regions \in Seq(Nat) /\ d.required \in Seq(Nat) /\ d.pinned \in BOOLEAN
                       /\ d.artifacts \in Seq(Artifacts)
                       /\ WellFormed(d) => Identified(d.artifacts, Artifacts)
  /\ \A s \in Stores : /\ s \in Seq(Retained)
                       /\ \A ids : Inventory(s, ids) => Identified(s, Retained)
<1>1. ASSUME NEW d \in Drafts
      PROVE  /\ d.regions \in Seq(Nat) /\ d.required \in Seq(Nat) /\ d.pinned \in BOOLEAN
             /\ d.artifacts \in Seq(Artifacts)
             /\ WellFormed(d) => Identified(d.artifacts, Artifacts)
  BY SetsAssumption DEF WellFormed, Identified, IdList, Artifacts
<1>2. ASSUME NEW s \in Stores
      PROVE s \in Seq(Retained) /\ \A ids : Inventory(s, ids) => Identified(s, Retained)
  BY SetsAssumption DEF Inventory, Identified, IdList, Retained
<1> QED BY <1>1, <1>2

Labelled(d, store) ==
  [i \in DOMAIN Ascending(IdsOf(d.artifacts)) |->
     LET it == ById(d.artifacts, Ascending(IdsOf(d.artifacts))[i])
     IN [id |-> it.id, path |-> it.path, pinned |-> it.pinned, hash |-> BytesFrom(store, it.id)]]

LEMMA HashedShape ==
  ASSUME NEW d, NEW store
  PROVE  /\ Hashed(d, store) =
              [pinned |-> d.pinned, required |-> SortedIds(d.required), regions |-> SortedIds(d.regions),
               artifacts |-> Labelled(d, store), hash |-> Hashed(d, store).hash]
         /\ Hashed(d, store).hash = SetHash(Hashed(d, store))
         /\ \A e \in Altered(Hashed(d, store)) : e.hash = Hashed(d, store).hash
<1>1. Hashed(d, store) =
              [pinned |-> d.pinned, required |-> SortedIds(d.required), regions |-> SortedIds(d.regions),
               artifacts |-> Labelled(d, store), hash |-> Hashed(d, store).hash]
  BY DEF Hashed, Labelled
<1>2. Hashed(d, store).hash = SetHash(Hashed(d, store))
  BY DEF Hashed, SetHash
<1>3. ASSUME NEW p, NEW q, NEW r, NEW a, NEW h, NEW b, b = [pinned |-> p, required |-> q, regions |-> r, artifacts |-> a, hash |-> h],
             NEW e \in Altered(b)
      PROVE e.hash = h
  BY <1>3 DEF Altered
<1>4. ASSUME NEW e \in Altered(Hashed(d, store)) PROVE e.hash = Hashed(d, store).hash
  <2> DEFINE b == Hashed(d, store)
  <2>1. b = [pinned |-> d.pinned, required |-> SortedIds(d.required), regions |-> SortedIds(d.regions),
             artifacts |-> Labelled(d, store), hash |-> b.hash] /\ e \in Altered(b)
    BY <1>1, <1>4
  <2> HIDE DEF b
  <2>2. e.hash = b.hash
    BY <1>3, <2>1
  <2> QED BY <2>2 DEF b
<1> QED BY <1>1, <1>2, <1>4

LEMMA BuiltSet ==
  ASSUME NEW d \in Drafts, NEW store \in Stores, WellFormed(d), Inventory(store, IdsOf(d.artifacts)),
         NEW b, b = Hashed(d, store)
  PROVE  /\ WellFormed(b) /\ Canonical(b)
         /\ IdsOf(b.artifacts) = IdsOf(store)
         /\ \A i \in DOMAIN b.artifacts : b.artifacts[i].hash = BytesFrom(store, b.artifacts[i].id)
         /\ b.hash = SetHash(b) /\ \A e \in Altered(b) : e.hash = b.hash
<1> DEFINE A == d.artifacts
           K == IdsOf(A)
           ids == Ascending(K)
<1>1. /\ d.regions \in Seq(Nat) /\ d.required \in Seq(Nat) /\ Identified(A, Artifacts)
      /\ A # << >> /\ d.required # << >> /\ d.regions # << >>
      /\ NoRepeat(Field(A, LAMBDA a : a.path))
      /\ \A i, j \in DOMAIN A : <<A[i].path, A[j].path>> \notin Under
  BY DraftsAndStores DEF WellFormed
<1>2. /\ IsFiniteSet(K) /\ K \subseteq Nat /\ Cardinality(K) = Len(A) /\ Len(A) \in Nat
      /\ DOMAIN A = 1..Len(A)
      /\ \A id \in K : ById(A, id).id = id /\ \E i \in DOMAIN A : A[i] = ById(A, id)
  BY <1>1, IdentifiedList
<1>3. /\ DOMAIN ids = 1..Len(A) /\ ToSet(ids) = K /\ NoRepeat(ids) /\ ids \in Seq(K)
  BY <1>2, AscendingList
<1>4. /\ b.pinned = d.pinned /\ b.required = SortedIds(d.required) /\ b.regions = SortedIds(d.regions)
      /\ b.artifacts = Labelled(d, store) /\ b.hash = SetHash(b) /\ \A e \in Altered(b) : e.hash = b.hash
  BY HashedShape
<1>5. ASSUME NEW i \in DOMAIN ids
      PROVE  /\ ids[i] \in K
             /\ b.artifacts[i].id = ids[i] /\ b.artifacts[i].path = ById(A, ids[i]).path
             /\ b.artifacts[i].hash = BytesFrom(store, b.artifacts[i].id)
  <2>1. ids[i] \in K
    BY <1>3 DEF ToSet
  <2>2. ById(A, ids[i]).id = ids[i]
    BY <1>2, <2>1
  <2>3. b.artifacts[i] = [id |-> ById(A, ids[i]).id, path |-> ById(A, ids[i]).path,
                          pinned |-> ById(A, ids[i]).pinned, hash |-> BytesFrom(store, ById(A, ids[i]).id)]
    BY <1>4 DEF Labelled
  <2> QED BY <2>1, <2>2, <2>3
<1>6. DOMAIN b.artifacts = DOMAIN ids
  BY <1>4 DEF Labelled
<1>7. IdsOf(b.artifacts) = K
  <2>1. IdsOf(b.artifacts) = ToSet(ids)
    <3> HIDE DEF K, ids
    <3> QED BY <1>5, <1>6 DEF IdsOf, ToSet
  <2> QED BY <1>3, <2>1
<1>8. Field(b.artifacts, LAMBDA a : a.id) = ids
  <2>1. ids = [i \in DOMAIN ids |-> ids[i]]
    BY DEF Ascending
  <2>2. [i \in DOMAIN b.artifacts |-> b.artifacts[i].id] = [i \in DOMAIN ids |-> ids[i]]
    BY <1>5, <1>6
  <2> QED BY <2>1, <2>2 DEF Field
<1>9. Canonical(b)
  <2>1. b.required = SortedIds(b.required) /\ b.regions = SortedIds(b.regions)
    BY <1>1, <1>4, SortedAgain
  <2> QED BY <1>7, <1>8, <2>1 DEF Canonical
<1>10. b.artifacts # << >> /\ b.required # << >> /\ b.regions # << >>
  <2>1. b.required # << >> /\ b.regions # << >>
    <3>1. SortedIds(d.required) # << >> /\ SortedIds(d.regions) # << >>
      BY <1>1, SortedAgain
    <3> QED BY <1>4, <3>1
  <2>2. 1 \in DOMAIN A
    BY <1>1, <1>2, EmptySeq DEF Identified
  <2>3. 1 \in DOMAIN b.artifacts
    BY <1>2, <1>3, <1>6, <2>2
  <2> QED BY <2>1, <2>3
<1>11. NoRepeat(b.required) /\ NoRepeat(b.regions) /\ NoRepeat(Field(b.artifacts, LAMBDA a : a.id))
  <2>1. NoRepeat(SortedIds(d.required)) /\ NoRepeat(SortedIds(d.regions))
    BY <1>1, SortedAgain
  <2>2. NoRepeat(Field(b.artifacts, LAMBDA a : a.id))
    BY <1>3, <1>8
  <2> QED BY <1>4, <2>1, <2>2
<1>12. /\ NoRepeat(Field(b.artifacts, LAMBDA a : a.path))
       /\ \A i, j \in DOMAIN b.artifacts : <<b.artifacts[i].path, b.artifacts[j].path>> \notin Under
  <2>1. ASSUME NEW i \in DOMAIN b.artifacts, NEW j \in DOMAIN b.artifacts
        PROVE  /\ <<b.artifacts[i].path, b.artifacts[j].path>> \notin Under
               /\ b.artifacts[i].path = b.artifacts[j].path => i = j
    <3>1. PICK k \in DOMAIN A, l \in DOMAIN A : A[k] = ById(A, ids[i]) /\ A[l] = ById(A, ids[j])
      BY <1>2, <1>5, <1>6
    <3>2. b.artifacts[i].path = A[k].path /\ b.artifacts[j].path = A[l].path
      BY <1>5, <1>6, <3>1
    <3>3. A[k].path = A[l].path => k = l
      BY <1>1 DEF NoRepeat, Field
    <3>4. A[k].id = ids[i] /\ A[l].id = ids[j]
      BY <1>2, <1>5, <1>6, <3>1
    <3>5. ids[i] = ids[j] => i = j
      BY <1>3, <1>6 DEF NoRepeat
    <3> QED BY <1>1, <3>2, <3>3, <3>4, <3>5
  <2> DEFINE paths == Field(b.artifacts, LAMBDA a : a.path)
  <2>2. DOMAIN paths = DOMAIN b.artifacts /\ \A i \in DOMAIN b.artifacts : paths[i] = b.artifacts[i].path
    BY DEF Field
  <2>3. \A i, j \in DOMAIN b.artifacts : b.artifacts[i].path = b.artifacts[j].path => i = j
    BY <2>1
  <2>4. NoRepeat(paths)
    <3> HIDE DEF paths
    <3>1. \A i, j \in DOMAIN paths : paths[i] = paths[j] => i = j
      BY <2>2, <2>3
    <3> QED BY <3>1 DEF NoRepeat
  <2> QED BY <2>1, <2>4
<1>13. WellFormed(b)
  BY <1>10, <1>11, <1>12 DEF WellFormed
<1>14. IdsOf(b.artifacts) = IdsOf(store)
  BY <1>7 DEF Inventory
<1> QED BY <1>4, <1>5, <1>6, <1>9, <1>13, <1>14

-----------------------------------------------------------------------------
(* What is known of a set from its draft to its catalog. *)
Made ==
  /\ WellFormed(draft) /\ asBuilt = <<Hashed(draft, asBuilt[2]), asBuilt[2]>>
  /\ asBuilt[2] \in Stores /\ Inventory(asBuilt[2], IdsOf(draft.artifacts))
  /\ document.hash = asBuilt[1].hash

Read ==
  /\ reading.hash = asBuilt[1].hash
  /\ copy \in Stores /\ Inventory(copy, IdsOf(reading.artifacts))
  /\ compared \in Nat
  /\ \A k \in 1..compared : BytesFrom(copy, reading.artifacts[k].id) = reading.artifacts[k].hash

Compiled ==
  /\ compared = Len(reading.artifacts) /\ reading.hash = SetHash(reading)
  /\ catalog = <<reading, copy>>

Refusable ==
  \/ reading # asBuilt[1] \/ ~SameBytes(copy, asBuilt[2]) \/ Len(copy) # Len(asBuilt[2])
  \/ ~Pinned(reading) \/ ~RequiredThere(reading)

SetsInv ==
  /\ draft \in Drafts /\ retained \in Stores
  /\ step \in {"draft", "refused", "built", "comparing", "compiled", "rejected"}
  /\ step = "draft" => compared = 0
  /\ step = "built" => compared = 0
  /\ step \notin {"draft", "refused"} => Made
  /\ step \in {"comparing", "compiled"} => Read
  /\ step = "compiled" => Compiled
  /\ step = "rejected" => Refusable

LEMMA SetsStart == SetsInit => SetsInv
BY DEF SetsInit, SetsInv

LEMMA SetsSteps == SetsInv /\ [SetsNext]_setVars => SetsInv'
<1> SUFFICES ASSUME SetsInv, [SetsNext]_setVars PROVE SetsInv'
  OBVIOUS
<1> USE DEF SetsInv
<1>0. ASSUME step \notin {"draft", "refused"}
      PROVE  /\ asBuilt[1] = Hashed(draft, asBuilt[2]) /\ WellFormed(asBuilt[1]) /\ Canonical(asBuilt[1])
             /\ IdsOf(asBuilt[1].artifacts) = IdsOf(asBuilt[2])
             /\ \A i \in DOMAIN asBuilt[1].artifacts :
                  asBuilt[1].artifacts[i].hash = BytesFrom(asBuilt[2], asBuilt[1].artifacts[i].id)
             /\ asBuilt[1].hash = SetHash(asBuilt[1])
             /\ \A e \in Altered(asBuilt[1]) : e.hash = asBuilt[1].hash
  <2>1. /\ asBuilt[1] = Hashed(draft, asBuilt[2]) /\ asBuilt[2] \in Stores /\ draft \in Drafts
        /\ WellFormed(draft) /\ Inventory(asBuilt[2], IdsOf(draft.artifacts))
    BY <1>0 DEF Made
  <2> QED BY <2>1, BuiltSet
<1>1. CASE BuildSet
  <2>1. CASE Inventory(retained, IdsOf(draft.artifacts)) /\ WellFormed(draft)
    <3>1. /\ document' = Hashed(draft, retained) /\ asBuilt' = <<document', retained>> /\ step' = "built"
          /\ UNCHANGED <<draft, retained, compared>> /\ compared = 0
      BY <1>1, <2>1 DEF BuildSet
    <3>2. Made'
      BY <2>1, <3>1 DEF Made
    <3> QED BY <3>1, <3>2
  <2>2. CASE ~(Inventory(retained, IdsOf(draft.artifacts)) /\ WellFormed(draft))
    BY <1>1, <2>2 DEF BuildSet
  <2> QED BY <2>1, <2>2
<1>2. CASE EditDocument
  <2>1. /\ step = "built" /\ document' \in Altered(asBuilt[1])
        /\ UNCHANGED <<draft, retained, asBuilt, compared, step>>
    BY <1>2 DEF EditDocument
  <2>2. document'.hash = asBuilt[1].hash
    BY <1>0, <2>1
  <2>3. Made'
    BY <2>1, <2>2 DEF Made
  <2> QED BY <2>1, <2>3
<1>3. ASSUME NEW store \in Stores, ChangeBytes(store) PROVE SetsInv'
  BY <1>3 DEF ChangeBytes, Made, Read, Compiled, Refusable
<1>4. CASE ReadSet
  <2>1. /\ step = "built" /\ copy' = retained /\ reading' = document /\ compared = 0
        /\ UNCHANGED <<draft, retained, document, asBuilt, compared>>
    BY <1>4 DEF ReadSet
  <2>2. Made'
    BY <2>1 DEF Made
  <2>3. CASE /\ WellFormed(document) /\ Canonical(document) /\ Pinned(document)
             /\ RequiredThere(document) /\ Inventory(retained, IdsOf(document.artifacts))
    <3>1. step' = "comparing"
      BY <1>4, <2>3 DEF ReadSet
    <3>2. Read'
      <4>1. document.hash = asBuilt[1].hash
        BY <2>1 DEF Made
      <4>2. 1..compared = {}
        BY <2>1
      <4> QED BY <2>1, <2>3, <4>1, <4>2 DEF Read
    <3> QED BY <2>1, <2>2, <3>1, <3>2
  <2>4. CASE ~(/\ WellFormed(document) /\ Canonical(document) /\ Pinned(document)
               /\ RequiredThere(document) /\ Inventory(retained, IdsOf(document.artifacts)))
    <3>1. step' = "rejected"
      BY <1>4, <2>4 DEF ReadSet
    <3>2. ASSUME document = asBuilt[1], SameBytes(retained, asBuilt[2]), Len(retained) = Len(asBuilt[2]),
                 Pinned(document), RequiredThere(document)
          PROVE  FALSE
      <4>1. WellFormed(document) /\ Canonical(document) /\ IdsOf(document.artifacts) = IdsOf(asBuilt[2])
        BY <1>0, <2>1, <3>2
      <4>2. IdsOf(retained) = IdsOf(asBuilt[2])
        BY <3>2 DEF SameBytes
      <4>3. asBuilt[2] \in Stores /\ Inventory(asBuilt[2], IdsOf(draft.artifacts))
        BY <2>1 DEF Made
      <4>4. Identified(asBuilt[2], Retained) /\ retained \in Seq(Retained) /\ \A e \in Retained : e.id \in Nat
        BY <4>3, DraftsAndStores DEF Retained
      <4>5. Cardinality(IdsOf(asBuilt[2])) = Len(asBuilt[2])
        BY <4>4, IdentifiedList
      <4>6. NoRepeat(IdList(retained))
        <5>1. Len(retained) \in Nat /\ DOMAIN retained = 1..Len(retained)
              /\ \A i \in DOMAIN retained : retained[i] \in Retained
          BY <4>4, LenProperties, ElementOfSeq
        <5>2. IdList(retained) = [i \in DOMAIN retained |-> retained[i].id]
          BY DEF IdList, Field
        <5>3. IdList(retained) \in Seq(Nat) /\ Len(IdList(retained)) = Len(retained)
          <6>1. IdList(retained) \in [1..Len(retained) -> Nat]
            BY <4>4, <5>1, <5>2
          <6> QED BY <5>1, <6>1
        <5>4. ToSet(IdList(retained)) = IdsOf(retained)
          BY <5>2 DEF ToSet, IdsOf
        <5>5. Cardinality(ToSet(IdList(retained))) = Len(IdList(retained))
          BY <3>2, <4>2, <4>5, <5>3, <5>4
        <5> QED BY <5>3, <5>5, FiniteToSet
      <4>7. Inventory(retained, IdsOf(document.artifacts))
        BY <4>1, <4>2, <4>6 DEF Inventory, IdList
      <4> QED BY <2>4, <3>2, <4>1, <4>7
    <3>3. Refusable'
      BY <2>1, <3>2 DEF Refusable
    <3> QED BY <2>1, <2>2, <3>1, <3>3
  <2> QED BY <2>3, <2>4
<1>5. CASE CompareArtifact
  <2> DEFINE artifact == reading.artifacts[compared + 1]
  <2>1. /\ step = "comparing" /\ compared < Len(reading.artifacts)
        /\ UNCHANGED <<draft, retained, document, asBuilt, reading, copy, catalog>>
    BY <1>5 DEF CompareArtifact
  <2>2. Made' /\ Read
    BY <2>1 DEF Made
  <2>3. CASE BytesFrom(copy, artifact.id) = artifact.hash
    <3>1. compared' = compared + 1 /\ step' = step
      BY <1>5, <2>3 DEF CompareArtifact, ReaderBytes
    <3>2. Read'
      <4>1. compared' \in Nat /\ \A k \in 1..compared' : k \in 1..compared \/ k = compared + 1
        BY <2>2, <3>1 DEF Read
      <4> QED BY <2>1, <2>2, <2>3, <4>1 DEF Read
    <3> QED BY <2>1, <2>2, <3>1, <3>2
  <2>4. CASE BytesFrom(copy, artifact.id) # artifact.hash
    <3>1. step' = "rejected"
      BY <1>5, <2>4 DEF CompareArtifact, ReaderBytes
    <3>2. ASSUME reading = asBuilt[1], SameBytes(copy, asBuilt[2]) PROVE FALSE
      <4>1. WellFormed(reading) /\ IdsOf(reading.artifacts) = IdsOf(asBuilt[2])
            /\ \A i \in DOMAIN reading.artifacts :
                 reading.artifacts[i].hash = BytesFrom(asBuilt[2], reading.artifacts[i].id)
        BY <1>0, <2>1, <3>2
      <4>2. compared + 1 \in DOMAIN reading.artifacts
        <5>1. reading.artifacts = Labelled(draft, asBuilt[2])
          BY <1>0, <2>1, <3>2, HashedShape
        <5>2. draft \in Drafts /\ WellFormed(draft)
          BY <2>1 DEF Made
        <5>3. Identified(draft.artifacts, Artifacts)
          BY <5>2, DraftsAndStores
        <5>4. /\ IsFiniteSet(IdsOf(draft.artifacts)) /\ IdsOf(draft.artifacts) \subseteq Int
          BY <5>3, IdentifiedList
        <5>5. DOMAIN reading.artifacts = 1..Cardinality(IdsOf(draft.artifacts))
              /\ Cardinality(IdsOf(draft.artifacts)) \in Nat
          BY <5>1, <5>4, AscendingList, FS_CardinalityType DEF Labelled
        <5>6. Len(reading.artifacts) = Cardinality(IdsOf(draft.artifacts))
          BY <5>1, <5>5 DEF Labelled
        <5> QED BY <2>1, <2>2, <5>5, <5>6 DEF Read
      <4>3. artifact.hash = BytesFrom(asBuilt[2], artifact.id) /\ artifact.id \in IdsOf(asBuilt[2])
        BY <4>1, <4>2 DEF IdsOf
      <4>4. \A id \in IdsOf(asBuilt[2]) : BytesFrom(copy, id) = BytesFrom(asBuilt[2], id)
        BY <3>2 DEF SameBytes
      <4> HIDE DEF artifact
      <4> QED BY <2>4, <4>3, <4>4
    <3>3. Refusable'
      BY <2>1, <3>2 DEF Refusable
    <3> QED BY <2>1, <2>2, <3>1, <3>3
  <2> QED BY <2>3, <2>4
<1>6. CASE CompileCatalog
  <2>1. /\ step = "comparing" /\ compared = Len(reading.artifacts)
        /\ UNCHANGED <<draft, retained, document, asBuilt, reading, copy, compared>>
    BY <1>6 DEF CompileCatalog
  <2>2. Made' /\ Read'
    BY <2>1 DEF Made, Read
  <2>3. CASE reading.hash = SetHash(reading)
    <3>1. step' = "compiled" /\ catalog' = <<reading, copy>>
      BY <1>6, <2>3 DEF CompileCatalog, ReaderBytes
    <3>2. Compiled'
      BY <2>1, <2>3, <3>1 DEF Compiled, SetHash
    <3> QED BY <2>1, <2>2, <3>1, <3>2
  <2>4. CASE reading.hash # SetHash(reading)
    <3>1. step' = "rejected"
      BY <1>6, <2>4 DEF CompileCatalog
    <3>2. Refusable'
      <4>1. reading # asBuilt[1]
        BY <1>0, <2>1, <2>4
      <4> QED BY <2>1, <4>1 DEF Refusable
    <3> QED BY <2>1, <2>2, <3>1, <3>2
  <2> QED BY <2>3, <2>4
<1>7. CASE UNCHANGED setVars
  BY <1>7 DEF setVars, Made, Read, Compiled, Refusable
<1> QED BY <1>1, <1>2, <1>3, <1>4, <1>5, <1>6, <1>7 DEF SetsNext

(* What was compared to its end is what was built. *)
LEMMA SetsImply == SetsInv => CompiledAsBuilt
<1> SUFFICES ASSUME SetsInv PROVE CompiledAsBuilt
  OBVIOUS
<1>1. ASSUME step = "compiled"
      PROVE  /\ [hash |-> SetHash(catalog[1])] = [hash |-> SetHash(asBuilt[1])]
             /\ SameBytes(catalog[2], asBuilt[2])
  <2> DEFINE built == asBuilt[1]
             store == asBuilt[2]
  <2>1. Made /\ Read /\ Compiled /\ draft \in Drafts
    BY <1>1 DEF SetsInv
  <2>2. /\ built = Hashed(draft, store) /\ store \in Stores
        /\ WellFormed(draft) /\ Inventory(store, IdsOf(draft.artifacts))
    BY <2>1 DEF Made
  <2>3. /\ IdsOf(built.artifacts) = IdsOf(store) /\ built.hash = SetHash(built)
        /\ \A i \in DOMAIN built.artifacts :
             built.artifacts[i].hash = BytesFrom(store, built.artifacts[i].id)
    <3> HIDE DEF built, store
    <3> QED BY <2>1, <2>2, BuiltSet
  <2>4. /\ catalog[1] = reading /\ catalog[2] = copy /\ compared = Len(reading.artifacts)
        /\ SetHash(reading) = reading.hash /\ reading.hash = built.hash
        /\ IdsOf(copy) = IdsOf(reading.artifacts)
        /\ \A k \in 1..compared : BytesFrom(copy, reading.artifacts[k].id) = reading.artifacts[k].hash
    BY <2>1 DEF Read, Compiled, Inventory
  <2>5. SetHash(reading) = SetHash(built)
    BY <2>3, <2>4
  <2>6. reading.artifacts = built.artifacts
    <3>1. SetHash(reading).artifacts = SetHash(built).artifacts
      BY <2>5
    <3> QED BY <3>1 DEF SetHash
  <2>7. DOMAIN built.artifacts = 1..Len(built.artifacts)
    <3>1. built.artifacts = Labelled(draft, store)
      <4> HIDE DEF built, store
      <4> QED BY <2>2, HashedShape
    <3>2. IsFiniteSet(IdsOf(draft.artifacts)) /\ IdsOf(draft.artifacts) \subseteq Int
      <4>1. Identified(draft.artifacts, Artifacts)
        BY <2>1, <2>2, DraftsAndStores
      <4> QED BY <4>1, IdentifiedList
    <3>3. DOMAIN built.artifacts = 1..Cardinality(IdsOf(draft.artifacts))
          /\ Cardinality(IdsOf(draft.artifacts)) \in Nat
      BY <3>1, <3>2, AscendingList, FS_CardinalityType DEF Labelled
    <3>4. Len(built.artifacts) = Cardinality(IdsOf(draft.artifacts))
      BY <3>1, <3>3 DEF Labelled
    <3> QED BY <3>3, <3>4
  <2>8. \A id \in IdsOf(copy) : BytesFrom(copy, id) = BytesFrom(store, id)
    <3> SUFFICES ASSUME NEW id \in IdsOf(copy) PROVE BytesFrom(copy, id) = BytesFrom(store, id)
      OBVIOUS
    <3> HIDE DEF built, store
    <3>1. PICK k \in DOMAIN built.artifacts : built.artifacts[k].id = id
      <4>1. id \in IdsOf(built.artifacts)
        BY <2>4, <2>6
      <4> QED BY <4>1 DEF IdsOf
    <3>2. k \in 1..compared
      BY <2>4, <2>6, <2>7
    <3> QED BY <2>3, <2>4, <2>6, <3>1, <3>2
  <2>9. IdsOf(copy) = IdsOf(store)
    BY <2>3, <2>4, <2>6
  <2> QED BY <2>4, <2>5, <2>8, <2>9 DEF SameBytes
<1>2. step = "rejected" =>
        \/ reading # asBuilt[1] \/ ~SameBytes(copy, asBuilt[2]) \/ Len(copy) # Len(asBuilt[2])
        \/ ~Pinned(reading) \/ ~RequiredThere(reading)
  BY DEF SetsInv, Refusable
<1> QED BY <1>1, <1>2 DEF CompiledAsBuilt

(* What is known of a set holds in every reachable state (buildPinnedSourceSet, *)
(* assertPinnedSourceSet): a document kept or read carries the hash of what was  *)
(* built, and what was compared so far agrees with the copied bytes.            *)
THEOREM SetsInvariant == SetsSpec => []SetsInv
<1>1. SetsInit => SetsInv
  BY SetsStart
<1>2. SetsInv /\ [SetsNext]_setVars => SetsInv'
  BY SetsSteps
<1> QED BY <1>1, <1>2, PTL DEF SetsSpec

(* compileDataDragonSourceCatalog compiles from the set and the bytes that were *)
(* built or from none, whatever is edited and whenever the bytes change; and    *)
(* what was built and left alone is accepted.                                   *)
THEOREM AlwaysCompiledAsBuilt == SetsSpec => []CompiledAsBuilt
<1>1. SetsSpec => []SetsInv
  BY SetsInvariant
<1>2. SetsInv => CompiledAsBuilt
  BY SetsImply
<1> QED BY <1>1, <1>2, PTL
=============================================================================
