----------------------- MODULE ArchivePipelineProofs -----------------------
(***************************************************************************)
(* The archive pipeline accepts a match once, with archived bytes; the     *)
(* audit's counts stay zero, what is verified is sound and no upload is    *)
(* taken for an orphan; all for any number of matches, sources and runs.   *)
(*                                                                         *)
(* The argument: a manifest never changes its source, and an accepted      *)
(* match never changes its own (Grows).  What a script remembers across an *)
(* await only speaks of these two and of what was in the archive at some   *)
(* time, so no step of another script can make it wrong.  That an object   *)
(* is sound is of that kind too, but for a loss, which is counted; and an  *)
(* uploaded object has had its manifest before, so whoever lists it finds  *)
(* the two together.                                                       *)
(*                                                                         *)
(* At the end, what is made of the archived matches: the weights of a      *)
(* target cohort, and the projection of a match from its events.           *)
(***************************************************************************)
EXTENDS ArchivePipeline, TargetCohort, MatchReplay, InductionLemmas, SequenceTheorems, TLAPS

(* What the counts of the audit say, match by match. *)
TablesAgree ==
  \A m \in Matches :
    /\ pointer[m] \in Sources => descriptor[m] = pointer[m]
    /\ status[m] = "verified" => pointer[m] # NoSource

Owned(s) == s \in Sources /\ descriptor[MatchOf[s]] = s

DatabaseInv ==
  /\ descriptor \in [Matches -> Sources \cup {NoSource}]
  /\ status \in [Matches -> Statuses]
  /\ pointer \in [Matches -> Sources \cup {NoSource, Legacy}]
  /\ \A m \in Matches : descriptor[m] = NoSource <=> status[m] = "none"
  /\ \A m \in Matches : descriptor[m] \in Sources => MatchOf[descriptor[m]] = m
  /\ TablesAgree

StoreInv ==
  /\ bucket \in [Sources -> {"absent", "intact", "damaged"}]
  /\ uploaded \subseteq Sources
  /\ \A s \in Sources : bucket[s] = "intact" => s \in Stored

IngestInv ==
  /\ at \in [Ingesters -> IngestAwaits]
  /\ held \in [Ingesters -> Sources \cup {NoSource}]
  /\ \A p \in Ingesters :
       /\ at[p] # "idle" => held[p] \in Sources
       /\ at[p] \notin {"idle", "intent"} => Owned(held[p])
       /\ at[p] = "finalize" => held[p] \in Stored

(* The awaits of the first loop. *)
FirstLoop == {"manifests", "condemn", "repair", "ensure", "publish"}

ReconcileInv ==
  /\ rTodo \subseteq Sources /\ rListed \subseteq Sources
  /\ rPointer \in Sources \cup {NoSource}
  /\ rAt \in FirstLoop => \A s \in rTodo : Owned(s)
  /\ rAt \in Working => rItem \in Sources
  /\ rAt \in {"condemn", "repair", "ensure", "publish", "persist"} => Owned(rItem)
  /\ rAt \in {"repair", "ensure", "publish", "register", "persist"} => rItem \in Stored
  /\ rAt \in {"ensure", "publish", "register"} =>
       rPointer = NoSource \/ pointer[MatchOf[rItem]] = rItem

RebuildInv ==
  /\ bAt # "idle" => Owned(bItem)
  /\ bAt = "apply" => bItem \in Stored

Inv == DatabaseInv /\ StoreInv /\ IngestInv /\ ReconcileInv /\ RebuildInv

(* What no step undoes: the source of a manifest, the source of an         *)
(* accepted match, and what has been in the archive.                       *)
Grows ==
  /\ \A m \in Matches : descriptor[m] \in Sources => descriptor'[m] = descriptor[m]
  /\ \A m \in Matches : pointer[m] \in Sources => pointer'[m] = pointer[m]
  /\ Stored \subseteq Stored'

-----------------------------------------------------------------------------
(* The transactions, each under what its callers know. *)

DatabaseStep ==
  /\ DatabaseInv'
  /\ \A m \in Matches : descriptor[m] \in Sources => descriptor'[m] = descriptor[m]
  /\ \A m \in Matches : pointer[m] \in Sources => pointer'[m] = pointer[m]

LEMMA EnsureKeeps ==
  ASSUME DatabaseInv, NEW s \in Sources, ~Conflict(s), EnsurePending(s)
  PROVE  DatabaseStep /\ Owned(s)'
BY ArchiveAssumption
   DEF DatabaseInv, DatabaseStep, Conflict, EnsurePending, Owned, TablesAgree, Statuses

LEMMA FailKeeps ==
  ASSUME DatabaseInv, NEW s \in Sources, Owned(s), MarkFailed(s)
  PROVE  DatabaseStep
BY ArchiveAssumption DEF DatabaseInv, DatabaseStep, MarkFailed, Owned, TablesAgree, Statuses

LEMMA VerifyKeeps ==
  ASSUME DatabaseInv, NEW s \in Sources, pointer[MatchOf[s]] = s, MarkVerified(s)
  PROVE  DatabaseStep
BY ArchiveAssumption DEF DatabaseInv, DatabaseStep, MarkVerified, TablesAgree, Statuses

LEMMA PersistKeeps ==
  ASSUME DatabaseInv, NEW s \in Sources, Persist(s)
  PROVE  DatabaseStep
BY ArchiveAssumption DEF DatabaseInv, DatabaseStep, Persist, TablesAgree, Statuses

LEMMA RegisterKeeps ==
  ASSUME DatabaseInv, NEW s \in Sources, ~Conflict(s), pointer[MatchOf[s]] = s,
         descriptor' = [descriptor EXCEPT ![MatchOf[s]] = s],
         status' = [status EXCEPT ![MatchOf[s]] = "verified"],
         UNCHANGED pointer
  PROVE  DatabaseStep
BY ArchiveAssumption DEF DatabaseInv, DatabaseStep, Conflict, TablesAgree, Statuses

LEMMA UnchangedKeeps ==
  ASSUME DatabaseInv, UNCHANGED db
  PROVE  DatabaseStep
BY DEF DatabaseInv, DatabaseStep, db, TablesAgree

(* Whatever happens to the bucket: what has been in it has been in it. *)
StoreStep ==
  /\ StoreInv'
  /\ Stored \subseteq Stored'

LEMMA StoreUnchanged ==
  ASSUME StoreInv, UNCHANGED <<bucket, inherited, uploaded>>
  PROVE  StoreStep /\ Stored' = Stored
BY DEF StoreInv, StoreStep, Stored

LEMMA PutKeeps ==
  ASSUME StoreInv, NEW s \in Sources, Put(s)
  PROVE  StoreStep /\ Stored' = Stored \cup {s}
BY DEF StoreInv, StoreStep, Stored, Put

LEMMA LoseKeeps ==
  ASSUME StoreInv, NEW s \in Sources, Lose(s)
  PROVE  StoreStep /\ Stored' = Stored
BY DEF StoreInv, StoreStep, Stored, Lose

(* What a script knows outlives the steps of the others. *)
LEMMA IngestRemembers ==
  ASSUME IngestInv, Grows, UNCHANGED ingest
  PROVE  IngestInv'
BY ArchiveAssumption DEF IngestInv, Grows, Owned, ingest

LEMMA ReconcileRemembers ==
  ASSUME ReconcileInv, Grows, UNCHANGED reconcile
  PROVE  ReconcileInv'
BY ArchiveAssumption DEF ReconcileInv, Grows, Owned, reconcile, Working, FirstLoop

LEMMA RebuildRemembers ==
  ASSUME RebuildInv, Grows, UNCHANGED rebuild
  PROVE  RebuildInv'
BY ArchiveAssumption DEF RebuildInv, Grows, Owned, rebuild

LEMMA StepsGrow ==
  ASSUME DatabaseStep, StoreStep
  PROVE  Grows
BY DEF DatabaseStep, StoreStep, Grows

-----------------------------------------------------------------------------
(* ingest *)

LEMMA IngestMoves ==
  ASSUME IngestInv, NEW p \in Ingesters, NEW await \in IngestAwaits,
         at[p] # "idle", GoTo(p, await), Grows,
         await \notin {"idle", "intent"} => Owned(held[p])',
         await = "finalize" => held[p] \in Stored
  PROVE  IngestInv'
BY ArchiveAssumption DEF IngestInv, GoTo, Grows, Owned, IngestAwaits

LEMMA IngestLeaves ==
  ASSUME IngestInv, NEW p \in Ingesters, Leave(p), Grows
  PROVE  IngestInv'
BY ArchiveAssumption DEF IngestInv, Leave, Grows, Owned, IngestAwaits

LEMMA IngestKeeps ==
  ASSUME Inv, NEW p \in Ingesters, Ingest(p)
  PROVE  DatabaseStep /\ StoreStep /\ IngestInv' /\ UNCHANGED <<reconcile, rebuild>>
<1> DEFINE Goal == DatabaseStep /\ StoreStep /\ IngestInv' /\ UNCHANGED <<reconcile, rebuild>>
<1> USE DEF Inv
<1>1. ASSUME UNCHANGED <<bucket, inherited, uploaded>>, DatabaseStep
      PROVE  StoreStep /\ Grows
  BY <1>1, StoreUnchanged, StepsGrow
<1>2. ASSUME NEW s \in Sources, SelectMatch(p, s)
      PROVE  Goal
  <2>1. DatabaseStep
    BY <1>2, UnchangedKeeps DEF SelectMatch, db
  <2>2. StoreStep /\ Grows
    BY <1>1, <1>2, <2>1 DEF SelectMatch, store
  <2>3. IngestInv'
    BY <1>2, <2>2, ArchiveAssumption DEF SelectMatch, IngestInv, Grows, Owned, IngestAwaits
  <2> QED
    BY <1>2, <2>1, <2>2, <2>3 DEF SelectMatch, reconcile, rebuild
<1>3. CASE CreateIntent(p)
  <2>1. held[p] \in Sources /\ at[p] # "idle"
    BY <1>3 DEF CreateIntent, IngestInv
  <2>2. DatabaseStep /\ Owned(held[p])'
    <3>1. held' = held
      BY <1>3 DEF CreateIntent, GoTo
    <3>2. DatabaseStep /\ (held[p] \in Sources /\ descriptor'[MatchOf[held[p]]] = held[p])
      BY <1>3, <2>1, EnsureKeeps DEF CreateIntent, Owned
    <3> QED
      BY <3>1, <3>2 DEF Owned
  <2>3. StoreStep /\ Grows
    BY <1>1, <1>3, <2>2 DEF CreateIntent, store
  <2>4. IngestInv'
    BY <1>3, <2>1, <2>2, <2>3, IngestMoves DEF CreateIntent, IngestAwaits
  <2> QED
    BY <1>3, <2>2, <2>3, <2>4 DEF CreateIntent, GoTo
<1>4. ASSUME NEW await \in IngestAwaits \ {"idle", "intent"},
             at[p] \notin {"idle", "intent"}, GoTo(p, await), UNCHANGED db, StoreStep,
             await = "finalize" => held[p] \in Stored
      PROVE  Goal
  <2>1. DatabaseStep /\ Grows
    BY <1>4, UnchangedKeeps, StepsGrow
  <2>2. Owned(held[p])'
    BY <1>4, ArchiveAssumption DEF IngestInv, Owned, GoTo, db
  <2>3. IngestInv'
    BY <1>4, <2>1, <2>2, IngestMoves
  <2> QED
    BY <1>4, <2>1, <2>3 DEF GoTo
<1>5. CASE HeadObject(p)
  <2>1. StoreStep
    BY <1>5, StoreUnchanged DEF HeadObject, store
  <2> QED
    BY <1>4, <1>5, <2>1 DEF HeadObject, IngestAwaits
<1>6. CASE PutObject(p)
  <2>1. held[p] \in Sources
    BY <1>6 DEF PutObject, IngestInv
  <2>2. StoreStep
    BY <1>6, <2>1, PutKeeps DEF PutObject
  <2> QED
    BY <1>4, <1>6, <2>2 DEF PutObject, IngestAwaits
<1>7. CASE VerifyObject(p)
  <2>1. StoreStep
    BY <1>7, StoreUnchanged DEF VerifyObject, store
  <2>2. bucket[held[p]] = "intact" => held[p] \in Stored
    BY <1>7 DEF VerifyObject, IngestInv, StoreInv
  <2> QED
    BY <1>4, <1>7, <2>1, <2>2 DEF VerifyObject, IngestAwaits
<1>8. CASE UploadThrows(p)
  <2>1. held[p] \in Sources
    BY <1>8 DEF UploadThrows, IngestInv
  <2>2. StoreStep
    BY <1>8, <2>1, PutKeeps, StoreUnchanged DEF UploadThrows, store
  <2> QED
    BY <1>4, <1>8, <2>2 DEF UploadThrows, IngestAwaits
<1>9. ASSUME DatabaseStep, Leave(p), UNCHANGED store
      PROVE  Goal
  <2>1. StoreStep /\ Grows
    BY <1>1, <1>9 DEF store
  <2> QED
    BY <1>9, <2>1, IngestLeaves DEF Leave
<1>10. CASE MarkUploadFailed(p)
  <2>1. Owned(held[p]) /\ held[p] \in Sources
    BY <1>10 DEF MarkUploadFailed, IngestInv
  <2> QED
    BY <1>9, <1>10, <2>1, FailKeeps DEF MarkUploadFailed
<1>11. CASE FinalizeTransactionally(p)
  <2>1. held[p] \in Sources
    BY <1>11 DEF FinalizeTransactionally, IngestInv
  <2> QED
    BY <1>9, <1>11, <2>1, PersistKeeps DEF FinalizeTransactionally
<1>12. CASE StopIngest(p)
  BY <1>9, <1>12, UnchangedKeeps DEF StopIngest
<1> QED
  BY <1>2, <1>3, <1>5, <1>6, <1>7, <1>8, <1>10, <1>11, <1>12 DEF Ingest

-----------------------------------------------------------------------------
(* reconcile *)

LEMMA FirstLoopGoesOn ==
  ASSUME ReconcileInv, Grows, rAt \in FirstLoop, NEW s, NextObject(s, "manifests")
  PROVE  ReconcileInv'
BY ArchiveAssumption DEF ReconcileInv, Grows, Owned, NextObject, Working, FirstLoop

LEMMA SecondLoopGoesOn ==
  ASSUME ReconcileInv, Grows, NEW s, NextObject(s, "orphans")
  PROVE  ReconcileInv'
BY ArchiveAssumption DEF ReconcileInv, Grows, Owned, NextObject, Working, FirstLoop

(* Going on with s: what the invariant says of the next await. *)
LEMMA ReconcileMoves ==
  ASSUME ReconcileInv, Grows, NEW s \in Sources, NEW await \in Working,
         NEW seen \in Sources \cup {NoSource}, GoOn(s, await, seen),
         await \in FirstLoop => rAt \in FirstLoop,
         await \in {"condemn", "repair", "ensure", "publish", "persist"} =>
           descriptor'[MatchOf[s]] = s,
         await \in {"repair", "ensure", "publish", "register", "persist"} => s \in Stored,
         await \in {"ensure", "publish", "register"} =>
           seen = NoSource \/ pointer[MatchOf[s]] = s
  PROVE  ReconcileInv'
BY ArchiveAssumption DEF ReconcileInv, Grows, Owned, GoOn, Working, FirstLoop

LEMMA FirstLoopKeeps ==
  ASSUME Inv,
         \/ Condemn \/ ReadPointer \/ EnsureIntent \/ PublishRepair
         \/ \E s \in Sources : CheckManifest(s) \/ MisreadManifest(s)
  PROVE  DatabaseStep /\ StoreStep /\ ReconcileInv' /\ UNCHANGED <<ingest, rebuild>>
<1> DEFINE Goal == DatabaseStep /\ StoreStep /\ ReconcileInv' /\ UNCHANGED <<ingest, rebuild>>
<1> USE DEF Inv
<1>1. ASSUME UNCHANGED <<bucket, inherited, uploaded>>, DatabaseStep
      PROVE  StoreStep /\ Grows
  BY <1>1, StoreUnchanged, StepsGrow
<1>2. ASSUME NEW s \in Sources, CheckManifest(s)
      PROVE  Goal
  <2>1. DatabaseStep /\ StoreStep /\ Grows
    BY <1>1, <1>2, UnchangedKeeps DEF CheckManifest, store
  <2>2. rAt \in FirstLoop /\ Owned(s)
    BY <1>2 DEF CheckManifest, FirstLoop, ReconcileInv
  <2>3. descriptor'[MatchOf[s]] = s
    BY <2>1, <2>2, ArchiveAssumption DEF Owned, Grows
  <2>4. bucket[s] = "intact" => s \in Stored
    BY DEF StoreInv
  <2>5. CASE GoOn(s, "condemn", NoSource)
    BY <1>2, <2>1, <2>2, <2>3, <2>5, ReconcileMoves DEF CheckManifest, Working
  <2>6. CASE bucket[s] = "intact" /\ GoOn(s, "repair", NoSource)
    BY <1>2, <2>1, <2>2, <2>3, <2>4, <2>6, ReconcileMoves DEF CheckManifest, Working
  <2>7. CASE NextObject(s, "manifests")
    BY <1>2, <2>1, <2>2, <2>7, FirstLoopGoesOn DEF CheckManifest
  <2> QED
    BY <1>2, <2>5, <2>6, <2>7 DEF CheckManifest
<1>3. ASSUME NEW s \in Sources, MisreadManifest(s)
      PROVE  Goal
  <2>1. DatabaseStep /\ StoreStep /\ Grows
    BY <1>1, <1>3, UnchangedKeeps DEF MisreadManifest, Fault
  <2>2. rAt \in FirstLoop /\ Owned(s)
    BY <1>3 DEF MisreadManifest, FirstLoop, ReconcileInv
  <2>3. descriptor'[MatchOf[s]] = s
    BY <2>1, <2>2, ArchiveAssumption DEF Owned, Grows
  <2>4. CASE GoOn(s, "condemn", NoSource)
    BY <1>3, <2>1, <2>2, <2>3, <2>4, ReconcileMoves DEF MisreadManifest, Working
  <2>5. CASE NextObject(s, "manifests")
    BY <1>3, <2>1, <2>2, <2>5, FirstLoopGoesOn DEF MisreadManifest
  <2> QED
    BY <1>3, <2>4, <2>5 DEF MisreadManifest
<1>4. CASE Condemn
  <2>1. Owned(rItem) /\ rItem \in Sources /\ rAt \in FirstLoop
    BY <1>4 DEF Condemn, ReconcileInv, Working, FirstLoop
  <2>2. DatabaseStep /\ StoreStep /\ Grows
    BY <1>1, <1>4, <2>1, FailKeeps DEF Condemn, store
  <2> QED
    BY <1>4, <2>1, <2>2, FirstLoopGoesOn DEF Condemn
<1>5. CASE ReadPointer
  <2>1. Owned(rItem) /\ rItem \in Sources /\ rAt \in FirstLoop /\ rItem \in Stored
    BY <1>5 DEF ReadPointer, ReconcileInv, Working, FirstLoop
  <2>2. DatabaseStep /\ StoreStep /\ Grows
    BY <1>1, <1>5, UnchangedKeeps DEF ReadPointer, store
  <2>3. descriptor'[MatchOf[rItem]] = rItem
    BY <1>5, <2>1, <2>2, ArchiveAssumption DEF ReadPointer, Owned, Grows
  <2>4. ASSUME NEW seen \in {NoSource, rItem}, seen = pointer[MatchOf[rItem]],
               GoOn(rItem, "ensure", seen)
        PROVE  Goal
    <3>1. ReconcileInv'
      BY <2>1, <2>2, <2>3, <2>4, ReconcileMoves DEF Working
    <3> QED
      BY <1>5, <2>2, <3>1 DEF ReadPointer
  <2>5. CASE NextObject(rItem, "manifests")
    BY <1>5, <2>1, <2>2, <2>5, FirstLoopGoesOn DEF ReadPointer
  <2> QED
    BY <1>5, <2>4, <2>5 DEF ReadPointer
<1>6. CASE EnsureIntent
  <2>1. Owned(rItem) /\ rItem \in Sources /\ rAt \in FirstLoop /\ rItem \in Stored
        /\ rPointer \in Sources \cup {NoSource}
        /\ (rPointer = NoSource \/ pointer[MatchOf[rItem]] = rItem)
    BY <1>6 DEF EnsureIntent, ReconcileInv, Working, FirstLoop
  <2>2. DatabaseStep
    BY <1>6, <2>1, EnsureKeeps DEF EnsureIntent
  <2>3. StoreStep /\ Grows
    BY <1>1, <1>6, <2>2 DEF EnsureIntent, store
  <2>4. descriptor'[MatchOf[rItem]] = rItem
    BY <2>1, <2>3, ArchiveAssumption DEF Owned, Grows
  <2>5. ReconcileInv'
    BY <1>6, <2>1, <2>3, <2>4, ReconcileMoves DEF EnsureIntent, Working
  <2> QED
    BY <1>6, <2>2, <2>3, <2>5 DEF EnsureIntent
<1>7. CASE PublishRepair
  <2>1. Owned(rItem) /\ rItem \in Sources /\ rAt \in FirstLoop
        /\ (rPointer = NoSource \/ pointer[MatchOf[rItem]] = rItem)
    BY <1>7 DEF PublishRepair, ReconcileInv, Working, FirstLoop
  <2>2. DatabaseStep
    BY <1>7, <2>1, PersistKeeps, VerifyKeeps DEF PublishRepair
  <2>3. StoreStep /\ Grows
    BY <1>1, <1>7, <2>2 DEF PublishRepair, store
  <2> QED
    BY <1>7, <2>1, <2>2, <2>3, FirstLoopGoesOn DEF PublishRepair
<1> QED
  BY <1>2, <1>3, <1>4, <1>5, <1>6, <1>7

LEMMA SecondLoopKeeps ==
  ASSUME Inv,
         \/ RegisterOrphan \/ PersistOrphan \/ RecordOrphan
         \/ \E s \in Sources : CheckOrphan(s) \/ MisreadOrphan(s)
  PROVE  DatabaseStep /\ StoreStep /\ ReconcileInv' /\ UNCHANGED <<ingest, rebuild>>
<1> DEFINE Goal == DatabaseStep /\ StoreStep /\ ReconcileInv' /\ UNCHANGED <<ingest, rebuild>>
<1> USE DEF Inv
<1>1. ASSUME UNCHANGED <<bucket, inherited, uploaded>>, DatabaseStep
      PROVE  StoreStep /\ Grows
  BY <1>1, StoreUnchanged, StepsGrow
<1>2. ASSUME NEW s \in Sources, CheckOrphan(s)
      PROVE  Goal
  <2>1. DatabaseStep /\ StoreStep /\ Grows
    BY <1>1, <1>2, UnchangedKeeps DEF CheckOrphan, store
  <2>2. ASSUME NEW seen \in {NoSource, s}, seen = pointer[MatchOf[s]],
               bucket[s] = "intact", GoOn(s, "register", seen)
        PROVE  Goal
    <3>1. s \in Stored
      BY <2>2 DEF StoreInv
    <3>2. ReconcileInv'
      BY <2>1, <2>2, <3>1, ReconcileMoves DEF Working, FirstLoop
    <3> QED
      BY <1>2, <2>1, <3>2 DEF CheckOrphan
  <2>3. CASE NextObject(s, "orphans")
    BY <1>2, <2>1, <2>3, SecondLoopGoesOn DEF CheckOrphan
  <2> QED
    BY <1>2, <2>2, <2>3 DEF CheckOrphan, Record
<1>3. ASSUME NEW s \in Sources, MisreadOrphan(s)
      PROVE  Goal
  <2>1. DatabaseStep /\ StoreStep /\ Grows
    BY <1>1, <1>3, UnchangedKeeps DEF MisreadOrphan, Fault
  <2> QED
    BY <1>3, <2>1, SecondLoopGoesOn DEF MisreadOrphan, Record
<1>4. CASE RegisterOrphan
  <2>1. rItem \in Sources /\ rItem \in Stored /\ rPointer \in Sources \cup {NoSource}
        /\ (rPointer = NoSource \/ pointer[MatchOf[rItem]] = rItem)
    BY <1>4 DEF RegisterOrphan, ReconcileInv, Working
  <2>2. DatabaseStep
    BY <1>4, <2>1, EnsureKeeps, RegisterKeeps DEF RegisterOrphan
  <2>3. StoreStep /\ Grows
    BY <1>1, <1>4, <2>2 DEF RegisterOrphan, store
  <2>4. descriptor'[MatchOf[rItem]] = rItem
    BY <1>4, <2>1, ArchiveAssumption DEF RegisterOrphan, EnsurePending, DatabaseInv
  <2>5. CASE GoOn(rItem, "persist", rPointer)
    BY <1>4, <2>1, <2>2, <2>3, <2>4, <2>5, ReconcileMoves DEF RegisterOrphan, Working, FirstLoop
  <2>6. CASE GoOn(rItem, "record", rPointer)
    BY <1>4, <2>1, <2>2, <2>3, <2>6, ReconcileMoves DEF RegisterOrphan, Working, FirstLoop
  <2> QED
    BY <1>4, <2>5, <2>6 DEF RegisterOrphan
<1>5. CASE PersistOrphan
  <2>1. rItem \in Sources /\ rPointer \in Sources \cup {NoSource}
    BY <1>5 DEF PersistOrphan, ReconcileInv, Working
  <2>2. DatabaseStep
    BY <1>5, <2>1, PersistKeeps DEF PersistOrphan
  <2>3. StoreStep /\ Grows
    BY <1>1, <1>5, <2>2 DEF PersistOrphan, store
  <2> QED
    BY <1>5, <2>1, <2>2, <2>3, ReconcileMoves DEF PersistOrphan, Working, FirstLoop
<1>6. CASE RecordOrphan
  <2>1. DatabaseStep /\ StoreStep /\ Grows
    BY <1>1, <1>6, UnchangedKeeps DEF RecordOrphan, store
  <2> QED
    BY <1>6, <2>1, SecondLoopGoesOn DEF RecordOrphan, Record
<1> QED
  BY <1>2, <1>3, <1>4, <1>5, <1>6

(* The steps of a reconciliation that write nothing. *)
LEMMA ReadingKeeps ==
  ASSUME Inv,
         \/ \E safe \in BOOLEAN : StartReconcile(safe)
         \/ LoadManifests \/ StartOrphans \/ FinishReconcile
         \/ AbortReconcile \/ StopReconcile
  PROVE  /\ DatabaseStep /\ StoreStep /\ ReconcileInv'
         /\ UNCHANGED <<pointer, uploaded, inherited, ingest, rebuild>>
<1> USE DEF Inv
<1>1. UNCHANGED <<bucket, inherited, uploaded, db, ingest, rebuild>>
  BY DEF StartReconcile, LoadManifests, StartOrphans, FinishReconcile,
         AbortReconcile, StopReconcile, Fault, store
<1>2. DatabaseStep /\ StoreStep /\ Grows
  BY <1>1, UnchangedKeeps, StoreUnchanged, StepsGrow
<1>3. ASSUME NEW safe \in BOOLEAN, StartReconcile(safe)
      PROVE  ReconcileInv'
  BY <1>2, <1>3 DEF StartReconcile, ReconcileInv, FirstLoop, Working
<1>4. ASSUME LoadManifests
      PROVE  ReconcileInv'
  <2>1. rTodo' = {descriptor[m] : m \in {n \in Matches : status[n] # "none"}}
        /\ rAt' = "manifests" /\ rPointer' = rPointer /\ rListed' = rListed
    BY <1>4 DEF LoadManifests
  <2>2. \A m \in Matches : status[m] # "none" => Owned(descriptor[m])
    BY DEF DatabaseInv, Owned
  <2>3. \A s \in rTodo' : s \in Sources /\ descriptor[MatchOf[s]] = s
    BY <2>1, <2>2 DEF Owned
  <2>4. \A s \in rTodo' : s \in Sources /\ descriptor'[MatchOf[s]] = s
    BY <1>1, <2>3 DEF db
  <2>5. rTodo' \subseteq Sources /\ \A s \in rTodo' : Owned(s)'
    BY <2>4 DEF Owned
  <2>6. rListed' \subseteq Sources /\ rPointer' \in Sources \cup {NoSource}
    BY <2>1 DEF ReconcileInv
  <2>7. rAt' \notin Working /\ rAt' \notin {"condemn", "repair", "ensure", "publish", "register", "persist"}
    BY <2>1 DEF Working
  <2> QED
    BY <2>5, <2>6, <2>7 DEF ReconcileInv, Working
<1>5. ASSUME StartOrphans \/ FinishReconcile \/ AbortReconcile \/ StopReconcile
      PROVE  ReconcileInv'
  <2>1. rAt' \in {"orphans", "idle", "aborted"}
        /\ rPointer' \in {rPointer, NoSource} /\ rListed' = rListed
        /\ (rTodo' = rTodo \/ rTodo' = Unmanifested)
    BY <1>5 DEF StartOrphans, FinishReconcile, AbortReconcile, StopReconcile
  <2>2. rTodo' \subseteq Sources /\ rListed' \subseteq Sources
        /\ rPointer' \in Sources \cup {NoSource}
    BY <2>1 DEF ReconcileInv, Unmanifested
  <2> QED
    BY <2>1, <2>2 DEF ReconcileInv, FirstLoop, Working
<1> QED
  BY <1>1, <1>2, <1>3, <1>4, <1>5 DEF db

-----------------------------------------------------------------------------
(* rebuild, and the bucket *)

LEMMA RebuildKeeps ==
  ASSUME Inv, Rebuild
  PROVE  DatabaseStep /\ StoreStep /\ RebuildInv' /\ UNCHANGED <<ingest, reconcile>>
<1> USE DEF Inv
<1>1. UNCHANGED <<bucket, inherited, uploaded, ingest, reconcile>>
  BY DEF Rebuild, ReadVerified, CheckRebuild, ApplyRebuild, StopRebuild, LeaveRebuild, store
<1>2. bAt # "idle" => bItem \in Sources
  BY DEF RebuildInv, Owned
<1>3. DatabaseStep
  <2>1. CASE ApplyRebuild
    BY <1>2, <2>1, PersistKeeps DEF ApplyRebuild
  <2>2. CASE UNCHANGED db
    BY <2>2, UnchangedKeeps
  <2> QED
    BY <2>1, <2>2 DEF Rebuild, ReadVerified, CheckRebuild, StopRebuild
<1>4. StoreStep /\ Grows
  BY <1>1, <1>3, StoreUnchanged, StepsGrow
<1>5. ASSUME NEW m \in Matches, ReadVerified(m)
      PROVE  RebuildInv'
  <2>1. descriptor[m] \in Sources /\ MatchOf[descriptor[m]] = m
    BY <1>5 DEF ReadVerified, DatabaseInv
  <2>2. descriptor' = descriptor /\ bItem' = descriptor[m] /\ bAt' = "check"
    BY <1>5 DEF ReadVerified, db
  <2> QED
    BY <2>1, <2>2 DEF RebuildInv, Owned
<1>6. ASSUME CheckRebuild
      PROVE  RebuildInv'
  <2>1. Owned(bItem) /\ bItem \in Stored
    BY <1>6 DEF CheckRebuild, RebuildInv, StoreInv, Owned
  <2>2. descriptor' = descriptor /\ bItem' = bItem
    BY <1>6 DEF CheckRebuild, db
  <2>3. bItem' \in Sources /\ descriptor'[MatchOf[bItem']] = bItem'
    BY <2>1, <2>2 DEF Owned
  <2>4. bItem' \in Stored'
    BY <1>4, <2>1, <2>2 DEF Grows
  <2> QED
    BY <2>3, <2>4 DEF RebuildInv, Owned
<1>7. ASSUME ApplyRebuild \/ StopRebuild
      PROVE  RebuildInv'
  <2>1. bAt' = "idle"
    BY <1>7 DEF ApplyRebuild, StopRebuild, LeaveRebuild
  <2> QED
    BY <2>1 DEF RebuildInv
<1> QED
  BY <1>1, <1>3, <1>4, <1>5, <1>6, <1>7 DEF Rebuild

-----------------------------------------------------------------------------
LEMMA InitInv == Init => Inv
<1> SUFFICES ASSUME Init PROVE Inv
  OBVIOUS
<1>1. DatabaseInv
  BY ArchiveAssumption DEF Init, DatabaseInv, TablesAgree, Statuses
<1>2. StoreInv
  BY DEF Init, StoreInv, Stored
<1>3. IngestInv
  BY DEF Init, IngestInv, IngestAwaits
<1>4. ReconcileInv
  BY DEF Init, ReconcileInv, Working, FirstLoop
<1>5. RebuildInv
  BY DEF Init, RebuildInv
<1> QED
  BY <1>1, <1>2, <1>3, <1>4, <1>5 DEF Inv

LEMMA StepInv == Inv /\ [Next]_vars => Inv' /\ Grows
<1> SUFFICES ASSUME Inv, [Next]_vars PROVE Inv' /\ Grows
  OBVIOUS
<1>1. ASSUME NEW p \in Ingesters, Ingest(p) PROVE Inv' /\ Grows
  BY <1>1, IngestKeeps, StepsGrow, ReconcileRemembers, RebuildRemembers DEF Inv, DatabaseStep, StoreStep
<1>2. CASE \/ \E safe \in BOOLEAN : StartReconcile(safe)
           \/ LoadManifests \/ StartOrphans \/ FinishReconcile
           \/ AbortReconcile \/ StopReconcile
  BY <1>2, ReadingKeeps, StepsGrow, IngestRemembers, RebuildRemembers DEF Inv, DatabaseStep, StoreStep
<1>3. CASE \/ Condemn \/ ReadPointer \/ EnsureIntent \/ PublishRepair
           \/ \E s \in Sources : CheckManifest(s) \/ MisreadManifest(s)
  BY <1>3, FirstLoopKeeps, StepsGrow, IngestRemembers, RebuildRemembers DEF Inv, DatabaseStep, StoreStep
<1>4. CASE \/ RegisterOrphan \/ PersistOrphan \/ RecordOrphan
           \/ \E s \in Sources : CheckOrphan(s) \/ MisreadOrphan(s)
  BY <1>4, SecondLoopKeeps, StepsGrow, IngestRemembers, RebuildRemembers DEF Inv, DatabaseStep, StoreStep
<1>5. CASE Rebuild
  BY <1>5, RebuildKeeps, StepsGrow, IngestRemembers, ReconcileRemembers DEF Inv, DatabaseStep, StoreStep
<1>6. ASSUME NEW s \in Sources, Lose(s) PROVE Inv' /\ Grows
  <2>1. DatabaseStep /\ StoreStep /\ UNCHANGED <<ingest, reconcile, rebuild>>
    BY <1>6, UnchangedKeeps, LoseKeeps DEF Inv, Lose
  <2> QED
    BY <2>1, StepsGrow, IngestRemembers, ReconcileRemembers, RebuildRemembers
       DEF Inv, DatabaseStep, StoreStep
<1>7. CASE UNCHANGED vars
  <2>1. DatabaseStep /\ StoreStep /\ UNCHANGED <<ingest, reconcile, rebuild>>
    BY <1>7, UnchangedKeeps, StoreUnchanged DEF Inv, vars, store
  <2> QED
    BY <2>1, StepsGrow, IngestRemembers, ReconcileRemembers, RebuildRemembers
       DEF Inv, DatabaseStep, StoreStep
<1> QED
  BY <1>1, <1>2, <1>3, <1>4, <1>5, <1>6, <1>7 DEF Next, Reconcile

LEMMA AlwaysInv == Spec => []Inv
BY InitInv, StepInv, PTL DEF Spec

(* What storage-audit counts is always zero. *)
THEOREM AlwaysAuditClean == Spec => []AuditClean
<1>1. Inv => AuditClean
  BY ArchiveAssumption
     DEF Inv, DatabaseInv, TablesAgree, AuditClean, AcceptedMissingManifest,
         PointerMismatches, ManifestMissingMatch
<1> QED
  BY <1>1, AlwaysInv, PTL DEF Spec

-----------------------------------------------------------------------------
(* The types, beside what the invariant says of them. *)

(* What the database, the bucket and the ledger keep.                       *)
KeptTypes ==
  /\ bucket \in [Sources -> {"absent", "intact", "damaged"}]
  /\ inherited \in [Sources -> {"absent", "intact", "damaged"}]
  /\ ledger \in [Sources -> {"none", "unresolved", "registered"}]
  /\ uploaded \subseteq Sources /\ lost \subseteq Sources
  /\ faults \in 0..MaxFaults

IngestTypes == \A p \in Ingesters : at[p] = "idle" <=> held[p] = NoSource

ReconcileTypes ==
  /\ rAt \in ReconcileAwaits /\ rSafe \in BOOLEAN
  /\ rStatus \in [Matches -> Statuses]
  /\ rItem \in Sources \cup {NoSource}
  /\ rAt \in Working <=> rItem # NoSource

RebuildTypes ==
  /\ bAt \in {"idle", "check", "apply"} /\ bItem \in Sources \cup {NoSource}
  /\ bAt = "idle" <=> bItem = NoSource

LEMMA TypesApart ==
  ASSUME TypeOK
  PROVE  KeptTypes /\ IngestTypes /\ ReconcileTypes /\ RebuildTypes
BY DEF KeptTypes, IngestTypes, ReconcileTypes, RebuildTypes, TypeOK

LEMMA KeptTyped == Inv /\ TypeOK /\ [Next]_vars => KeptTypes'
<1> SUFFICES ASSUME Inv, TypeOK, [Next]_vars PROVE KeptTypes'
  OBVIOUS
<1> USE TypesApart
<1>1. CASE UNCHANGED <<store, ledger>>
  BY <1>1 DEF KeptTypes, store
<1>2. ASSUME NEW s \in Sources, Put(s), ledger' = ledger PROVE KeptTypes'
  BY <1>2 DEF KeptTypes, Put
<1>3. ASSUME NEW s \in Sources, Lose(s) PROVE KeptTypes'
  BY <1>3 DEF KeptTypes, Lose
<1>4. CASE Fault /\ ledger' = ledger
  BY <1>4, ArchiveAssumption DEF KeptTypes, Fault
<1>5. ASSUME NEW s \in Sources, NEW state \in {"unresolved", "registered"},
             ledger' = [ledger EXCEPT ![s] = state], UNCHANGED store \/ Fault
      PROVE  KeptTypes'
  BY <1>5, ArchiveAssumption DEF KeptTypes, store, Fault
<1>6. ASSUME NEW p \in Ingesters, Ingest(p) PROVE KeptTypes'
  <2>1. ledger' = ledger /\ (UNCHANGED store \/ (at[p] = "put" /\ Put(held[p])))
    BY <1>6 DEF Ingest, SelectMatch, CreateIntent, HeadObject, PutObject, VerifyObject,
                UploadThrows, MarkUploadFailed, FinalizeTransactionally, StopIngest, GoTo, Leave
  <2>2. at[p] = "put" => held[p] \in Sources
    BY DEF Inv, IngestInv
  <2> QED BY <1>1, <1>2, <2>1, <2>2
<1>7. ASSUME NEW s \in Sources, CheckOrphan(s) \/ MisreadOrphan(s) PROVE KeptTypes'
  BY <1>1, <1>5, <1>7 DEF CheckOrphan, MisreadOrphan, Record
<1>8. CASE RecordOrphan
  <2>1. rItem \in Sources
    BY <1>8 DEF RecordOrphan, Inv, ReconcileInv, Working
  <2> QED BY <1>5, <1>8, <2>1 DEF RecordOrphan, Record
<1>9. CASE StopReconcile \/ \E s \in Sources : MisreadManifest(s)
  BY <1>4, <1>9 DEF StopReconcile, MisreadManifest
<1>10. CASE UNCHANGED vars
  BY <1>1, <1>10 DEF vars
<1>11. CASE \/ \E safe \in BOOLEAN : StartReconcile(safe)
            \/ LoadManifests \/ StartOrphans \/ FinishReconcile \/ AbortReconcile
            \/ \E s \in Sources : CheckManifest(s)
            \/ Condemn \/ ReadPointer \/ EnsureIntent \/ PublishRepair
            \/ RegisterOrphan \/ PersistOrphan
  BY <1>1, <1>11 DEF StartReconcile, LoadManifests, StartOrphans, FinishReconcile, AbortReconcile,
       CheckManifest, Condemn, ReadPointer, EnsureIntent, PublishRepair, RegisterOrphan, PersistOrphan
<1>12. CASE Rebuild
  BY <1>1, <1>12 DEF Rebuild, ReadVerified, CheckRebuild, ApplyRebuild, StopRebuild, LeaveRebuild
<1> QED
  BY <1>3, <1>6, <1>7, <1>8, <1>9, <1>10, <1>11, <1>12 DEF Next, Reconcile

LEMMA IngestTyped ==
  ASSUME Inv, TypeOK, NEW p \in Ingesters, Ingest(p)
  PROVE  IngestTypes'
<1>1. CASE \E s \in Sources : SelectMatch(p, s)
  BY <1>1, ArchiveAssumption DEF SelectMatch, IngestTypes, TypeOK
<1>2. CASE Leave(p)
  BY <1>2 DEF Leave, IngestTypes, TypeOK
<1>3. ASSUME NEW await \in IngestAwaits \ {"idle"}, at[p] # "idle", GoTo(p, await)
      PROVE  IngestTypes'
  BY <1>3 DEF GoTo, IngestTypes, TypeOK
<1> QED
  BY <1>1, <1>2, <1>3
     DEF Ingest, CreateIntent, HeadObject, PutObject, VerifyObject, UploadThrows,
         MarkUploadFailed, FinalizeTransactionally, StopIngest, IngestAwaits

LEMMA ReconcileTyped ==
  ASSUME Inv, TypeOK,
         \/ Reconcile \/ StopReconcile
         \/ \E safe \in BOOLEAN : StartReconcile(safe)
         \/ \E s \in Sources : MisreadManifest(s) \/ MisreadOrphan(s)
  PROVE  ReconcileTypes'
<1> USE TypesApart
<1>1. ASSUME NEW s, NEW loop \in {"manifests", "orphans"}, NextObject(s, loop)
      PROVE  ReconcileTypes'
  BY <1>1 DEF NextObject, ReconcileTypes, ReconcileAwaits, Working
<1>2. ASSUME NEW s \in Sources, NEW await \in Working, NEW seen, GoOn(s, await, seen)
      PROVE  ReconcileTypes'
  BY <1>2, ArchiveAssumption DEF GoOn, ReconcileTypes, ReconcileAwaits, Working
<1>3. ASSUME NEW s \in Sources,
             CheckManifest(s) \/ CheckOrphan(s) \/ MisreadManifest(s) \/ MisreadOrphan(s)
      PROVE  ReconcileTypes'
  BY <1>1, <1>2, <1>3
     DEF CheckManifest, CheckOrphan, MisreadManifest, MisreadOrphan, Record, Working
<1>4. CASE \/ Condemn \/ ReadPointer \/ EnsureIntent \/ PublishRepair
           \/ RegisterOrphan \/ PersistOrphan \/ RecordOrphan
  <2>1. rItem \in Sources
    BY <1>4 DEF Condemn, ReadPointer, EnsureIntent, PublishRepair, RegisterOrphan, PersistOrphan,
                RecordOrphan, Inv, ReconcileInv, Working
  <2> QED
    BY <1>1, <1>2, <1>4, <2>1
       DEF Condemn, ReadPointer, EnsureIntent, PublishRepair, RegisterOrphan, PersistOrphan,
           RecordOrphan, Record, Working
<1>5. CASE LoadManifests
  BY <1>5 DEF LoadManifests, ReconcileTypes, ReconcileAwaits, Working, TypeOK
<1>6. CASE \/ StartOrphans \/ FinishReconcile \/ AbortReconcile \/ StopReconcile
           \/ \E safe \in BOOLEAN : StartReconcile(safe)
  BY <1>6 DEF StartOrphans, FinishReconcile, AbortReconcile, StopReconcile, StartReconcile,
              ReconcileTypes, ReconcileAwaits, Working
<1> QED BY <1>3, <1>4, <1>5, <1>6 DEF Reconcile

LEMMA RebuildTyped == ASSUME Inv, TypeOK, Rebuild PROVE RebuildTypes'
<1>1. ASSUME NEW m \in Matches, ReadVerified(m) PROVE RebuildTypes'
  <2>1. descriptor[m] \in Sources
    BY <1>1 DEF ReadVerified, Inv, DatabaseInv
  <2> QED BY <1>1, <2>1, ArchiveAssumption DEF ReadVerified, RebuildTypes
<1> QED
  BY <1>1 DEF Rebuild, CheckRebuild, ApplyRebuild, StopRebuild, LeaveRebuild, RebuildTypes, TypeOK

(* The tables, the bucket and what every script holds keep their types.     *)
THEOREM PipelineTyped == Spec => []TypeOK
<1>1. Init => TypeOK
  <2> SUFFICES ASSUME Init PROVE TypeOK
    OBVIOUS
  <2>1. KeptTypes
    BY ArchiveAssumption DEF Init, KeptTypes
  <2>2. IngestTypes /\ ReconcileTypes /\ RebuildTypes
    BY DEF Init, IngestTypes, ReconcileTypes, RebuildTypes, ReconcileAwaits, Working, Statuses
  <2> QED
    BY <2>1, <2>2, InitInv DEF Inv, DatabaseInv, IngestInv, ReconcileInv, KeptTypes, IngestTypes,
                               ReconcileTypes, RebuildTypes, TypeOK
<1>2. Inv /\ TypeOK /\ [Next]_vars => TypeOK'
  <2> SUFFICES ASSUME Inv, TypeOK, [Next]_vars PROVE TypeOK'
    OBVIOUS
  <2>1. Inv' /\ KeptTypes'
    BY StepInv, KeptTyped
  <2>2. /\ UNCHANGED ingest => IngestTypes'
        /\ UNCHANGED reconcile => ReconcileTypes'
        /\ UNCHANGED rebuild => RebuildTypes'
    BY TypesApart DEF IngestTypes, ReconcileTypes, RebuildTypes, ingest, reconcile, rebuild
  <2>3. IngestTypes' /\ ReconcileTypes' /\ RebuildTypes'
    <3>1. ASSUME NEW p \in Ingesters, Ingest(p)
          PROVE  IngestTypes' /\ ReconcileTypes' /\ RebuildTypes'
      BY <3>1, <2>2, IngestTyped, IngestKeeps
    <3>2. CASE \/ Reconcile \/ StopReconcile
               \/ \E safe \in BOOLEAN : StartReconcile(safe)
               \/ \E s \in Sources : MisreadManifest(s) \/ MisreadOrphan(s)
      <4>1. UNCHANGED <<ingest, rebuild>>
        BY <3>2, ReadingKeeps, FirstLoopKeeps, SecondLoopKeeps DEF Reconcile
      <4> QED BY <3>2, <4>1, <2>2, ReconcileTyped
    <3>3. CASE Rebuild
      BY <3>3, <2>2, RebuildTyped, RebuildKeeps
    <3>4. CASE UNCHANGED vars \/ \E s \in Sources : Lose(s)
      BY <3>4, <2>2 DEF vars, Lose
    <3> QED BY <3>1, <3>2, <3>3, <3>4 DEF Next
  <2> QED
    BY <2>1, <2>3 DEF Inv, DatabaseInv, IngestInv, ReconcileInv, KeptTypes, IngestTypes,
                      ReconcileTypes, RebuildTypes, TypeOK
<1> QED
  BY <1>1, <1>2, AlwaysInv, PTL DEF Spec

-----------------------------------------------------------------------------
(* What is verified was found sound.  An object that was sound once is      *)
(* sound or has been lost, so that it is enough that every script has seen  *)
(* a sound object between its reads and its transaction.                    *)

Sound(s) == bucket[s] = "intact" \/ s \in lost

SoundInv ==
  /\ \A m \in Matches : status[m] = "verified" => Sound(descriptor[m])
  /\ \A p \in Ingesters : at[p] = "finalize" => Sound(held[p])
  /\ rAt \in {"repair", "ensure", "publish", "register", "persist"} => Sound(rItem)
  /\ bAt = "apply" => Sound(bItem)

SoundStays == \A s \in Sources : Sound(s) => (bucket'[s] = "intact" \/ s \in lost')

(* No match becomes verified, or the one of a source that is sound.         *)
Verifies(s) ==
  /\ Sound(s) /\ descriptor'[MatchOf[s]] = s
  /\ \A m \in Matches : m # MatchOf[s] => status'[m] = status[m]

OnlySound ==
  \/ \A m \in Matches : status'[m] = "verified" => status[m] = "verified"
  \/ \E s \in Sources : Verifies(s)

LEMMA StoreKeepsSound ==
  ASSUME StoreInv, \/ UNCHANGED <<bucket, lost>> \/ \E s \in Sources : Put(s) \/ Lose(s)
  PROVE  SoundStays
BY DEF StoreInv, SoundStays, Sound, Put, Lose

LEMMA EnsureVerifiesNone ==
  ASSUME DatabaseInv, NEW s \in Sources, EnsurePending(s)
  PROVE  OnlySound
BY ArchiveAssumption DEF DatabaseInv, EnsurePending, OnlySound

LEMMA FailVerifiesNone ==
  ASSUME DatabaseInv, NEW s \in Sources, MarkFailed(s)
  PROVE  OnlySound
BY ArchiveAssumption DEF DatabaseInv, MarkFailed, OnlySound

LEMMA SoundVerified ==
  ASSUME DatabaseInv, NEW s \in Sources, Sound(s), Persist(s) \/ MarkVerified(s)
  PROVE  OnlySound
<1>1. Verifies(s)
  BY ArchiveAssumption DEF DatabaseInv, Persist, MarkVerified, Verifies
<1> QED BY <1>1 DEF OnlySound

LEMMA VerifiedStays ==
  ASSUME Inv, SoundInv, Inv', Grows, SoundStays, OnlySound
  PROVE  \A m \in Matches : status'[m] = "verified" => Sound(descriptor[m])'
<1> SUFFICES ASSUME NEW m \in Matches, status'[m] = "verified"
             PROVE  bucket'[descriptor'[m]] = "intact" \/ descriptor'[m] \in lost'
  BY DEF Sound
<1>1. CASE status[m] = "verified"
  <2>1. descriptor[m] \in Sources /\ descriptor'[m] = descriptor[m] /\ Sound(descriptor[m])
    BY <1>1 DEF Inv, DatabaseInv, Grows, SoundInv
  <2> QED BY <2>1 DEF SoundStays
<1>2. CASE status[m] # "verified"
  <2>1. PICK s \in Sources : Verifies(s)
    BY <1>2 DEF OnlySound
  <2>2. m = MatchOf[s] /\ descriptor'[m] = s
    BY <1>2, <2>1 DEF Verifies
  <2> QED BY <2>1, <2>2 DEF Verifies, SoundStays
<1> QED BY <1>1, <1>2

LEMMA IngestKeepsSound ==
  ASSUME Inv, SoundInv, NEW p \in Ingesters, Ingest(p)
  PROVE  /\ SoundStays /\ OnlySound
         /\ \A q \in Ingesters : at'[q] = "finalize" =>
              held'[q] \in Sources /\ (bucket'[held'[q]] = "intact" \/ held'[q] \in lost')
<1> DEFINE Goal == \A q \in Ingesters : at'[q] = "finalize" =>
                     held'[q] \in Sources /\ (bucket'[held'[q]] = "intact" \/ held'[q] \in lost')
<1> USE DEF Inv
<1>1. SoundStays
  <2>1. \/ UNCHANGED <<bucket, lost>>
        \/ at[p] # "idle" /\ Put(held[p])
    BY DEF Ingest, SelectMatch, CreateIntent, HeadObject, PutObject, VerifyObject,
           UploadThrows, MarkUploadFailed, FinalizeTransactionally, StopIngest, store
  <2>2. at[p] # "idle" => held[p] \in Sources
    BY DEF IngestInv
  <2> QED BY <2>1, <2>2, StoreKeepsSound
<1>2. OnlySound
  <2>1. CASE UNCHANGED db
    BY <2>1 DEF OnlySound, db
  <2>2. CASE CreateIntent(p)
    BY <2>2, EnsureVerifiesNone DEF CreateIntent, IngestInv
  <2>3. CASE MarkUploadFailed(p)
    BY <2>3, FailVerifiesNone DEF MarkUploadFailed, IngestInv
  <2>4. CASE FinalizeTransactionally(p)
    BY <2>4, SoundVerified DEF FinalizeTransactionally, IngestInv, SoundInv
  <2> QED
    BY <2>1, <2>2, <2>3, <2>4
       DEF Ingest, SelectMatch, HeadObject, PutObject, VerifyObject, UploadThrows, StopIngest
<1>3. Goal
  <2>1. CASE VerifyObject(p) /\ bucket[held[p]] = "intact"
    <3>1. held' = held /\ bucket' = bucket /\ \A q \in Ingesters : q # p => at'[q] = at[q]
      BY <2>1 DEF VerifyObject, GoTo, store, IngestInv
    <3>2. held[p] \in Sources
      BY <2>1 DEF VerifyObject, IngestInv
    <3>3. ASSUME NEW q \in Ingesters, q # p, at[q] = "finalize"
          PROVE  held[q] \in Sources /\ (bucket'[held[q]] = "intact" \/ held[q] \in lost')
      BY <3>3, <1>1 DEF SoundInv, IngestInv, SoundStays
    <3> QED BY <2>1, <3>1, <3>2, <3>3
  <2>2. ASSUME \A q \in Ingesters : at'[q] = "finalize" => at[q] = "finalize" /\ held'[q] = held[q]
        PROVE  Goal
    <3>1. \A q \in Ingesters : at[q] = "finalize" => held[q] \in Sources /\ Sound(held[q])
      BY DEF SoundInv, IngestInv
    <3> QED BY <2>2, <3>1, <1>1 DEF SoundStays
  <2>3. CASE VerifyObject(p) /\ bucket[held[p]] # "intact"
    BY <2>2, <2>3 DEF VerifyObject, GoTo, IngestInv
  <2>4. CASE CreateIntent(p) \/ HeadObject(p) \/ PutObject(p) \/ UploadThrows(p)
    BY <2>2, <2>4 DEF CreateIntent, HeadObject, PutObject, UploadThrows, GoTo, IngestInv
  <2>5. CASE MarkUploadFailed(p) \/ FinalizeTransactionally(p) \/ StopIngest(p)
    BY <2>2, <2>5 DEF MarkUploadFailed, FinalizeTransactionally, StopIngest, Leave, IngestInv
  <2>6. CASE \E s \in Sources : SelectMatch(p, s)
    BY <2>2, <2>6 DEF SelectMatch, IngestInv
  <2> QED BY <2>1, <2>3, <2>4, <2>5, <2>6 DEF Ingest
<1> QED BY <1>1, <1>2, <1>3

LEMMA ReconcileKeepsSound ==
  ASSUME Inv, SoundInv,
         \/ Reconcile \/ StopReconcile
         \/ \E safe \in BOOLEAN : StartReconcile(safe)
         \/ \E s \in Sources : MisreadManifest(s) \/ MisreadOrphan(s)
  PROVE  /\ OnlySound /\ UNCHANGED <<bucket, lost, ingest, rebuild>>
         /\ rAt' \in {"repair", "ensure", "publish", "register", "persist"} => Sound(rItem')
<1> USE DEF Inv
<1>1. UNCHANGED <<bucket, lost, ingest, rebuild>>
  BY DEF Reconcile, StopReconcile, StartReconcile, MisreadManifest, MisreadOrphan, Fault,
         LoadManifests, StartOrphans, FinishReconcile, AbortReconcile, CheckManifest, CheckOrphan,
         Condemn, ReadPointer, EnsureIntent, PublishRepair, RegisterOrphan, PersistOrphan,
         RecordOrphan, store
<1>2. OnlySound
  <2>1. CASE UNCHANGED db
    BY <2>1 DEF OnlySound, db
  <2>2. CASE Condemn
    BY <2>2, FailVerifiesNone DEF Condemn, ReconcileInv, Working
  <2>3. CASE EnsureIntent
    BY <2>3, EnsureVerifiesNone DEF EnsureIntent, ReconcileInv, Working
  <2>4. CASE PublishRepair
    BY <2>4, SoundVerified DEF PublishRepair, ReconcileInv, Working, SoundInv
  <2>5. CASE RegisterOrphan
    <3>1. rItem \in Sources /\ Sound(rItem)
      BY <2>5 DEF RegisterOrphan, ReconcileInv, Working, SoundInv
    <3>2. CASE EnsurePending(rItem)
      BY <3>1, <3>2, EnsureVerifiesNone
    <3>3. CASE /\ descriptor' = [descriptor EXCEPT ![MatchOf[rItem]] = rItem]
               /\ status' = [status EXCEPT ![MatchOf[rItem]] = "verified"]
      <4>1. Verifies(rItem)
        BY <3>1, <3>3, ArchiveAssumption DEF DatabaseInv, Verifies
      <4> QED BY <3>1, <4>1 DEF OnlySound
    <3> QED BY <2>5, <3>2, <3>3 DEF RegisterOrphan
  <2>6. CASE PersistOrphan
    BY <2>6, SoundVerified DEF PersistOrphan, ReconcileInv, Working, SoundInv
  <2> QED
    BY <2>1, <2>2, <2>3, <2>4, <2>5, <2>6
       DEF Reconcile, StopReconcile, StartReconcile, MisreadManifest, MisreadOrphan,
           LoadManifests, StartOrphans, FinishReconcile, AbortReconcile, CheckManifest,
           CheckOrphan, ReadPointer, RecordOrphan
<1>3. rAt' \in {"repair", "ensure", "publish", "register", "persist"} => Sound(rItem')
  <2>1. CASE rAt' \notin {"repair", "ensure", "publish", "register", "persist"}
    BY <2>1
  <2>2. ASSUME NEW s \in Sources, CheckManifest(s) \/ CheckOrphan(s)
        PROVE  Sound(rItem') \/ rAt' \in {"condemn", "manifests", "orphans"}
    BY <2>2 DEF CheckManifest, CheckOrphan, GoOn, NextObject, Record, Sound
  <2>3. CASE ReadPointer \/ EnsureIntent \/ RegisterOrphan
    BY <2>3 DEF ReadPointer, EnsureIntent, RegisterOrphan, GoOn, NextObject, SoundInv
  <2> QED
    BY <2>1, <2>2, <2>3
       DEF Reconcile, StopReconcile, StartReconcile, MisreadManifest, MisreadOrphan,
           LoadManifests, StartOrphans, FinishReconcile, AbortReconcile, Condemn,
           PublishRepair, PersistOrphan, RecordOrphan, Record, GoOn, NextObject
<1> QED BY <1>1, <1>2, <1>3

LEMMA RebuildKeepsSound ==
  ASSUME Inv, SoundInv, Rebuild
  PROVE  /\ OnlySound /\ UNCHANGED <<bucket, lost, ingest, reconcile>>
         /\ bAt' = "apply" => Sound(bItem')
<1> USE DEF Inv
<1>1. CASE ApplyRebuild
  <2>1. bItem \in Sources /\ Sound(bItem) /\ Persist(bItem)
    BY <1>1 DEF ApplyRebuild, RebuildInv, SoundInv, Owned
  <2> QED BY <1>1, <2>1, SoundVerified DEF ApplyRebuild, LeaveRebuild, store
<1>2. CASE ~ApplyRebuild
  BY <1>2 DEF Rebuild, ReadVerified, CheckRebuild, StopRebuild, LeaveRebuild, OnlySound, store, db, Sound
<1> QED BY <1>1, <1>2

LEMMA StepSound == Inv /\ SoundInv /\ [Next]_vars => SoundInv'
<1> SUFFICES ASSUME Inv, SoundInv, [Next]_vars PROVE SoundInv'
  OBVIOUS
<1>0. Inv' /\ Grows
  BY StepInv
<1> DEFINE IngestSound ==
             \A q \in Ingesters : at'[q] = "finalize" =>
               held'[q] \in Sources /\ (bucket'[held'[q]] = "intact" \/ held'[q] \in lost')
           ReconcileSound ==
             rAt' \in {"repair", "ensure", "publish", "register", "persist"} =>
               bucket'[rItem'] = "intact" \/ rItem' \in lost'
           RebuildSound ==
             bAt' = "apply" => bucket'[bItem'] = "intact" \/ bItem' \in lost'
<1>1. /\ SoundStays /\ UNCHANGED ingest => IngestSound
      /\ SoundStays /\ UNCHANGED reconcile => ReconcileSound
      /\ SoundStays /\ UNCHANGED rebuild => RebuildSound
  <2>1. /\ \A p \in Ingesters : at[p] = "finalize" => held[p] \in Sources /\ Sound(held[p])
        /\ rAt \in {"repair", "ensure", "publish", "register", "persist"} =>
             rItem \in Sources /\ Sound(rItem)
        /\ bAt = "apply" => bItem \in Sources /\ Sound(bItem)
    BY DEF Inv, IngestInv, ReconcileInv, Working, RebuildInv, Owned, SoundInv
  <2> QED BY <2>1 DEF SoundStays, ingest, reconcile, rebuild
<1>2. ASSUME SoundStays, OnlySound, IngestSound, ReconcileSound, RebuildSound
      PROVE  SoundInv'
  <2>1. \A m \in Matches : status'[m] = "verified" => Sound(descriptor[m])'
    BY <1>0, <1>2, VerifiedStays
  <2> QED BY <1>2, <2>1 DEF SoundInv, Sound
<1>3. ASSUME NEW p \in Ingesters, Ingest(p) PROVE SoundInv'
  <2>1. UNCHANGED <<reconcile, rebuild>>
    BY <1>3, IngestKeeps
  <2>2. SoundStays /\ OnlySound /\ IngestSound
    BY <1>3, IngestKeepsSound
  <2> QED BY <1>1, <1>2, <2>1, <2>2
<1>4. CASE \/ Reconcile \/ StopReconcile
           \/ \E safe \in BOOLEAN : StartReconcile(safe)
           \/ \E s \in Sources : MisreadManifest(s) \/ MisreadOrphan(s)
  <2>1. /\ OnlySound /\ UNCHANGED <<bucket, lost, ingest, rebuild>>
        /\ rAt' \in {"repair", "ensure", "publish", "register", "persist"} => Sound(rItem')
    BY <1>4, ReconcileKeepsSound
  <2>2. SoundStays
    BY <2>1, StoreKeepsSound DEF Inv
  <2>3. ReconcileSound
    BY <2>1 DEF Sound
  <2> QED BY <1>1, <1>2, <2>1, <2>2, <2>3
<1>5. CASE Rebuild
  <2>1. /\ OnlySound /\ UNCHANGED <<bucket, lost, ingest, reconcile>>
        /\ bAt' = "apply" => Sound(bItem')
    BY <1>5, RebuildKeepsSound
  <2>2. SoundStays
    BY <2>1, StoreKeepsSound DEF Inv
  <2>3. RebuildSound
    BY <2>1 DEF Sound
  <2> QED BY <1>1, <1>2, <2>1, <2>2, <2>3
<1>6. ASSUME NEW s \in Sources, Lose(s) PROVE SoundInv'
  <2>1. SoundStays /\ OnlySound /\ UNCHANGED <<ingest, reconcile, rebuild>>
    BY <1>6, StoreKeepsSound DEF Inv, Lose, OnlySound, db
  <2> QED BY <1>1, <1>2, <2>1
<1>7. CASE UNCHANGED vars
  <2>1. SoundStays /\ OnlySound /\ UNCHANGED <<ingest, reconcile, rebuild>>
    BY <1>7, StoreKeepsSound DEF Inv, OnlySound, vars, store, db
  <2> QED BY <1>1, <1>2, <2>1
<1> QED BY <1>3, <1>4, <1>5, <1>6, <1>7 DEF Next

(* A verified manifest has a sound object, unless the bucket lost it after  *)
(* it was there.                                                            *)
THEOREM AlwaysVerifiedSound == Spec => []VerifiedSound
<1>1. Init => SoundInv
  BY DEF Init, SoundInv
<1>2. SoundInv => VerifiedSound
  BY DEF SoundInv, VerifiedSound, Sound
<1> QED
  BY <1>1, <1>2, AlwaysInv, StepSound, PTL DEF Spec

-----------------------------------------------------------------------------
(* What an ingest run has put is no orphan.  Its intent was there before    *)
(* its object, and reconcile lists the objects before it reads the          *)
(* manifests: a listed object without a manifest among those it read is     *)
(* older than the pipeline.                                                 *)

Foreign(s) == inherited[s] # "absent"

OrphanInv ==
  /\ ledger \in [Sources -> {"none", "unresolved", "registered"}]
  /\ \A s \in Sources : bucket[s] # "absent" => Foreign(s) \/ s \in uploaded
  /\ \A s \in uploaded : Owned(s)
  /\ \A s \in rListed : Foreign(s) \/ Owned(s)
  /\ rAt \in FirstLoop => \A s \in rListed : Foreign(s) \/ rStatus[MatchOf[s]] # "none"
  /\ rAt \in {"orphans", "register", "persist", "record"} => \A s \in rTodo : Foreign(s)
  /\ rAt \in {"register", "persist", "record"} => Foreign(rItem)
  /\ \A s \in Sources : ledger[s] # "none" => Foreign(s)

(* The parts that the scripts share, and that reconcile remembers.          *)
ObjectsKnown ==
  /\ inherited' = inherited
  /\ \A s \in Sources : bucket'[s] # "absent" => Foreign(s) \/ s \in uploaded'
  /\ \A s \in uploaded' : s \in Sources /\ descriptor'[MatchOf[s]] = s

LEMMA PutKnown ==
  ASSUME Inv, OrphanInv, Grows, NEW s \in Sources, Put(s), Owned(s)
  PROVE  ObjectsKnown
<1>1. /\ inherited' = inherited /\ uploaded' = uploaded \cup {s}
      /\ \A x \in Sources : x # s => bucket'[x] = bucket[x]
  BY DEF Inv, StoreInv, Put
<1>2. \A x \in Sources : bucket'[x] # "absent" => Foreign(x) \/ x \in uploaded'
  BY <1>1 DEF OrphanInv
<1>3. \A x \in uploaded' : x \in Sources /\ descriptor[MatchOf[x]] = x
  BY <1>1 DEF OrphanInv, Owned
<1>4. \A x \in Sources : MatchOf[x] \in Matches
  BY ArchiveAssumption
<1>5. \A x \in uploaded' : descriptor'[MatchOf[x]] = x
  BY <1>3, <1>4 DEF Grows
<1> QED BY <1>1, <1>2, <1>3, <1>5 DEF ObjectsKnown

LEMMA NothingPut ==
  ASSUME Inv, OrphanInv, Grows,
         UNCHANGED <<bucket, inherited, uploaded>> \/ \E s \in Sources : Lose(s)
  PROVE  ObjectsKnown
BY ArchiveAssumption DEF Inv, StoreInv, OrphanInv, Grows, Lose, Owned, ObjectsKnown, Foreign

LEMMA IngestKnown ==
  ASSUME Inv, OrphanInv, Grows, NEW p \in Ingesters, Ingest(p)
  PROVE  ObjectsKnown /\ UNCHANGED <<ledger, reconcile>>
<1>1. UNCHANGED <<ledger, reconcile>>
  BY DEF Ingest, SelectMatch, CreateIntent, HeadObject, PutObject, VerifyObject, UploadThrows,
         MarkUploadFailed, FinalizeTransactionally, StopIngest, GoTo, Leave
<1>2. CASE at[p] = "put" /\ Put(held[p])
  <2>1. held[p] \in Sources /\ Owned(held[p])
    BY <1>2 DEF Inv, IngestInv
  <2> QED BY <1>1, <1>2, <2>1, PutKnown
<1>3. CASE UNCHANGED <<bucket, inherited, uploaded>>
  BY <1>1, <1>3, NothingPut
<1> QED
  BY <1>2, <1>3 DEF Ingest, SelectMatch, CreateIntent, HeadObject, PutObject, VerifyObject,
         UploadThrows, MarkUploadFailed, FinalizeTransactionally, StopIngest, store

LEMMA OrphansRemembered ==
  ASSUME Inv, OrphanInv, Grows, ObjectsKnown, UNCHANGED <<ledger, reconcile>>
  PROVE  OrphanInv'
<1>1. \A s \in rListed : Foreign(s) \/ descriptor'[MatchOf[s]] = s
  BY ArchiveAssumption DEF Inv, ReconcileInv, OrphanInv, Grows, Owned
<1>2. /\ \A s \in uploaded' : Owned(s)'
      /\ \A s \in rListed' : Foreign(s)' \/ Owned(s)'
  BY <1>1 DEF ObjectsKnown, Owned, Foreign, reconcile, Inv, ReconcileInv
<1> QED
  BY <1>2 DEF OrphanInv, ObjectsKnown, Foreign, reconcile, FirstLoop

(* The reads of a reconciliation.                                           *)
LEMMA ReadsKeepOrphans ==
  ASSUME Inv, OrphanInv, Grows, ObjectsKnown,
         UNCHANGED <<bucket, uploaded, ledger, db>>,
         \/ \E safe \in BOOLEAN : StartReconcile(safe)
         \/ LoadManifests \/ StartOrphans \/ FinishReconcile
         \/ AbortReconcile \/ StopReconcile
  PROVE  OrphanInv'
<1>0. /\ inherited' = inherited /\ descriptor' = descriptor
      /\ ledger' \in [Sources -> {"none", "unresolved", "registered"}]
      /\ \A s \in Sources : bucket'[s] # "absent" => Foreign(s)' \/ s \in uploaded'
      /\ \A s \in uploaded' : Owned(s)'
      /\ \A s \in Sources : ledger'[s] # "none" => Foreign(s)'
  BY DEF OrphanInv, ObjectsKnown, Foreign, Owned, db
<1>1. ASSUME NEW safe \in BOOLEAN, StartReconcile(safe) PROVE OrphanInv'
  <2>1. \A s \in rListed' : Foreign(s)' \/ Owned(s)'
    BY <1>0, <1>1 DEF StartReconcile, OrphanInv, Foreign, Owned
  <2> QED BY <1>0, <1>1, <2>1 DEF StartReconcile, OrphanInv, FirstLoop
<1>2. CASE LoadManifests
  <2>1. \A s \in rListed' : Foreign(s)' \/ Owned(s)'
    BY <1>0, <1>2 DEF LoadManifests, OrphanInv, Foreign, Owned
  <2>2. \A s \in rListed' : Foreign(s)' \/ rStatus'[MatchOf[s]] # "none"
    <3>1. \A s \in Sources : Owned(s) => status[MatchOf[s]] # "none"
      BY ArchiveAssumption DEF Owned, Inv, DatabaseInv
    <3> QED BY <1>0, <1>2, <3>1 DEF LoadManifests, OrphanInv, Foreign, Owned
  <2> QED BY <1>0, <1>2, <2>1, <2>2 DEF LoadManifests, OrphanInv, FirstLoop
<1>3. CASE StartOrphans
  <2>1. \A s \in rListed' : Foreign(s)' \/ Owned(s)'
    BY <1>0, <1>3 DEF StartOrphans, OrphanInv, Foreign, Owned
  <2>2. ASSUME NEW s \in Unmanifested PROVE Foreign(s)
    <3> SUFFICES ASSUME ~Foreign(s) PROVE FALSE OBVIOUS
    <3>1. s \in rListed /\ \A m \in Matches : rStatus[m] # "none" => s # descriptor[m]
      BY DEF Unmanifested
    <3>2. Owned(s) /\ rStatus[MatchOf[s]] # "none"
      BY <1>3, <3>1 DEF OrphanInv, StartOrphans, FirstLoop
    <3> QED BY <3>1, <3>2, ArchiveAssumption DEF Owned
  <2>3. \A s \in rTodo' : Foreign(s)'
    BY <1>0, <1>3, <2>2 DEF StartOrphans, Foreign
  <2> QED BY <1>0, <1>3, <2>1, <2>3 DEF StartOrphans, OrphanInv, FirstLoop
<1>4. CASE FinishReconcile \/ AbortReconcile \/ StopReconcile
  <2>1. rListed' = rListed /\ rAt' \in {"idle", "aborted"}
    BY <1>4 DEF FinishReconcile, AbortReconcile, StopReconcile
  <2>2. \A s \in rListed' : Foreign(s)' \/ Owned(s)'
    BY <1>0, <2>1 DEF OrphanInv, Foreign, Owned
  <2> QED BY <1>0, <2>1, <2>2 DEF OrphanInv, FirstLoop
<1> QED BY <1>1, <1>2, <1>3, <1>4

(* The two loops.                                                           *)
LEMMA FirstLoopKeepsOrphans ==
  ASSUME Inv, OrphanInv, Grows, ObjectsKnown,
         \/ Condemn \/ ReadPointer \/ EnsureIntent \/ PublishRepair
         \/ \E s \in Sources : CheckManifest(s) \/ MisreadManifest(s)
  PROVE  OrphanInv'
<1>1. /\ ledger' = ledger /\ rListed' = rListed /\ rStatus' = rStatus
      /\ rAt \in FirstLoop /\ rAt' \in FirstLoop
  BY DEF Condemn, ReadPointer, EnsureIntent, PublishRepair, CheckManifest, MisreadManifest,
         GoOn, NextObject, FirstLoop
<1>2. \A s \in rListed : Foreign(s) \/ descriptor'[MatchOf[s]] = s
  BY ArchiveAssumption DEF Inv, ReconcileInv, OrphanInv, Grows, Owned
<1>3. /\ \A s \in uploaded' : Owned(s)'
      /\ \A s \in rListed' : Foreign(s)' \/ Owned(s)'
  BY <1>1, <1>2 DEF ObjectsKnown, Owned, Foreign, Inv, ReconcileInv
<1> QED
  BY <1>1, <1>3 DEF OrphanInv, ObjectsKnown, Foreign, FirstLoop

LEMMA SecondLoopKeepsOrphans ==
  ASSUME Inv, OrphanInv, Grows, ObjectsKnown,
         \/ RegisterOrphan \/ PersistOrphan \/ RecordOrphan
         \/ \E s \in Sources : CheckOrphan(s) \/ MisreadOrphan(s)
  PROVE  OrphanInv'
<1>1. /\ rListed' = rListed /\ rTodo' \subseteq rTodo
      /\ rAt \in {"orphans", "register", "persist", "record"}
      /\ rAt' \in {"orphans", "register", "persist", "record"}
  BY DEF RegisterOrphan, PersistOrphan, RecordOrphan, CheckOrphan, MisreadOrphan,
         GoOn, NextObject, Record
<1>2. \A s \in rListed : Foreign(s) \/ descriptor'[MatchOf[s]] = s
  BY ArchiveAssumption DEF Inv, ReconcileInv, OrphanInv, Grows, Owned
<1>3. /\ \A s \in uploaded' : Owned(s)'
      /\ \A s \in rListed' : Foreign(s)' \/ Owned(s)'
      /\ \A s \in rTodo' : Foreign(s)'
  BY <1>1, <1>2 DEF ObjectsKnown, Owned, Foreign, Inv, ReconcileInv, OrphanInv
<1>4. rAt' \in {"register", "persist", "record"} => Foreign(rItem')
  BY DEF RegisterOrphan, PersistOrphan, RecordOrphan, CheckOrphan, MisreadOrphan,
         GoOn, NextObject, Record, OrphanInv
<1>5. /\ ledger' \in [Sources -> {"none", "unresolved", "registered"}]
      /\ \A s \in Sources : ledger'[s] # "none" => Foreign(s)
  <2>1. \/ ledger' = ledger
        \/ \E s \in Sources, state \in {"unresolved", "registered"} :
             Foreign(s) /\ ledger' = [ledger EXCEPT ![s] = state]
    <3>1. (rItem \in Sources /\ Foreign(rItem)) \/ rAt = "orphans"
      BY <1>1 DEF OrphanInv, Inv, ReconcileInv, Working
    <3>2. rAt = "orphans" => \A s \in rTodo : Foreign(s)
      BY DEF OrphanInv
    <3> QED
      BY <3>1, <3>2 DEF RegisterOrphan, PersistOrphan, RecordOrphan, CheckOrphan, MisreadOrphan, Record
  <2> QED BY <2>1 DEF OrphanInv
<1> QED
  BY <1>1, <1>3, <1>4, <1>5 DEF OrphanInv, ObjectsKnown, Foreign, FirstLoop

LEMMA StepOrphan == Inv /\ OrphanInv /\ [Next]_vars => OrphanInv'
<1> SUFFICES ASSUME Inv, OrphanInv, [Next]_vars PROVE OrphanInv'
  OBVIOUS
<1>0. Inv' /\ Grows
  BY StepInv
<1>1. ASSUME NEW p \in Ingesters, Ingest(p) PROVE OrphanInv'
  BY <1>0, <1>1, IngestKnown, OrphansRemembered
<1>2. CASE \/ \E safe \in BOOLEAN : StartReconcile(safe)
           \/ LoadManifests \/ StartOrphans \/ FinishReconcile
           \/ AbortReconcile \/ StopReconcile
  <2>1. UNCHANGED <<bucket, inherited, uploaded, ledger, db>>
    BY <1>2 DEF StartReconcile, LoadManifests, StartOrphans, FinishReconcile,
                AbortReconcile, StopReconcile, Fault, store
  <2> QED BY <1>0, <1>2, <2>1, NothingPut, ReadsKeepOrphans
<1>3. CASE \/ Condemn \/ ReadPointer \/ EnsureIntent \/ PublishRepair
           \/ \E s \in Sources : CheckManifest(s) \/ MisreadManifest(s)
  <2>1. UNCHANGED <<bucket, inherited, uploaded>>
    BY <1>3 DEF Condemn, ReadPointer, EnsureIntent, PublishRepair, CheckManifest,
                MisreadManifest, Fault, store
  <2> QED BY <1>0, <1>3, <2>1, NothingPut, FirstLoopKeepsOrphans
<1>4. CASE \/ RegisterOrphan \/ PersistOrphan \/ RecordOrphan
           \/ \E s \in Sources : CheckOrphan(s) \/ MisreadOrphan(s)
  <2>1. UNCHANGED <<bucket, inherited, uploaded>>
    BY <1>4 DEF RegisterOrphan, PersistOrphan, RecordOrphan, CheckOrphan,
                MisreadOrphan, Fault, store
  <2> QED BY <1>0, <1>4, <2>1, NothingPut, SecondLoopKeepsOrphans
<1>5. CASE Rebuild
  <2>1. UNCHANGED <<bucket, inherited, uploaded, ledger, reconcile>>
    BY <1>5 DEF Rebuild, ReadVerified, CheckRebuild, ApplyRebuild, StopRebuild,
                LeaveRebuild, store
  <2> QED BY <1>0, <2>1, NothingPut, OrphansRemembered
<1>6. ASSUME NEW s \in Sources, Lose(s) PROVE OrphanInv'
  <2>1. UNCHANGED <<ledger, reconcile>>
    BY <1>6 DEF Lose
  <2> QED BY <1>0, <1>6, <2>1, NothingPut, OrphansRemembered
<1>7. CASE UNCHANGED vars
  BY <1>0, <1>7, NothingPut, OrphansRemembered DEF vars, store
<1> QED
  BY <1>1, <1>2, <1>3, <1>4, <1>5, <1>6, <1>7 DEF Next, Reconcile

(* An object that an ingest run has put is never recorded as an orphan.     *)
THEOREM NeverFalseOrphans == Spec => []NoFalseOrphans
<1>1. Init => OrphanInv
  BY DEF Init, OrphanInv, Foreign, FirstLoop
<1>2. Inv /\ OrphanInv => NoFalseOrphans
  BY DEF Inv, StoreInv, OrphanInv, NoFalseOrphans, Foreign
<1> QED
  BY <1>1, <1>2, AlwaysInv, StepOrphan, PTL DEF Spec

-----------------------------------------------------------------------------
(* The refinement: a put stores a source, a Persist accepts one. *)

LEMMA PersistMaps ==
  ASSUME DatabaseInv, NEW s \in Sources, s \in Stored, Persist(s),
         UNCHANGED <<inherited, uploaded>>
  PROVE  Promise!Next \/ UNCHANGED <<Stored, pointer>>
<1>1. Stored' = Stored
  BY DEF Stored
<1>2. /\ pointer \in [Matches -> Sources \cup {NoSource, Legacy}]
      /\ MatchOf[s] \in Matches
      /\ pointer[MatchOf[s]] \in {NoSource, s}
      /\ pointer' = [pointer EXCEPT ![MatchOf[s]] = s]
  BY ArchiveAssumption DEF DatabaseInv, TablesAgree, Persist
<1>3. CASE pointer[MatchOf[s]] = NoSource
  <2>1. Promise!Accept(s)
    BY <1>1, <1>2, <1>3 DEF Promise!Accept
  <2> QED
    BY <2>1 DEF Promise!Next
<1>4. CASE pointer[MatchOf[s]] = s
  <2>1. pointer' = pointer
    BY <1>2, <1>4
  <2> QED
    BY <1>1, <2>1
<1> QED
  BY <1>2, <1>3, <1>4

LEMMA PutMaps ==
  ASSUME NEW s \in Sources, Put(s), UNCHANGED pointer
  PROVE  Promise!Next \/ UNCHANGED <<Stored, pointer>>
<1>1. Stored' = Stored \cup {s}
  BY DEF Put, Stored
<1> QED
  BY <1>1 DEF Promise!Next, Promise!Store

LEMMA QuietMaps ==
  ASSUME UNCHANGED <<inherited, uploaded, pointer>>
  PROVE  Promise!Next \/ UNCHANGED <<Stored, pointer>>
BY DEF Stored

(* A match is accepted once, with bytes that were in the archive before,   *)
(* and keeps them: the pipeline implements ArchivedMatches.                *)
THEOREM ImplementsArchivedMatches == Spec => AcceptedOnce
<1>1. Init => Promise!Init
  BY DEF Init, Promise!Init, Stored
<1>2. Inv /\ [Next]_vars => [Promise!Next]_<<Stored, pointer>>
  <2> SUFFICES ASSUME Inv, [Next]_vars
               PROVE  Promise!Next \/ UNCHANGED <<Stored, pointer>>
    OBVIOUS
  <2> DEFINE Goal == Promise!Next \/ UNCHANGED <<Stored, pointer>>
  <2> USE DEF Inv
  <2>1. ASSUME NEW p \in Ingesters, Ingest(p)
        PROVE  Goal
    <3>1. CASE at[p] # "idle" /\ Put(held[p]) /\ UNCHANGED pointer
      <4>1. held[p] \in Sources
        BY <3>1 DEF IngestInv
      <4> QED
        BY <3>1, <4>1, PutMaps
    <3>2. CASE FinalizeTransactionally(p)
      <4>1. held[p] \in Sources /\ held[p] \in Stored /\ Persist(held[p])
            /\ UNCHANGED <<inherited, uploaded>>
        BY <3>2 DEF FinalizeTransactionally, IngestInv, store
      <4> QED
        BY <4>1, PersistMaps
    <3>3. CASE UNCHANGED <<inherited, uploaded, pointer>>
      BY <3>3, QuietMaps
    <3> QED
      BY <2>1, <3>1, <3>2, <3>3
         DEF Ingest, SelectMatch, CreateIntent, HeadObject, PutObject, VerifyObject,
             UploadThrows, MarkUploadFailed, StopIngest, EnsurePending, MarkFailed, store, db
  <2>2. CASE UNCHANGED <<inherited, uploaded>> /\ Persist(rItem) /\ rAt \in {"publish", "persist"}
    <3>1. rItem \in Sources /\ rItem \in Stored
      BY <2>2 DEF ReconcileInv, Working
    <3> QED
      BY <2>2, <3>1, PersistMaps
  <2>3. CASE UNCHANGED <<inherited, uploaded>> /\ Persist(bItem) /\ bAt = "apply"
    <3>1. bItem \in Sources /\ bItem \in Stored
      BY <2>3 DEF RebuildInv, Owned
    <3> QED
      BY <2>3, <3>1, PersistMaps
  <2>4. CASE UNCHANGED <<inherited, uploaded, pointer>>
    BY <2>4, QuietMaps
  <2>5. CASE Reconcile
    BY <2>2, <2>4, <2>5
       DEF Reconcile, LoadManifests, StartOrphans, FinishReconcile, AbortReconcile,
           CheckManifest, CheckOrphan, Condemn, ReadPointer, EnsureIntent, PublishRepair,
           RegisterOrphan, PersistOrphan, RecordOrphan, MarkFailed, EnsurePending,
           MarkVerified, store, db
  <2>6. CASE Rebuild
    BY <2>3, <2>4, <2>6
       DEF Rebuild, ReadVerified, CheckRebuild, ApplyRebuild, StopRebuild, LeaveRebuild, store, db
  <2>7. CASE \/ \E safe \in BOOLEAN : StartReconcile(safe)
             \/ \E s \in Sources : MisreadManifest(s) \/ MisreadOrphan(s) \/ Lose(s)
             \/ StopReconcile
             \/ UNCHANGED vars
    BY <2>4, <2>7
       DEF StartReconcile, MisreadManifest, MisreadOrphan, Lose, StopReconcile, Fault,
           store, db, vars
  <2> QED
    BY <2>1, <2>5, <2>6, <2>7 DEF Next
<1> QED
  BY <1>1, <1>2, AlwaysInv, PTL DEF Spec, AcceptedOnce, Promise!Spec

-----------------------------------------------------------------------------
(* The target cohort (TargetCohort).  The hashes of rows are bounded, and so *)
(* are those that were counted; of what is stored nothing else is known, and *)
(* nothing at all of when it was stored.                                     *)
CohortInv ==
  /\ DOMAIN stored \subseteq 1..MaxRows
  /\ request.stage \in {"levels", "phase"} => request.counted \subseteq 1..MaxRows

LEMMA CohortStep == CohortInv /\ [CohortNext]_cohortVars => CohortInv'
<1> SUFFICES ASSUME CohortInv, [CohortNext]_cohortVars PROVE CohortInv'
  OBVIOUS
<1> USE DEF CohortInv
<1>1. ASSUME NEW row \in RowForms, NEW hash \in 1..MaxRows, StoreRow(row, hash) PROVE CohortInv'
  BY <1>1 DEF StoreRow
<1>2. ASSUME NEW group \in Groups, NEW l \in AskedLevels, CountLevels(group, l) PROVE CohortInv'
  <2> DEFINE pool == ChooseLevelPool(group, l)
             counted == AtLevels(group, pool)
  <2>1. counted \subseteq 1..MaxRows
    BY DEF AtLevels, Indices
  <2>2. /\ stored' = stored
        /\ request' = Idle
           \/ request' = [stage |-> "levels", group |-> group, pool |-> pool, counted |-> counted]
    BY <1>2 DEF CountLevels
  <2> HIDE DEF pool, counted
  <2> QED BY <2>1, <2>2 DEF Idle
<1>3. ASSUME NEW group \in Groups, NEW p \in DOMAIN Phases, AskPhase(group, Phases[p]) PROVE CohortInv'
  <2>1. stored' = stored /\ request'.stage = "count"
    BY <1>3 DEF AskPhase
  <2> QED BY <2>1
<1>4. ASSUME CountPhase PROVE CohortInv'
  <2> DEFINE phase == Head(request.order)
             counted == OfPhase(request.group, phase)
             rest == Tail(request.order)
  <2>1. counted \subseteq 1..MaxRows
    BY DEF OfPhase, Indices
  <2>2. /\ stored' = stored
        /\ \/ request' = [stage |-> "phase", group |-> request.group, phase |-> phase, counted |-> counted]
           \/ request' = Idle
           \/ request' = [stage |-> "count", group |-> request.group, order |-> rest]
    BY <1>4 DEF CountPhase
  <2> HIDE DEF phase, counted, rest
  <2> QED BY <2>1, <2>2 DEF Idle
<1>5. CASE Fetch \/ QueryFails \/ UNCHANGED cohortVars
  BY <1>5 DEF Fetch, QueryFails, cohortVars, Idle
<1> QED BY <1>1, <1>2, <1>3, <1>4, <1>5 DEF CohortNext

(* The cut of rows keeps some of them, *)
LEMMA CutShown ==
  ASSUME NEW K, NEW n
  PROVE  First(PerMatch(K), n) \subseteq K
<1>1. First(PerMatch(K), n) \subseteq PerMatch(K)
  BY DEF First
<1>2. PerMatch(K) \subseteq K
  BY DEF PerMatch, First, RowsOf
<1> QED BY <1>1, <1>2

(* and whatever rows were found: the weights that those of a match have     *)
(* together are at most one, and one if none of them was cut.               *)
LEMMA WeightsTogether ==
  ASSUME CohortInv, NEW K \in SUBSET (DOMAIN stored), NEW S \in SUBSET K, NEW w, NEW m \in MatchesOf(S),
         \A k \in S : w[k] = MatchBalancedWeight(K, k)
  PROVE  /\ SumOf(w, RowsOf(S, m)) <= Unit
         /\ (RowsOf(K, m) \subseteq S => SumOf(w, RowsOf(S, m)) = Unit)
<1> DEFINE R == RowsOf(K, m)
           T == RowsOf(S, m)
           n == Cardinality(R)
           c == Unit \div n
<1>1. IsFiniteSet(DOMAIN stored) /\ Cardinality(DOMAIN stored) <= MaxRows /\ Cardinality(DOMAIN stored) \in Nat
  <2>1. MaxRows \in Nat
    BY CohortAssumption
  <2>2. IsFiniteSet(1..MaxRows) /\ Cardinality(1..MaxRows) = MaxRows
    BY <2>1, FS_Interval
  <2> QED BY <2>1, <2>2, FS_Subset, FS_CardinalityType DEF CohortInv
<1>2. R \in SUBSET (DOMAIN stored) /\ T \in SUBSET R /\ T # {}
  BY DEF RowsOf, MatchesOf
<1> HIDE DEF R, T
<1>3. IsFiniteSet(R) /\ Cardinality(R) \in Nat /\ Cardinality(R) <= Cardinality(DOMAIN stored) /\ R # {}
  BY <1>1, <1>2, FS_Subset, FS_CardinalityType
<1>4. IsFiniteSet(T) /\ Cardinality(T) \in Nat /\ Cardinality(T) <= n
  BY <1>2, <1>3, FS_Subset, FS_CardinalityType
<1>5. n \in 1..MaxRows
  <2>1. n # 0
    BY <1>3, FS_EmptySet
  <2>2. MaxRows \in Nat
    BY CohortAssumption
  <2> HIDE DEF n
  <2> QED BY <1>1, <1>3, <2>1, <2>2 DEF n
<1>6. Unit \in Nat /\ Unit % n = 0
  BY <1>5, CohortAssumption
<1> HIDE DEF n
<1>7. c \in Nat /\ Unit = n * c
  <2>1. n \in Nat /\ n > 0
    BY <1>5, CohortAssumption
  <2> QED BY <1>6, <2>1
<1> HIDE DEF c
<1>8. \A k \in T : w[k] = c
  <2> SUFFICES ASSUME NEW k \in T PROVE w[k] = c
    OBVIOUS
  <2>1. k \in S /\ stored[k].match = m
    BY DEF T, RowsOf
  <2>2. w[k] = Unit \div Max({1, n})
    BY <2>1 DEF MatchBalancedWeight, n, R
  <2>3. n \in Int /\ n >= 1
    BY <1>5, CohortAssumption
  <2>4. Max({1, n}) = n
    <3>1. Max({1, n}) = IF 1 >= n THEN 1 ELSE n
      BY <2>3, MaxMinOfTwo
    <3> QED BY <2>3, <3>1
  <2> QED BY <2>2, <2>4 DEF c
<1>9. SumOf(w, T) = Cardinality(T) * c
  BY <1>4, <1>7, <1>8, SumConstant
<1>10. Cardinality(T) * c <= n * c
  BY <1>4, <1>5, <1>7, CohortAssumption
<1>11. R \subseteq S => Cardinality(T) = n
  <2>1. R \subseteq S => T = R
    BY DEF T, R, RowsOf
  <2> QED BY <2>1 DEF n
<1> QED BY <1>7, <1>9, <1>10, <1>11 DEF T, R

(* The answer shows no fewer rows than were counted if it is silent.  So the *)
(* rows that were cut are then at most as many as came in: those found are   *)
(* among those counted and those that came in.                               *)
LEMMA DatasetBalanced ==
  ASSUME CohortInv, NEW K \in SUBSET (DOMAIN stored), NEW C \in SUBSET (1..MaxRows), NEW limit,
         NEW d, d = Dataset(K, C, limit)
  PROVE  /\ \A m \in MatchesOf(d.shown) :
              /\ TotalWeight(d, m) <= Unit
              /\ RowsOf(K, m) \subseteq d.shown => TotalWeight(d, m) = Unit
         /\ Cardinality(K) - Cardinality(d.shown) > Cardinality(K \ C) => Warning(d) # "none"
<1> DEFINE shown == First(PerMatch(K), limit)
           w == [k \in shown |-> MatchBalancedWeight(K, k)]
<1>1. d.shown = shown /\ d.weight = w /\ d.truncated = (Cardinality(shown) < Cardinality(C))
  BY DEF Dataset
<1>2. shown \in SUBSET K
  BY CutShown
<1>3. \A m : TotalWeight(d, m) = SumOf(d.weight, RowsOf(d.shown, m))
  BY DEF TotalWeight, SumOf
<1>4. \A k \in shown : w[k] = MatchBalancedWeight(K, k)
  OBVIOUS
<1> HIDE DEF shown, w
<1>5. ASSUME NEW m \in MatchesOf(d.shown)
      PROVE  TotalWeight(d, m) <= Unit /\ (RowsOf(K, m) \subseteq d.shown => TotalWeight(d, m) = Unit)
  <2>1. SumOf(w, RowsOf(shown, m)) <= Unit /\ (RowsOf(K, m) \subseteq shown => SumOf(w, RowsOf(shown, m)) = Unit)
    BY <1>1, <1>2, <1>4, <1>5, WeightsTogether
  <2> QED BY <1>1, <1>3, <2>1
<1>6. ASSUME Cardinality(K) - Cardinality(shown) > Cardinality(K \ C) PROVE d.truncated
  <2>1. MaxRows \in Nat /\ IsFiniteSet(1..MaxRows)
    BY CohortAssumption, FS_Interval
  <2>2. IsFiniteSet(K) /\ IsFiniteSet(C) /\ IsFiniteSet(shown)
    BY <1>2, <2>1, FS_Subset DEF CohortInv
  <2>3. /\ IsFiniteSet(K \ C) /\ IsFiniteSet(K \cap C)
        /\ Cardinality(K \ C) = Cardinality(K) - Cardinality(K \cap C)
    BY <2>2, FS_Difference, FS_Intersection
  <2>4. Cardinality(K \cap C) <= Cardinality(C)
    BY <2>2, FS_Subset, K \cap C \subseteq C
  <2>5. /\ Cardinality(K) \in Nat /\ Cardinality(C) \in Nat /\ Cardinality(shown) \in Nat
        /\ Cardinality(K \cap C) \in Nat /\ Cardinality(K \ C) \in Nat
    BY <2>2, <2>3, FS_CardinalityType
  <2>6. Cardinality(shown) < Cardinality(C)
    BY <1>6, <2>3, <2>4, <2>5
  <2> QED BY <1>1, <2>6
<1>7. Cardinality(K) - Cardinality(d.shown) > Cardinality(K \ C) => Warning(d) # "none"
  BY <1>1, <1>6 DEF Warning
<1> QED BY <1>5, <1>7

LEMMA CohortInvImplies == CohortInv => CohortBalanced
<1> SUFFICES ASSUME CohortInv, NEW d \in Answers
             PROVE  /\ \A m \in MatchesOf(d.shown) :
                         /\ TotalWeight(d, m) <= Unit
                         /\ RowsOf(Found, m) \subseteq d.shown => TotalWeight(d, m) = Unit
                    /\ Cardinality(Found) - Cardinality(d.shown) > Cardinality(Found \ request.counted)
                         => Warning(d) # "none"
  BY DEF CohortBalanced
<1>1. request.stage \in {"levels", "phase"}
  BY DEF Answers
<1>2. PICK limit \in Limits : d = Dataset(Found, request.counted, limit)
  BY <1>1 DEF Answers
<1>3. request.counted \in SUBSET (1..MaxRows)
  BY <1>1 DEF CohortInv
<1>4. Found \in SUBSET (DOMAIN stored)
  <2>1. CASE request.stage = "levels"
    BY <2>1 DEF Found, AtLevels, Indices
  <2>2. CASE request.stage = "phase"
    BY <2>2 DEF Found, OfPhase, Indices
  <2> QED BY <1>1, <2>1, <2>2
<1> QED BY <1>2, <1>3, <1>4, DatasetBalanced

(* For any rows, stored at any time, filters and limits: no match of a      *)
(* cohort weighs more than one, one that was not cut weighs exactly one, and *)
(* the answer says so when more rows were cut than came in after they were  *)
(* counted (datasetFromRows).                                               *)
THEOREM AlwaysBalanced == CohortSpec => []CohortBalanced
<1>1. CohortInit => CohortInv
  BY CohortAssumption DEF CohortInit, CohortInv, Idle
<1> QED BY <1>1, CohortStep, CohortInvImplies, PTL DEF CohortSpec


-----------------------------------------------------------------------------
(* The projection of a match (MatchReplay).  The argument: event by event   *)
(* the replay holds what the player held, and whatever happens after a      *)
(* frame is later than the frame, so the replay up to its time stays what   *)
(* it was when the frame was cut.                                           *)

ReplayStep(events, after, k) == IF k = 0 THEN <<>> ELSE ApplyEvent(after[k - 1], events[k])

(* There is such a function: there would be a least number of events that   *)
(* it does not exist for.                                                   *)
LEMMA ReplayAt ==
  ASSUME NEW events, Len(events) \in Nat
  PROVE  /\ Replay(events)[0] = <<>>
         /\ \A k \in 1..Len(events) : Replay(events)[k] = ApplyEvent(Replay(events)[k - 1], events[k])
<1> DEFINE n == Len(events)
           Upto(f, m) == \A k \in 0..m : f[k] = ReplayStep(events, f, k)
           Bad == {m \in Nat : ~ \E f : Upto(f, m)}
<1>1. 0 \notin Bad
  <2> DEFINE f == [k \in {0} |-> <<>>]
  <2>1. \A k \in 0..0 : f[k] = ReplayStep(events, f, k)
    BY DEF ReplayStep
  <2> HIDE DEF f
  <2> QED BY <2>1
<1>2. ASSUME NEW m \in Nat, NEW f, Upto(f, m) PROVE \E g : Upto(g, m + 1)
  <2> DEFINE g == [k \in 0..m + 1 |-> IF k <= m THEN f[k] ELSE ReplayStep(events, f, k)]
  <2>1. ASSUME NEW k \in 0..m + 1 PROVE g[k] = ReplayStep(events, g, k)
    <3>1. g[k] = ReplayStep(events, f, k)
      BY <1>2
    <3>2. CASE k = 0
      BY <3>1, <3>2 DEF ReplayStep
    <3>3. CASE k # 0
      <4>1. k - 1 \in 0..m + 1 /\ k - 1 <= m
        BY <3>3
      <4>2. g[k - 1] = f[k - 1]
        BY <4>1
      <4> HIDE DEF g
      <4> QED BY <3>1, <4>2 DEF ReplayStep
    <3> QED BY <3>2, <3>3
  <2> HIDE DEF g
  <2> QED BY <2>1
<1>3. Bad = {}
  <2> SUFFICES ASSUME Bad # {} PROVE FALSE
    OBVIOUS
  <2>1. PICK m \in Bad : \A k \in Bad : m <= k
    <3>1. Bad \subseteq Nat
      OBVIOUS
    <3> HIDE DEF Bad
    <3> QED BY <3>1, LeastNatural
  <2>2. m - 1 \in Nat /\ m - 1 \notin Bad
    <3>1. Bad \subseteq Nat
      OBVIOUS
    <3> HIDE DEF Bad
    <3>2. m \in Nat /\ m # 0
      BY <1>1, <2>1, <3>1
    <3>3. m - 1 \in Nat /\ ~(m <= m - 1)
      BY <3>2
    <3> QED BY <2>1, <3>3
  <2>3. \E f : Upto(f, m - 1)
    BY <2>2
  <2>4. \E g : Upto(g, (m - 1) + 1)
    <3> HIDE DEF Upto
    <3> QED BY <1>2, <2>2, <2>3
  <2> QED BY <2>1, <2>4
<1>4. PICK f : Upto(f, n)
  BY <1>3
<1> DEFINE h == [k \in 0..n |-> f[k]]
<1>5. h = [k \in 0..n |-> ReplayStep(events, h, k)]
  <2> SUFFICES ASSUME NEW k \in 0..n PROVE f[k] = ReplayStep(events, h, k)
    OBVIOUS
  <2>1. f[k] = ReplayStep(events, f, k)
    BY <1>4
  <2>2. k # 0 => h[k - 1] = f[k - 1]
    <3>1. k # 0 => k - 1 \in 0..n
      OBVIOUS
    <3> QED BY <3>1
  <2> QED BY <2>1, <2>2 DEF ReplayStep
<1> HIDE DEF h
<1> DEFINE g == Replay(events)
<1>6. g = CHOOSE a : a = [k \in 0..n |-> ReplayStep(events, a, k)]
  BY DEF Replay, ReplayStep
<1> HIDE DEF g
<1>7. g = [k \in 0..n |-> ReplayStep(events, g, k)]
  BY <1>5, <1>6
<1>8. \A k \in 0..n : g[k] = ReplayStep(events, g, k)
  BY <1>7
<1>9. g[0] = <<>>
  BY <1>8 DEF ReplayStep
<1>10. \A k \in 1..n : g[k] = ApplyEvent(g[k - 1], events[k])
  BY <1>8 DEF ReplayStep
<1> QED BY <1>9, <1>10 DEF g

(* One more event goes on from what was replayed before.                    *)
LEMMA ReplayMore ==
  ASSUME NEW T, NEW events \in Seq(T), NEW e \in T
  PROVE  LET more == Append(events, e)
         IN  /\ Len(more) = Len(events) + 1
             /\ \A k \in 0..Len(events) : Replay(more)[k] = Replay(events)[k]
             /\ Replay(more)[Len(more)] = ApplyEvent(Replay(events)[Len(events)], e)
<1> DEFINE more == Append(events, e)
           n == Len(events)
<1>1. /\ n \in Nat /\ Len(more) = n + 1 /\ more[n + 1] = e
      /\ \A k \in 1..n : more[k] = events[k]
  BY AppendProperties, LenProperties
<1> DEFINE Bad == {k \in 0..n : Replay(more)[k] # Replay(events)[k]}
<1> HIDE DEF more
<1>2. Bad = {}
  <2> SUFFICES ASSUME Bad # {} PROVE FALSE
    OBVIOUS
  <2>1. PICK m \in Bad : \A k \in Bad : m <= k
    <3>1. Bad \subseteq Nat
      BY <1>1
    <3> HIDE DEF Bad
    <3> QED BY <3>1, LeastNatural
  <2>2. m \in 0..n /\ Replay(more)[m] # Replay(events)[m]
    BY <2>1
  <2>3. m # 0
    BY <1>1, <2>2, ReplayAt
  <2>4. m \in 1..n /\ m \in 1..n + 1 /\ m - 1 \in 0..n /\ ~(m <= m - 1)
    BY <1>1, <2>2, <2>3
  <2>5. Replay(more)[m - 1] = Replay(events)[m - 1]
    BY <2>1, <2>4
  <2>6. Replay(more)[m] = ApplyEvent(Replay(more)[m - 1], more[m])
    <3>1. Len(more) \in Nat
      BY <1>1
    <3>2. \A k \in 1..Len(more) : Replay(more)[k] = ApplyEvent(Replay(more)[k - 1], more[k])
      BY <3>1, ReplayAt
    <3> QED BY <1>1, <2>4, <3>2
  <2>7. Replay(events)[m] = ApplyEvent(Replay(events)[m - 1], events[m])
    <3>1. \A k \in 1..Len(events) : Replay(events)[k] = ApplyEvent(Replay(events)[k - 1], events[k])
      BY <1>1, ReplayAt
    <3> QED BY <2>4, <3>1
  <2> QED BY <1>1, <2>2, <2>4, <2>5, <2>6, <2>7
<1>3. Replay(more)[n + 1] = ApplyEvent(Replay(more)[n], e)
  <2>1. n + 1 \in 1..Len(more) /\ (n + 1) - 1 = n /\ Len(more) \in Nat
    BY <1>1
  <2> QED BY <1>1, <2>1, ReplayAt
<1>4. n \in 0..n
  BY <1>1
<1> QED BY <1>1, <1>2, <1>3, <1>4 DEF more

-----------------------------------------------------------------------------
Items == DOMAIN Catalog \cup {NoItem}
EventTypes == {"ITEM_PURCHASED", "ITEM_SOLD", "ITEM_DESTROYED", "ITEM_UNDO"}
ItemEvents == [type : EventTypes, time : Nat, item : Items, before : Items, after : Items]

LEMMA RemovedTyped ==
  ASSUME NEW inventory \in Seq(Items), NEW i
  PROVE  RemoveFirst(inventory, i) \in Seq(Items)
<1>1. ASSUME \E k \in 1..Len(inventory) : inventory[k] = i
      PROVE  RemoveFirst(inventory, i) \in Seq(Items)
  <2> DEFINE I == {k \in 1..Len(inventory) : inventory[k] = i}
             place == SelectInSeq(inventory, LAMBDA v : v = i)
  <2>1. place = Min(I)
    BY <1>1 DEF SelectInSeq
  <2>2. Len(inventory) \in Nat
    BY LenProperties
  <2>3. Min(I) \in I
    <3>1. I \subseteq Nat /\ I # {}
      BY <1>1, <2>2
    <3> HIDE DEF I
    <3>2. \E m \in I : \A k \in I : m <= k
      BY <3>1, LeastNatural
    <3> QED BY <3>2 DEF Min
  <2>4. place \in 1..Len(inventory)
    BY <2>1, <2>3
  <2> HIDE DEF place
  <2>5. /\ 1 \in 1..Len(inventory) + 1 /\ place - 1 \in 1 - 1 .. Len(inventory)
        /\ place + 1 \in 1..Len(inventory) + 1 /\ Len(inventory) \in (place + 1) - 1 .. Len(inventory)
    BY <2>2, <2>4
  <2>6. /\ SubSeq(inventory, 1, place - 1) \in Seq(Items)
        /\ SubSeq(inventory, place + 1, Len(inventory)) \in Seq(Items)
    BY <2>5, SubSeqProperties
  <2>7. RemoveFirst(inventory, i)
          = SubSeq(inventory, 1, place - 1) \o SubSeq(inventory, place + 1, Len(inventory))
    BY <1>1 DEF RemoveFirst, RemoveAt, place
  <2> QED BY <2>6, <2>7, ConcatProperties
<1>2. ASSUME ~ \E k \in 1..Len(inventory) : inventory[k] = i
      PROVE  RemoveFirst(inventory, i) \in Seq(Items)
  BY <1>2 DEF RemoveFirst
<1> QED BY <1>1, <1>2

LEMMA AppliedTyped ==
  ASSUME NEW inventory \in Seq(Items), NEW e \in ItemEvents
  PROVE  ApplyEvent(inventory, e) \in Seq(Items)
<1>1. e.item \in Items /\ e.before \in Items /\ e.after \in Items
  BY DEF ItemEvents
<1>2. \A s \in Seq(Items) : \A i \in Items : Append(s, i) \in Seq(Items) /\ RemoveFirst(s, i) \in Seq(Items)
  BY AppendProperties, RemovedTyped
<1> DEFINE less == IF e.before # NoItem THEN RemoveFirst(inventory, e.before) ELSE inventory
<1>3. less \in Seq(Items)
  BY <1>1, <1>2
<1>4. ApplyEvent(inventory, e) \in
        {Append(inventory, e.item), RemoveFirst(inventory, e.item), Append(less, e.after), less, inventory}
  BY DEF ApplyEvent
<1> HIDE DEF less
<1> QED BY <1>1, <1>2, <1>3, <1>4

LEMMA ReplayTyped ==
  ASSUME NEW events \in Seq(ItemEvents)
  PROVE  \A k \in 0..Len(events) : Replay(events)[k] \in Seq(Items)
<1> DEFINE Bad == {k \in 0..Len(events) : Replay(events)[k] \notin Seq(Items)}
<1>0. Len(events) \in Nat
  BY LenProperties
<1> SUFFICES ASSUME Bad # {} PROVE FALSE
  OBVIOUS
<1>1. PICK m \in Bad : \A k \in Bad : m <= k
  <2>1. Bad \subseteq Nat
    BY <1>0
  <2> HIDE DEF Bad
  <2> QED BY <2>1, LeastNatural
<1>2. m \in 0..Len(events) /\ Replay(events)[m] \notin Seq(Items)
  BY <1>1
<1>3. m # 0
  <2>1. Replay(events)[0] = <<>>
    BY <1>0, ReplayAt
  <2>2. <<>> \in Seq(Items)
    BY EmptySeq
  <2> QED BY <1>2, <2>1, <2>2
<1>4. m \in 1..Len(events) /\ m - 1 \in 0..Len(events) /\ ~(m <= m - 1)
  BY <1>0, <1>2, <1>3
<1>5. Replay(events)[m - 1] \in Seq(Items)
  BY <1>1, <1>4
<1>6. events[m] \in ItemEvents
  BY <1>4, ElementOfSeq
<1> QED BY <1>0, <1>2, <1>4, <1>5, <1>6, ReplayAt, AppliedTyped

LEMMA LegendaryTyped ==
  ASSUME NEW inventory \in Seq(Items)
  PROVE  Legendary(inventory) \in Nat /\ (inventory = <<>> => Legendary(inventory) = 0)
<1> DEFINE K == {k \in DOMAIN inventory : CompletedLegendary(inventory[k])}
<1>1. DOMAIN inventory = 1..Len(inventory) /\ Len(inventory) \in Nat
  BY LenProperties
<1>2. IsFiniteSet(K)
  <2>1. IsFiniteSet(DOMAIN inventory)
    BY <1>1, FS_Interval
  <2>2. K \subseteq DOMAIN inventory
    OBVIOUS
  <2> HIDE DEF K
  <2> QED BY <2>1, <2>2, FS_Subset
<1>3. inventory = <<>> => K = {}
  OBVIOUS
<1>4. Legendary(inventory) = Cardinality(K)
  BY DEF Legendary
<1> HIDE DEF K
<1> QED BY <1>2, <1>3, <1>4, FS_CardinalityType, FS_EmptySet

-----------------------------------------------------------------------------
FrameRecords == [time : Nat, stats : SUBSET Participants, held : Seq(Items), levels : [Participants -> Nat]]
UndoItems == {Nothing} \cup [kind : {"bought", "sold"}, item : DOMAIN Catalog]

(* What was replayed so far is what the buyer holds, and was in each frame.  *)
Replayed ==
  /\ now \in Nat /\ level \in Nat /\ undoable \in UndoItems
  /\ log \in Seq(ItemEvents) /\ frames \in Seq(FrameRecords)
  /\ \A k \in DOMAIN log : log[k].time <= now
  /\ \A j, k \in DOMAIN log : j <= k => log[j].time <= log[k].time
  /\ bag = Replay(log)[Len(log)]
  /\ \A f \in DOMAIN frames : frames[f].held = InventoryAt(frames[f].time)

(* Which events a time takes in. *)
Takes(events, time) == {0} \cup {k \in DOMAIN events : events[k].time <= time}

LEMMA UntilTakes ==
  ASSUME log \in Seq(ItemEvents), NEW time
  PROVE  /\ Until(time) = Max(Takes(log, time)) /\ Until(time) \in Takes(log, time)
         /\ Until(time) \in 0..Len(log)
         /\ \A k \in Takes(log, time) : k <= Until(time)
<1>1. DOMAIN log = 1..Len(log) /\ Len(log) \in Nat
  BY LenProperties
<1>2. Takes(log, time) \in SUBSET (0..Len(log)) /\ Takes(log, time) # {} /\ 0..Len(log) \subseteq Nat
  BY <1>1 DEF Takes
<1>3. Until(time) = Max(Takes(log, time))
  BY DEF Until, Takes
<1>4. IsFiniteSet(Takes(log, time))
  <2>1. IsFiniteSet(0..Len(log))
    BY <1>1, FS_Interval
  <2> QED BY <1>2, <2>1, FS_Subset
<1>5. Takes(log, time) \in SUBSET Nat
  BY <1>2
<1> QED BY <1>2, <1>3, <1>4, <1>5, MaxMinOfNaturals

LEMMA ReplayedInit == ASSUME MatchInit PROVE Replayed
<1>1. StartBag \in Seq(DOMAIN Catalog) /\ Len(StartBag) \in Nat /\ DOMAIN StartBag = 1..Len(StartBag)
  BY ReplayAssumption, LenProperties
<1> DEFINE n == Len(StartBag)
           E(k) == [type |-> "ITEM_PURCHASED", time |-> 0, item |-> StartBag[k], before |-> 0, after |-> 0]
<1>2. log = [k \in 1..n |-> E(k)]
  BY <1>1 DEF MatchInit
<1>3. \A k \in 1..n : StartBag[k] \in DOMAIN Catalog
  BY <1>1, ElementOfSeq
<1>4. \A k \in 1..n : E(k) \in ItemEvents
  BY <1>3 DEF ItemEvents, Items, EventTypes, NoItem
<1>5. log \in Seq(ItemEvents) /\ Len(log) = n /\ DOMAIN log = 1..n
  <2> HIDE DEF E
  <2> QED BY <1>1, <1>2, <1>4, IsASeq, LenProperties
<1>6. \A k \in 1..n : log[k] = E(k)
  <2> HIDE DEF E
  <2> QED BY <1>2
<1>7. \A k \in 1..n : log[k].time = 0 /\ log[k].type = "ITEM_PURCHASED" /\ log[k].item = StartBag[k]
  <2>1. \A k : E(k).time = 0 /\ E(k).type = "ITEM_PURCHASED" /\ E(k).item = StartBag[k]
    OBVIOUS
  <2> HIDE DEF E
  <2> QED BY <1>6, <2>1
<1> HIDE DEF E
<1>8. \A k \in 0..n : Replay(log)[k] = SubSeq(StartBag, 1, k)
  <2> DEFINE Bad == {k \in 0..n : Replay(log)[k] # SubSeq(StartBag, 1, k)}
  <2> SUFFICES ASSUME Bad # {} PROVE FALSE
    OBVIOUS
  <2>1. PICK m \in Bad : \A k \in Bad : m <= k
    <3>1. Bad \subseteq Nat
      BY <1>1
    <3> HIDE DEF Bad
    <3> QED BY <3>1, LeastNatural
  <2>2. m \in 0..n /\ Replay(log)[m] # SubSeq(StartBag, 1, m)
    BY <2>1
  <2>3. m # 0
    <3>1. Replay(log)[0] = <<>>
      BY <1>1, <1>5, ReplayAt
    <3>2. SubSeq(StartBag, 1, 0) = <<>>
      BY <1>1, SubSeqProperties
    <3> QED BY <2>2, <3>1, <3>2
  <2>4. m \in 1..n /\ m - 1 \in 0..n /\ ~(m <= m - 1)
    BY <1>1, <2>2, <2>3
  <2>5. Replay(log)[m - 1] = SubSeq(StartBag, 1, m - 1)
    BY <2>1, <2>4
  <2>6. Replay(log)[m] = ApplyEvent(Replay(log)[m - 1], log[m])
    <3>1. \A k \in 1..Len(log) : Replay(log)[k] = ApplyEvent(Replay(log)[k - 1], log[k])
      BY <1>1, <1>5, ReplayAt
    <3> QED BY <1>5, <2>4, <3>1
  <2>7. Replay(log)[m] = Append(SubSeq(StartBag, 1, m - 1), StartBag[m])
    BY <1>7, <2>4, <2>5, <2>6 DEF ApplyEvent
  <2>8. Append(SubSeq(StartBag, 1, m - 1), StartBag[m]) = SubSeq(StartBag, 1, m)
    BY <1>1, <2>4
  <2> QED BY <2>2, <2>7, <2>8
<1>9. SubSeq(StartBag, 1, n) = StartBag
  BY <1>1
<1>10. bag = Replay(log)[Len(log)]
  <2>1. n \in 0..n
    BY <1>1
  <2> QED BY <1>5, <1>8, <1>9, <2>1 DEF MatchInit
<1>11. now = 0 /\ level = 1 /\ undoable = Nothing /\ frames = <<>>
  BY DEF MatchInit
<1>12. frames \in Seq(FrameRecords) /\ DOMAIN frames = {}
  BY <1>11, EmptySeq
<1> QED BY <1>5, <1>7, <1>10, <1>11, <1>12 DEF Replayed, UndoItems

-----------------------------------------------------------------------------
LEMMA TimesTyped ==
  ASSUME Replayed
  PROVE  /\ \A k \in DOMAIN log : log[k] \in ItemEvents /\ log[k].time \in Nat
         /\ \A f \in DOMAIN frames : frames[f] \in FrameRecords /\ frames[f].time \in Nat
<1>1. /\ \A k \in DOMAIN log : log[k] \in ItemEvents
      /\ \A f \in DOMAIN frames : frames[f] \in FrameRecords
  BY ElementOfSeq, LenProperties DEF Replayed
<1>2. (\A e \in ItemEvents : e.time \in Nat) /\ (\A r \in FrameRecords : r.time \in Nat)
  BY DEF ItemEvents, FrameRecords
<1> QED BY <1>1, <1>2

(* One more event: it is later than every frame.                            *)
LEMMA LaterEvent ==
  ASSUME Replayed, NEW e \in ItemEvents, log' = Append(log, e), frames' = frames,
         now <= e.time, \A f \in DOMAIN frames : frames[f].time < e.time,
         bag' = ApplyEvent(bag, e), now' = e.time, level' = level, undoable' \in UndoItems
  PROVE  Replayed'
<1>1. /\ log \in Seq(ItemEvents) /\ frames \in Seq(FrameRecords) /\ now \in Nat /\ e.time \in Nat
      /\ DOMAIN log = 1..Len(log) /\ Len(log) \in Nat
  BY LenProperties DEF Replayed, ItemEvents
<1> DEFINE n == Len(log)
<1>2. /\ log' \in Seq(ItemEvents) /\ Len(log') = n + 1 /\ DOMAIN log' = 1 .. n + 1
      /\ log'[n + 1] = e /\ \A k \in 1..n : log'[k] = log[k]
  <2>1. log' \in Seq(ItemEvents) /\ Len(log') = n + 1
        /\ log'[n + 1] = e /\ \A k \in 1..n : log'[k] = log[k]
    BY <1>1, AppendProperties
  <2> QED BY <2>1, LenProperties
<1>3. /\ \A k \in 0..n : Replay(log')[k] = Replay(log)[k]
      /\ Replay(log')[n + 1] = ApplyEvent(Replay(log)[n], e)
  BY <1>1, <1>2, ReplayMore
<1>4. bag' = Replay(log')[Len(log')]
  BY <1>2, <1>3 DEF Replayed
<1>5. \A k \in 1..n : log[k].time <= now
  BY <1>1 DEF Replayed
<1>6. \A k \in 1..n : log[k].time \in Nat
  BY <1>1, TimesTyped
<1>7. \A k \in DOMAIN log' : log'[k].time <= now'
  <2>1. \A k \in 1..n : log'[k].time <= now'
    BY <1>1, <1>2, <1>5, <1>6
  <2>2. log'[n + 1].time <= now'
    BY <1>1, <1>2
  <2> QED BY <1>1, <1>2, <2>1, <2>2
<1>8. ASSUME NEW j \in DOMAIN log', NEW k \in DOMAIN log', j <= k PROVE log'[j].time <= log'[k].time
  <2>1. CASE k = n + 1
    BY <1>2, <1>7, <2>1
  <2>2. CASE k # n + 1
    <3>1. j \in 1..n /\ k \in 1..n
      BY <1>1, <1>2, <1>8, <2>2
    <3>2. log[j].time <= log[k].time
      BY <1>1, <1>8, <3>1 DEF Replayed
    <3> QED BY <1>2, <3>1, <3>2
  <2> QED BY <2>1, <2>2
<1>9. ASSUME NEW f \in DOMAIN frames PROVE frames[f].held = InventoryAt(frames[f].time)'
  <2> DEFINE t == frames[f].time
  <2>1. t < e.time /\ t \in Nat
    BY TimesTyped
  <2>2. Takes(log', t) = Takes(log, t)
    <3>1. log'[n + 1].time = e.time /\ ~(e.time <= t)
      BY <1>1, <1>2, <2>1
    <3> HIDE DEF t
    <3> QED BY <1>1, <1>2, <3>1 DEF Takes
  <2>3. Until(t)' = Until(t)
    BY <2>2 DEF Until, Takes
  <2>4. Until(t) \in 0..n
    BY <1>1, UntilTakes
  <2>5. Replay(log')[Until(t)] = Replay(log)[Until(t)]
    BY <1>3, <2>4
  <2>6. frames[f].held = Replay(log)[Until(t)]
    BY DEF Replayed, InventoryAt
  <2>7. InventoryAt(frames[f].time)' = Replay(log')[Until(t)']
    BY DEF InventoryAt
  <2> QED BY <2>3, <2>5, <2>6, <2>7
<1>10. now' \in Nat /\ level' \in Nat /\ frames' \in Seq(FrameRecords) /\ (UndoItems = UndoItems')
  BY <1>1 DEF Replayed, UndoItems, Nothing
<1>11. \A f \in DOMAIN frames' : frames'[f].held = (InventoryAt(frames[f].time))'
  BY <1>9
<1> QED BY <1>2, <1>4, <1>7, <1>8, <1>10, <1>11 DEF Replayed

LEMMA ReplayedStep == ASSUME Replayed, MatchNext PROVE Replayed'
<1>1. /\ log \in Seq(ItemEvents) /\ frames \in Seq(FrameRecords) /\ now \in Nat /\ level \in Nat
      /\ undoable \in UndoItems /\ bag = Replay(log)[Len(log)]
      /\ DOMAIN log = 1..Len(log) /\ Len(log) \in Nat
      /\ DOMAIN frames = 1..Len(frames) /\ Len(frames) \in Nat
  BY LenProperties DEF Replayed
<1>2. NoItem \notin DOMAIN Catalog
  BY ReplayAssumption DEF NoItem
<1>3. ASSUME NEW type \in EventTypes, NEW item \in Items, NEW before \in Items, NEW after \in Items, NEW next,
             Shop(type, item, before, after, next), undoable' \in UndoItems,
             \A time : next = ApplyEvent(bag, [type |-> type, time |-> time, item |-> item,
                                               before |-> before, after |-> after])
      PROVE  Replayed'
  <2>1. PICK wait \in 0..1 :
          /\ Past(now + wait)
          /\ now' = now + wait
          /\ log' = Append(log, [type |-> type, time |-> now + wait, item |-> item,
                                 before |-> before, after |-> after])
    BY <1>3 DEF Shop
  <2> DEFINE e == [type |-> type, time |-> now + wait, item |-> item, before |-> before, after |-> after]
  <2>2. e \in ItemEvents /\ e.time = now + wait
    BY <1>1 DEF ItemEvents
  <2>3. bag' = ApplyEvent(bag, e) /\ level' = level /\ frames' = frames
    BY <1>3 DEF Shop
  <2>4. log' = Append(log, e) /\ now' = e.time /\ now <= e.time
    BY <1>1, <2>1, <2>2
  <2>5. \A f \in DOMAIN frames : frames[f].time < e.time
    BY <2>1, <2>2 DEF Past
  <2> HIDE DEF e
  <2> QED BY <1>3, <2>2, <2>3, <2>4, <2>5, LaterEvent
<1>4. ASSUME NEW i \in DOMAIN Catalog, Buy(i) PROVE Replayed'
  <2>1. i \in Items /\ NoItem \in Items /\ "ITEM_PURCHASED" \in EventTypes
    BY DEF Items, EventTypes
  <2>2. undoable' \in UndoItems
    BY <1>4 DEF Buy, UndoItems
  <2>3. \A time : Append(bag, i) = ApplyEvent(bag, [type |-> "ITEM_PURCHASED", time |-> time, item |-> i,
                                                    before |-> NoItem, after |-> NoItem])
    BY DEF ApplyEvent
  <2>4. Shop("ITEM_PURCHASED", i, NoItem, NoItem, Append(bag, i))
    BY <1>4 DEF Buy
  <2> QED BY <1>3, <2>1, <2>2, <2>3, <2>4
<1>5. ASSUME NEW i \in DOMAIN Catalog, Sell(i) PROVE Replayed'
  <2>1. i \in Items /\ NoItem \in Items /\ "ITEM_SOLD" \in EventTypes
    BY DEF Items, EventTypes
  <2>2. undoable' \in UndoItems
    BY <1>5 DEF Sell, UndoItems
  <2>3. \A time : RemoveFirst(bag, i) = ApplyEvent(bag, [type |-> "ITEM_SOLD", time |-> time, item |-> i,
                                                         before |-> NoItem, after |-> NoItem])
    BY DEF ApplyEvent
  <2>4. Shop("ITEM_SOLD", i, NoItem, NoItem, RemoveFirst(bag, i))
    BY <1>5 DEF Sell
  <2> QED BY <1>3, <2>1, <2>2, <2>3, <2>4
<1>6. ASSUME NEW i \in DOMAIN Catalog, Consume(i) PROVE Replayed'
  <2>1. i \in Items /\ NoItem \in Items /\ "ITEM_DESTROYED" \in EventTypes
    BY DEF Items, EventTypes
  <2>2. undoable' \in UndoItems
    BY <1>6 DEF Consume, UndoItems
  <2>3. \A time : RemoveFirst(bag, i) = ApplyEvent(bag, [type |-> "ITEM_DESTROYED", time |-> time, item |-> i,
                                                         before |-> NoItem, after |-> NoItem])
    BY DEF ApplyEvent
  <2>4. Shop("ITEM_DESTROYED", i, NoItem, NoItem, RemoveFirst(bag, i))
    BY <1>6 DEF Consume
  <2> QED BY <1>3, <2>1, <2>2, <2>3, <2>4
<1>7. ASSUME Undo PROVE Replayed'
  <2> DEFINE i == undoable.item
  <2>1. undoable.kind \in {"bought", "sold"} => i \in DOMAIN Catalog
    BY <1>1 DEF UndoItems, Nothing
  <2>2. undoable' \in UndoItems
    BY <1>7 DEF Undo, UndoItems
  <2>3. NoItem \in Items /\ "ITEM_UNDO" \in EventTypes /\ (i \in DOMAIN Catalog => i \in Items /\ i # NoItem)
    BY <1>2 DEF Items, EventTypes
  <2> HIDE DEF i
  <2>4. CASE undoable.kind = "bought"
    <3>1. Shop("ITEM_UNDO", NoItem, i, NoItem, RemoveFirst(bag, i))
      BY <1>7, <2>4 DEF Undo, i
    <3>2. \A time : RemoveFirst(bag, i) = ApplyEvent(bag, [type |-> "ITEM_UNDO", time |-> time, item |-> NoItem,
                                                           before |-> i, after |-> NoItem])
      BY <2>1, <2>3, <2>4 DEF ApplyEvent
    <3> QED BY <1>3, <2>1, <2>2, <2>3, <2>4, <3>1, <3>2
  <2>5. CASE undoable.kind = "sold"
    <3>1. Shop("ITEM_UNDO", NoItem, NoItem, i, Append(bag, i))
      BY <1>7, <2>5 DEF Undo, i
    <3>2. \A time : Append(bag, i) = ApplyEvent(bag, [type |-> "ITEM_UNDO", time |-> time, item |-> NoItem,
                                                      before |-> NoItem, after |-> i])
      BY <2>1, <2>3, <2>5 DEF ApplyEvent
    <3> QED BY <1>3, <2>1, <2>2, <2>3, <2>5, <3>1, <3>2
  <2> QED BY <1>7, <2>4, <2>5 DEF Undo
<1>8. ASSUME NEW stats \in Carried, NEW up \in 0..1, NEW wait \in 0..1, CutFrame(stats, up, wait)
      PROVE  Replayed'
  <2> DEFINE frame == [time |-> now', stats |-> stats, held |-> bag,
                       levels |-> [p \in Participants |-> IF p = Buyer THEN level' ELSE 1]]
             m == Len(frames)
  <2>1. /\ now' = now + wait /\ level' = level + up /\ frames' = Append(frames, frame)
        /\ bag' = bag /\ undoable' = undoable /\ log' = log
    BY <1>8 DEF CutFrame
  <2>2. now' \in Nat /\ level' \in Nat /\ now <= now'
    BY <1>1, <2>1
  <2>3. bag \in Seq(Items)
    <3>1. Len(log) \in 0..Len(log)
      BY <1>1
    <3> QED BY <1>1, <3>1, ReplayTyped
  <2>4. /\ frame \in FrameRecords /\ frame.held = bag /\ frame.time = now'
    BY <2>2, <2>3, ReplayAssumption DEF FrameRecords
  <2> HIDE DEF frame
  <2>5. /\ frames' \in Seq(FrameRecords) /\ DOMAIN frames' = 1 .. m + 1
        /\ frames'[m + 1] = frame /\ \A f \in 1..m : frames'[f] = frames[f]
    <3>1. /\ frames' \in Seq(FrameRecords) /\ Len(frames') = m + 1
          /\ frames'[m + 1] = frame /\ \A f \in 1..m : frames'[f] = frames[f]
      BY <1>1, <2>1, <2>4, AppendProperties
    <3> QED BY <3>1, LenProperties
  <2>6. InventoryAt(now') = bag
    <3>1. \A k \in 1..Len(log) : log[k].time <= now'
      <4>1. \A k \in 1..Len(log) : log[k].time \in Nat /\ log[k].time <= now
        BY <1>1, TimesTyped DEF Replayed
      <4> QED BY <1>1, <2>2, <4>1
    <3>2. Len(log) \in Takes(log, now')
      BY <1>1, <3>1 DEF Takes
    <3>3. Until(now') \in 0..Len(log) /\ Len(log) <= Until(now')
      BY <1>1, <3>2, UntilTakes
    <3>4. Until(now') = Len(log)
      BY <1>1, <3>3
    <3> QED BY <1>1, <3>4 DEF InventoryAt
  <2>7. \A f \in 1..m : frames[f].held = InventoryAt(frames[f].time)
    BY <1>1 DEF Replayed
  <2>8. \A f \in DOMAIN frames' : frames'[f].held = InventoryAt(frames[f].time)'
    <3>1. \A f \in 1..m : frames'[f].held = InventoryAt(frames'[f].time)
      BY <2>5, <2>7
    <3>2. frames'[m + 1].held = InventoryAt(frames'[m + 1].time)
      BY <2>4, <2>5, <2>6
    <3>3. \A f \in 1 .. m + 1 : f \in 1..m \/ f = m + 1
      BY <1>1
    <3>4. \A f \in 1 .. m + 1 : frames'[f].held = InventoryAt(frames'[f].time)
      BY <3>1, <3>2, <3>3
    <3> QED BY <2>1, <2>5, <3>4 DEF InventoryAt, Until
  <2>9. \A k \in DOMAIN log : log[k].time <= now'
    <3>1. \A k \in DOMAIN log : log[k].time \in Nat /\ log[k].time <= now
      BY TimesTyped DEF Replayed
    <3> QED BY <1>1, <2>2, <3>1
  <2>10. \A j, k \in DOMAIN log : j <= k => log[j].time <= log[k].time
    BY DEF Replayed
  <2>11. undoable' \in UndoItems' /\ bag' = Replay(log')[Len(log')]
    BY <1>1, <2>1 DEF UndoItems, Nothing
  <2> QED BY <1>1, <2>1, <2>2, <2>5, <2>8, <2>9, <2>10, <2>11 DEF Replayed
<1> QED BY <1>4, <1>5, <1>6, <1>7, <1>8 DEF MatchNext

-----------------------------------------------------------------------------
(* What is projected of it. *)
LEMMA FrameFacts ==
  ASSUME Replayed
  PROVE  /\ \A K \in SUBSET DOMAIN frames : IsFiniteSet(K) /\ K \in SUBSET (Nat \ {0})
         /\ \A K \in SUBSET DOMAIN frames : K # {} =>
              /\ Min(K) \in K /\ (\A f \in K : Min(K) <= f) /\ Min(K) # 0
              /\ \E g \in K : \A f \in K : f <= g
         /\ \A p : \A f \in DOMAIN frames :
              /\ Inventory(p, f) \in Seq(Items)
              /\ Legendary(Inventory(p, f)) \in Nat
<1>1. DOMAIN frames = 1..Len(frames) /\ Len(frames) \in Nat
  BY LenProperties DEF Replayed
<1>2. \A K \in SUBSET DOMAIN frames : IsFiniteSet(K) /\ K \in SUBSET (Nat \ {0})
  <2>1. IsFiniteSet(DOMAIN frames)
    BY <1>1, FS_Interval
  <2>2. DOMAIN frames \subseteq Nat \ {0}
    BY <1>1
  <2> QED BY <2>1, <2>2, FS_Subset
<1>3. ASSUME NEW K \in SUBSET DOMAIN frames, K # {}
      PROVE  /\ Min(K) \in K /\ (\A f \in K : Min(K) <= f) /\ Min(K) # 0
             /\ \E g \in K : \A f \in K : f <= g
  <2>1. K \in SUBSET Nat /\ IsFiniteSet(K) /\ 0 \notin K
    BY <1>2
  <2> QED BY <1>3, <2>1, MaxMinOfNaturals
<1>4. ASSUME NEW p, NEW f \in DOMAIN frames PROVE Inventory(p, f) \in Seq(Items)
  <2>1. log \in Seq(ItemEvents)
    BY DEF Replayed
  <2>2. InventoryAt(frames[f].time) \in Seq(Items)
    BY <2>1, UntilTakes, ReplayTyped DEF InventoryAt
  <2>3. <<>> \in Seq(Items)
    BY EmptySeq
  <2> QED BY <2>2, <2>3 DEF Inventory
<1> QED BY <1>2, <1>3, <1>4, LegendaryTyped

(* Where a frame shows three, an event before it has brought them there.    *)
LEMMA CrossingFound ==
  ASSUME Replayed, NEW f \in DOMAIN frames, Legendary(Inventory(Buyer, f)) >= Third
  PROVE  AnchorEvent(f) # 0
<1>1. log \in Seq(ItemEvents) /\ DOMAIN log = 1..Len(log) /\ Len(log) \in Nat
  BY LenProperties DEF Replayed
<1> DEFINE t == frames[f].time
           u == Until(t)
           Full == {k \in 0..u : LegendaryAfter(k) >= Third}
<1>2. u \in 0..Len(log) /\ u \in Takes(log, t)
  BY <1>1, UntilTakes
<1>3. LegendaryAfter(u) >= Third
  BY DEF LegendaryAfter, Inventory, InventoryAt
<1>4. \A k \in 0..Len(log) : LegendaryAfter(k) \in Nat
  BY <1>1, ReplayTyped, LegendaryTyped DEF LegendaryAfter
<1>5. LegendaryAfter(0) = 0
  <2>1. Replay(log)[0] = <<>>
    BY <1>1, ReplayAt
  <2>2. <<>> \in Seq(Items)
    BY EmptySeq
  <2> QED BY <2>1, <2>2, LegendaryTyped DEF LegendaryAfter
<1> HIDE DEF u
<1>6. PICK m \in Full : \A k \in Full : m <= k
  <2>1. Full \subseteq Nat /\ u \in Full
    BY <1>1, <1>2, <1>3
  <2> HIDE DEF Full
  <2> QED BY <2>1, LeastNatural
<1>7. m \in 0..u /\ LegendaryAfter(m) >= Third
  BY <1>6
<1>8. m # 0
  BY <1>5, <1>7 DEF Third
<1>9. /\ m \in 1..u /\ m \in DOMAIN log /\ m - 1 \in 0..u /\ m - 1 \in 0..Len(log) /\ ~(m <= m - 1)
  BY <1>1, <1>2, <1>7, <1>8
<1>10. LegendaryAfter(m - 1) < Third
  <2>1. ~(LegendaryAfter(m - 1) >= Third)
    BY <1>6, <1>9
  <2>2. LegendaryAfter(m - 1) \in Nat
    BY <1>4, <1>9
  <2> QED BY <2>1, <2>2 DEF Third
<1>11. log[m].time <= t
  <2>1. u # 0 /\ u \in DOMAIN log /\ m <= u
    BY <1>1, <1>2, <1>9
  <2>2. log[u].time <= t
    BY <1>2, <2>1 DEF Takes
  <2>3. log[m].time <= log[u].time
    BY <1>9, <2>1 DEF Replayed
  <2>4. log[m].time \in Nat /\ log[u].time \in Nat /\ t \in Nat
    BY <1>9, <2>1, TimesTyped
  <2> HIDE DEF t
  <2> QED BY <2>2, <2>3, <2>4
<1> DEFINE crossing == {k \in DOMAIN log :
             /\ log[k].time <= frames[f].time
             /\ LegendaryAfter(k - 1) < Third /\ LegendaryAfter(k) >= Third}
<1>12. m \in crossing
  BY <1>7, <1>9, <1>10, <1>11
<1>13. Min(crossing) # 0
  <2>1. crossing \in SUBSET Nat /\ crossing # {} /\ 0 \notin crossing
    BY <1>1, <1>12
  <2> HIDE DEF crossing
  <2> QED BY <2>1, MaxMinOfNaturals
<1> QED BY <1>12, <1>13 DEF AnchorEvent

LEMMA AnchorsFound ==
  ASSUME Replayed, NEW p
  PROVE  /\ AnchorFrame(p) # 0 =>
              /\ AnchorFrame(p) \in DOMAIN frames /\ HasState(p, AnchorFrame(p))
              /\ Legendary(Inventory(p, AnchorFrame(p))) >= Third
         /\ \A f \in DOMAIN frames : HasState(p, f) /\ Legendary(Inventory(p, f)) >= Third =>
              AnchorFrame(p) \in 1..f
         /\ \A f \in DOMAIN frames : AnchorEvent(f) # 0 => log[AnchorEvent(f)].time <= frames[f].time
         /\ MinuteFrame(p) # 0 => MinuteFrame(p) \in DOMAIN frames /\ HasState(p, MinuteFrame(p))
<1> DEFINE full == {f \in DOMAIN frames : HasState(p, f) /\ Legendary(Inventory(p, f)) >= Third}
<1>1. AnchorFrame(p) = IF full = {} THEN 0 ELSE Min(full)
  BY DEF AnchorFrame
<1>2. full \in SUBSET DOMAIN frames
  OBVIOUS
<1>3. full # {} => Min(full) \in full /\ (\A f \in full : Min(full) <= f) /\ Min(full) # 0
  <2> HIDE DEF full
  <2> QED BY <1>2, FrameFacts
<1>4. AnchorFrame(p) # 0 =>
        /\ AnchorFrame(p) \in DOMAIN frames /\ HasState(p, AnchorFrame(p))
        /\ Legendary(Inventory(p, AnchorFrame(p))) >= Third
  <2>1. AnchorFrame(p) # 0 => AnchorFrame(p) \in full
    <3> HIDE DEF full
    <3> QED BY <1>1, <1>3
  <2> QED BY <2>1
<1>5. ASSUME NEW f \in full PROVE AnchorFrame(p) \in 1..f
  <2> HIDE DEF full
  <2>1. AnchorFrame(p) = Min(full) /\ Min(full) \in full /\ Min(full) <= f /\ Min(full) # 0
    BY <1>1, <1>3
  <2>2. Min(full) \in Nat /\ f \in Nat
    BY <1>2, <2>1, FrameFacts
  <2> QED BY <2>1, <2>2
<1>6. ASSUME NEW f \in DOMAIN frames, AnchorEvent(f) # 0
      PROVE  log[AnchorEvent(f)].time <= frames[f].time
  <2> DEFINE crossing == {k \in DOMAIN log :
               /\ log[k].time <= frames[f].time
               /\ LegendaryAfter(k - 1) < Third /\ LegendaryAfter(k) >= Third}
  <2>1. AnchorEvent(f) = IF crossing = {} THEN 0 ELSE Min(crossing)
    BY DEF AnchorEvent
  <2>2. crossing \in SUBSET Nat
    BY LenProperties DEF Replayed
  <2>3. AnchorEvent(f) \in crossing
    <3> HIDE DEF crossing
    <3> QED BY <1>6, <2>1, <2>2, MaxMinOfNaturals
  <2> QED BY <2>3
<1>7. MinuteFrame(p) # 0 => MinuteFrame(p) \in DOMAIN frames /\ HasState(p, MinuteFrame(p))
  <2> DEFINE own == {f \in DOMAIN frames : HasState(p, f)}
             nearest == {f \in own : \A g \in own : Away(f) < Away(g) \/ (Away(f) = Away(g) /\ f <= g)}
             within == {f \in nearest : Away(f) <= ScenarioTolerance}
  <2>1. MinuteFrame(p) = IF within = {} THEN 0 ELSE Min(within)
    BY DEF MinuteFrame
  <2>2. within \in SUBSET own /\ own \in SUBSET DOMAIN frames
    OBVIOUS
  <2>3. MinuteFrame(p) # 0 => MinuteFrame(p) \in own
    <3> HIDE DEF within, own
    <3> QED BY <2>1, <2>2, FrameFacts
  <2> QED BY <2>3
<1> QED BY <1>4, <1>5, <1>6, <1>7

LEMMA LevelsObserved ==
  ASSUME Replayed
  PROVE  /\ {LevelIn(Buyer, f) : f \in LevelObservations}
              = {LevelIn(Buyer, f) : f \in {g \in DOMAIN frames : HasState(Buyer, g)}}
         /\ \A f, g \in LevelObservations : LevelIn(Buyer, f) = LevelIn(Buyer, g) => f = g
         /\ LevelObservations \in SUBSET {g \in DOMAIN frames : HasState(Buyer, g)}
<1> DEFINE own == {g \in DOMAIN frames : HasState(Buyer, g)}
<1>1. LevelObservations \in SUBSET own
  BY DEF LevelObservations
<1>2. ASSUME NEW g \in own PROVE \E f \in LevelObservations : LevelIn(Buyer, f) = LevelIn(Buyer, g)
  <2> DEFINE K == {f \in own : LevelIn(Buyer, f) = LevelIn(Buyer, g)}
  <2>1. K \in SUBSET DOMAIN frames /\ g \in K
    OBVIOUS
  <2>2. PICK f \in K : \A h \in K : h <= f
    <3> HIDE DEF K
    <3> QED BY <2>1, FrameFacts
  <2>3. f \in LevelObservations
    BY <2>2 DEF LevelObservations
  <2> QED BY <2>3
<1>3. ASSUME NEW f \in LevelObservations, NEW g \in LevelObservations, LevelIn(Buyer, f) = LevelIn(Buyer, g)
      PROVE  f = g
  <2>1. f <= g /\ g <= f /\ f \in DOMAIN frames /\ g \in DOMAIN frames
    BY <1>3 DEF LevelObservations
  <2>2. f \in Nat /\ g \in Nat
    BY <2>1, FrameFacts
  <2> QED BY <2>1, <2>2
<1> QED BY <1>1, <1>2, <1>3

LEMMA SampleFacts ==
  ASSUME Replayed, NEW s \in ScenarioSamples
  PROVE  /\ TeamOf[s.target] # TeamOf[s.anchor] /\ HasState(s.target, s.frame)
         /\ HasState(s.anchor, s.frame)
         /\ s.phase # "minute-window" =>
              /\ Legendary(Inventory(s.anchor, s.frame)) >= Third
              /\ log[s.event].time <= frames[s.frame].time
<1>1. ASSUME NEW phase, NEW p, NEW f, NEW event, s \in Samples(phase, p, f, event)
      PROVE  /\ f # 0 /\ s.phase = phase /\ s.anchor = p /\ s.frame = f /\ s.event = event
             /\ TeamOf[s.target] # TeamOf[p] /\ HasState(s.target, f)
  BY <1>1 DEF Samples, Enemies
<1>2. ASSUME NEW phase, NEW p, s \in ThirdItemSamples(phase, p)
      PROVE  /\ TeamOf[s.target] # TeamOf[s.anchor] /\ HasState(s.target, s.frame)
             /\ HasState(s.anchor, s.frame)
             /\ Legendary(Inventory(s.anchor, s.frame)) >= Third
             /\ log[s.event].time <= frames[s.frame].time
  <2>1. /\ AnchorFrame(p) # 0 /\ AnchorEvent(AnchorFrame(p)) # 0
        /\ s \in Samples(phase, p, AnchorFrame(p), AnchorEvent(AnchorFrame(p)))
    BY <1>2 DEF ThirdItemSamples
  <2>2. /\ s.anchor = p /\ s.frame = AnchorFrame(p) /\ s.event = AnchorEvent(AnchorFrame(p))
        /\ TeamOf[s.target] # TeamOf[p] /\ HasState(s.target, AnchorFrame(p))
    BY <1>1, <2>1
  <2>3. /\ AnchorFrame(p) \in DOMAIN frames /\ HasState(p, AnchorFrame(p))
        /\ Legendary(Inventory(p, AnchorFrame(p))) >= Third
    BY <2>1, AnchorsFound
  <2>4. log[AnchorEvent(AnchorFrame(p))].time <= frames[AnchorFrame(p)].time
    BY <2>1, <2>3, AnchorsFound
  <2> QED BY <2>2, <2>3, <2>4
<1>3. CASE s \in ThirdItemSamples("yunara-third-item", Buyer)
  BY <1>2, <1>3
<1>4. CASE \E p \in BotCarries : s \in ThirdItemSamples("bot-carry-third-item", p)
  BY <1>2, <1>4
<1>5. CASE s \in Samples("minute-window", MinuteAnchor, MinuteFrame(MinuteAnchor), 0)
  BY <1>1, <1>5, AnchorsFound
<1>6. \/ s \in ThirdItemSamples("yunara-third-item", Buyer)
      \/ \E p \in BotCarries : s \in ThirdItemSamples("bot-carry-third-item", p)
      \/ s \in Samples("minute-window", MinuteAnchor, MinuteFrame(MinuteAnchor), 0)
  <2> DEFINE carried == UNION {ThirdItemSamples("bot-carry-third-item", p) : p \in BotCarries}
  <2>1. s \in carried => \E p \in BotCarries : s \in ThirdItemSamples("bot-carry-third-item", p)
    OBVIOUS
  <2>2. ScenarioSamples = ThirdItemSamples("yunara-third-item", Buyer) \cup carried
                            \cup Samples("minute-window", MinuteAnchor, MinuteFrame(MinuteAnchor), 0)
    BY DEF ScenarioSamples
  <2> HIDE DEF carried
  <2> QED BY <2>1, <2>2
<1> QED BY <1>3, <1>4, <1>5, <1>6

LEMMA ReplayedExact == ASSUME Replayed PROVE ProjectionExact
<1>1. \A f \in DOMAIN frames : Inventory(Buyer, f) = frames[f].held
  BY DEF Replayed, Inventory
<1>2. \A f \in DOMAIN frames, i \in DOMAIN Catalog :
        CountOf(Inventory(Buyer, f), i) = CountOf(frames[f].held, i)
  BY <1>1
<1>3. \A f \in DOMAIN frames :
        HasState(Buyer, f) /\ Legendary(frames[f].held) >= Third =>
          /\ AnchorFrame(Buyer) \in 1..f
          /\ AnchorEvent(AnchorFrame(Buyer)) # 0
  <2> SUFFICES ASSUME NEW f \in DOMAIN frames, HasState(Buyer, f), Legendary(frames[f].held) >= Third
               PROVE  AnchorFrame(Buyer) \in 1..f /\ AnchorEvent(AnchorFrame(Buyer)) # 0
    OBVIOUS
  <2>1. AnchorFrame(Buyer) \in 1..f
    BY <1>1, AnchorsFound
  <2>2. AnchorFrame(Buyer) # 0
    BY <2>1
  <2>3. /\ AnchorFrame(Buyer) \in DOMAIN frames
        /\ Legendary(Inventory(Buyer, AnchorFrame(Buyer))) >= Third
    BY <2>2, AnchorsFound
  <2> QED BY <2>1, <2>3, CrossingFound
<1>4. \A t \in EnemyVectors : HasState(Buyer, t[1])
  BY LevelsObserved DEF EnemyVectors
<1> QED BY <1>2, <1>3, <1>4, LevelsObserved, SampleFacts DEF ProjectionExact

(* ProjectionExact, for any catalog, teams and sequence of events and frames. *)
THEOREM AlwaysProjectionExact == MatchSpec => []ProjectionExact
<1>1. Replayed /\ UNCHANGED match => Replayed'
  <2> SUFFICES ASSUME Replayed, UNCHANGED match PROVE Replayed'
    OBVIOUS
  <2>1. /\ now' = now /\ bag' = bag /\ level' = level /\ undoable' = undoable
        /\ log' = log /\ frames' = frames
    BY DEF match
  <2> QED BY <2>1 DEF Replayed, InventoryAt, Until, UndoItems, Nothing, FrameRecords, ItemEvents, Items
<1>2. MatchInit => Replayed
  BY ReplayedInit
<1>3. Replayed /\ [MatchNext]_match => Replayed'
  BY <1>1, ReplayedStep
<1>4. Replayed => ProjectionExact
  BY ReplayedExact
<1> QED BY <1>2, <1>3, <1>4, PTL DEF MatchSpec
=============================================================================
