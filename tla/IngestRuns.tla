----------------------------- MODULE IngestRuns -----------------------------
(***************************************************************************)
(* The ceilings and checkpoints of ingestion runs (scripts/ingest.ts,      *)
(* ingestion/limits.ts).                                                   *)
(*                                                                         *)
(* A run reads what the runs before it have asked of the Riot API and      *)
(* takes what is left of the global ceiling as its own.  It looks for      *)
(* matches, fetches and archives them one at a time, checkpoints its row   *)
(* after each, and records how it ended.  An exception ends it by way of   *)
(* the catch block, a kill at any point without a record.                  *)
(*                                                                         *)
(* What archiving does to the bucket and the database is module            *)
(* ArchivePipeline's; here a match is put, then accepted, or it throws.    *)
(***************************************************************************)
EXTENDS Integers, Sequences, FiniteSets, SequencesExt, FiniteSetsExt

CONSTANTS
  Runs, Offered,
  Bytes, PgBytes,     (* what each match adds to the bucket and to Postgres  *)
  GlobalCeiling, Reserve,           (* globalRequestCeiling and its reserve  *)
  ConfiguredRequests, MaxAccepted, MaxBytes, MaxPgBytes,
  Attempts            (* the attempts of riotJson: 5                         *)

ASSUME RunAssumption ==
  /\ Bytes \in [Offered -> Nat] /\ PgBytes \in [Offered -> Nat]
  /\ IsFiniteSet(Offered) /\ IsFiniteSet(Runs)
  /\ GlobalCeiling \in Nat /\ Reserve \in Nat /\ ConfiguredRequests \in Nat
  /\ MaxAccepted \in Nat /\ MaxBytes \in Nat /\ MaxPgBytes \in Nat
  /\ Attempts \in Nat \ {0}

VARIABLES
  accepted,  (* lol_dps.matches                                              *)
  rows,      (* lol_dps.ingestion_runs: per run its row, or NoRow            *)
  stage,     (* per run, the await it stands at                              *)
  cap,       (* maxRequests                                                  *)
  used,      (* requestCount                                                 *)
  attempt,   (* attempt of the riotJson call under way                       *)
  known,     (* knownMatchIds                                                *)
  selected,  (* what is left of selected                                     *)
  ingested, bytes, pgBytes,   (* ingested and the projected sizes            *)
  stopped,   (* stopReason, or "none"                                        *)
  put,       (* history: the matches a run has put into the bucket           *)
  took,      (* history: the matches a run has accepted                      *)
  overlap    (* history: two runs were under way at the same time            *)

tally == <<ingested, bytes, pgBytes, stopped>>
plan == <<known, selected>>
past == <<put, took, overlap>>
runVars == <<accepted, rows, stage, cap, used, attempt, plan, tally, past>>

Reasons == {"accepted-match-ceiling", "bucket-byte-ceiling", "projected-pg-byte-ceiling"}
NoRow == [status |-> "none", ingested |-> 0, requests |-> 0, stop |-> "none"]
Calling == {"leagues", "ids", "match", "timeline"}
Trying == Calling \cup {"read", "select", "loop", "put", "finalize", "checkpoint", "finish"}
Ended == {"ended", "killed"}

Total(w, S) == MapThenSumSet(LAMBDA x : w[x], S)

Spent == Total([r \in Runs |-> rows[r].requests], Runs)
UnderWay(r) == stage[r] \notin Ended \cup {"idle"}

-----------------------------------------------------------------------------
RunsInit ==
  /\ accepted = {} /\ rows = [r \in Runs |-> NoRow]
  /\ stage = [r \in Runs |-> "idle"]
  /\ cap = [r \in Runs |-> 0] /\ used = [r \in Runs |-> 0]
  /\ attempt = [r \in Runs |-> 0]
  /\ known = [r \in Runs |-> {}] /\ selected = [r \in Runs |-> <<>>]
  /\ ingested = [r \in Runs |-> 0]
  /\ bytes = [r \in Runs |-> 0] /\ pgBytes = [r \in Runs |-> 0]
  /\ stopped = [r \in Runs |-> "none"]
  /\ put = [r \in Runs |-> {}] /\ took = [r \in Runs |-> {}]
  /\ overlap = FALSE

Proceed(r, place) == stage' = [stage EXCEPT ![r] = place]

(* The try block, or the script, is left, and its variables are gone.       *)
LeaveRun(r, place) ==
  /\ Proceed(r, place)
  /\ attempt' = [attempt EXCEPT ![r] = 0]
  /\ known' = [known EXCEPT ![r] = {}] /\ selected' = [selected EXCEPT ![r] = <<>>]
  /\ ingested' = [ingested EXCEPT ![r] = 0]
  /\ bytes' = [bytes EXCEPT ![r] = 0] /\ pgBytes' = [pgBytes EXCEPT ![r] = 0]
  /\ stopped' = [stopped EXCEPT ![r] = "none"]

(* What is left of the global ceiling, as the rows know it.                 *)
Left_NoReserve == Max({0, GlobalCeiling - Spent})
Left == Max({0, GlobalCeiling - Spent - Reserve})

(* Without requests left no run is started and no row is written.           *)
ReadHistory(r) ==
  LET requests == Min({ConfiguredRequests, Left})
  IN /\ stage[r] = "idle"
     /\ cap' = [cap EXCEPT ![r] = requests]
     /\ Proceed(r, IF requests = 0 THEN "ended" ELSE "start")
     /\ overlap' = (overlap \/ \E q \in Runs : UnderWay(q))
     /\ UNCHANGED <<accepted, rows, used, attempt, plan, tally, put, took>>

StartRun(r) ==
  /\ stage[r] = "start"
  /\ rows' = [rows EXCEPT ![r] = [NoRow EXCEPT !.status = "running"]]
  /\ Proceed(r, "leagues")
  /\ UNCHANGED <<accepted, cap, used, attempt, plan, tally, past>>

(* One attempt of riotJson.  At the ceiling it throws before asking; an     *)
(* attempt that may be repeated is, up to the last.                         *)
MayAsk(r) == used[r] < cap[r]

Ask(r) ==
  /\ stage[r] \in Calling
  /\ MayAsk(r)
  /\ used' = [used EXCEPT ![r] = @ + 1]

AtCeiling(r) ==
  /\ stage[r] \in Calling
  /\ ~MayAsk(r)
  /\ LeaveRun(r, "failing")
  /\ UNCHANGED <<accepted, rows, cap, used, past>>

AskAgain(r) ==
  /\ Ask(r)
  /\ \/ /\ attempt[r] + 1 < Attempts
        /\ attempt' = [attempt EXCEPT ![r] = @ + 1]
        /\ UNCHANGED <<stage, plan, tally>>
     \/ attempt[r] + 1 = Attempts /\ LeaveRun(r, "failing")
  /\ UNCHANGED <<accepted, rows, cap, past>>

Answered(r) == Ask(r) /\ attempt' = [attempt EXCEPT ![r] = 0]

(* The seeds: any number of calls, then what is accepted is read, then any  *)
(* number of calls for their matches.                                       *)
Discover(r) ==
  /\ stage[r] \in {"leagues", "ids"}
  /\ Answered(r)
  /\ \/ Proceed(r, stage[r])
     \/ Proceed(r, IF stage[r] = "leagues" THEN "read" ELSE "select")
  /\ UNCHANGED <<accepted, rows, cap, plan, tally, past>>

ReadKnown(r) ==
  /\ stage[r] = "read"
  /\ known' = [known EXCEPT ![r] = accepted]
  /\ \/ Proceed(r, "ids")
     \/ Proceed(r, "loop")    (* no seed was found, and nothing is selected    *)
  /\ UNCHANGED <<accepted, rows, cap, used, attempt, selected, tally, past>>

SelectMatches(r) ==
  /\ stage[r] = "select"
  /\ \E S \in SUBSET (Offered \ known[r]) :
       \E s \in SetToSeqs(S) : selected' = [selected EXCEPT ![r] = s]
  /\ Proceed(r, "loop")
  /\ UNCHANGED <<accepted, rows, cap, used, attempt, known, tally, past>>

-----------------------------------------------------------------------------
(* The loop over what was selected. *)

Skip(r) == selected' = [selected EXCEPT ![r] = Tail(@)]

LeaveLoop(r) ==
  /\ stage[r] = "loop"
  /\ \/ /\ selected[r] = <<>>
        /\ UNCHANGED stopped
     \/ /\ selected[r] # <<>> /\ ingested[r] >= MaxAccepted
        /\ stopped' = [stopped EXCEPT ![r] = "accepted-match-ceiling"]
  /\ Proceed(r, "finish")
  /\ UNCHANGED <<accepted, rows, cap, used, attempt, plan, ingested, bytes, pgBytes, past>>

TakeMatch(r) ==
  /\ stage[r] = "loop"
  /\ selected[r] # <<>> /\ ingested[r] < MaxAccepted
  /\ IF Head(selected[r]) \in accepted
     THEN Skip(r) /\ Proceed(r, "loop")
     ELSE UNCHANGED selected /\ Proceed(r, "match")
  /\ UNCHANGED <<accepted, rows, cap, used, attempt, known, tally, past>>

(* Whether it passes the checks of queue, patch and players is its own.     *)
FetchMatch(r) ==
  /\ stage[r] = "match"
  /\ Answered(r)
  /\ \/ UNCHANGED selected /\ Proceed(r, "timeline")
     \/ Skip(r) /\ Proceed(r, "loop")
  /\ UNCHANGED <<accepted, rows, cap, known, tally, past>>

(* nextBatchBoundary, for the match m that would be accepted next, after so *)
(* many requests                                                            *)
Boundary(r, m, requests) ==
  IF ingested[r] + 1 > MaxAccepted THEN "accepted-match-ceiling"
  ELSE IF requests > cap[r] THEN "request-ceiling"
  ELSE IF bytes[r] + Bytes[m] > MaxBytes THEN "bucket-byte-ceiling"
  ELSE IF pgBytes[r] + PgBytes[m] > MaxPgBytes THEN "projected-pg-byte-ceiling"
  ELSE "none"

FetchTimeline(r) ==
  LET boundary == Boundary(r, Head(selected[r]), used[r] + 1)
  IN /\ stage[r] = "timeline"
     /\ Answered(r)
     /\ stopped' = [stopped EXCEPT ![r] = boundary]
     /\ Proceed(r, IF boundary = "none" THEN "put" ELSE "finish")
     /\ UNCHANGED <<accepted, rows, cap, plan, ingested, bytes, pgBytes,
                    past>>

PutArchive(r) ==
  /\ stage[r] = "put"
  /\ put' = [put EXCEPT ![r] = @ \cup {Head(selected[r])}]
  /\ Proceed(r, "finalize")
  /\ UNCHANGED <<accepted, rows, cap, used, attempt, plan, tally, took, overlap>>

(* The transaction and the counters, with no await between them.            *)
Finalize(r) ==
  LET match == Head(selected[r])
  IN /\ stage[r] = "finalize"
     /\ accepted' = accepted \cup {match}
     /\ took' = [took EXCEPT ![r] = @ \cup {match}]
     /\ ingested' = [ingested EXCEPT ![r] = @ + 1]
     /\ bytes' = [bytes EXCEPT ![r] = @ + Bytes[match]]
     /\ pgBytes' = [pgBytes EXCEPT ![r] = @ + PgBytes[match]]
     /\ Proceed(r, "checkpoint")
     /\ UNCHANGED <<rows, cap, used, attempt, plan, stopped, put, overlap>>

Checkpoint(r) ==
  /\ stage[r] = "checkpoint"
  /\ rows' = [rows EXCEPT ![r].ingested = ingested[r], ![r].requests = used[r]]
  /\ Skip(r) /\ Proceed(r, "loop")
  /\ UNCHANGED <<accepted, cap, used, attempt, known, tally, past>>

-----------------------------------------------------------------------------
(* The ends. *)

Finish(r) ==
  /\ stage[r] = "finish"
  /\ rows' = [rows EXCEPT ![r].requests = used[r], ![r].stop = stopped[r],
                ![r].status = IF stopped[r] = "none" THEN "complete" ELSE "stopped"]
  /\ LeaveRun(r, "ended")
  /\ UNCHANGED <<accepted, cap, used, past>>

(* Any await of the try block may throw: a request that fails for good, the *)
(* database, the bucket.                                                    *)
Throw(r) ==
  /\ stage[r] \in Trying
  /\ LeaveRun(r, "failing")
  /\ UNCHANGED <<accepted, rows, cap, used, past>>

(* The catch block's cursor has no stopReason.                              *)
RecordFailure(r) ==
  /\ stage[r] = "failing"
  /\ rows' = [rows EXCEPT ![r].requests = used[r], ![r].stop = "none", ![r].status = "failed"]
  /\ LeaveRun(r, "ended")
  /\ UNCHANGED <<accepted, cap, used, past>>

(* The process is killed, or its first or last write of the row throws.     *)
Kill(r) ==
  /\ UnderWay(r)
  /\ LeaveRun(r, "killed")
  /\ UNCHANGED <<accepted, rows, cap, used, past>>

Run(r) ==
  \/ ReadHistory(r) \/ StartRun(r)
  \/ AtCeiling(r) \/ AskAgain(r)
  \/ Discover(r) \/ ReadKnown(r) \/ SelectMatches(r)
  \/ LeaveLoop(r) \/ TakeMatch(r) \/ FetchMatch(r) \/ FetchTimeline(r)
  \/ PutArchive(r) \/ Finalize(r) \/ Checkpoint(r)
  \/ Finish(r) \/ Throw(r) \/ RecordFailure(r) \/ Kill(r)

RunsNext == \E r \in Runs : Run(r)

RunsSpec == RunsInit /\ [][RunsNext]_runVars

-----------------------------------------------------------------------------
RunsTypeOK ==
  /\ accepted \subseteq Offered
  /\ rows \in [Runs -> [status : {"none", "running", "complete", "stopped", "failed"},
                        ingested : Nat, requests : Nat, stop : Reasons \cup {"none"}]]
  /\ stage \in [Runs -> Trying \cup Ended \cup {"idle", "start", "failing"}]
  /\ cap \in [Runs -> 0..ConfiguredRequests] /\ used \in [Runs -> Nat]
  /\ attempt \in [Runs -> 0..(Attempts - 1)]
  /\ known \in [Runs -> SUBSET Offered] /\ selected \in [Runs -> Seq(Offered)]
  /\ ingested \in [Runs -> Nat] /\ bytes \in [Runs -> Nat] /\ pgBytes \in [Runs -> Nat]
  /\ stopped \in [Runs -> Reasons \cup {"none"}]
  /\ put \in [Runs -> SUBSET Offered] /\ took \in [Runs -> SUBSET Offered]
  /\ overlap \in BOOLEAN

(* What a run really puts and takes stays within its ceilings, the object   *)
(* whose upload or acceptance then fails included; and runs that do not     *)
(* overlap never ask more, all together, than the global ceiling without    *)
(* its reserve, apart from what killed runs asked after their last          *)
(* checkpoint.  The row of a run never counts a match that was not         *)
(* accepted, and misses at most the last one; a run that ended by itself   *)
(* misses none.                                                             *)
Recorded == [r \in Runs |-> IF stage[r] = "killed" THEN rows[r].requests ELSE used[r]]

WithinCeilings ==
  /\ \A r \in Runs :
       /\ Cardinality(took[r]) <= MaxAccepted
       /\ Total(Bytes, put[r]) <= MaxBytes
       /\ Total(PgBytes, took[r]) <= MaxPgBytes
  /\ ~overlap => Total(Recorded, Runs) <= Max({0, GlobalCeiling - Reserve})
  /\ \A r \in Runs :
       LET really == Cardinality(took[r])
       IN /\ rows[r].ingested <= really /\ really <= rows[r].ingested + 1
          /\ rows[r].status \in {"complete", "stopped"} => rows[r].ingested = really
=============================================================================
