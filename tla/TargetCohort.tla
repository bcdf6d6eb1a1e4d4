---------------------------- MODULE TargetCohort ----------------------------
(***************************************************************************)
(* The enemy cohort that the lab compares builds on: the rows ingestion    *)
(* has stored, the choice of levels (data/level-targets.ts) or of a phase  *)
(* (data/realistic-targets.ts), the cut to a bounded sample and the weight *)
(* of each target (domain/level-cohort.ts), as /api/cohort answers them.   *)
(*                                                                         *)
(* An answer takes two queries or more, each awaited and in no transaction *)
(* with the others: counts of rows first, for levels once, for phases one  *)
(* after the other until some are found; then the rows themselves.         *)
(* Ingestion stores rows between any two of them.                          *)
(*                                                                         *)
(* A row is one enemy at one anchor.  Its hash stands for the md5 by which *)
(* both queries order; filters on role, champion and rank are one field,   *)
(* group; patch and region are fixed.  A row with a level is of the tables *)
(* of levels, one with a phase of those of scenarios.  Its store is the    *)
(* compact schema, for levels with or without a verified archive, or the   *)
(* legacy one.  Weights are in units of 1/Unit.                            *)
(***************************************************************************)
EXTENDS Integers, Sequences, FiniteSets, FiniteSetsExt

CONSTANTS
  RowForms,              (* what may be stored: match, level, phase, group, store, and   *)
                         (* whether its bonus health is known                            *)
  Groups, AnyGroup,      (* the filters, and none                            *)
  SampleThreshold,       (* SAMPLE_THRESHOLD_MATCHES, 20                     *)
  SampleLimitPerMatch,   (* SAMPLE_LIMIT_PER_MATCH, 20                       *)
  AskedLevels,           (* the levels of the requests                       *)
  Limits,                (* their limits                                     *)
  LowSample,             (* the matches below which a cohort is called small *)
  Unit,                  (* a multiple of every number of rows of a match    *)
  MaxRows                (* bound: the hashes                                *)

ASSUME CohortAssumption ==
  /\ AnyGroup \in Groups
  /\ {SampleThreshold, SampleLimitPerMatch, Unit} \subseteq Nat \ {0}
  /\ MaxRows \in Nat /\ \A n \in 1..MaxRows : Unit % n = 0

VARIABLES
  stored,   (* the rows, by their hashes                                     *)
  request   (* the answer under way: what is left to count, or what was      *)
            (* counted; of that the code keeps the number only               *)

cohortVars == <<stored, request>>

AllLevels == 1..18
Phases == <<"yunara-third-item", "bot-carry-third-item", "minute-window">>
MaxWidenRadius == 2

Indices(Meets(_)) == {k \in DOMAIN stored : Meets(stored[k])}
MatchesOf(K) == {stored[k].match : k \in K}

(* Rows of the old schema count only while there is none of the new one,    *)
(* whatever its level and group, and verified or not.                       *)
RowReadable(row) ==
  \/ row.store = "compact"
  \/ /\ row.store = "legacy"
     /\ \A k \in DOMAIN stored : stored[k].level > 0 => stored[k].store = "legacy"
Asked(row, group) == (group = AnyGroup \/ row.group = group) /\ row.known

(* compact_counts, legacy_counts: the matches with a row at each level. *)
AtLevels(group, L) ==
  Indices(LAMBDA row : RowReadable(row) /\ Asked(row, group) /\ row.level \in L)
MatchCount(group, level) == Cardinality(MatchesOf(AtLevels(group, {level})))

Around(level, radius) == {l \in AllLevels : l \in level - radius .. level + radius}
PoolCount(group, level, radius) ==
  MapThenSumSet(LAMBDA l : MatchCount(group, l), Around(level, radius))

(* The first radius that reaches the threshold, otherwise the widest; and   *)
(* none if nothing was found.                                               *)
ChooseLevelPool(group, level) ==
  LET enough == {r \in 0..MaxWidenRadius : PoolCount(group, level, r) >= SampleThreshold}
  IN  IF enough # {} THEN Around(level, Min(enough))
      ELSE IF PoolCount(group, level, MaxWidenRadius) = 0 THEN {}
      ELSE Around(level, MaxWidenRadius)

(* The rows of a phase, the old ones only where the phase has no new ones. *)
OfPhase(group, phase) ==
  Indices(LAMBDA row :
    /\ Asked(row, group) /\ row.phase = phase
    /\ row.store = "legacy" =>
         \A k \in DOMAIN stored : ~(stored[k].phase = phase /\ stored[k].store # "legacy"))

PhaseOrder(requested) ==
  SelectSeq(Phases, LAMBDA p : p = requested) \o SelectSeq(Phases, LAMBDA p : p # requested)

-----------------------------------------------------------------------------
(* The cut: the first rows of each match, then the first of all. *)
First(K, n) == {k \in K : Cardinality({j \in K : j <= k}) <= n}
RowsOf(K, m) == {k \in K : stored[k].match = m}
PerMatch(K) == UNION {First(RowsOf(K, m), SampleLimitPerMatch) : m \in MatchesOf(K)}

(* The weight counts the rows that were found, not those that were kept. *)
MatchBalancedWeight(K, k) == Unit \div Max({1, Cardinality(RowsOf(K, stored[k].match))})

Dataset_RowWeights(K, counted, limit) ==
  LET shown == First(PerMatch(K), limit)
  IN  [shown |-> shown, weight |-> [k \in shown |-> Unit],
       truncated |-> Cardinality(shown) < Cardinality(counted),
       snapshots |-> Cardinality(counted), matches |-> Cardinality(MatchesOf(shown))]
(* datasetFromRows: what the second query finds, K, is called a sample when *)
(* it shows fewer rows than the first one counted.                          *)
Dataset(K, counted, limit) ==
  LET shown == First(PerMatch(K), limit)
  IN  [shown |-> shown,
       weight |-> [k \in shown |-> MatchBalancedWeight(K, k)],
       truncated |-> Cardinality(shown) < Cardinality(counted),
       snapshots |-> Cardinality(counted),
       matches |-> Cardinality(MatchesOf(shown))]

(* What the route says of an answer. *)
Warning(d) ==
  IF d.matches < LowSample THEN "low sample" ELSE IF d.truncated THEN "bounded sample" ELSE "none"

-----------------------------------------------------------------------------
Idle == [stage |-> "idle"]

CohortInit == stored = <<>> /\ request = Idle

(* Ingestion stores a row, or stores it again: a rank that has become known *)
(* or a verified archive changes what filters find, never what it is of.    *)
SameTarget(old, row) ==
  /\ \A f \in {"match", "level", "phase"} : old[f] = row[f]
  /\ (old.store = "legacy") = (row.store = "legacy")
StoreRow(row, hash) ==
  /\ hash \in DOMAIN stored => SameTarget(stored[hash], row)
  /\ stored' = [h \in DOMAIN stored \cup {hash} |-> IF h = hash THEN row ELSE stored[h]]
  /\ UNCHANGED request

(* The first query of a level.  An empty pool is answered at once.          *)
CountLevels(group, level) ==
  LET pool == ChooseLevelPool(group, level)
  IN  /\ request = Idle
      /\ request' = IF pool = {} THEN Idle
                    ELSE [stage |-> "levels", group |-> group, pool |-> pool,
                          counted |-> AtLevels(group, pool)]
      /\ UNCHANGED stored

AskPhase(group, phase) ==
  /\ request = Idle
  /\ request' = [stage |-> "count", group |-> group, order |-> PhaseOrder(phase)]
  /\ UNCHANGED stored

(* A query for each phase, until rows are counted; none is an empty answer. *)
CountPhase ==
  /\ request.stage = "count"
  /\ LET phase == Head(request.order)
         counted == OfPhase(request.group, phase)
     IN  request' = IF counted # {}
                    THEN [stage |-> "phase", group |-> request.group, phase |-> phase,
                          counted |-> counted]
                    ELSE IF Len(request.order) = 1 THEN Idle
                    ELSE [stage |-> "count", group |-> request.group, order |-> Tail(request.order)]
  /\ UNCHANGED stored

(* The last query, with which Answers are given. *)
Fetch ==
  request.stage \in {"levels", "phase"} /\ request' = Idle /\ UNCHANGED stored

(* A query throws, and so does the route. *)
QueryFails == request # Idle /\ request' = Idle /\ UNCHANGED stored

CohortNext ==
  \/ \E row \in RowForms, hash \in 1..MaxRows : StoreRow(row, hash)
  \/ \E group \in Groups, level \in AskedLevels : CountLevels(group, level)
  \/ \E group \in Groups, p \in DOMAIN Phases : AskPhase(group, Phases[p])
  \/ CountPhase
  \/ Fetch
  \/ QueryFails

CohortSpec == CohortInit /\ [][CohortNext]_cohortVars

-----------------------------------------------------------------------------
(* What the last query finds if it is made now, and what is answered.       *)
Found ==
  CASE request.stage = "levels" -> AtLevels(request.group, request.pool)
    [] request.stage = "phase"  -> OfPhase(request.group, request.phase)
    [] OTHER                    -> {}
Answers ==
  IF request.stage \in {"levels", "phase"}
  THEN {Dataset(Found, request.counted, limit) : limit \in Limits} ELSE {}

TotalWeight(d, m) == MapThenSumSet(LAMBDA k : d.weight[k], RowsOf(d.shown, m))

(* Whatever is asked, and whatever is stored meanwhile: no match weighs     *)
(* more than one, a match none of whose rows was cut weighs exactly one,    *)
(* and the answer says so when more rows were cut than came in after they   *)
(* were counted (datasetFromRows, the warning of the route).  As many as    *)
(* came in may be cut without a word: the counts are older than the rows.   *)
CohortBalanced ==
  \A d \in Answers :
    /\ \A m \in MatchesOf(d.shown) :
         /\ TotalWeight(d, m) <= Unit
         /\ RowsOf(Found, m) \subseteq d.shown => TotalWeight(d, m) = Unit
    /\ Cardinality(Found) - Cardinality(d.shown) > Cardinality(Found \ request.counted)
         => Warning(d) # "none"

(* Every match of a cohort has a total weight of one (level-cohort.ts:30).  *)
WeighOne ==
  \A d \in Answers : \A m \in MatchesOf(d.shown) : TotalWeight(d, m) = Unit
=============================================================================
