---------------------------- MODULE Progression -----------------------------
(***************************************************************************)
(* The observed inventories of a champion by level (domain/progression.ts, *)
(* data/progression.ts) as /api/progression answers them: the rows that    *)
(* count, one vote for each match, participant and level, the widening to  *)
(* nearby levels, the counts of completed items, and the core and boots    *)
(* that are recommended from them.                                         *)
(*                                                                         *)
(* An inventory is a sequence of item ids; the catalog tells completed     *)
(* legendary items and boots from the rest.  A list that is sorted is the  *)
(* set of its elements and the place the order gives each.                 *)
(***************************************************************************)
EXTENDS Integers, Sequences, FiniteSets, FiniteSetsExt, Functions, Ordering

CONSTANTS
  Frames,            (* what may be stored: match, participant, level,   *)
                     (* time, items, store, and whether it is verified   *)
  Legendaries,       (* isCompletedLegendary                             *)
  BootItems,         (* isBoot                                           *)
  UpgradedBoots,     (* isUpgradedBoot                                   *)
  Supported,         (* the items the simulator knows                    *)
  FewFrames,         (* sampleThreshold, 20                              *)
  ListLength,        (* how many patterns and items are listed, 8        *)
  NoBoots,           (* null                                             *)
  MaxFrames          (* bound: the frames stored                         *)

ASSUME ProgressionAssumption ==
  /\ \A f \in Frames : /\ f.level \in 1..18 /\ f.time \in Nat /\ f.items \in Seq(Nat)
                       /\ f.store \in {"compact", "legacy"} /\ f.verified \in BOOLEAN
  (* timeline_snapshots: UNIQUE (match_id, participant_id, timestamp_ms)      *)
  /\ \A f, g \in Frames :
       (/\ f.store = "legacy" /\ g.store = "legacy"
        /\ f.match = g.match /\ f.participant = g.participant /\ f.time = g.time) => f = g
  /\ UpgradedBoots \subseteq BootItems /\ BootItems \cap Legendaries = {}
  /\ FewFrames \in Nat \ {0} /\ ListLength \in Nat \ {0} /\ NoBoots \notin BootItems

VARIABLE observed   (* the frames that are stored *)

(* join(",") of ids of one digit: the first difference decides, a prefix    *)
(* comes first.                                                             *)
JoinedBefore(a, b) ==
  LET differ == {k \in 1..Min({Len(a), Len(b)}) : a[k] # b[k]}
  IN  IF differ = {} THEN Len(a) < Len(b) ELSE a[Min(differ)] < b[Min(differ)]

Vote(o) == <<o.match, o.participant, o.level>>

(* dedupeLevelObservations: which of two frames of a vote is kept. *)
Later(p, o) == p.time > o.time \/ (p.time = o.time /\ JoinedBefore(o.items, p.items))

(* The query: frames of verified matches, those of the old schema only while *)
(* there is none of the new one; of a vote the last.                        *)
Readable(o) ==
  IF o.store = "compact" THEN o.verified ELSE \A p \in observed : p.store = "legacy"
Observations ==
  {o \in observed : Readable(o) /\ \A p \in observed :
     Readable(p) /\ Vote(p) = Vote(o) => p.time <= o.time}

Deduped ==
  {o \in Observations : \A p \in Observations : Vote(p) = Vote(o) => ~Later(p, o)}

AtLevel(L) == {o \in Deduped : o.level \in L}
Near(level, radius) == {l \in 1..18 : l \in level - radius .. level + radius}

ChoosePool_ExactOnly(level) == {level}
(* The first radius that reaches the threshold, otherwise the widest that   *)
(* holds an observation, otherwise none.                                    *)
ChoosePool(level) ==
  LET enough == {r \in 0..2 : Cardinality(AtLevel(Near(level, r))) >= FewFrames}
  IN  IF enough # {} THEN Near(level, Min(enough))
      ELSE IF AtLevel(Near(level, 2)) # {} THEN Near(level, 2)
      ELSE {}

-----------------------------------------------------------------------------
(* aggregateLevel, over the observations of a pool. *)
Completed(o) == {n \in DOMAIN o.items : o.items[n] \in Legendaries}
CompletedCount(o) == Cardinality(Completed(o))
Pattern(o) == {o.items[n] : n \in Completed(o)}
BootsOf(o) == {i \in Range(o.items) : i \in BootItems}

Distribution(rows) ==
  [c \in {CompletedCount(o) : o \in rows} |-> Cardinality({o \in rows : CompletedCount(o) = c})]

(* The n-th smallest count, and twice the median of them. *)
NthCount(rows, n) ==
  Min({c \in {CompletedCount(o) : o \in rows} :
         Cardinality({o \in rows : CompletedCount(o) <= c}) >= n})
TwiceMedian(rows) ==
  LET half == Cardinality(rows) \div 2
  IN  IF Cardinality(rows) % 2 = 0 THEN NthCount(rows, half) + NthCount(rows, half + 1)
      ELSE 2 * NthCount(rows, half + 1)

Distance(a, b) == IF a > b THEN a - b ELSE b - a

(* The most frequent count, of several the nearest to the median, of two as *)
(* near the smaller.                                                        *)
Mode(rows) ==
  LET d == Distribution(rows)
      most == {c \in DOMAIN d : \A e \in DOMAIN d : d[e] <= d[c]}
      far(c) == Distance(2 * c, TwiceMedian(rows))
  IN  Min({c \in most : \A e \in most : far(c) <= far(e)})

(* How often each set of completed items was seen, the most frequent first: *)
(* the pattern with n others ahead of it is listed at place n, and the list *)
(* is cut.                                                                  *)
Seen(rows, pattern) == Cardinality({o \in rows : Pattern(o) = pattern})
Patterns(rows) == {Pattern(o) : o \in rows}
Ahead(rows, a, b) ==
  \/ Seen(rows, a) > Seen(rows, b)
  \/ Seen(rows, a) = Seen(rows, b) /\ JoinedBefore(Ascending(a), Ascending(b))
Listed(rows, pattern) == Cardinality({a \in Patterns(rows) : Ahead(rows, a, pattern)})
CommonPatterns(rows) == {p \in Patterns(rows) : Listed(rows, p) < ListLength}
FirstOf(rows, patterns) ==
  CHOOSE p \in patterns : \A q \in patterns : Listed(rows, p) <= Listed(rows, q)

Wearing(rows, boots) == Cardinality({o \in rows : boots \in BootsOf(o)})
CommonBoots(rows) ==
  LET worn == UNION {BootsOf(o) : o \in rows}
      most == {b \in worn : \A c \in worn : Wearing(rows, b) >= Wearing(rows, c)}
  IN  IF worn = {} THEN NoBoots ELSE Min(most)
CommonBootTier(rows) ==
  IF CommonBoots(rows) = NoBoots THEN "none"
  ELSE IF CommonBoots(rows) \in UpgradedBoots THEN "upgraded" ELSE "basic"

(* coreFrequencies: only cores that somebody holds are listed. *)
CoreFrequencies(rows) ==
  [core \in UNION {(SUBSET (Pattern(o) \cap Supported)) \ {{}} : o \in rows} |->
     Cardinality({o \in rows : core \subseteq Pattern(o)})]

(* progressionRarity, in counts of observations: twice the midrank, the     *)
(* tail at or above the count, and the count itself.                        *)
Rarity(rows, count) ==
  LET below == Cardinality({o \in rows : CompletedCount(o) < count})
      exact == Cardinality({o \in rows : CompletedCount(o) = count})
  IN  [midrank |-> 2 * below + exact, exact |-> exact, tail |-> Cardinality(rows) - below]

(* aggregateProgression, for a pool that is not empty. *)
Selection(level) ==
  LET levels == ChoosePool(level)
      rows == AtLevel(levels)
      fitting == {p \in CommonPatterns(rows) : Cardinality(p) = Mode(rows)}
      core == FirstOf(rows, IF fitting = {} THEN Patterns(rows) ELSE fitting)
  IN  [levels |-> levels, rows |-> rows, count |-> Mode(rows),
       fallbackUsed |-> levels # {level},
       lowSample |-> Min({Cardinality(rows), Cardinality(AtLevel({level}))}) < FewFrames,
       observed |-> core,
       supported |-> core \cap Supported,
       excluded |-> core \ Supported,
       boots |-> CommonBoots(rows), bootTier |-> CommonBootTier(rows)]

-----------------------------------------------------------------------------
ProgressionInit == observed = {}

(* Ingestion writes a frame, over that of the same match, participant and   *)
(* level, or the old schema has one more.                                   *)
ObserveFrame(frame) ==
  /\ Cardinality(observed) < MaxFrames
  /\ observed' = {frame} \cup
       {o \in observed : ~(frame.store = "compact" /\ o.store = "compact" /\ Vote(o) = Vote(frame))}

ProgressionNext == \E frame \in Frames \ observed : ObserveFrame(frame)

ProgressionSpec == ProgressionInit /\ [][ProgressionNext]_observed

-----------------------------------------------------------------------------
AnsweredLevels == UNION {Near(o.level, 2) : o \in Deduped}

(* Each match, participant and level that is read has one vote, no more and *)
(* no less; that it is its last frame is how Observations choose it.        *)
(* What a level recommends was observed within two levels of it: the core   *)
(* by at least as many players as have its pattern, the boots by somebody,  *)
(* and the count it goes by is as frequent as any; nobody of another level  *)
(* counts where there are enough players of the level itself                *)
(* (dedupeLevelObservations, aggregateProgression).                         *)
RecommendedObserved ==
  /\ {Vote(o) : o \in Deduped} = {Vote(o) : o \in {p \in observed : Readable(p)}}
  /\ Cardinality({Vote(o) : o \in Deduped}) = Cardinality(Deduped)
  /\ \A level \in AnsweredLevels : AtLevel(ChoosePool(level)) # {}
  /\ \A level \in AnsweredLevels : \A s \in {Selection(level)} :
       LET cores == CoreFrequencies(s.rows)
       IN  /\ \A o \in s.rows : Distance(o.level, level) <= 2
           /\ Seen(s.rows, s.observed) > 0
           /\ s.supported # {} => cores[s.supported] >= Seen(s.rows, s.observed)
           /\ \A c \in DOMAIN Distribution(s.rows) :
                /\ Rarity(s.rows, c).exact <= Rarity(s.rows, s.count).exact
                /\ c < s.count => Rarity(s.rows, c).midrank < Rarity(s.rows, s.count).midrank
           /\ ~s.lowSample => ~s.fallbackUsed
           /\ s.boots # NoBoots => \E o \in s.rows : s.boots \in BootsOf(o)
=============================================================================
