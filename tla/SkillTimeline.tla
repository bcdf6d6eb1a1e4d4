--------------------------- MODULE SkillTimeline ----------------------------
(***************************************************************************)
(* The skill ranks the lab starts from at a level, read from the timelines *)
(* of archived matches (data/skill-progression.ts).                        *)
(*                                                                         *)
(* A match is played by the champion's player and others.  The timeline    *)
(* has frames; a frame holds the skill points everybody spent since the    *)
(* one before, and the level the player has reached when it is cut.  The   *)
(* game is what the code assumes of the source: the player spends points   *)
(* on ranks that are legal at the time.                                    *)
(***************************************************************************)
EXTENDS Skills, Sequences, FiniteSets, FiniteSetsExt, Ordering

CONSTANTS
  Champion, Anybody,   (* the player, and anybody else                   *)
  SlotKeys, OtherKeys, (* the skills each of them spends points on       *)
  TopRank,             (* the last level that is told apart, 18          *)
  EnoughSeen,          (* the observations that do without neighbours, 20 *)
  MaxPlayed, MaxTimeline, MaxOthers  (* bounds: the matches, and the     *)
                       (* frames and the points of others of each        *)

ASSUME TimelineAssumption ==
  /\ Champion # Anybody /\ SlotKeys \subseteq SkillKeys /\ OtherKeys \subseteq SkillKeys
  /\ TopRank \in Levels /\ EnoughSeen \in Nat \ {0}

VARIABLES
  reached, spent,   (* the match that is played: the player's level and ranks *)
  points,           (* its timeline: the points spent, each with its player,  *)
                    (* key and frame                                          *)
  cuts,             (* the player's level in each frame that is cut           *)
  archived          (* what is read from each timeline in the archive: its    *)
                    (* observations by level, and the level it ended at       *)

skillVars == <<reached, spent, points, cuts, archived>>

NoRanks == [k \in SkillKeys |-> 0]

(* The points for a level are those of the player in a frame up to it, and  *)
(* they count as long as the skill is not at its last rank.                 *)
PointsOf_Everybody(level) == {n \in DOMAIN points : cuts[points[n].frame] <= level}
PointsOf(level) ==
  {n \in DOMAIN points : points[n].player = Champion /\ cuts[points[n].frame] <= level}

LastRank(key) == IF key = "r" THEN 3 ELSE 5
SameBefore(of, n) == {i \in of : i < n /\ points[i].key = points[n].key}
Counted(level) ==
  {n \in PointsOf(level) : Cardinality(SameBefore(PointsOf(level), n)) < LastRank(points[n].key)}

(* extractSkillObservations, for the champion's player *)
Observation(level) ==
  [ranks |-> [k \in SkillKeys |-> Cardinality({n \in Counted(level) : points[n].key = k})],
   order |-> [j \in 1..Cardinality(Counted(level)) |-> points[Nth(Counted(level), j)].key]]
Extracted ==
  [level \in {l \in 1..TopRank : Total(Observation(l).ranks) > 0} |-> Observation(level)]

(* A match and a level it is an observation for. *)
AllObserved == UNION {{m} \X DOMAIN archived[m].seen : m \in DOMAIN archived}
OfLevels(L) == {o \in AllObserved : o[2] \in L}
SeenIn(o) == archived[o[1]].seen[o[2]]

(* nearbyLevels: the first radius with enough of them, otherwise the levels *)
(* of the widest that were observed at all.                                 *)
Within(level, radius) == {l \in 1..TopRank : l \in level - radius .. level + radius}
NearbyLevels(level) ==
  LET enough == {r \in 0..2 : Cardinality(OfLevels(Within(level, r))) >= EnoughSeen}
  IN  IF enough # {} THEN Within(level, Min(enough))
      ELSE {l \in Within(level, 2) : OfLevels({l}) # {}}

(* modeObservation: the ranks and order seen most often, of several the one *)
(* that has put more into R, then Q, W and E, of two such the first.        *)
RankScore(ranks) == ranks["q"] * 100 + ranks["w"] * 10 + ranks["e"] + ranks["r"] * 1000
Before(o, p) == o[1] < p[1] \/ (o[1] = p[1] /\ o[2] <= p[2])
ModeObservation(O) ==
  LET seen == [o \in O |-> SeenIn(o)]
      often == [o \in O |-> Cardinality({p \in O : seen[p] = seen[o]})]
      most == {o \in O : \A p \in O : often[p] <= often[o]}
      best == {o \in most : \A p \in most : RankScore(seen[p].ranks) <= RankScore(seen[o].ranks)}
  IN  seen[CHOOSE o \in best : \A p \in best : Before(o, p)]

(* fallbackSkillProgression: the points of Q, then of W, E and R. *)
Fallback(level) ==
  LET ranks == DefaultSkillRanks(level)
      inTurn(n) == IF n <= ranks["q"] THEN "q"
                   ELSE IF n <= ranks["q"] + ranks["w"] THEN "w"
                   ELSE IF n <= ranks["q"] + ranks["w"] + ranks["e"] THEN "e" ELSE "r"
  IN  [ranks |-> ranks, order |-> [n \in 1..Total(ranks) |-> inTurn(n)],
       levels |-> {level}, samples |-> 0, provenance |-> "legal-fallback"]

(* getYunaraSkillProgression *)
SkillProgression(level) ==
  LET levels == NearbyLevels(level)
      pool == OfLevels(levels)
      common == ModeObservation(pool)
  IN  IF pool = {} THEN Fallback(level)
      ELSE [ranks |-> common.ranks, order |-> common.order, levels |-> levels,
            samples |-> Cardinality(pool), provenance |-> "timeline"]

-----------------------------------------------------------------------------
SkillInit ==
  /\ reached = 1 /\ spent = NoRanks
  /\ points = <<>> /\ cuts = <<>> /\ archived = <<>>

GainLevel ==
  /\ reached < TopRank /\ reached' = reached + 1
  /\ UNCHANGED <<spent, points, cuts, archived>>

(* A point belongs to the frame that is cut next. *)
Point(player, key) == [player |-> player, key |-> key, frame |-> Len(cuts) + 1]

SpendPoint(key) ==
  /\ IsLegalSkillRanks(Adjusted(spent, key, 1), reached)
  /\ spent' = Adjusted(spent, key, 1)
  /\ points' = Append(points, Point(Champion, key))
  /\ UNCHANGED <<reached, cuts, archived>>

OtherSpends(key) ==
  /\ Cardinality({n \in DOMAIN points : points[n].player = Anybody}) < MaxOthers
  /\ points' = Append(points, Point(Anybody, key))
  /\ UNCHANGED <<reached, spent, cuts, archived>>

CutTimeline ==
  /\ Len(cuts) < MaxTimeline
  /\ cuts' = Append(cuts, reached)
  /\ UNCHANGED <<reached, spent, points, archived>>

(* The match is over, its timeline archived and verified; the next begins. *)
ArchiveTimeline ==
  /\ cuts # <<>> /\ Len(archived) < MaxPlayed
  /\ \A n \in DOMAIN points : points[n].frame <= Len(cuts)
  /\ archived' = Append(archived, [seen |-> Extracted, top |-> cuts[Len(cuts)]])
  /\ reached' = 1 /\ spent' = NoRanks
  /\ points' = <<>> /\ cuts' = <<>>

SkillNext ==
  \/ GainLevel
  \/ \E key \in SlotKeys : SpendPoint(key)
  \/ \E key \in OtherKeys : OtherSpends(key)
  \/ CutTimeline
  \/ ArchiveTimeline

SkillSpec == SkillInit /\ [][SkillNext]_skillVars

-----------------------------------------------------------------------------
(* The ranks and order of a level are legal at the highest of the levels    *)
(* they are taken from, so also at the level itself where no neighbour was  *)
(* asked; they spend what the order spends; and a higher level of the same  *)
(* match has spent the same points first (extractSkillObservations,         *)
(* getYunaraSkillProgression).                                              *)
SkillsLegal ==
  /\ \A level \in 1..TopRank :
       LET s == SkillProgression(level)
       IN  /\ IsLegalSkillRanks(s.ranks, Max(s.levels))
           /\ \A k \in SkillKeys : Cardinality({n \in DOMAIN s.order : s.order[n] = k}) = s.ranks[k]
  /\ \A o \in AllObserved :
       \A p \in AllObserved : o[1] = p[1] /\ o[2] <= p[2] =>
         /\ Len(SeenIn(o).order) <= Len(SeenIn(p).order)
         /\ \A n \in DOMAIN SeenIn(o).order : SeenIn(o).order[n] = SeenIn(p).order[n]

(* What is called an observation of a level was seen at that level          *)
(* (skill-progression.ts:52, "archived timeline observations at level").    *)
LevelsReached ==
  \A o \in AllObserved : o[2] <= archived[o[1]].top
=============================================================================
