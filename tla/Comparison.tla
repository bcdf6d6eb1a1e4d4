----------------------------- MODULE Comparison -----------------------------
(***************************************************************************)
(* Two builds compared over the targets of a cohort, and what the lab says *)
(* of it (domain/simulator.ts, domain/compare-view.ts): the outcome and    *)
(* difference of each target, their weights, the headline, the verdict of  *)
(* a fight length, the slices by champion and the heavy third.             *)
(*                                                                         *)
(* A fight is given by its result: killed, the time to the kill and the    *)
(* applied damage, which is the target's health when it died (module       *)
(* Yunara).  A difference is a fraction <<n, d>>; roundings of six digits  *)
(* are left out, so shares that differ by less are told apart here.        *)
(***************************************************************************)
EXTENDS Integers, Sequences, FiniteSets, FiniteSetsExt

CONSTANTS
  Targets,      (* targets: champion, weight (0 if it has none), stat       *)
  Fought,       (* results of the fights of both builds with a target:      *)
                (* killed, ttk, damage of a and b                           *)
  UnitWeight,   (* the weight of a target that has none                     *)
  FewTargets,   (* the targets from which a heavy third is compared, 6      *)
  MaxCompared   (* bound: the targets of a cohort                           *)

ASSUME ComparisonAssumption ==
  /\ UnitWeight \in Nat \ {0} /\ FewTargets \in Nat \ {0} /\ MaxCompared \in Nat
  /\ \A e \in Targets : e.weight \in Nat /\ e.stat \in Nat
  /\ \A f \in Fought :
       /\ \A r \in {f.a, f.b} : r.killed \in BOOLEAN /\ r.damage \in Nat /\ r.ttk \in Nat
       /\ f.a.damage = 0 <=> f.b.damage = 0
       /\ f.a.killed => f.a.damage >= f.b.damage
       /\ f.b.killed => f.b.damage >= f.a.damage

VARIABLES
  metric,     (* "damage" or "ttk"                               *)
  compared    (* rows: target, a and b                           *)

Weight(t) == IF t.weight > 0 THEN t.weight ELSE UnitWeight

(* compareOutcome: a kill beats none, two kills differ in their time only, *)
(* and where nobody kills the damage tells.                                *)
Compare(a, b, m) ==
  IF a.killed # b.killed THEN IF a.killed THEN "a" ELSE "b"
  ELSE IF a.killed THEN
    IF m = "damage" \/ a.ttk = b.ttk THEN "tie" ELSE IF a.ttk < b.ttk THEN "a" ELSE "b"
  ELSE IF m = "ttk" THEN "censored"
  ELSE IF a.damage = b.damage THEN "tie" ELSE IF a.damage > b.damage THEN "a" ELSE "b"

(* metricDelta: how much better a is, where that can be said. *)
HasDelta(row, m) ==
  IF m = "damage" THEN row.b.damage # 0 \/ row.a.damage = 0
  ELSE row.a.killed /\ row.b.killed /\ row.b.ttk # 0
Delta(row, m) ==
  IF m = "ttk" THEN <<row.b.ttk - row.a.ttk, row.b.ttk>>
  ELSE IF row.b.damage = 0 THEN <<0, 1>>
  ELSE <<row.a.damage - row.b.damage, row.b.damage>>
AtMost(x, y) == x[1] * y[2] <= y[1] * x[2]

Outcome(row) == Compare(row.a, row.b, metric)

(* A part of the rows is the set of their places. *)
Sided(rows, K, side) == {k \in K : Outcome(rows[k]) = side}
Count(rows, K, side) == Cardinality(Sided(rows, K, side))
Weights(rows) == [k \in DOMAIN rows |-> Weight(rows[k].target)]
Weigh(rows, K) == LET w == Weights(rows) IN MapThenSumSet(LAMBDA k : w[k], K)
MassOf(rows, K, side) == Weigh(rows, Sided(rows, K, side))

(* weightedQuantile at one half: the least difference that, with those      *)
(* below it, has half the weight; none is zero.                             *)
Median(rows) ==
  LET known == {k \in DOMAIN rows : HasDelta(rows[k], metric)}
      D(k) == Delta(rows[k], metric)
      upTo(k) == {j \in known : AtMost(D(j), D(k))}
      half == {k \in known : 2 * Weigh(rows, upTo(k)) >= Weigh(rows, known)}
  IN  IF known = {} THEN <<0, 1>>
      ELSE D(CHOOSE k \in half : \A j \in half : AtMost(D(k), D(j)))

(* weightedHeadlineWinner *)
Headline(rows, K) ==
  LET a == MassOf(rows, K, "a")
      b == MassOf(rows, K, "b")
  IN  IF a = b THEN "tie" ELSE IF a > b THEN "a" ELSE "b"

(* summarizeWindow *)
Verdict(rows) ==
  LET all == DOMAIN rows
  IN  CASE metric = "ttk" /\ rows # <<>> /\ Sided(rows, all, "censored") = all -> "no-kills"
        [] /\ metric = "damage" /\ rows # <<>>
           /\ \A k \in all : rows[k].a.killed /\ rows[k].b.killed
           /\ Sided(rows, all, "tie") = all -> "all-killed"
        [] OTHER -> Headline(rows, all)

(* weightedWinRate, by its numerator and denominator, and sliceTier. *)
WinRate_Unweighted(rows, K) == <<Count(rows, K, "a"), Count(rows, K, "a") + Count(rows, K, "b")>>
WinRate(rows, K) == <<MassOf(rows, K, "a"), MassOf(rows, K, "a") + MassOf(rows, K, "b")>>
Tier(rows, K) ==
  LET share == WinRate(rows, K)
  IN  IF Count(rows, K, "a") + Count(rows, K, "b") = 0 THEN "undecided"
      ELSE IF 2 * share[1] < share[2] THEN "flips"
      ELSE IF 4 * share[1] < 3 * share[2] THEN "close"
      ELSE "settled"

(* byChampion: a slice for each champion of two or more targets. *)
OfChampion(rows, c) == {k \in DOMAIN rows : rows[k].target.champion = c}
ChampionsOf(rows) == {rows[k].target.champion : k \in DOMAIN rows}
Slices(rows) == {c \in ChampionsOf(rows) : Cardinality(OfChampion(rows, c)) >= 2}

(* collectDraftRows: the third with the most of a stat, at least two; of    *)
(* equals those that come first.                                            *)
Heavy(rows) ==
  LET take == Max({2, (Len(rows) + 2) \div 3})
      ahead(k) == {j \in DOMAIN rows :
                     \/ rows[j].target.stat > rows[k].target.stat
                     \/ rows[j].target.stat = rows[k].target.stat /\ j < k}
  IN  IF Len(rows) < FewTargets THEN {} ELSE {k \in DOMAIN rows : Cardinality(ahead(k)) < take}

-----------------------------------------------------------------------------
ComparisonInit == metric \in {"damage", "ttk"} /\ compared = <<>>

(* One more target is fought by both builds, with the same script: if one   *)
(* does no damage at all neither does the other.                            *)
CompareTarget(target, f) ==
  /\ Len(compared) < MaxCompared
  /\ compared' = Append(compared, [target |-> target, a |-> f.a, b |-> f.b])
  /\ UNCHANGED metric

ComparisonNext == \E target \in Targets, f \in Fought : CompareTarget(target, f)

ComparisonSpec == ComparisonInit /\ [][ComparisonNext]_<<metric, compared>>

-----------------------------------------------------------------------------
Swapped(rows) == [k \in DOMAIN rows |-> [target |-> rows[k].target, a |-> rows[k].b, b |-> rows[k].a]]
Mirror(side) == CASE side = "a" -> "b" [] side = "b" -> "a" [] OTHER -> side

(* What the lab says in different places does not contradict itself: the    *)
(* builds may change sides; the verdict of the fight length on display is   *)
(* the headline, or a reason why there is none; slices that cover the       *)
(* cohort and all lean one way carry the headline with them; the heavy      *)
(* third of a cohort that is all of one opinion shares it; and the median   *)
(* of applied damage never favours the build that lost (compareAcrossSamples, *)
(* summarizeWindow, groupSlices).                                           *)
VerdictsAgree ==
  LET rows == compared
      all == DOMAIN rows
      headline == Headline(rows, all)
      covered == \A c \in ChampionsOf(rows) : c \in Slices(rows)
      tiers == {Tier(rows, OfChampion(rows, c)) : c \in Slices(rows)}
  IN  /\ Headline(Swapped(rows), all) = Mirror(headline)
      /\ Verdict(Swapped(rows)) = Mirror(Verdict(rows))
      /\ Verdict(rows) # headline => headline = "tie"
      /\ covered /\ "settled" \in tiers /\ tiers \subseteq {"settled", "close", "undecided"}
           => headline = "a"
      /\ covered /\ "flips" \in tiers /\ tiers \subseteq {"flips", "undecided"}
           => headline = "b"
      /\ \A side \in {"a", "b"} :
           Sided(rows, all, side) = all /\ Heavy(rows) # {} => Headline(rows, Heavy(rows)) = side
      /\ metric = "damage" =>
           /\ headline = "a" => Median(rows)[1] >= 0
           /\ headline = "b" => Median(rows)[1] <= 0
=============================================================================
