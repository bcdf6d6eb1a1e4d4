---------------------------- MODULE BuildRanking ----------------------------
(***************************************************************************)
(* How the optimizer ranks what it has evaluated (optimizer-engine.ts):    *)
(* the summary of a build over the targets of the cohort, the comparison   *)
(* of two summaries for the objective, and the first n of the order.       *)
(*                                                                         *)
(* Numbers are integers in units of OPTIMIZER_TIE_EPSILON, 1e-9: rounding  *)
(* to six places is to a multiple of 1000 of them, and two values that are *)
(* one unit apart or less count as equal.  A comparison is a negative      *)
(* number where the left one comes first, as in the code.                  *)
(***************************************************************************)
EXTENDS Ordering, SequencesExt, FiniteSetsExt, Functions

CONSTANTS
  Objectives,   (* OptimizerObjective                                       *)
  Candidates,   (* the builds: identity, the place of it by localeCompare,  *)
                (* and goldTotal                                            *)
  TargetRows,   (* bound: what the simulator may find of a build, as a      *)
                (* sequence of one row for each target                      *)
  Never         (* a TTK of a target that is not killed                     *)

TieEpsilon == 1
SixPlaces == 1000

(* Identities are places in an order of their own.                          *)
ASSUME CandidatesAssumption ==
  /\ IsFiniteSet(Candidates)
  /\ \A c \in Candidates : c.identity \in Int /\ c.goldTotal \in Int
  /\ \A c, d \in Candidates : c.identity = d.identity => c = d

(* A sum over some of the rows of a build, the mean of a field over them.   *)
Total(values, K) == MapThenSumSet(LAMBDA k : values[k], K)
WeightOf(rows, K) == Total([k \in K |-> rows[k].weight], K)
WeightedMean(rows, K, field) ==
  Total([k \in K |-> rows[k][field] * rows[k].weight], K) \div WeightOf(rows, K)

(* The share of the weight of the targets that are killed, one whole being 10^9. *)
One(rows) == 1000000000 \div WeightOf(rows, DOMAIN rows)
Coverage(rows, killed) == One(rows) * WeightOf(rows, killed)

(* No target weighs less of the whole than six places tell: it weighs one   *)
(* over the rows of its match, among a thousand targets at most.  A lighter *)
(* one would be rounded out of the coverage, and could be left alive for    *)
(* the sake of a shorter mean TTK.                                          *)
ASSUME RowsAssumption ==
  /\ Never \notin Int
  /\ \A rows, others \in TargetRows : Len(rows) = Len(others)
  /\ \A rows \in TargetRows :
       /\ rows \in Seq({rows[k] : k \in DOMAIN rows}) /\ rows # <<>>
       /\ \A k \in DOMAIN rows :
            /\ rows[k].damage \in Nat /\ rows[k].dps \in Nat /\ rows[k].weight \in Nat \ {0}
            /\ rows[k].ttk \in Nat \cup {Never}
            /\ One(rows) * rows[k].weight >= SixPlaces

Round_Exact(x) == x
Round(x) == SixPlaces * ((x + SixPlaces \div 2) \div SixPlaces)

Killed(row) == row.ttk # Never
SummarizeEvaluation(candidate, objective, rows) ==
  LET killed == {k \in DOMAIN rows : Killed(rows[k])}
      meanTtk == IF killed = {} THEN Never ELSE Round(WeightedMean(rows, killed, "ttk"))
      damage == Round(WeightedMean(rows, DOMAIN rows, "damage"))
      dps == Round(WeightedMean(rows, DOMAIN rows, "dps"))
  IN  [candidate |-> candidate, objective |-> objective,
       score |-> CASE objective = "ttk" -> meanTtk
                   [] objective = "sustained-dps" -> dps
                   [] OTHER -> damage,
       weightedDamage |-> damage,
       killCoverage |-> Round(Coverage(rows, killed)),
       meanTtk |-> meanTtk]

ApproximatelyZero(x) == x \in -TieEpsilon..TieEpsilon

(* Of several keys, the first that tells the two apart decides. *)
FirstOf(keys) ==
  LET telling == {k \in DOMAIN keys : keys[k] # 0}
  IN  IF telling = {} THEN 0 ELSE keys[Min(telling)]
Key(difference) == IF ApproximatelyZero(difference) THEN 0 ELSE difference
TtkKey(left, right) ==
  CASE left = Never /\ right = Never -> 0
    [] left = Never /\ right # Never -> 1
    [] left # Never /\ right = Never -> -1
    [] OTHER -> Key(left - right)

MetricKeys(left, right) ==
  IF left.objective = "ttk"
  THEN <<Key(right.killCoverage - left.killCoverage), TtkKey(left.meanTtk, right.meanTtk)>>
  ELSE <<Key(right.score - left.score), Key(right.killCoverage - left.killCoverage),
         Key(right.weightedDamage - left.weightedDamage)>>

CompareOptimizerEvaluations(left, right) ==
  FirstOf(MetricKeys(left, right) \o
            <<left.candidate.goldTotal - right.candidate.goldTotal,
              left.candidate.identity - right.candidate.identity>>)

RankOptimizerEvaluations(evaluations, topN) ==
  LET ranked == SortedBy(evaluations, LAMBDA l, r : CompareOptimizerEvaluations(l, r) < 0)
  IN  SubSeq(ranked, 1, Min({Len(ranked), Max({1, topN})}))

----------------------------------------------------------------------------
(* The same evaluations give the same ranking in whatever order they are    *)
(* sorted: with an epsilon in the comparison that is so only because the    *)
(* summaries are rounded far more coarsely (optimizer-engine.ts:212-219),   *)
(* else three builds, each within the epsilon of the next, may form a cycle *)
(* with the tie-breaks.                                                     *)
RankingDeterministic ==
  \A objective \in Objectives :
    LET found == {SummarizeEvaluation(CHOOSE c \in Candidates : TRUE, objective, rows) :
                    rows \in TargetRows}
        n == Cardinality(Candidates)
        orders == {order \in [1..n -> Candidates] : IsInjective(order)}
        rankings(of) ==
          {RankOptimizerEvaluations(
             [k \in 1..n |-> [of[order[k]] EXCEPT !.candidate = order[k]]], n) : order \in orders}
    IN  \A of \in [Candidates -> found] : Cardinality(rankings(of)) = 1

(* On every target at least the damage of the other and, where the other    *)
(* kills, a kill at least as early.                                         *)
Dominates(better, worse) ==
  \A k \in DOMAIN better :
    /\ better[k].weight = worse[k].weight
    /\ better[k].damage >= worse[k].damage /\ better[k].dps >= worse[k].dps
    /\ Killed(worse[k]) => Killed(better[k]) /\ better[k].ttk <= worse[k].ttk

(* A build that does at least as well on every target never ranks behind    *)
(* one that does worse at the same price: that the mean TTK is only taken   *)
(* over the targets that die (a censored target has none) must not reward   *)
(* the build that leaves the hard ones alive.                               *)
DominanceRespected ==
  \A objective \in Objectives, candidate \in Candidates :
    LET found == {[rows |-> rows, eval |-> SummarizeEvaluation(candidate, objective, rows)] :
                    rows \in TargetRows}
    IN  \A better, worse \in found :
          Dominates(better.rows, worse.rows) =>
            CompareOptimizerEvaluations(better.eval, worse.eval) <= 0
=============================================================================
