------------------------------- MODULE Skills -------------------------------
(***************************************************************************)
(* Skill ranks (domain/skills.ts): which are legal at a level, the ranks a *)
(* player without data is given, and how others are made legal.  Levels    *)
(* are whole numbers from 1 to 18.                                         *)
(***************************************************************************)
EXTENDS Integers

Levels == 1..18
SkillKeys == {"q", "w", "e", "r"}

Least(a, b) == IF a <= b THEN a ELSE b

(* skillBounds, the upper bounds; the lower ones are zero. *)
Bound(level) ==
  [k \in SkillKeys |->
     IF k # "r" THEN Least(5, level)
     ELSE IF level >= 16 THEN 3 ELSE IF level >= 11 THEN 2 ELSE IF level >= 6 THEN 1 ELSE 0]

Total(ranks) == ranks["q"] + ranks["w"] + ranks["e"] + ranks["r"]

(* isLegalSkillRanks, and isLegalRankShape of the page *)
IsLegalSkillRanks(ranks, level) ==
  /\ \A k \in SkillKeys : ranks[k] \in 0..Bound(level)[k]
  /\ Total(ranks) <= level

(* The first n of the points that are not spent on r, on q, w and e in turn. *)
Spent(n) ==
  [q |-> Least(5, n), w |-> Least(5, n - Least(5, n)),
   e |-> Least(5, n - Least(10, n))]

(* defaultSkillRanks: a point each level, in r at 6, 11 and 16 *)
DefaultSkillRanks(level) ==
  LET r == Bound(level)["r"]
      others == Spent(level - r)
  IN  [k \in SkillKeys |-> IF k = "r" THEN r ELSE others[k]]

Clipped(value, max) == IF value < 0 THEN 0 ELSE Least(max, value)

(* clampSkillRanks: first each rank to its bound, then points are taken     *)
(* away, from e first, then w, q and r, until there is one a level.         *)
ClampSkillRanks(ranks, level) ==
  LET next == [k \in SkillKeys |-> Clipped(ranks[k], Bound(level)[k])]
      over == Clipped(Total(next) - level, Total(next))
      e == Least(next["e"], over)
      w == Least(next["w"], over - e)
      q == Least(next["q"], over - e - w)
  IN  [next EXCEPT !["e"] = @ - e, !["w"] = @ - w, !["q"] = @ - q,
                   !["r"] = @ - (over - e - w - q)]

(* tryAdjustSkillRank by one point, where it is not refused *)
Adjusted(ranks, key, delta) == [ranks EXCEPT ![key] = @ + delta]
=============================================================================
