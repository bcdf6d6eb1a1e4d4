------------------------------ MODULE MCFigures ------------------------------
(* The computations behind the figures of the lab, one of them in each       *)
(* behaviour, while the others rest in an initial state: a fight, the target *)
(* cohort, the progression of a level, the projection of a match, the skill  *)
(* ranks of a level, and the comparison of two builds.                       *)
EXTENDS MCYunara, TargetCohort, Progression, MatchReplay, SkillTimeline, Comparison

CONSTANT Parts   (* the parts that run *)

(* Levels near each other, of two groups, in every kind of store, one before *)
(* and after its match is verified; a phase in both schemas, and another     *)
(* with a row of unknown bonus health only.                                  *)
Row(m, l, p, g, s, k) == [match |-> m, level |-> l, phase |-> p, group |-> g, store |-> s, known |-> k]
MCRowForms ==
  {Row("m1", 9, "none", "top", "compact", TRUE), Row("m1", 10, "none", "mid", "compact", TRUE),
   Row("m2", 9, "none", "top", "compact", TRUE), Row("m2", 11, "none", "mid", "unverified", TRUE),
   Row("m2", 11, "none", "mid", "compact", TRUE),
   Row("m3", 9, "none", "top", "legacy", TRUE),
   Row("m1", 0, "minute-window", "top", "compact", TRUE),
   Row("m2", 0, "minute-window", "mid", "legacy", TRUE),
   Row("m1", 0, "yunara-third-item", "top", "legacy", FALSE)}

(* Items 1 to 3 are legendary, the third is not supported; 7 and 8 are boots. *)
Frame(m, l, t, items, s, v) ==
  [match |-> m, participant |-> 1, level |-> l, time |-> t, items |-> items, store |-> s, verified |-> v]
MCFrames ==
  {Frame("m1", 9, 1, <<1>>, "compact", TRUE), Frame("m1", 9, 2, <<1, 7>>, "compact", TRUE),
   Frame("m1", 10, 3, <<1, 2, 7>>, "compact", TRUE),
   Frame("m2", 9, 1, <<2, 8>>, "compact", TRUE), Frame("m2", 9, 2, <<2, 9, 1, 8>>, "compact", TRUE),
   Frame("m3", 8, 1, <<3, 1>>, "compact", TRUE), Frame("m3", 12, 2, <<1, 2, 3, 8>>, "compact", TRUE),
   Frame("m4", 9, 1, <<3>>, "compact", FALSE),
   Frame("m5", 9, 1, <<2>>, "legacy", FALSE), Frame("m5", 9, 2, <<2, 3>>, "legacy", FALSE),
   Frame("m5", 10, 3, <<2, 3, 3>>, "legacy", FALSE)}

(* A legendary item and a component of it; two of the former at the start.   *)
Item(from, into, gold) ==
  [purchasable |-> TRUE, onMap |-> TRUE, excluded |-> FALSE, from |-> from, into |-> into, gold |-> gold]
MCCatalog == <<Item(TRUE, FALSE, 3000), Item(FALSE, TRUE, 1000)>>
MCStartBag == <<1, 1>>
MCTeamOf == <<"blue", "red", "red">>

(* Only b kills, both kill, neither does; a and b change sides in a property. *)
Result(killed, ttk, damage) == [killed |-> killed, ttk |-> ttk, damage |-> damage]
MCFought ==
  {[a |-> Result(FALSE, 9, 8), b |-> Result(TRUE, 3, 10)],
   [a |-> Result(TRUE, 2, 10), b |-> Result(TRUE, 4, 10)],
   [a |-> Result(FALSE, 9, 5), b |-> Result(FALSE, 9, 8)],
   [a |-> Result(FALSE, 9, 9), b |-> Result(FALSE, 9, 3)]}
MCTargets ==
  {[champion |-> "c1", weight |-> 1, stat |-> 1], [champion |-> "c1", weight |-> 0, stat |-> 2],
   [champion |-> "c2", weight |-> 3, stat |-> 2]}

VARIABLE part

compareVars == <<metric, compared>>
figureVars == <<part, fightVars, cohortVars, observed, match, skillVars, compareVars>>

InitFigures ==
  /\ part \in Parts
  /\ FightInit /\ (part # "fight" => fight = CHOOSE f \in Fights : TRUE)
  /\ CohortInit /\ ProgressionInit /\ MatchInit /\ SkillInit
  /\ ComparisonInit /\ (part # "comparison" => metric = "damage")

(* A match is not followed past its last frame, and others spend points in   *)
(* the first match only.                                                     *)
NextFigures ==
  \/ part = "fight" /\ FightNext /\ UNCHANGED <<part, cohortVars, observed, match, skillVars, compareVars>>
  \/ part = "cohort" /\ CohortNext /\ UNCHANGED <<part, fightVars, observed, match, skillVars, compareVars>>
  \/ part = "progression" /\ ProgressionNext /\ UNCHANGED <<part, fightVars, cohortVars, match, skillVars, compareVars>>
  \/ part = "replay" /\ Len(frames) < MaxCuts
     /\ MatchNext /\ UNCHANGED <<part, fightVars, cohortVars, observed, skillVars, compareVars>>
  \/ part = "skills" /\ SkillNext
     /\ (archived # <<>> => \A e \in ToSet(points') : e.player # Anybody)
     /\ UNCHANGED <<part, fightVars, cohortVars, observed, match, compareVars>>
  \/ part = "comparison" /\ ComparisonNext /\ UNCHANGED <<part, fightVars, cohortVars, observed, match, skillVars>>

SpecFigures == InitFigures /\ [][NextFigures]_figureVars
=============================================================================
