------------------------------ MODULE MCYunara ------------------------------
(* Twenty steps to a second, with three units to a step, the middle one for  *)
(* the error of a sum.  The fights give every ability, timer and item its    *)
(* turn: short fights with all actions, long ones with the few that matter.  *)
EXTENDS Yunara, TLC

MCRaw == [s \in {"basic", "vow", "barrage", "passive", "active", "shadow"} |-> 5]
           @@ [s \in {"bolt", "kraken", "linger"} |-> 20]
           @@ [s \in {"ruin", "judgment"} |-> 40]

Plain == [items |-> {}, targetMode |-> "mortal", health |-> 2000, duration |-> Seconds(5),
          continueAutos |-> TRUE, ranks |-> [q |-> 1, w |-> 1, r |-> 1],
          bonusAttackSpeed |-> 50, crit |-> 0, haste |-> 0, movement |-> 0,
          yunTalStacks |-> 0, stormrazorStacks |-> 0,
          kinds |-> {"AA", "Q", "W", "E", "R"}, maxActions |-> 3]

Barrages(haste) ==
  [Plain EXCEPT !.kinds = {"R", "AA"}, !.maxActions = 6, !.duration = Seconds(60), !.haste = haste,
                !.continueAutos = FALSE, !.items = {"fiendhunter"}, !.crit = 25]

MCFights ==
  {\* every action, a target that may die of anything, with and without attacks that go on
   [Plain EXCEPT !.health = 60], [Plain EXCEPT !.continueAutos = FALSE, !.targetMode = "uncapped"],
   \* attacks at the cap, and abilities not learned yet
   [Plain EXCEPT !.bonusAttackSpeed = 300, !.maxActions = 1, !.items = {"yunTal", "kraken"}, !.crit = 25],
   [Plain EXCEPT !.ranks = [q |-> 0, w |-> 0, r |-> 0], !.maxActions = 2],
   \* a window that ends within the script
   [Plain EXCEPT !.duration = Second, !.kinds = {"Q", "W", "E"}, !.maxActions = 4],
   \* R, W and E over the end of R
   [Plain EXCEPT !.kinds = {"R", "W", "E"}, !.maxActions = 5, !.duration = Seconds(40),
                 !.continueAutos = FALSE],
   \* a second R before, and after, the next barrage is ready
   Barrages(120), Barrages(40),
   \* a script that may end just after the window, its attacks at the cap
   [Plain EXCEPT !.bonusAttackSpeed = 300, !.duration = 3 * (Second \div 4), !.kinds = {"AA", "Q", "R"},
                 !.items = {"fiendhunter"}, !.crit = 25],
   \* stacks that expire while E is waited for, and a bolt
   [Plain EXCEPT !.kinds = {"E", "AA"}, !.maxActions = 7, !.duration = Seconds(30), !.movement = 300,
                 !.continueAutos = FALSE, !.items = {"terminus", "stormrazor", "blade"}, !.stormrazorStacks = 94]}

(* A fight of six seconds at the attack speed cap: 0.4 s between attacks.  *)
MCAtTheCap == {[Plain EXCEPT !.bonusAttackSpeed = 300, !.maxActions = 1, !.duration = Seconds(6)]}
=============================================================================
