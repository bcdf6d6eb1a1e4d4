------------------------- MODULE MCOptimizerSearch -------------------------
(* Two inputs, two chunks a search.  For the candidates: four items, two of *)
(* them boots and one not trusted, and a fifth id that is in no catalog;    *)
(* builds of up to three slots.  For the ranking: three builds, two at one  *)
(* price, over two targets, the second of twice the weight.                 *)
EXTENDS OptimizerSearch, TLC

CONSTANTS i1, i2

MCHashOf == (i1 :> 1) @@ (i2 :> 2)

MCGoldOf == 1 :> 10 @@ 2 :> 11 @@ 3 :> 30 @@ 4 :> 32
MCOptions ==
  [eligible : {1..5, 2..4}, allowPartial : BOOLEAN, slotCount : {-1, 2, 3},
   bootRule : {"required", "forbidden", Unset}, requireBoots : {FALSE, Unset},
   maxBoots : {0, 2}, required : {{}, {2}, {2, 3}, {4}}, excluded : {{}, {2}},
   maxGold : {Unset, 41, 72}, minGold : {Unset, 42, 73}]

MCObjectives == {"sustained-dps", "fixed-window-damage", "burst-damage", "ttk"}
MCCandidates ==
  {[identity |-> 1, goldTotal |-> 20], [identity |-> 2, goldTotal |-> 10],
   [identity |-> 3, goldTotal |-> 20]}
MCRow(weight) ==
  [damage : {0, 999, 1000, 1001}, dps : {1000}, ttk : {1000, 3000, Never},
   weight : {weight}]
MCTargetRows == {<<a, b>> : a \in MCRow(1), b \in MCRow(2)}
===========================================================================
