------------------------------ MODULE Yunara ------------------------------
(***************************************************************************)
(* One fight of Yunara against one target (domain/champions/yunara.ts):    *)
(* the scripted actions, the attacks that continue after them, and the     *)
(* timers that abilities and items keep between them.                      *)
(*                                                                         *)
(* Times are whole units, Second units to a second.  Exact sums of times   *)
(* are multiples of Grid; the units below Epsilon (EPSILON, 1e-9 s) are    *)
(* what sums of doubles are off by: fifteen attacks at 0.4 s end at        *)
(* 6.000000000000001.  Damage is a whole number for each source; the       *)
(* formulas behind the numbers and the words of the trace are left out.    *)
(***************************************************************************)
EXTENDS Integers, Sequences, FiniteSets, FiniteSetsExt

CONSTANTS
  Second, Grid, Epsilon,
  Rounding,   (* what a sum of two times may be off by                  *)
  Raw,        (* the damage of each source before the target takes it   *)
  Fights      (* the inputs that are tried, MaxActions of a script each *)

ASSUME UnitsAssumption ==
  /\ Second \in Nat \ {0} /\ Grid \in Nat \ {0} /\ Second % Grid = 0
  /\ Epsilon \in 1 .. Grid - 1
  /\ Rounding \subseteq 0 .. Epsilon - 1 /\ 0 \in Rounding

(* A hit of W hurts (it has a base damage), and so does its tick. *)
ASSUME FightsAssumption ==
  /\ Raw["judgment"] \in Nat \ {0} /\ Raw["linger"] \in Nat \ {0}
  /\ \A f \in Fights : f.duration \in Nat /\ f.haste \in Nat /\ f.bonusAttackSpeed \in Nat

VARIABLES
  fight,   (* SimulationInput: items, target, window, ranks and script   *)
  engine,  (* State, with pendingDamage and the events                   *)
  cursor,  (* when the attacker is free for the next scripted action     *)
  nextAuto, (* when the next attack after the script is due               *)
  phase,
  casts    (* history: the actions taken, each with its time               *)

fightVars == <<fight, engine, cursor, nextAuto, phase, casts>>

Seconds(n) == n * Second
OnGrid(t) == Grid * (t \div Grid)
(* The doubles that t + d may come out as. *)
Added(t, d) == {t + d + e : e \in {x \in Rounding : (t % Grid) + x < Epsilon}}
Has(item) == item \in fight.items

NoTime == 0 - Second
NewEngine(f) ==
  [qUntil |-> NoTime, rUntil |-> NoTime, rExitHandled |-> TRUE,
   wReadyAt |-> 0, eReadyAt |-> 0, rReadyAt |-> 0,
   attacks |-> 0, targetHealth |-> f.health, nextAttackReady |-> 0,
   yunTalStacks |-> f.yunTalStacks, flurryUntil |-> NoTime, flurryReadyAt |-> 0,
   fiendhunterUntil |-> NoTime, fiendhunterReadyAt |-> 0, fiendhunterAttacks |-> 0,
   stormrazorStacks |-> f.stormrazorStacks, stormrazorLastEnergizeTime |-> 0,
   terminusNextMode |-> "light", lightStacks |-> 0, lightUntil |-> NoTime,
   darkStacks |-> 0, darkUntil |-> NoTime,
   pendingDamage |-> <<>>, events |-> <<>>]

-----------------------------------------------------------------------------
IsDead(e) == fight.targetMode = "mortal" /\ e.targetHealth <= 0

ExpireTimedItemStates(e, time) ==
  [e EXCEPT !.lightStacks = IF time > e.lightUntil + Epsilon THEN 0 ELSE @,
            !.darkStacks = IF time > e.darkUntil + Epsilon THEN 0 ELSE @,
            !.fiendhunterAttacks = IF time > e.fiendhunterUntil + Epsilon THEN 0 ELSE @]

(* add: no event after the window or after the death, and none that a dead *)
(* target could not take.                                                  *)
Add(e, time, source, raw, barrage) ==
  LET x == ExpireTimedItemStates(e, time)
      final == IF fight.targetMode = "mortal" THEN Min({raw, e.targetHealth}) ELSE raw
  IN  IF time > fight.duration \/ raw <= 0 \/ IsDead(e) THEN e
      ELSE [x EXCEPT !.targetHealth = @ - final,
                     !.events = Append(@, [time |-> time, source |-> source, final |-> final,
                                           pen |-> x.darkStacks, mode |-> e.terminusNextMode,
                                           barrage |-> barrage])]

(* How many of the pending ticks, from the first on, are due by a time, and *)
(* the engine after the first n of them have landed one by one.             *)
Due(e, time) ==
  Max({n \in 0 .. Len(e.pendingDamage) : \A i \in 1 .. n : e.pendingDamage[i] <= time})
Landed(e, n) ==
  LET landed[k \in 0 .. n] ==
        IF k = 0 THEN e
        ELSE Add(landed[k - 1], e.pendingDamage[k], "linger", Raw["linger"], FALSE)
  IN  landed[n]

(* Mutant: a tick that lands stays pending. *)
DrainDamageThrough_Kept(e, time) == Landed(e, Due(e, time))

DrainDamageThrough(e, time) ==
  [Landed(e, Due(e, time)) EXCEPT !.pendingDamage = SubSeq(@, Due(e, time) + 1, Len(@))]

FiendhunterActiveAt(e, time) ==
  Has("fiendhunter") /\ e.fiendhunterAttacks > 0 /\ time <= e.fiendhunterUntil + Epsilon

(* attackSpeedAt in hundredths of an attack a second, and the time between *)
(* two attacks at that speed.                                              *)
AttackSpeedAt(e, time) ==
  LET bonus == fight.bonusAttackSpeed
                 + (IF time < e.qUntil THEN 60 ELSE 0)
                 + (IF Has("yunTal") /\ time < e.flurryUntil THEN 30 ELSE 0)
                 + (IF FiendhunterActiveAt(e, time) THEN 50 ELSE 0)
  IN  Min({250, (65 * (100 + bonus)) \div 100})
AttackInterval(e, time) == OnGrid((100 * Second) \div AttackSpeedAt(e, time))

AdvanceStormrazorMovement(e, time) ==
  LET elapsed == Max({0, time - e.stormrazorLastEnergizeTime})
  IN  IF ~Has("stormrazor") THEN e
      ELSE [e EXCEPT !.stormrazorStacks = Min({100, @ + (elapsed * fight.movement) \div (24 * Second)}),
                     !.stormrazorLastEnergizeTime = time]

ActivateFiendhunter(e, time) ==
  IF ~Has("fiendhunter") \/ time + Epsilon < e.fiendhunterReadyAt THEN e
  ELSE [e EXCEPT !.fiendhunterUntil = time + Seconds(8), !.fiendhunterReadyAt = time + Seconds(45),
                 !.fiendhunterAttacks = 3]

CooldownWithHaste(base, haste) == OnGrid((Seconds(base) * 100) \div (100 + haste))
RCooldown == CooldownWithHaste(80, fight.haste + (IF Has("fiendhunter") THEN 30 ELSE 0))
WCooldown == CooldownWithHaste(10, fight.haste)
ECooldown == CooldownWithHaste(9, fight.haste)
(* What is left of W's cooldown when R begins or ends. *)
Reduced(readyAt, time) == IF readyAt > time THEN time + OnGrid((readyAt - time) \div 5) ELSE readyAt

(* Mutant: the end of R is handled again and again. *)
ApplyRExitEffects_Again(e, time) ==
  IF e.rExitHandled \/ e.rUntil < 0 \/ time < e.rUntil - Epsilon THEN e
  ELSE [e EXCEPT !.wReadyAt = Reduced(@, e.rUntil), !.eReadyAt = e.rUntil]

ApplyRExitEffects(e, time) ==
  IF e.rExitHandled \/ e.rUntil < 0 \/ time < e.rUntil - Epsilon THEN e
  ELSE [e EXCEPT !.wReadyAt = Reduced(@, e.rUntil), !.eReadyAt = e.rUntil, !.rExitHandled = TRUE]

-----------------------------------------------------------------------------
(* attack.  Everything an attack deals falls on one moment, so it is one   *)
(* event with the sum of the sources that apply.                           *)

CritChance(e) == Min({100, fight.crit + (IF Has("yunTal") THEN e.yunTalStacks \div 5 ELSE 0)})

StartFlurry(e, time) ==
  IF Has("yunTal") /\ time >= e.flurryReadyAt - Epsilon
  THEN [e EXCEPT !.flurryUntil = time + Seconds(6), !.flurryReadyAt = time + Seconds(30)]
  ELSE e

Energized(e) == Has("stormrazor") /\ e.stormrazorStacks >= 100
ThirdAttack(e) == Has("kraken") /\ e.attacks % 3 = 0
AttackSources(e, time) ==
  {"basic"} \cup {s \in {"vow"} : CritChance(e) > 0 \/ FiendhunterActiveAt(e, time)}
    \cup {s \in {"barrage"} : FiendhunterActiveAt(e, time) /\ CritChance(e) > 0}
    \cup {s \in {"passive"} : fight.ranks.q > 0}
    \cup {s \in {"active"} : fight.ranks.q > 0 /\ time < e.qUntil}
    \cup {s \in {"bolt"} : Energized(e)} \cup {s \in {"kraken"} : ThirdAttack(e)}
    \cup {s \in {"shadow"} : Has("terminus")}
MistsEdge(e) == IF Has("blade") THEN (6 * Max({0, e.targetHealth})) \div 100 ELSE 0

TurnTerminus(e, time) ==
  IF ~Has("terminus") THEN e
  ELSE IF e.terminusNextMode = "light"
       THEN [e EXCEPT !.lightStacks = Min({3, @ + 1}), !.lightUntil = time + Seconds(5),
                      !.terminusNextMode = "dark"]
       ELSE [e EXCEPT !.darkStacks = Min({3, @ + 1}), !.darkUntil = time + Seconds(5),
                      !.terminusNextMode = "light"]

StackYunTal(e, time, crit) ==
  IF ~Has("yunTal") THEN e
  ELSE [e EXCEPT !.yunTalStacks = Min({125, @ + 1}),
                 !.flurryReadyAt = IF @ > time
                                   THEN Max({time, @ - OnGrid((Second * (100 + crit)) \div 100)})
                                   ELSE @]

EndBarrage(e, had) == [e EXCEPT !.fiendhunterAttacks = IF had THEN @ - 1 ELSE @]

Attacked(e, time) ==
  LET ready == AdvanceStormrazorMovement(
                 ExpireTimedItemStates(ApplyRExitEffects(e, time), time), time)
      begun == [StartFlurry(ready, time) EXCEPT !.attacks = @ + 1]
      had   == FiendhunterActiveAt(begun, time)
      raw   == MapThenSumSet(LAMBDA s : Raw[s], AttackSources(begun, time)) + MistsEdge(begun)
      spent == [begun EXCEPT !.stormrazorStacks = IF Energized(begun) THEN 0 ELSE @]
      dealt == Add(spent, time, "attack", raw, had)
      stacked == StackYunTal(
                   [TurnTerminus(dealt, time) EXCEPT
                      !.stormrazorStacks = IF Has("stormrazor") THEN Min({100, @ + 6}) ELSE @],
                   time, CritChance(begun))
  IN  {EndBarrage([stacked EXCEPT !.nextAttackReady = t], had) :
         t \in Added(time, AttackInterval(stacked, time))}

AttackRefused(e, time) == time > fight.duration \/ IsDead(DrainDamageThrough(e, time))
(* The engines an attack at a time may leave, rounding included. *)
Attack(e, time) ==
  IF time > fight.duration THEN {e}
  ELSE IF AttackRefused(e, time) THEN {DrainDamageThrough(e, time)}
       ELSE Attacked(DrainDamageThrough(e, time), time)

-----------------------------------------------------------------------------
FightInit ==
  /\ fight \in Fights
  /\ engine = NewEngine(fight)
  /\ cursor = 0 /\ nextAuto = 0
  /\ phase = "script" /\ casts = <<>>

(* What every turn of the script begins with. *)
Drained == DrainDamageThrough(engine, cursor)
Ready == ApplyRExitEffects(Drained, cursor)
Broken == cursor > fight.duration \/ IsDead(Drained)

Turn(action) ==
  /\ phase = "script" /\ ~Broken
  /\ Len(casts) < fight.maxActions /\ action \in fight.kinds

(* The script ends, by itself or by a break, and attacks may go on. *)
LeaveScript(e) ==
  /\ engine' = e
  /\ phase' = "autos" /\ nextAuto' = Max({cursor, e.nextAttackReady})
  /\ UNCHANGED <<fight, cursor, casts>>

Log(action, at) == Append(casts, [action |-> action, at |-> at])

(* A cast waits until the ability is ready; one that would come after the  *)
(* window, or after the target has died of a lingering tick, ends the      *)
(* script.  Cast is what the ability itself does.                          *)
CastEnds(time) == IsDead(DrainDamageThrough(Ready, time)) \/ time > fight.duration
CastReady(time) == ApplyRExitEffects(DrainDamageThrough(Ready, time), time)
Busy(e, time, action, lock) ==
  /\ engine' = e
  /\ cursor' \in Added(time, lock)
  /\ casts' = Log(action, time)
  /\ UNCHANGED <<fight, nextAuto, phase>>

CastR ==
  LET time == Max({cursor, Ready.rReadyAt})
      e == CastReady(time)
  IN  /\ Turn("R") /\ fight.ranks.r > 0
      /\ IF CastEnds(time) THEN LeaveScript(DrainDamageThrough(Ready, time))
         ELSE Busy(ActivateFiendhunter(
                     [e EXCEPT !.rUntil = time + Seconds(15), !.rExitHandled = FALSE,
                               !.qUntil = Max({@, time + Seconds(15)}),
                               !.wReadyAt = Reduced(@, time), !.eReadyAt = time,
                               !.rReadyAt = time + RCooldown], time),
                   time, "R", Second \div 4)

CastQ ==
  /\ Turn("Q") /\ fight.ranks.q > 0
  /\ Busy([Ready EXCEPT !.qUntil = Max({@, cursor + Seconds(5)})], cursor, "Q", Second \div 4)

CastW ==
  LET time == Max({cursor, Ready.wReadyAt})
      e == CastReady(time)
      hit == IF time < e.rUntil THEN Add(e, time, "ruin", Raw["ruin"], FALSE)
             ELSE [Add(e, time, "judgment", Raw["judgment"], FALSE) EXCEPT
                     !.pendingDamage = Append(@, time + Second)]
  IN  /\ Turn("W") /\ fight.ranks.w > 0
      /\ IF CastEnds(time) THEN LeaveScript(DrainDamageThrough(Ready, time))
         ELSE Busy([hit EXCEPT !.wReadyAt = time + WCooldown], time, "W", Second \div 2)

CastE ==
  LET time == Max({cursor, Ready.eReadyAt})
      e == CastReady(time)
  IN  /\ Turn("E")
      /\ IF CastEnds(time) THEN LeaveScript(DrainDamageThrough(Ready, time))
         ELSE Busy([e EXCEPT !.eReadyAt = time + ECooldown], time, "E", Second \div 4)

AA ==
  LET time == Max({cursor, Ready.nextAttackReady})
  IN  /\ Turn("AA")
      /\ engine' \in Attack(Ready, time)
      /\ cursor' \in IF AttackRefused(Ready, time) THEN {cursor} ELSE Added(time, Second \div 4)
      /\ casts' = Log("AA", time)
      /\ UNCHANGED <<fight, nextAuto, phase>>

(* An ability that is not learned is passed over. *)
Unlearned ==
  /\ \/ Turn("R") /\ fight.ranks.r = 0
     \/ Turn("Q") /\ fight.ranks.q = 0
     \/ Turn("W") /\ fight.ranks.w = 0
  /\ engine' = Ready /\ casts' = Log("none", cursor)
  /\ UNCHANGED <<fight, cursor, nextAuto, phase>>

(* The script is at its end, or the next of its actions comes too late. *)
EndScript == phase = "script" /\ LeaveScript(engine)
BreakScript ==
  /\ phase = "script" /\ Broken /\ Len(casts) < fight.maxActions
  /\ LeaveScript(Drained)

Continues == fight.continueAutos /\ ~IsDead(engine) /\ nextAuto <= fight.duration + Epsilon
ContinueAuto ==
  /\ phase = "autos" /\ Continues
  /\ engine' \in Attack(engine, nextAuto)
  /\ nextAuto' = engine'.nextAttackReady
  /\ UNCHANGED <<fight, cursor, phase, casts>>

Finish ==
  /\ phase = "autos" /\ ~Continues
  /\ engine' = AdvanceStormrazorMovement(DrainDamageThrough(engine, fight.duration), fight.duration)
  /\ phase' = "done"
  /\ UNCHANGED <<fight, cursor, nextAuto, casts>>

FightNext ==
  \/ CastR \/ CastQ \/ CastW \/ CastE \/ AA \/ Unlearned
  \/ EndScript \/ BreakScript \/ ContinueAuto \/ Finish

FightSpec == FightInit /\ [][FightNext]_fightVars /\ WF_fightVars(FightNext)

-----------------------------------------------------------------------------
Events(source) == {i \in DOMAIN engine.events : engine.events[i].source = source}
Barrage == {i \in DOMAIN engine.events : engine.events[i].barrage}

(* Every base W is followed by one lingering tick, a second later, unless  *)
(* the window ends or the target dies before - however the drains of the   *)
(* pending ticks fall between actions, attacks and the end of the fight.   *)
LingerOnce ==
  LET Ticks(hit) == {i \in Events("linger") :
                       engine.events[i].time = engine.events[hit].time + Second}
  IN  /\ Cardinality(Events("linger")) <= Cardinality(Events("judgment"))
      /\ phase = "done" => \A hit \in Events("judgment") :
           \/ Cardinality(Ticks(hit)) = 1
           \/ /\ Ticks(hit) = {}
              /\ engine.events[hit].time + Second > fight.duration \/ IsDead(engine)

Casts(action) == {k \in DOMAIN casts : casts[k].action = action}
(* What may shorten a cooldown between two casts: each beginning and each  *)
(* end of an R.                                                            *)
Cuts(i, j) ==
  Cardinality({k \in Casts("R") : i < k /\ k <= j})
    + Cardinality({k \in Casts("R") : /\ k <= j
                                      /\ casts[k].at + Seconds(15) >= casts[i].at - Epsilon
                                      /\ casts[k].at + Seconds(15) <= casts[j].at + Epsilon})
(* What n cuts to a fifth leave of the cooldown of W.                      *)
Fifths[n \in Nat] == IF n = 0 THEN WCooldown ELSE Fifths[n - 1] \div 5

(* A script that ends less than the tolerance after the window: the attack *)
(* that is due then is refused, and the next one falls in the past.        *)
Overshot ==
  /\ phase # "script" /\ fight.continueAutos
  /\ cursor > fight.duration /\ cursor <= fight.duration + Epsilon

(* An ability comes back before its cooldown only by what R allows: each   *)
(* beginning and each end of R between two casts cuts what is left of W    *)
(* to a fifth, once, and makes E ready; nothing shortens R.  An Opening    *)
(* Barrage is three attacks in the eight seconds after an R, and the next  *)
(* comes 45 seconds after it, whatever is cast between.                    *)
CooldownsHeld ==
  LET Gap(i, j) == casts[j].at - casts[i].at
      Soon(i) == {n \in Barrage : engine.events[n].time - engine.events[i].time
                                    \in 0 .. Seconds(45 - 8) - 2 * Epsilon - 1}
  IN  /\ \A j \in Casts("W") : \A i \in Casts("W") : i < j =>
           IF Cuts(i, j) = 0 THEN Gap(i, j) >= WCooldown ELSE Gap(i, j) + Grid > Fifths[Cuts(i, j)]
      /\ \A j \in Casts("E") : \A i \in Casts("E") :
           i < j /\ Cuts(i, j) = 0 => Gap(i, j) >= ECooldown
      /\ \A j \in Casts("R") : \A i \in Casts("R") : i < j => Gap(i, j) >= RCooldown
      /\ ~Overshot => \A n \in Barrage :
           /\ \E k \in Casts("R") :
                engine.events[n].time - casts[k].at \in 0 .. Seconds(8) + Epsilon
           /\ Cardinality(Soon(n)) <= 3

(* docs/storage-architecture.md: the simulator run in the worker "returns  *)
(* totals": every fight ends.                                              *)
SimulationEnds == <>(phase = "done")
=============================================================================
