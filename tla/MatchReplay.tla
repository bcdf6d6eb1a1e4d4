---------------------------- MODULE MatchReplay -----------------------------
(***************************************************************************)
(* A match is played and its timeline projected to what the database keeps *)
(* (ingestion/compact-projection.ts, inventory.ts, completed-items.ts).    *)
(* The timeline holds item events, with undo, and a frame now and then; a  *)
(* frame has the level of each participant whose stats it carries.         *)
(*                                                                         *)
(* One participant shops, the others only appear in frames.  The game is   *)
(* what the code assumes of the source: an undo takes back the last        *)
(* purchase or sale, and every change of the bag has its event.            *)
(***************************************************************************)
EXTENDS Integers, Sequences, FiniteSets, FiniteSetsExt, SequencesExt, Functions

CONSTANTS
  Participants,  (* the ids                                          *)
  Buyer,         (* the champion's player                            *)
  TeamOf, BotCarries,
  Catalog,       (* items: purchasable, onMap, excluded, from, into, gold *)
  StartBag,      (* what the buyer holds when the timeline begins    *)
  Carried,       (* sets of participants a frame has the stats of    *)
  ScenarioTime, ScenarioTolerance,
  TopLevel,      (* the highest level that is told apart, 18         *)
  MaxEvents, MaxCuts   (* bounds: the events and frames of a match   *)

ASSUME ReplayAssumption ==
  /\ Buyer \in Participants /\ BotCarries \subseteq Participants
  /\ Carried \subseteq SUBSET Participants
  /\ 0 \notin DOMAIN Catalog /\ StartBag \in Seq(DOMAIN Catalog) /\ TopLevel \in Nat \ {0} /\ MaxEvents \in Nat /\ MaxCuts \in Nat

NoItem == 0
Nothing == [kind |-> "none", item |-> NoItem]

VARIABLES
  now, bag, level,   (* the game: its clock, what the buyer holds, his level *)
  undoable,          (* the purchase or sale an undo would take back         *)
  log, frames        (* the timeline: the buyer's item events, and frames    *)

match == <<now, bag, level, undoable, log, frames>>

CompletedLegendary(i) ==
  LET item == Catalog[i]
  IN  /\ item.purchasable /\ item.onMap /\ ~item.excluded
      /\ item.from /\ ~item.into /\ item.gold >= 2000

Legendary(inventory) == Cardinality({k \in DOMAIN inventory : CompletedLegendary(inventory[k])})

(* applyInventoryEvent *)
ApplyEvent_UndoForgotten(inventory, e) ==
  CASE e.type = "ITEM_PURCHASED" -> Append(inventory, e.item)
    [] e.type \in {"ITEM_SOLD", "ITEM_DESTROYED"} -> RemoveFirst(inventory, e.item)
    [] OTHER -> inventory
ApplyEvent(inventory, e) ==
  CASE e.type = "ITEM_PURCHASED" -> Append(inventory, e.item)
    [] e.type \in {"ITEM_SOLD", "ITEM_DESTROYED"} -> RemoveFirst(inventory, e.item)
    [] e.type = "ITEM_UNDO" ->
         LET less == IF e.before # NoItem THEN RemoveFirst(inventory, e.before) ELSE inventory
         IN  IF e.after # NoItem THEN Append(less, e.after) ELSE less
    [] OTHER -> inventory

(* The inventory after so many events, and after those up to a time, which  *)
(* are in the order of their times.                                         *)
Replay(events) ==
  LET after[k \in 0 .. Len(events)] ==
        IF k = 0 THEN <<>> ELSE ApplyEvent(after[k - 1], events[k])
  IN  after
Until(time) == Max({0} \cup {k \in DOMAIN log : log[k].time <= time})
InventoryAt(time) == Replay(log)[Until(time)]
Inventory(p, f) == IF p = Buyer THEN InventoryAt(frames[f].time) ELSE <<>>

-----------------------------------------------------------------------------
(* buildCompactProjection.  A state is a participant in a frame that has    *)
(* his stats; frames have different times.                                  *)
HasState(p, f) == p \in frames[f].stats
LevelIn(p, f) == Min({TopLevel, frames[f].levels[p]})
Enemies(p) == {q \in Participants : TeamOf[q] # TeamOf[p]}

(* The last frame of the buyer at each of his levels. *)
LevelObservations ==
  {f \in DOMAIN frames :
     /\ HasState(Buyer, f)
     /\ \A g \in DOMAIN frames :
          HasState(Buyer, g) /\ LevelIn(Buyer, g) = LevelIn(Buyer, f) => g <= f}
EnemyVectors == {t \in LevelObservations \X Enemies(Buyer) : HasState(t[2], t[1])}

(* findThirdItemAnchor: the first frame with three completed items, and the *)
(* first event up to it that brings their number to three.                  *)
Third == 3
AnchorFrame(p) ==
  LET full == {f \in DOMAIN frames : HasState(p, f) /\ Legendary(Inventory(p, f)) >= Third}
  IN  IF full = {} THEN 0 ELSE Min(full)
LegendaryAfter(k) == Legendary(Replay(log)[k])
AnchorEvent(f) ==
  LET crossing == {k \in DOMAIN log :
        /\ log[k].time <= frames[f].time
        /\ LegendaryAfter(k - 1) < Third /\ LegendaryAfter(k) >= Third}
  IN  IF crossing = {} THEN 0 ELSE Min(crossing)

(* nearestFrameWithin, of two as near the earlier. *)
Away(f) == IF frames[f].time > ScenarioTime THEN frames[f].time - ScenarioTime
           ELSE ScenarioTime - frames[f].time
MinuteFrame(p) ==
  LET own == {f \in DOMAIN frames : HasState(p, f)}
      nearest == {f \in own : \A g \in own : Away(f) < Away(g) \/ (Away(f) = Away(g) /\ f <= g)}
      within == {f \in nearest : Away(f) <= ScenarioTolerance}
  IN  IF within = {} THEN 0 ELSE Min(within)
MinuteAnchor == IF BotCarries # {} THEN Min(BotCarries) ELSE Min(Participants)

(* addScenarioTargets: the enemies of an anchor in its frame. *)
Samples(phase, p, f, event) ==
  IF f = 0 THEN {}
  ELSE {[phase |-> phase, anchor |-> p, frame |-> f, event |-> event, target |-> q] :
          q \in {r \in Enemies(p) : HasState(r, f)}}
ThirdItemSamples(phase, p) ==
  IF AnchorFrame(p) = 0 \/ AnchorEvent(AnchorFrame(p)) = 0 THEN {}
  ELSE Samples(phase, p, AnchorFrame(p), AnchorEvent(AnchorFrame(p)))
ScenarioSamples ==
  ThirdItemSamples("yunara-third-item", Buyer)
    \cup (UNION {ThirdItemSamples("bot-carry-third-item", p) : p \in BotCarries})
    \cup Samples("minute-window", MinuteAnchor, MinuteFrame(MinuteAnchor), 0)

-----------------------------------------------------------------------------
MatchInit ==
  /\ now = 0 /\ level = 1 /\ bag = StartBag /\ undoable = Nothing /\ frames = <<>>
  /\ log = [k \in DOMAIN StartBag |->
              [type |-> "ITEM_PURCHASED", time |-> 0, item |-> StartBag[k], before |-> 0, after |-> 0]]

(* An event of the shop, at once or a moment after what came before; the   *)
(* events up to a frame's time are in it.                                   *)
Past(time) == \A f \in DOMAIN frames : frames[f].time < time
Shop(type, item, before, after, next) ==
  /\ Len(log) < Len(StartBag) + MaxEvents
  /\ \E wait \in 0..1 :
       /\ Past(now + wait)
       /\ now' = now + wait
       /\ log' = Append(log, [type |-> type, time |-> now + wait, item |-> item,
                              before |-> before, after |-> after])
  /\ bag' = next /\ UNCHANGED <<level, frames>>

Buy(i) ==
  Shop("ITEM_PURCHASED", i, NoItem, NoItem, Append(bag, i)) /\ undoable' = [kind |-> "bought", item |-> i]
Sell(i) ==
  /\ Contains(bag, i)
  /\ Shop("ITEM_SOLD", i, NoItem, NoItem, RemoveFirst(bag, i)) /\ undoable' = [kind |-> "sold", item |-> i]
Consume(i) ==
  /\ Contains(bag, i)
  /\ Shop("ITEM_DESTROYED", i, NoItem, NoItem, RemoveFirst(bag, i)) /\ undoable' = Nothing
Undo ==
  /\ undoable' = Nothing
  /\ \/ undoable.kind = "bought"
        /\ Shop("ITEM_UNDO", NoItem, undoable.item, NoItem, RemoveFirst(bag, undoable.item))
     \/ undoable.kind = "sold"
        /\ Shop("ITEM_UNDO", NoItem, NoItem, undoable.item, Append(bag, undoable.item))

(* The next frame: what everybody has, for those whose stats it carries. *)
CutFrame(stats, up, wait) ==
  /\ Len(frames) < MaxCuts /\ Past(now + wait)
  /\ now' = now + wait /\ level' = level + up
  /\ frames' = Append(frames, [time |-> now', stats |-> stats, held |-> bag,
                 levels |-> [p \in Participants |-> IF p = Buyer THEN level' ELSE 1]])
  /\ UNCHANGED <<bag, undoable, log>>

MatchNext ==
  \/ \E i \in DOMAIN Catalog : Buy(i) \/ Sell(i) \/ Consume(i)
  \/ Undo
  \/ \E stats \in Carried, up \in 0..1, wait \in 0..1 : CutFrame(stats, up, wait)

MatchSpec == MatchInit /\ [][MatchNext]_match

-----------------------------------------------------------------------------
CountOf(inventory, i) == Cardinality({k \in DOMAIN inventory : inventory[k] = i})

(* What is reconstructed for a frame is what the player held in it, however *)
(* purchases, sales and undos followed on each other; each level the buyer  *)
(* was seen at is observed once, in its last frame; a third item is found   *)
(* as soon as a frame shows it, with an event before that frame; and every  *)
(* target is an enemy of its anchor in the same frame                       *)
(* (buildCompactProjection).                                                *)
ProjectionExact ==
  /\ \A f \in DOMAIN frames, i \in DOMAIN Catalog :
       CountOf(Inventory(Buyer, f), i) = CountOf(frames[f].held, i)
  /\ {LevelIn(Buyer, f) : f \in LevelObservations}
       = {LevelIn(Buyer, f) : f \in {g \in DOMAIN frames : HasState(Buyer, g)}}
  /\ \A f, g \in LevelObservations : LevelIn(Buyer, f) = LevelIn(Buyer, g) => f = g
  /\ \A t \in EnemyVectors : HasState(Buyer, t[1])
  /\ \A f \in DOMAIN frames :
       HasState(Buyer, f) /\ Legendary(frames[f].held) >= Third =>
         /\ AnchorFrame(Buyer) \in 1..f
         /\ AnchorEvent(AnchorFrame(Buyer)) # 0
  /\ \A s \in ScenarioSamples :
       /\ TeamOf[s.target] # TeamOf[s.anchor] /\ HasState(s.target, s.frame)
       /\ HasState(s.anchor, s.frame)
       /\ s.phase # "minute-window" =>
            Legendary(Inventory(s.anchor, s.frame)) >= Third
            /\ log[s.event].time <= frames[s.frame].time
=============================================================================
