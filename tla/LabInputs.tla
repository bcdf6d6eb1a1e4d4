------------------------------ MODULE LabInputs ------------------------------
(***************************************************************************)
(* The inputs of the lab (app/page.tsx): level, ranks, opener and the two  *)
(* builds.  What nobody has edited follows the progression observed at the *)
(* level on display, which is loaded, answered at any later time and       *)
(* cached by level; what the user has edited is his.  Each edit is one the *)
(* panels offer (head-to-head.tsx, controls.tsx, optimizer.tsx).           *)
(*                                                                         *)
(* A level that is cached is applied before the next event, so choosing it *)
(* and applying it are one step.  Duration, target filters and the other   *)
(* inputs without a default of the level are left to LabRun.               *)
(***************************************************************************)
EXTENDS Absent, Skills, Sequences, FiniteSets, SequencesExt, Ordering

CONSTANTS
  ShownLevels,   (* the levels the user turns to                            *)
  Observed,      (* /api/progression: ranks, items, boot, common, legendary *)
  SupportedItems, Boots, InfinityEdge, LordDominiks, FallbackCore,
  Candidates,    (* the builds the optimizer may propose                    *)
  Presets,       (* COMBO_PRESETS                                           *)
  MaxActs        (* bound: the acts of the user                             *)

(* No item twice; 0 is an empty slot. *)
Unrepeated(slots) == \A i, j \in DOMAIN slots : slots[i] = slots[j] /\ slots[i] > 0 => i = j

ASSUME InputsAssumption ==
  /\ ShownLevels \subseteq Levels /\ 13 \in ShownLevels
  /\ SupportedItems \subseteq Nat \ {0} /\ IsFiniteSet(SupportedItems) /\ None \notin SupportedItems
  /\ Boots \subseteq SupportedItems
  /\ {InfinityEdge, LordDominiks} \subseteq SupportedItems \ Boots
  /\ InfinityEdge # LordDominiks
  /\ \A l \in ShownLevels :
       /\ Observed[l].ranks \in [SkillKeys -> Int] \cup {None}
       /\ Observed[l].items \in Seq(Nat) /\ Observed[l].common \in Seq(Nat)
       /\ Observed[l].boot \notin {InfinityEdge, LordDominiks}
  /\ FallbackCore \in Seq(SupportedItems \ {InfinityEdge, LordDominiks})
  /\ Len(FallbackCore) \in 1..5 /\ Unrepeated(FallbackCore)
  /\ \A build \in Candidates :
       build \in Seq(SupportedItems) /\ Len(build) \in 1..6 /\ Unrepeated(build)
  /\ MaxActs \in Nat

VARIABLES
  page,    (* the state of the page that is modelled                       *)
  cache,   (* progressionCacheRef: the levels that are known               *)
  asked,   (* the levels asked for by effects that are not active any more *)
  mine,    (* history: what the user chose last, by group, or None         *)
  low,     (* history: the lowest level since the user chose ranks         *)
  edits     (* history: how often the user has acted                        *)

inputVars == <<page, cache, asked, mine, low, edits>>

-----------------------------------------------------------------------------
(* Builds are slots: items, and 0 for a slot that is still empty. *)
Items(slots) == {i \in ToSet(slots) : i > 0}
Compact(slots) == At(slots, {i \in DOMAIN slots : slots[i] > 0})
(* The places where a list has an item of S for the first time. *)
FirstPlaces(items, S) == {i \in DOMAIN items : items[i] \in S /\ \A j \in 1..(i - 1) : items[j] # items[i]}

(* slotEditorModel: a slot is shared when the other build has its item too, *)
(* as many times as it has it.  The pairs of their places.                  *)
Copy(slots, i) == Cardinality({j \in 1..i : slots[j] = slots[i]})
Shared(a, b) ==
  {p \in (DOMAIN a) \X (DOMAIN b) :
     a[p[1]] > 0 /\ a[p[1]] = b[p[2]] /\ Copy(a, p[1]) = Copy(b, p[2])}
OnlyIn(a, b) == {i \in DOMAIN a : \A pair \in Shared(a, b) : pair[1] # i}

Side(side) == IF side = "a" THEN page.a ELSE page.b
Other(side) == IF side = "a" THEN page.b ELSE page.a
SameBuilds == OnlyIn(Compact(page.a), Compact(page.b)) = {}
             /\ OnlyIn(Compact(page.b), Compact(page.a)) = {}

(* writeSlot: a removed slot closes up, and one slot is always left. *)
WriteSlot(slots, i, value) ==
  IF value # None THEN [slots EXCEPT ![i] = value]
  ELSE IF Len(slots) = 1 THEN <<0>> ELSE RemoveAt(slots, i)

AddSlot(slots) == IF Len(slots) >= 6 THEN slots ELSE Append(slots, 0)

(* replaceLastLegendary *)
ReplaceLastLegendary(slots, item) ==
  LET legendary == {i \in DOMAIN slots : slots[i] \notin Boots \cup {0}}
  IN  IF legendary # {} THEN [slots EXCEPT ![CHOOSE i \in legendary : \A j \in legendary : j <= i] = item]
      ELSE IF Len(slots) < 6 THEN Append(slots, item) ELSE slots

(* defaultComparison: the observed core of a level, with each of the two    *)
(* items in the free slot.                                                  *)
Seeded(level) ==
  LET observed == IF level = None THEN <<>> ELSE Observed[level].items
      core == At(observed, FirstPlaces(observed, SupportedItems \ {InfinityEdge, LordDominiks}))
      boot == IF level = None THEN None ELSE Observed[level].boot
      all  == IF boot \in SupportedItems /\ ~Contains(core, boot) THEN Append(core, boot) ELSE core
      base == IF all = <<>> THEN FallbackCore ELSE SubSeq(all, 1, IF Len(all) < 5 THEN Len(all) ELSE 5)
  IN  [a |-> Append(base, InfinityEdge), b |-> Append(base, LordDominiks)]

SortedItems == Ascending(SupportedItems)

(* alternativeQuestions: what is observed comes first, then LDR, then the  *)
(* other items that are no boots; three of them.                           *)
AlternativeQuestions ==
  LET current  == Items(page.a)
      common   == IF page.progression = None THEN <<>> ELSE Observed[page.progression].common
      observed == At(common, {i \in DOMAIN common : common[i] \in SupportedItems \ current})
      sorted   == <<LordDominiks>> \o SortedItems
      rest     == At(sorted, {i \in FirstPlaces(sorted, SupportedItems) :
                                sorted[i] \notin Boots \cup current \cup ToSet(observed)})
      all      == observed \o rest
  IN  {all[k] : k \in 1 .. (IF Len(all) < 3 THEN Len(all) ELSE 3)}

-----------------------------------------------------------------------------
ActionAvailable(action, level) == action # "R" \/ level >= 6
DefaultActions(level) ==
  IF level < 6 THEN <<"Q", "AA">> ELSE <<"R", "Q", "W", "AA", "AA">>

(* defaultOptimizerSlotCount *)
DefaultSlotCount(progression, level) ==
  LET observed == IF progression = None THEN None ELSE Observed[progression].legendary
      complete == IF observed # None THEN observed ELSE IF level > 12 THEN level - 10 ELSE 2
  IN  IF complete < 2 THEN 3 ELSE IF complete > 5 THEN 6 ELSE complete + 1

(* The ranks that a level has by itself: those observed, if they are legal. *)
LevelRanks(progression, level) ==
  IF progression # None /\ Observed[progression].ranks # None
     /\ IsLegalSkillRanks(Observed[progression].ranks, level)
  THEN Observed[progression].ranks ELSE DefaultSkillRanks(level)

(* The effect on level and progression. *)
WithSlotCount(p) ==
  IF "slots" \in p.edited THEN p
  ELSE [p EXCEPT !.slotCount = DefaultSlotCount(p.progression, p.level)]

(* The effect that makes edited ranks legal at a new level. *)
WithLegalRanks(p) ==
  IF "ranks" \in p.edited /\ ~IsLegalSkillRanks(p.ranks, p.level)
  THEN [p EXCEPT !.ranks = ClampSkillRanks(@, p.level), !.notice = TRUE] ELSE p

Loaded_EditsIgnored(p) ==
  WithSlotCount(
    [p EXCEPT !.progression = p.level, !.loading = FALSE,
              !.ranks = IF "ranks" \in p.edited THEN @ ELSE LevelRanks(p.level, p.level),
              !.notice = IF "ranks" \in p.edited THEN @ ELSE FALSE,
              !.actions = IF "combo" \in p.edited THEN @ ELSE DefaultActions(p.level),
              !.continueAutos = IF "combo" \in p.edited THEN @ ELSE TRUE,
              !.a = Seeded(p.level).a, !.b = Seeded(p.level).b])

(* The progression of the level on display has arrived: it is applied to   *)
(* what is not edited when it arrives.                                     *)
Loaded(p) ==
  WithSlotCount(
    [p EXCEPT !.progression = p.level, !.loading = FALSE,
              !.ranks = IF "ranks" \in p.edited THEN @ ELSE LevelRanks(p.level, p.level),
              !.notice = IF "ranks" \in p.edited THEN @ ELSE FALSE,
              !.actions = IF "combo" \in p.edited THEN @ ELSE DefaultActions(p.level),
              !.continueAutos = IF "combo" \in p.edited THEN @ ELSE TRUE,
              !.a = IF "builds" \in p.edited THEN @ ELSE Seeded(p.level).a,
              !.b = IF "builds" \in p.edited THEN @ ELSE Seeded(p.level).b])

InputsInit ==
  /\ page = [level |-> 13, progression |-> None, loading |-> TRUE, failed |-> FALSE,
             ranks |-> DefaultSkillRanks(13), notice |-> FALSE,
             actions |-> DefaultActions(13), continueAutos |-> TRUE,
             a |-> Append(FallbackCore, InfinityEdge), b |-> Append(FallbackCore, LordDominiks),
             slotCount |-> DefaultSlotCount(None, 13), edited |-> {}]
  /\ cache = {} /\ asked = {}
  /\ mine = [ranks |-> None, actions |-> None, builds |-> None]
  /\ low = 13 /\ edits = 0

-----------------------------------------------------------------------------
Act == edits < MaxActs /\ edits' = edits + 1

(* A new level: the effect of the old one is not active any more. *)
SetLevel(l) ==
  LET turned == WithLegalRanks(WithSlotCount(
                  [page EXCEPT !.level = l, !.loading = TRUE, !.failed = FALSE]))
  IN  /\ Act /\ l # page.level
      /\ page' = IF l \in cache THEN Loaded(turned) ELSE turned
      /\ asked' = IF page.loading THEN asked \cup {page.level} ELSE asked
      /\ low' = IF l < low THEN l ELSE low
      /\ UNCHANGED <<cache, mine>>

ProgressionLoaded ==
  /\ page.loading
  /\ page' = Loaded(page)
  /\ cache' = cache \cup {page.level}
  /\ UNCHANGED <<asked, mine, low, edits>>

ProgressionFails ==
  /\ page.loading
  /\ page' = [page EXCEPT !.loading = FALSE, !.failed = TRUE]
  /\ UNCHANGED <<cache, asked, mine, low, edits>>

(* An answer to an effect that is not active: it is cached, if it is one. *)
StaleLoaded(l) ==
  /\ l \in asked
  /\ \/ cache' = cache \cup {l} \/ UNCHANGED cache
  /\ asked' = asked \ {l}
  /\ UNCHANGED <<page, mine, low, edits>>

(* run and runOptimizer do not go on with ranks that are illegal: they     *)
(* correct them (LabRun has what else they do).                            *)
CorrectRanks ==
  /\ ~IsLegalSkillRanks(page.ranks, page.level)
  /\ page' = [page EXCEPT !.ranks = ClampSkillRanks(@, page.level), !.notice = TRUE]
  /\ UNCHANGED <<cache, asked, mine, low, edits>>

EditInput(group, p, choice) ==
  /\ Act
  /\ page' = [p EXCEPT !.edited = @ \cup {group}]
  /\ mine' = choice
  /\ UNCHANGED <<cache, asked>>

(* adjustRank *)
AdjustRank(key, delta) ==
  LET next == Adjusted(page.ranks, key, delta)
  IN  /\ IsLegalSkillRanks(next, page.level)
      /\ EditInput("ranks", [page EXCEPT !.ranks = next, !.notice = FALSE], [mine EXCEPT !.ranks = next])
      /\ low' = page.level

EditActions(actions, autos) ==
  /\ EditInput("combo", [page EXCEPT !.actions = actions, !.continueAutos = autos],
          [mine EXCEPT !.actions = actions])
  /\ UNCHANGED low

ApplyComboPreset(preset) ==
  LET legal == SelectSeq(preset.actions, LAMBDA action : ActionAvailable(action, page.level))
  IN  EditActions(IF legal = <<>> THEN <<"AA">> ELSE legal, preset.continueAutos)

AddAction(action) ==
  ActionAvailable(action, page.level) /\ EditActions(Append(page.actions, action), page.continueAutos)
RemoveAction(i) == EditActions(RemoveAt(page.actions, i), page.continueAutos)
(* moveItem, by one place *)
MoveAction(i) ==
  EditActions([page.actions EXCEPT ![i] = page.actions[i + 1], ![i + 1] = page.actions[i]],
              page.continueAutos)

ToggleAutos ==
  /\ Act /\ page' = [page EXCEPT !.continueAutos = ~@]
  /\ UNCHANGED <<cache, asked, mine, low>>

UpdateOptimizerSlotCount(n) ==
  EditInput("slots", [page EXCEPT !.slotCount = n], mine) /\ UNCHANGED low

(* Every edit of a build marks both builds. *)
EditBuilds(a, b) ==
  EditInput("builds", [page EXCEPT !.a = a, !.b = b], [mine EXCEPT !.builds = <<a, b>>]) /\ UNCHANGED low

EditSide(side, slots) ==
  IF side = "a" THEN EditBuilds(slots, page.b) ELSE EditBuilds(page.a, slots)

(* What a slot of one side, or a shared pair, offers: the items that are    *)
(* not in the build, or in neither; and to empty it.                        *)
SideOffers_Everything(side, i) == (SupportedItems \ {Side(side)[i]}) \cup {None}

SideOffers(side, i) ==
  (SupportedItems \ Items(Side(side)))
    \cup {x \in {None} : Side(side)[i] > 0 \/ Len(Side(side)) > 1}
SharedOffers == (SupportedItems \ (Items(page.a) \cup Items(page.b))) \cup {None}

UpdateSide(side, i, value) == EditSide(side, WriteSlot(Side(side), i, value))

UpdateShared(pair, value) ==
  EditBuilds(WriteSlot(page.a, pair[1], value), WriteSlot(page.b, pair[2], value))

AddSide(side) == EditSide(side, AddSlot(Side(side)))
AddShared == EditBuilds(AddSlot(page.a), AddSlot(page.b))

(* It sets the continuation of the objective too, which is no edit of the  *)
(* opener.                                                                  *)
UseOptimizerBuild(build, side, autos) ==
  /\ EditInput("builds", IF side = "a" THEN [page EXCEPT !.a = build, !.continueAutos = autos]
                    ELSE [page EXCEPT !.b = build, !.continueAutos = autos],
          [mine EXCEPT !.builds = IF side = "a" THEN <<build, page.b>> ELSE <<page.a, build>>])
  /\ UNCHANGED low

(* A way out of an identical comparison. *)
SuggestAlternative(item) == EditSide("b", ReplaceLastLegendary(page.b, item))

ResetToDefault ==
  /\ Act
  /\ page' = [page EXCEPT !.a = Seeded(page.progression).a, !.b = Seeded(page.progression).b,
                          !.edited = @ \cap {"slots"},
                          !.ranks = LevelRanks(page.progression, page.level),
                          !.actions = DefaultActions(page.level), !.continueAutos = TRUE]
  /\ mine' = [ranks |-> None, actions |-> None, builds |-> None]
  /\ UNCHANGED <<cache, asked, low>>

EditOfBuilds ==
  \/ \E side \in {"a", "b"} :
       \/ \E i \in OnlyIn(Side(side), Other(side)) : \E value \in SideOffers(side, i) : UpdateSide(side, i, value)
       \/ AddSide(side)
       \/ \E build \in Candidates, autos \in {page.continueAutos, FALSE} : UseOptimizerBuild(build, side, autos)
  \/ \E pair \in Shared(page.a, page.b) : \E value \in SharedOffers : UpdateShared(pair, value)
  \/ AddShared
  \/ SameBuilds /\ \E item \in AlternativeQuestions : SuggestAlternative(item)

EditOfActions ==
  \/ \E preset \in Presets : ApplyComboPreset(preset)
  \/ \E action \in {"AA", "R"} : AddAction(action)
  \/ \E i \in DOMAIN page.actions : RemoveAction(i)
  \/ \E i \in 1 .. Len(page.actions) - 1 : MoveAction(i)

InputsNext ==
  \/ \E l \in ShownLevels : SetLevel(l)
  \/ ProgressionLoaded \/ ProgressionFails
  \/ \E l \in ShownLevels : StaleLoaded(l)
  \/ CorrectRanks
  \/ \E key \in SkillKeys, delta \in {-1, 1} : AdjustRank(key, delta)
  \/ EditOfActions \/ ToggleAutos
  \/ \E n \in 3..6 : UpdateOptimizerSlotCount(n)
  \/ EditOfBuilds
  \/ ResetToDefault

InputsSpec == InputsInit /\ [][InputsNext]_inputVars

-----------------------------------------------------------------------------
(* The page preserves "manual edits until the explicit realistic-default   *)
(* reset" (README.md): no answer that arrives late, of this or of another  *)
(* level, and no change of level takes back an edit of builds or opener;   *)
(* ranks stay as chosen unless a level was passed where they are illegal.  *)
(* "Untouched builds follow each new level default" (app/page.tsx): once   *)
(* the level on display has been loaded, all that is not edited comes from *)
(* its progression, whatever was asked for or reset before it arrived.     *)
InputsFollow ==
  /\ mine.builds # None => mine.builds = <<page.a, page.b>>
  /\ mine.actions # None => mine.actions = page.actions
  /\ mine.ranks # None =>
       /\ IsLegalSkillRanks(page.ranks, page.level)
       /\ IsLegalSkillRanks(mine.ranks, low) => page.ranks = mine.ranks
  /\ ~page.loading /\ ~page.failed =>
       /\ page.progression = page.level
       /\ "builds" \notin page.edited => [a |-> page.a, b |-> page.b] = Seeded(page.level)
       /\ "ranks" \notin page.edited => page.ranks = LevelRanks(page.level, page.level)
       /\ "combo" \notin page.edited => page.actions = DefaultActions(page.level)
       /\ "slots" \notin page.edited => page.slotCount = DefaultSlotCount(page.level, page.level)

(* The lab refuses to simulate a build that repeats an item; no sequence of *)
(* edits the panels offer leads there, or to more than six slots.           *)
BuildsWellFormed ==
  \A slots \in {page.a, page.b} :
    Len(slots) \in 1..6 /\ Unrepeated(slots)
=============================================================================
