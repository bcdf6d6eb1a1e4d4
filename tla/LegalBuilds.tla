----------------------------- MODULE LegalBuilds -----------------------------
(***************************************************************************)
(* The candidates of an optimizer search (domain/optimizer.ts): the        *)
(* predicate of a legal build, validateBuild, and the generator that is to *)
(* enumerate exactly the builds that satisfy it, generateLegalBuilds.      *)
(*                                                                         *)
(* Items are their numeric ids and a build is the sequence of its items.   *)
(* The options of a search are a record; the fields a caller may leave out *)
(* are Unset.                                                              *)
(***************************************************************************)
EXTENDS Ordering, SequencesExt, FiniteSetsExt, Functions

CONSTANTS
  Catalog,      (* ITEMS: the ids of the pinned catalog                 *)
  Trusted,      (* OPTIMIZER_TRUSTED_ITEM_SET                           *)
  Boots,        (* the items with boots: true                           *)
  GoldOf,       (* goldTotal of each item                               *)
  Unset,
  MaxSlots,     (* bound: the slots of a build                          *)
  SearchOptions (* bound: the options that are tried                    *)

ASSUME CatalogAssumption ==
  /\ Catalog \subseteq Nat /\ IsFiniteSet(Catalog)
  /\ Trusted \subseteq Catalog /\ Boots \subseteq Catalog
  /\ GoldOf \in [Catalog -> Nat]
  /\ Unset \notin Int /\ MaxSlots \in Nat

(* Numbers of the options are whole, and so are ids, in a catalog or not.   *)
ASSUME OptionsAssumption ==
  \A o \in SearchOptions :
    /\ o.slotCount \in Int /\ o.slotCount <= MaxSlots
    /\ o.eligible \subseteq Int /\ o.required \subseteq Int /\ IsFiniteSet(o.required)
    /\ o.maxBoots \in Int
    /\ o.maxGold \in Int \cup {Unset} /\ o.minGold \in Int \cup {Unset}

CanonicalizeItemIds(ids) == SortedBy(ids, <)
GoldTotal(i) == IF i \in Catalog THEN GoldOf[i] ELSE 0
TotalGold(ids) ==
  LET gold == [k \in DOMAIN ids |-> GoldTotal(ids[k])]
  IN  MapThenSumSet(LAMBDA k : gold[k], DOMAIN ids)
BootCount(ids) == Cardinality({k \in DOMAIN ids : ids[k] \in Boots})

(* resolveOptimizerEligibility: what of the requested pool can be simulated. *)
EligibleItemIds(o) ==
  {i \in o.eligible : i \in Catalog /\ (o.allowPartial \/ i \in Trusted)}

BootRule(o) ==
  CASE o.bootRule # Unset -> o.bootRule
    [] o.bootRule = Unset /\ o.requireBoots = FALSE -> "optional"
    [] OTHER -> "required"
MaxBoots(o) == IF BootRule(o) = "forbidden" THEN 0 ELSE Min({1, Max({0, o.maxBoots})})
AboveMaxGold(o, gold) == o.maxGold # Unset /\ gold > o.maxGold
BelowMinGold(o, gold) == o.minGold # Unset /\ gold < o.minGold

(* validateBuild: the reasons against the items of a build, as they were given. *)
ValidateBuild(ids, o) ==
  LET items == Range(ids)
      Reason(wrong, name) == IF wrong THEN {name} ELSE {}
  IN  UNION {
        Reason(Len(ids) # o.slotCount, "wrong-slot-count"),
        Reason(\E i \in items : i \notin Catalog, "unsupported-item"),
        Reason(\E i \in items : i \in Catalog \ EligibleItemIds(o), "ineligible-item"),
        Reason(Cardinality(items) # Len(ids), "duplicate-item"),
        Reason(BootRule(o) = "required" /\ BootCount(ids) = 0, "boots-required"),
        Reason(BootRule(o) = "forbidden" /\ BootCount(ids) > 0, "boots-forbidden"),
        Reason(BootCount(ids) > MaxBoots(o), "too-many-boots"),
        Reason(~ o.required \subseteq items, "required-item-missing"),
        Reason(items \cap o.excluded # {}, "excluded-item"),
        Reason(AboveMaxGold(o, TotalGold(ids)), "above-max-gold"),
        Reason(BelowMinGold(o, TotalGold(ids)), "below-min-gold")}

IsLegalBuild(ids, o) == ValidateBuild(ids, o) = {}

(* canGenerate: the searches that are given up before anything is enumerated. *)
CanGenerate(o) ==
  LET requiredBoots == Cardinality(o.required \cap Boots)
  IN  /\ o.slotCount >= 0
      /\ Cardinality(o.required) <= o.slotCount
      /\ o.required \subseteq EligibleItemIds(o) \ o.excluded
      /\ o.maxGold # Unset => o.maxGold >= 0
      /\ o.minGold # Unset => o.minGold >= 0
      /\ o.maxGold # Unset /\ o.minGold # Unset => o.minGold <= o.maxGold
      /\ requiredBoots <= MaxBoots(o)
      /\ BootRule(o) = "required" /\ requiredBoots = 0 =>
           (EligibleItemIds(o) \cap Boots) \ (o.required \cup o.excluded) # {}

LastStart_OneShort(n, remaining) == n - remaining - 1
LastStart(n, remaining) == n - remaining

(* visit(start, remaining): the choices of that many of the optional items  *)
(* from that index on, in the order in which they are met: those with the   *)
(* item at the index, then what the rest of the loop over the indices finds,*)
(* which is visit[start + 1][remaining].                                    *)
Visit(optional) ==
  LET n == Len(optional)
      With(item, deeper) == [m \in DOMAIN deeper |-> <<item>> \o deeper[m]]
      visit[start \in 0..n] ==
        [remaining \in 0..MaxSlots |->
           IF remaining = 0 THEN <<(<<>>)>>
           ELSE IF start > LastStart(n, remaining) THEN <<>>
           ELSE With(optional[start + 1], visit[start + 1][remaining - 1])
                  \o visit[start + 1][remaining]]
  IN  visit

CompareCanonicalIds(a, b) ==
  \/ \E k \in 1..Min({Len(a), Len(b)}) : a[k] < b[k] /\ \A j \in 1..(k - 1) : a[j] = b[j]
  \/ IsStrictPrefix(a, b)

GenerateLegalBuilds(o) ==
  IF ~ CanGenerate(o) THEN <<>>
  ELSE LET optional == Ascending(EligibleItemIds(o) \ o.required)
           chosen == Visit(optional)[0][o.slotCount - Cardinality(o.required)]
           builds == [m \in DOMAIN chosen |->
                        CanonicalizeItemIds(Ascending(o.required) \o chosen[m])]
           legal == {m \in DOMAIN builds : IsLegalBuild(builds[m], o)}
       IN  SortedBy(At(builds, legal), CompareCanonicalIds)

----------------------------------------------------------------------------
(* "Every generated build is canonical, unique, and validated against the   *)
(* exact same legal-build predicate" (optimizer.ts:307-309), and exhaustive *)
(* search means that none is missing: the generator lists, once each and in *)
(* canonical form, all item lists that validateBuild accepts, however the   *)
(* caller ordered them, and nothing else.  A negative minGold is outside of *)
(* it: validateBuild takes it for no bound, canGenerate for an error.       *)
EnumerationExact ==
  \A o \in SearchOptions :
    (o.minGold = Unset \/ o.minGold >= 0) =>
      LET generated == GenerateLegalBuilds(o)
          legal == {ids \in SeqOf(Catalog \cup o.eligible, MaxSlots) : IsLegalBuild(ids, o)}
      IN  /\ IsInjective(generated)
          /\ Range(generated) = {CanonicalizeItemIds(ids) : ids \in legal}
=============================================================================
