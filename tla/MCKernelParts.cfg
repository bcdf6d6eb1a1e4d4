SPECIFICATION SpecParts
CONSTANTS
  Ids <- MCIds
  Times <- MCTimes
  UsedPhases <- MCUsedPhases
  RankPolicies <- MCRankPolicies
  MaxSafeInteger = 5
  EventLimit = 3
  MaxBatch = 2
  MaxCauses = 1
  hero = hero
  pet = pet
  ward = ward
  NoEntity = NoEntity
  Never = Never
  Forms <- MCForms
  EntityIds = {hero, pet, ward}
  MaxRevision = 2
  spawn = spawn
  death = death
  LifecycleTransitions = {spawn, death}
  MaxApplied = 3
  MaxPublished = 4
INVARIANTS Restorability CanonicalTies OnlyCurrentContexts LedgerPartition Rebuildable OnlyValidated
PROPERTIES Chronological CausalOrder StateVersioned AllOrNothing
CHECK_DEADLOCK FALSE
