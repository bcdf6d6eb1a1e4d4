CONSTANTS
  i1 = i1
  i2 = i2
  None = None
  Inputs = {i1, i2}
  Hashes = {1, 2}
  HashOf <- MCHashOf
  Chunks = 2
  MaxSearches = 3
  Catalog = {1, 2, 3, 4}
  Trusted = {1, 2, 3}
  Boots = {1, 2}
  GoldOf <- MCGoldOf
  Unset = Unset
  MaxSlots = 3
  SearchOptions <- MCOptions
  Objectives <- MCObjectives
  Candidates <- MCCandidates
  TargetRows <- MCTargetRows
  Never = Never
SPECIFICATION LiveSpec
INVARIANTS ResultCurrent Supervised SearchExhaustive ShownRanking
PROPERTIES SearchEnds
