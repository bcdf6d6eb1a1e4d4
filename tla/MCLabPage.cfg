CONSTANTS
  Parts = {"runs", "inputs", "editor"}
  None = None
  Mains = {"plain", "other", "same", "illegal"}
  Champions = {"all", "one"}
  AnyChampion = "all"
  Targets = {"t1", "t2"}
  Keys = {"k1", "k2"}
  KeyOf <- MCKeyOf
  TargetsOf <- MCTargetsOf
  Illegal = {"illegal"}
  Clamped <- MCClamped
  Identical = {"same"}
  SliceRequests = 1
  MaxRuns = 3
  ShownLevels = {5, 6, 13}
  Observed <- MCObserved
  SupportedItems = {1, 2, 3, 4, 5, 6}
  Boots = {1}
  InfinityEdge = 4
  LordDominiks = 5
  FallbackCore <- MCCore
  Candidates <- MCCandidates
  Presets <- MCPresets
  MaxActs = 3
  Unset = Unset
  OtherFields = {"policy"}
  pol1 = pol1 pol2 = pol2 set1 = set1 set2 = set2
  Values = {pol1, pol2}
  Whole = {0, 7}
  Odd = {99}
  SearchSettings = {set1, set2}
  Texts = {"7", "x"}
  ParseAmount <- MCParse
  Lawful <- MCLawful
  MaxSafe = 3
SPECIFICATION SpecPage
INVARIANTS DatasetMatches NeverBlank InputsFollow BuildsWellFormed OnlyCurrentAnswers SerializedAsShown
CHECK_DEADLOCK FALSE
