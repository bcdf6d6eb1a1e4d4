SPECIFICATION SpecFigures
CONSTANTS
  Parts = {"fight", "cohort", "progression", "replay", "skills", "comparison"}
  Second = 60
  Grid = 3
  Epsilon = 2
  Rounding = {0, 1}
  Raw <- MCRaw
  Fights <- MCFights
  RowForms <- MCRowForms
  Groups = {"all", "top"}
  AnyGroup = "all"
  SampleThreshold = 2
  SampleLimitPerMatch = 2
  AskedLevels = {9}
  Limits = {2, 9}
  LowSample = 2
  Unit = 12
  MaxRows = 4
  Frames <- MCFrames
  Legendaries = {1, 2, 3}
  BootItems = {7, 8}
  UpgradedBoots = {8}
  Supported = {1, 2, 7, 8}
  FewFrames = 2
  ListLength = 2
  NoBoots = 0
  MaxFrames = 5
  Participants = {1, 2, 3}
  Buyer = 1
  TeamOf <- MCTeamOf
  BotCarries = {2}
  Catalog <- MCCatalog
  StartBag <- MCStartBag
  Carried = {{1, 2, 3}, {3}}
  ScenarioTime = 1
  ScenarioTolerance = 1
  TopLevel = 2
  MaxEvents = 3
  MaxCuts = 2
  Champion = "champion"
  Anybody = "anybody"
  SlotKeys = {"q", "w"}
  OtherKeys = {"w"}
  TopRank = 2
  EnoughSeen = 2
  MaxPlayed = 2
  MaxTimeline = 2
  MaxOthers = 1
  Targets <- MCTargets
  Fought <- MCFought
  UnitWeight = 2
  FewTargets = 3
  MaxCompared = 4
INVARIANTS LingerOnce CooldownsHeld CohortBalanced RecommendedObserved ProjectionExact SkillsLegal VerdictsAgree
CHECK_DEADLOCK FALSE
