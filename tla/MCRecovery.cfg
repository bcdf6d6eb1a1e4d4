SPECIFICATION SpecRecovery
CONSTANTS
  a = a
  b = b
  m = m
  first = first
  second = second
  Sources = {first}
  Matches = {m}
  MatchOf <- MCMatchOf
  Valid = {first}
  Ingesters = {a, b}
  NoSource = NoSource
  Legacy = Legacy
  MaxLosses = 0
  MaxFaults = 2
  StaticSources = {"champions 1", "champions 2", "items 1", "items 2", "other items 1"}
  Versions = {1, 2}
  VersionOf <- MCVersionOf
  KindOf <- MCKindOf
  Fetches <- MCFetches
  Syncs = {a, b}
  NoStatic = NoStatic
  NoVersion = NoVersion
  Queries = {"q1", "q2"}
  Transactions = {"t1"}
  MaxPool = 1
  Pauses = 2
  MaxPools = 2
  Drafts <- MCDrafts
  Stores <- MCStores
  Under <- MCUnder
INVARIANTS StaticArchived WrittenOnce CompiledAsBuilt
PROPERTIES Recovered
CHECK_DEADLOCK FALSE
