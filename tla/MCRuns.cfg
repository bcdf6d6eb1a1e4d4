SPECIFICATION SpecLimited
CONSTANTS
  hero = hero
  pet = pet
  NoEntity = NoEntity
  Never = Never
  NoLifecycle = NoLifecycle
  Idle = Idle
  EntityIds <- MCEntityIds
  Visible = {hero}
  Ids = {1, 2, 3, 4, 5}
  MaxSafeInteger = 9
  Times = {0, 1}
  UsedPhases = {"impact", "lifecycle"}
  EventLimit = 4
  Horizon = 1
  Payloads <- MCPayloads
  Worlds <- MCWorlds
  RootEvent = 1
  NextEvent = 2
  OtherEvent = 3
  MaxBudget = 2
  MaxBatch = 2
  r1 = r1
  r2 = r2
  Runs = {r1, r2}
  Offered = {"m1", "m2", "m3"}
  Bytes <- MCBytes
  PgBytes <- MCPgBytes
  GlobalCeiling = 8
  Reserve = 1
  ConfiguredRequests = 6
  MaxAccepted = 2
  MaxBytes = 4
  MaxPgBytes = 2
  Attempts = 2
SYMMETRY Alike
INVARIANTS PublishedOnce PendingOutcome NeverWedged WithinCeilings
CHECK_DEADLOCK FALSE
