SPECIFICATION Spec
CONSTANTS
  a = a
  b = b
  m = m
  first = first
  second = second
  Sources = {first, second}
  Matches = {m}
  MatchOf <- MCMatchOf
  Valid = {first, second}
  Ingesters = {a, b}
  NoSource = NoSource
  Legacy = Legacy
  MaxLosses = 1
  MaxFaults = 1
SYMMETRY Alike
CONSTRAINT OneTrouble
INVARIANTS AuditClean VerifiedSound NoFalseOrphans
PROPERTIES AcceptedOnce
CHECK_DEADLOCK FALSE
