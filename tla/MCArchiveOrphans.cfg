SPECIFICATION Spec
CONSTANTS
  a = a
  b = b
  m = m
  first = first
  second = second
  Sources = {first, second}
  Matches = {m}
  MatchOf <- MCMatchOf
  Valid = {first, second}
  Ingesters = {a}
  NoSource = NoSource
  Legacy = Legacy
  MaxLosses = 0
  MaxFaults = 0
INVARIANTS OrphansAccounted
