SPECIFICATION FightSpec
CONSTANTS
  Second = 60
  Grid = 3
  Epsilon = 2
  Rounding = {0, 1}
  Raw <- MCRaw
  Fights <- MCAtTheCap
PROPERTIES SimulationEnds
CHECK_DEADLOCK FALSE
