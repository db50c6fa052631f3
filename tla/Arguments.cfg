SPECIFICATION Spec
CHECK_DEADLOCK FALSE
CONSTANTS
  Lines <- AllLines
  Number <- Numbers
  SEEDS = 4
  MAX_RUNWAYS = 4
  MAX_GATES = 12
INVARIANTS
  LastOptionWins
  SweepComplete
