SPECIFICATION Spec
CONSTANTS
  W = 4
  M = 16
  SHIFT = 1
  ROTATE = 3
  SCRAMBLE = 2
  GAMMA = 9
  DEFAULT = 13
  FINAL_SHIFTS <- SmallShifts
  FINAL_FACTORS <- SmallFactors
INVARIANTS
  NeverStuck
PROPERTIES
  NothingLost
