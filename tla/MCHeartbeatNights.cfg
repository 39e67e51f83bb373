SPECIFICATION Spec
CONSTANTS
  WindowS = 2
  FloorS = 2
  LowNum = 1
  LowDen = 2
  Cycles = 1
  BeatMax = 1
  MaxNights = 4
  MaxCrashes = 1
INVARIANTS
  TwoSilentNightsAreAlarmed
CHECK_DEADLOCK FALSE
