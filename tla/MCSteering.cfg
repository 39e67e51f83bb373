SPECIFICATION Spec
CONSTANTS
  Start = 2
  Floor = 0
  Ceil = 4
  Window = 4
  AimNum = 7
  AimDen = 20
  Gain = 6
  PinLimit = 3
  LowBase = 1
  HighBase = 2
  Jitters <- MCJitters
  Families = {famA, famB}
  NoFamily = noFamily
  GenreThreshold = 2
  DryThreshold = 2
  ListCap = 1
  CycleSeeds = 1
  Cycles = 2
  Garbled = garbled
INVARIANTS
  SaturationIsBrief
  DryGroundUnproven
