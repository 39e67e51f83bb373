SPECIFICATION Spec
CONSTANTS
  WindowS = 2
  FloorS = 2
  LowNum = 1
  LowDen = 2
  Cycles = 2
  BeatMax = 5
  MaxNights = 1
  MaxCrashes = 1
INVARIANTS
  TypeOK
  KilledBeatIsJournaled
  QuietBeatIsCaught
  TwinEntriesOnlyWhenCondemned
PROPERTIES
  HungBeatIsJournaled
  WedgedIsNotSlow
CHECK_DEADLOCK FALSE
