SPECIFICATION FairSpec
CONSTANTS
  NPapers = 3
  Papers <- MCPapers
  Cored <- MCCored
  Window = 1
  PageSize = 1
  MaxPages = 2
  SeenCap = 2
  Corrupt = corrupt
  Laws = {law1, law2}
  Unrenderable = {law2}
  Spoilt = spoilt
  MaxNights = 2
  MaxFaults = 2
INVARIANTS
  TypeOK
  CopiesBounded
  ReportedHitsAreReadable
  ListedFoliosAreWhole
PROPERTIES
  EveryLawIsExported
