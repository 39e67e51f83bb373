SPECIFICATION Spec
CONSTANTS
  sLaw = sLaw
  sText = sText
  sFalse = sFalse
  sKnown = sKnown
  fragClaim = fragClaim
  plainClaim = plainClaim
  openClaim = openClaim
  none = none
  noSig = noSig
  sigFrag = sigFrag
  NoStatement = none
  NoSignature = noSig
  Canonical <- MCCanonical
  Signature <- MCSignature
  Repairs <- MCRepairs
  Provable = {sLaw, sText, sKnown}
  KnownHashes = {sKnown}
  KnownSigs = {}
  Degenerate = {}
  JudgedNum = 1
  JudgedDen = 2
  Statements = {sLaw, sText, sFalse, sKnown}
  Claims = {fragClaim, plainClaim, openClaim}
  OpenForm = {openClaim}
  MaxSeeds = 2
  MaxSessions = 2
INVARIANTS
  TypeOK
  LawsAreProvedAsCertified
  LawsNovelInSession
  NoSeedVanishes
  BudgetWithinFraction
  JudgedLawsCounted
PROPERTIES
  QuarantineSticks
  ImplementsCodex
CHECK_DEADLOCK FALSE
