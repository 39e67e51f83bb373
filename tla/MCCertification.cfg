CONSTANTS
  p1 = p1
  p1lemmas = p1lemmas
  p2 = p2
  p3 = p3
  walnut = walnut
  fragment = fragment
  nats = nats
  evens = evens
  noDomain = noDomain
  sLaw = sLaw
  sText = sText
  sFalse = sFalse
  fragClaim = fragClaim
  emptyClaim = emptyClaim
  openClaim = openClaim
  none = none
  noDraft = noDraft
  vendorOpus = vendorOpus
  opus = opus
  goedel = goedel
  kimi = kimi
  Statements <- MCStatements
  Provable <- MCProvable
  Claims <- MCClaims
  OpenForm <- MCOpenForm
  NoStatement = none
  Canonical <- MCCanonical
  JudgedNum = 1
  JudgedDen = 2
  Order <- MCOrder
  Rerendering = {fragment}
  Domains <- MCDomains
  NoDomain = noDomain
  ClaimDomain <- MCClaimDomain
  Vacuous = {emptyClaim}
  Decidable <- MCDecidable
  Provers = {p1, p1lemmas, p2, p3}
  Name <- MCName
  Names <- MCNames
  Canon <- MCCanon
  Panel <- MCPanel
  NoDraft = noDraft
  MinConsensus = 2
  MaxLemmas = 2
  MaxRounds = 1
SPECIFICATION Spec
INVARIANTS
  TypeOK
  OriginalContractSeen
  DerivedDomainEarned
  DistinctVoters
PROPERTIES
  CertificationEnds
  ImplementsStages
