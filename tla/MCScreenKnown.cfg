SPECIFICATION Spec
CONSTANTS
  Names = {"a", "b"}
  MaxPow = 8
  MaxOrder = 4
  SmtBound = 5
  MaxDegree = 8
  ResidueBound = 6
  MaxVars = 2
  MaxResidueCells = 16
  MaxConjuncts = 2
  MaxAtoms = 3
  MaxLcm = 12
  MixedMaxCells = 12
  MixedMaxAtoms = 5
  MaxBranches = 8
  MaxEqs = 2
  WitnessRange = 5
  Top = 17
  MaxLaws = 1
  Contracts <- MC_Contracts
  Curated <- MC_Curated
  Everywhere <- MC_Everywhere
  Box <- MC_Box
  WitnessBox <- MC_WitnessBox
  Meaning <- MC_Meaning
  Evaluated <- MC_Evaluated
  BoxEncodable <- MC_BoxEncodable
  UnboundedEncodable <- MC_UnboundedEncodable
  Signature <- MC_Signature
  Degenerate <- MC_Degenerate
  Congruence <- MC_Congruence
  Fact <- MC_Fact
  Eligible <- MC_Eligible
  Keyed <- MC_Keyed
INVARIANT
  KnownMeansSameFact
