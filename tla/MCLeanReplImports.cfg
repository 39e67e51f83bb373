SPECIFICATION Spec
CONSTANTS
  t1 = t1
  t2 = t2
  mathlib = mathlib
  lean = lean
  noOne = noOne
  NoOne = noOne
  Threads = {t1}
  Keys = {mathlib, lean}
  MaxProcs = 2
  MaxChecks = 3
  MaxCloses = 0
INVARIANTS
  ProofCheckedInItsImports
CHECK_DEADLOCK FALSE
