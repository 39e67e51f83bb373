SPECIFICATION Spec
CONSTANTS
  t1 = t1
  t2 = t2
  mathlib = mathlib
  lean = lean
  noOne = noOne
  NoOne = noOne
  Threads = {t1, t2}
  Keys = {mathlib}
  MaxProcs = 2
  MaxChecks = 1
  MaxCloses = 1
INVARIANTS
  TypeOK
  AnswersMatch
  KernelVerdictsAreElaborated
PROPERTIES
  CallsReturn
CHECK_DEADLOCK FALSE
