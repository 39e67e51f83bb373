SPECIFICATION Spec
CONSTANTS
  prodDaemon = prodDaemon
  uatDaemon = uatDaemon
  prod = prod
  uat = uat
  untagged = untagged
  id1 = id1
  id2 = id2
  id3 = id3
  Procs = {prodDaemon, uatDaemon}
  Instances = {prod, uat}
  InstanceOf <- MCInstanceOf
  Legacy = untagged
  Pids = {id1, id2, id3}
INVARIANTS
  TypeOK
  AckedIsDurable
  GuardedOpen
