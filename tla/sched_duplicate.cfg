SPECIFICATION Spec
CONSTANTS
  Instances = {i1, i2}
  Period = 12
  LockTTL = 11
  MaxRetries = 3
  PostTime = 6
  Backoff <- MCBackoff
  LastTick = 1
  NoOwner = NoOwner
  Faults = {}
  MaxFaults = 0
SYMMETRY Symmetry
INVARIANTS
  NoDuplicateAcrossInstances
