SPECIFICATION Spec
CONSTANTS
  Instances = {i1, i2}
  Period = 12
  LockTTL = 11
  MaxRetries = 3
  PostTime = 6
  Backoff <- MCBackoff
  LastTick = 2
  NoOwner = NoOwner
  Faults = {"post", "response", "redis", "crash", "misfire"}
  MaxFaults = 3
SYMMETRY Symmetry
INVARIANTS
  NextCycleCanAcquire
  TickServed
  OncePerFiring
PROPERTIES
  RunsSpec
