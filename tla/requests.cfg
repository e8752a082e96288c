CONSTANTS
  Requests = {r1, r2, r3}
  Tenants = {t1, t2}
  OldDefinitions = {d1}
  OldWebhooks = {w1}
  None = None
  MaxFaults = 1
SYMMETRY MCSymmetry
SPECIFICATION Spec
INVARIANTS
  TypeOK
  DeletedStaysInactive
  TriggerMeetsNewRow
  TenantsAgree
  AcceptedIsStarted
CHECK_DEADLOCK FALSE
