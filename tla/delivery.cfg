SPECIFICATION Spec
CONSTANTS
  c1 = c1
  c2 = c2
  c3 = c3
  x1 = x1
  Executions = {x1}
  Clients = {c1, c2, c3}
  TenantOf <- MCTenantOf
  ReadCount = 2
  MaxEvents = 3
  Faults = {"createGroup", "read", "emit", "ack", "database", "crash"}
  MaxFaults = 2
INVARIANTS
  ShownOnceInOrder
  RoomsAreTenants
  MemberSeesAll
PROPERTIES
  BroadcastSpec
  EveryEventPassed
