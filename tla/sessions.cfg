SPECIFICATION Spec
CONSTANTS
  r1 = r1
  r2 = r2
  c1 = c1
  c2 = c2
  None = None
  Requests = {r1, r2}
  Conns = {c1, c2}
  Pools = {{c1}, {c1, c2}}
  Tenants = {"acme", "blue"}
  OldUsers <- MCUsers
  OldRoles <- MCRoles
  Bodies <- MCBodies
  OldSettings = {None, "blue"}
  MaxFaults = 1
INVARIANTS
  ScopedUntilCommit
  AnsweredAsCommitted
  LoginOwn
  WritersPermitted
PROPERTIES
  RequestsEnd
CHECK_DEADLOCK FALSE
