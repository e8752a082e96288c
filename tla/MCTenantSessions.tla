---- MODULE MCTenantSessions ----
(* An administrator and a viewer of one tenant, an administrator of another *)
(* with the same email, a user that was made inactive.                      *)
EXTENDS TenantSessions, TLC

CONSTANTS r1, r2, c1, c2

User(id, tenant, email, password, active) ==
  [id |-> id, tenant |-> tenant, email |-> email, password |-> password, active |-> active]
MCUsers ==
  { User("ann", "acme", "a", "p", TRUE), User("vic", "acme", "v", "q", TRUE),
    User("bob", "blue", "a", "q", TRUE), User("old", "acme", "v", "p", FALSE) }
MCRoles ==
  { [user |-> "ann", tenant |-> "acme", role |-> "tenant_admin"],
    [user |-> "vic", tenant |-> "acme", role |-> "viewer"],
    [user |-> "bob", tenant |-> "blue", role |-> "developer"],
    [user |-> "old", tenant |-> "acme", role |-> "tenant_admin"] }

Ask(endpoint, tenant, email, password, role) ==
  [endpoint |-> endpoint, tenant |-> tenant, email |-> email, password |-> password, role |-> role]
MCBodies ==
  { Ask("login", "acme", "a", "p", ""), Ask("login", "acme", "a", "q", ""),
    Ask("login", "acme", "v", "q", ""), Ask("login", "acme", "v", "p", ""),
    Ask("me", "", "", "", ""),
    Ask("create_user", "", "a", "q", "viewer"), Ask("create_user", "", "a", "q", "owner"),
    Ask("create_tenant", "new", "", "", ""), Ask("create_tenant", "blue", "", "", ""),
    Ask("create_webhook", "", "", "", "") }

====
