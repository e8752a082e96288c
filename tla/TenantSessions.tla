---- MODULE TenantSessions ----
(***************************************************************************)
(* Database sessions of the platform API: a request has one session, which *)
(* takes a connection from the pool at its first statement and returns it  *)
(* at commit, rollback or close.  get_scoped_db names the tenant on that   *)
(* connection with set_config(.., false): the transaction that does so     *)
(* keeps or reverts the setting as it commits or rolls back, and the pool  *)
(* only rolls back, so a committed setting meets the next request.  The    *)
(* handlers are the login, the ones that create users, tenants and         *)
(* webhooks, and "me"; other endpoints use the same dependencies.          *)
(***************************************************************************)
EXTENDS Integers, FiniteSets

CONSTANTS
  Requests,
  Conns, Pools,  \* connections, and the sets of them that the pool may have
  Tenants,     \* tenants there are, named by their slugs
  OldUsers,    \* rows of users: [id, tenant, email, password, active]
  OldRoles,    \* rows of user_roles with the role's name: [user, tenant, role]
  Bodies,      \* what is asked: [endpoint, tenant, email, password, role]
  None,
  OldSettings, \* what earlier requests may have left on the connections
  MaxFaults    \* bound: failing calls and restarts

Endpoints == {"login", "me", "create_user", "create_tenant", "create_webhook"}
Scoped    == {"me", "create_user", "create_webhook"}  \* Depends(get_scoped_db)

OldIds == {u.id : u \in OldUsers}
Emails == {u.email : u \in OldUsers}
Passwords == {u.password : u \in OldUsers}

ASSUME SessionsAssumption ==
  /\ MaxFaults \in Nat
  /\ None \notin Conns \union Tenants /\ None \notin Bodies /\ None \notin OldUsers
  /\ OldUsers \subseteq [id : OldIds, tenant : Tenants, email : Emails,
                         password : Passwords, active : BOOLEAN]
  /\ \A u, v \in OldUsers : u.id = v.id => u = v
  /\ \A x \in OldRoles : \E u \in OldUsers : x.user = u.id /\ x.tenant = u.tenant
  /\ OldSettings \subseteq Tenants \union {None}
  /\ Pools \subseteq SUBSET Conns /\ {} \notin Pools
  /\ \A b \in Bodies : b.endpoint \in Endpoints
  /\ OldIds \intersect Requests = {}

VARIABLES
  bypass,     \* the database's role is not subject to row level security
  pool,       \* the connections of the pool, at most pool_size + max_overflow
  setting,    \* app.current_tenant of a connection, as last committed
  local,      \* the same inside the transaction that is open on it
  body, token,  \* what a request asks, and the claims it carries or, for a login, gets
  user,       \* the row authenticate_user found
  pc, conn,   \* where a handler is, and the connection its session holds
  written,    \* the tables the open transaction of a request has inserted into
  committed,  \* the tables its committed transactions have inserted into
  answer,
  faults

vars == <<bypass, pool, setting, local, body, token, user, pc, conn, written, committed, answer, faults>>

----
(* Roles and their permissions. *)
ViewerPermissions  == {"workflow:read", "report:read"}
AnalystPermissions == ViewerPermissions \union {"approval:manage", "audit:read"}
ManagerPermissions ==
  ViewerPermissions \union {"workflow:trigger", "agent:read", "approval:manage"}
DeveloperPermissions ==
  ViewerPermissions \union
  {"workflow:create", "workflow:update", "workflow:delete", "workflow:trigger",
   "agent:create", "agent:read", "agent:update", "agent:delete", "user:read"}
AdminPermissions ==
  DeveloperPermissions \union AnalystPermissions \union {"user:manage", "tenant:config"}

ASSUME PermissionAssumption == None \notin AdminPermissions

(* ROLE_PERMISSIONS; the migrations seed a row of roles for each name. *)
RolePermissions ==
  [ super_admin |-> AdminPermissions, tenant_admin |-> AdminPermissions,
    developer |-> DeveloperPermissions, project_manager |-> ManagerPermissions,
    analyst |-> AnalystPermissions, viewer |-> ViewerPermissions ]

SystemRoles == DOMAIN RolePermissions

HasPermission(roles, permission) ==
  \E role \in roles \intersect SystemRoles : permission \in RolePermissions[role]

(* The permission an endpoint requires, if any. *)
Required(endpoint) ==
  CASE endpoint = "create_user"    -> "user:manage"
    [] endpoint = "create_tenant"  -> "tenant:config"
    [] endpoint = "create_webhook" -> "workflow:create"
    [] OTHER -> None

Permitted(r) ==
  Required(body[r].endpoint) # None =>
    HasPermission(token[r].roles, Required(body[r].endpoint))

----
(* Rows, as a committed transaction leaves them. *)
UserTables == {"users", "user_roles", "audit_logs"}
RowsOf(endpoint) ==
  CASE endpoint = "login"          -> {"refresh_tokens"}
    [] endpoint = "create_user"    -> UserTables
    [] endpoint = "create_tenant"  -> {"tenants"}
    [] endpoint = "create_webhook" -> {"webhook_configs"}
    [] OTHER -> {}
Tables == UNION {RowsOf(e) : e \in Endpoints}

Having(table) == {r \in Requests : table \in committed[r]}

NewUser(r) == [id |-> r, tenant |-> token[r].tenant, email |-> body[r].email,
               password |-> body[r].password, active |-> TRUE]
Users == OldUsers \union {NewUser(r) : r \in Having("users")}

NewRole(r) == [user |-> r, tenant |-> token[r].tenant, role |-> body[r].role]
UserRoles == OldRoles \union {NewRole(r) : r \in Having("user_roles")}

RolesOf(u, t) == {x.role : x \in {y \in UserRoles : y.user = u /\ y.tenant = t}}
Slugs == Tenants \union {body[r].tenant : r \in Having("tenants")}

Claims(u, roles) == [user |-> u.id, tenant |-> u.tenant, roles |-> roles]
OldTokens == {Claims(u, {x.role : x \in {y \in OldRoles : y.user = u.id}}) : u \in OldUsers}

LoggedIn(r) == body[r] # None /\ body[r].endpoint = "login" /\ answer[r] = "ok"

(* The tokens callers hold. *)
Issued == OldTokens \union {token[r] : r \in {q \in Requests : LoggedIn(q)}}

Settings == Tenants \union {None}
Pcs == {"unsent", "authenticate", "roles", "insertToken", "currentUser", "scope", "permission",
        "getUser", "selectRole", "insertUser", "insertRole", "insertTenant", "commit", "refresh",
        "clear", "close", "done", "dead"}
Answers == {"none", "ok", "400", "401", "403", "500"}
Ids == OldIds \union Requests

TypeOK ==
  /\ bypass \in BOOLEAN /\ pool \in Pools
  /\ setting \in [Conns -> Settings] /\ local \in [Conns -> Settings]
  /\ body \in [Requests -> Bodies \union {None}]
  /\ \A r \in Requests :
       /\ token[r] = None \/ token[r] \in [user : Ids, tenant : Tenants, roles : SUBSET {x.role : x \in UserRoles}]
       /\ user[r] = None \/ user[r] \in Users
  /\ pc \in [Requests -> Pcs]
  /\ conn \in [Requests -> Conns \union {None}]
  /\ \A r, q \in Requests : conn[r] = conn[q] /\ conn[r] # None => r = q
  /\ \A c \in Conns : (\A r \in Requests : conn[r] # c) => local[c] = setting[c]
  /\ written \in [Requests -> SUBSET Tables] /\ committed \in [Requests -> SUBSET Tables]
  /\ answer \in [Requests -> Answers]
  /\ faults \in 0..MaxFaults

Init ==
  /\ bypass \in BOOLEAN /\ pool \in Pools
  /\ setting \in [Conns -> OldSettings] /\ local = setting
  /\ body = [r \in Requests |-> None] /\ token = body /\ user = body
  /\ pc = [r \in Requests |-> "unsent"]
  /\ conn = [r \in Requests |-> None]
  /\ written = [r \in Requests |-> {}] /\ committed = written
  /\ answer = [r \in Requests |-> "none"]
  /\ faults = 0

----
(* Connections. *)
Idle(c) == c \in pool /\ \A q \in Requests : conn[q] # c

(* The connection a statement of r runs on: the session's, or an idle one,  *)
(* which it waits for when there is none.                                   *)
Takes(r, c) == IF conn[r] = None THEN Idle(c) ELSE c = conn[r]

(* What row level security lets a statement on c see and insert. *)
Visible(c, t) == bypass \/ local[c] = t

(* No setting is NULL, which hides every row, or, once a transaction that   *)
(* set it was rolled back, '': a statement then raises, as that is no uuid. *)
Unnamed(c) == ~ bypass /\ local[c] = None

GoTo(r, where) == pc' = [pc EXCEPT ![r] = where]
Hold(r, c)     == conn' = [conn EXCEPT ![r] = c]
Insert(r, table) == written' = [written EXCEPT ![r] = @ \union {table}]
Reply(r, what) == answer' = [answer EXCEPT ![r] = what]

(* The connections of the requests in rs go back; those in lost are closed, *)
(* and the pool opens others in their place.                                *)
Return(rs, lost) ==
  LET back == {c \in Conns : \E r \in rs : conn[r] = c} IN
    /\ setting' = [c \in Conns |-> IF c \in lost THEN None ELSE setting[c]]
    /\ local' = [c \in Conns |-> IF c \in lost THEN None
                                 ELSE IF c \in back THEN setting[c] ELSE local[c]]
    /\ conn' = [r \in Requests |-> IF r \in rs THEN None ELSE conn[r]]
    /\ written' = [r \in Requests |-> IF r \in rs THEN {} ELSE written[r]]

Rollback(r) == Return({r}, {})

(* An exception leaves the handler.  get_db rolls back and closes; so does  *)
(* get_scoped_db, once entered, which then resets the setting.              *)
Entered(r) == body[r].endpoint \in Scoped /\ pc[r] \notin {"currentUser", "scope"}
Raise(r, code) ==
  /\ Reply(r, code)
  /\ GoTo(r, IF Entered(r) THEN "clear" ELSE "done")
Refuse(r, code) ==
  /\ Rollback(r) /\ Raise(r, code)
  /\ UNCHANGED <<bypass, pool, body, token, user, committed, faults>>

request == <<bypass, pool, setting, body, committed, faults>>

(* A request arrives, with a token unless it logs in. *)
Receive(r) ==
  /\ pc[r] = "unsent"
  /\ \E b \in Bodies :
       /\ body' = [body EXCEPT ![r] = b]
       /\ IF b.endpoint = "login"
          THEN GoTo(r, "authenticate") /\ UNCHANGED token
          ELSE /\ GoTo(r, "currentUser")
               /\ \E t \in Issued : token' = [token EXCEPT ![r] = t]
  /\ UNCHANGED <<bypass, pool, setting, local, user, conn, written, committed, answer, faults>>

----
(* login *)

CandidatesOfAnyTenant(r, c) ==  \* mutant: the tenant is not compared
  {u \in Users : u.email = body[r].email /\ u.active /\ Visible(c, u.tenant)}

(* The rows the query of authenticate_user may return the first of. *)
Candidates(r, c) ==
  {u \in Users : /\ u.email = body[r].email /\ u.tenant = body[r].tenant
                 /\ u.active /\ Visible(c, u.tenant)}

(* Tenants are never deleted and their slugs never change, so the query of  *)
(* the tenant is taken together with the one of its user.                   *)
AuthenticateUser(r) ==
  /\ pc[r] = "authenticate"
  /\ \E c \in Conns :
       /\ Takes(r, c)
       /\ \/ \E u \in Candidates(r, c) :
              /\ u.password = body[r].password
              /\ user' = [user EXCEPT ![r] = u]
              /\ Hold(r, c) /\ GoTo(r, "roles")
              /\ UNCHANGED <<request, local, token, written, answer>>
          \/ /\ Candidates(r, c) = {} \/ \E u \in Candidates(r, c) : u.password # body[r].password
             /\ Refuse(r, "401")
          \/ Unnamed(c) /\ Refuse(r, "500")

RolesOfAll(r, c) ==  \* mutant: the user is not compared
  {x.role : x \in {y \in UserRoles : y.tenant = user[r].tenant /\ Visible(c, y.tenant)}}

RolesSeen(r, c) ==
  {x.role : x \in {y \in UserRoles : /\ y.user = user[r].id /\ y.tenant = user[r].tenant
                                     /\ Visible(c, y.tenant)}}

GetUserRoles(r) ==
  /\ pc[r] = "roles"
  /\ \E c \in Conns :
       /\ Takes(r, c) /\ Hold(r, c)
       /\ token' = [token EXCEPT ![r] = Claims(user[r], RolesSeen(r, c))]
  /\ GoTo(r, "insertToken")
  /\ UNCHANGED <<request, local, user, written, answer>>

InsertToken(r) ==
  /\ pc[r] = "insertToken"
  /\ \E c \in Conns :
       /\ Takes(r, c)
       /\ \/ /\ Visible(c, user[r].tenant)
             /\ Hold(r, c) /\ Insert(r, "refresh_tokens") /\ GoTo(r, "commit")
             /\ UNCHANGED <<request, local, token, user, answer>>
          \/ ~ Visible(c, user[r].tenant) /\ Refuse(r, "500")

----
(* The dependencies of the endpoints a token is asked for. *)

(* get_current_user: the token may have expired, and the user be hidden.    *)
GetCurrentUser(r) ==
  /\ pc[r] = "currentUser"
  /\ \/ \E c \in Conns :
          /\ Takes(r, c) /\ Hold(r, c)
          /\ \E u \in Users : /\ u.id = token[r].user /\ u.tenant = token[r].tenant
                             /\ u.active /\ Visible(c, u.tenant)
          /\ GoTo(r, IF body[r].endpoint \in Scoped THEN "scope" ELSE "permission")
          /\ UNCHANGED <<request, local, token, user, written, answer>>
     \/ Refuse(r, "401")
     \/ (\E c \in Conns : Takes(r, c) /\ Unnamed(c)) /\ Refuse(r, "500")

ScopeElsewhere(r) ==  \* mutant: set_config on a session of its own, as in get_tenant_db
  /\ pc[r] = "scope"
  /\ \E c \in Conns : Idle(c) /\ local' = [local EXCEPT ![c] = token[r].tenant]
  /\ UNCHANGED conn
  /\ GoTo(r, IF body[r].endpoint = "me" THEN "getUser" ELSE "permission")
  /\ UNCHANGED <<request, token, user, written, answer>>

(* get_scoped_db, up to its yield. *)
SetScope(r) ==
  /\ pc[r] = "scope"
  /\ \E c \in Conns :
       /\ Takes(r, c) /\ Hold(r, c)
       /\ local' = [local EXCEPT ![c] = token[r].tenant]
  /\ GoTo(r, IF body[r].endpoint = "me" THEN "getUser" ELSE "permission")
  /\ UNCHANGED <<request, token, user, written, answer>>

(* require_permission, which runs in a thread of its own. *)
CheckPermission(r) ==
  /\ pc[r] = "permission"
  /\ \/ /\ Permitted(r)
        /\ GoTo(r, CASE body[r].endpoint = "create_user"   -> "selectRole"
                     [] body[r].endpoint = "create_tenant" -> "insertTenant"
                     [] OTHER                              -> "commit")
        /\ UNCHANGED <<request, local, token, user, conn, written, answer>>
     \/ ~ Permitted(r) /\ Refuse(r, "403")

----
(* me *)

GetUser(r) ==
  /\ pc[r] = "getUser"
  /\ \E c \in Conns : Takes(r, c) /\ Hold(r, c)
  /\ Reply(r, "ok") /\ GoTo(r, "clear")
  /\ UNCHANGED <<request, local, token, user, written>>

(* create_user: the rows of roles belong to no tenant. *)

SelectRole(r) ==
  /\ pc[r] = "selectRole"
  /\ \E c \in Conns :
       /\ Takes(r, c)
       /\ \/ /\ body[r].role \in SystemRoles
             /\ Hold(r, c) /\ GoTo(r, "insertUser")
             /\ UNCHANGED <<request, local, token, user, written, answer>>
          \/ body[r].role \notin SystemRoles /\ Refuse(r, "400")

(* A flush: row level security refuses a row of another tenant. *)
Flush(r, table, next) ==
  \E c \in Conns :
    /\ Takes(r, c)
    /\ \/ /\ Visible(c, token[r].tenant)
          /\ Hold(r, c) /\ Insert(r, table) /\ GoTo(r, next)
          /\ UNCHANGED <<request, local, token, user, answer>>
       \/ ~ Visible(c, token[r].tenant) /\ Refuse(r, "500")

InsertUser(r) == pc[r] = "insertUser" /\ Flush(r, "users", "insertRole")

(* The refresh that follows sees the row, and log_action leaves its own to  *)
(* the commit.                                                              *)
InsertRole(r) == pc[r] = "insertRole" /\ Flush(r, "user_roles", "commit")

(* create_tenant: the database lets the second insert of a slug wait for    *)
(* the transaction of the first.                                            *)
InsertTenant(r) ==
  /\ pc[r] = "insertTenant"
  /\ \A q \in Requests \ {r} :
       "tenants" \in written[q] => body[q].tenant # body[r].tenant
  /\ \E c \in Conns :
       /\ Takes(r, c)
       /\ \/ /\ body[r].tenant \notin Slugs
             /\ Hold(r, c) /\ Insert(r, "tenants") /\ GoTo(r, "commit")
             /\ UNCHANGED <<request, local, token, user, answer>>
          \/ body[r].tenant \in Slugs /\ Refuse(r, "500")

----
(* What a transaction in "commit" has inserted once its last rows, the      *)
(* audit log's or the webhook's, are flushed.                               *)
Flushed(r) ==
  written[r] \union
    CASE body[r].endpoint = "create_user"    -> {"audit_logs"}
      [] body[r].endpoint = "create_webhook" -> {"webhook_configs"}
      [] OTHER -> {}

(* The last rows can be inserted. *)
Flushable(r, c) == body[r].endpoint \in Scoped => Visible(c, token[r].tenant)

(* The transaction on c commits, and c goes back with the setting it has.   *)
Committed(r, c) ==
  /\ committed' = [committed EXCEPT ![r] = @ \union Flushed(r)]
  /\ written' = [written EXCEPT ![r] = {}]
  /\ setting' = [setting EXCEPT ![c] = local[c]]
  /\ conn' = [conn EXCEPT ![r] = None]

CommitPerTable(r) ==  \* mutant: the caller's commit is taken before the audit log's row
  /\ pc[r] = "commit"
  /\ \E c \in Conns :
       /\ Takes(r, c) /\ Flushable(r, c)
       /\ committed' = [committed EXCEPT ![r] = @ \union written[r]]
       /\ written' = [written EXCEPT ![r] = {}]
       /\ setting' = [setting EXCEPT ![c] = local[c]]
       /\ conn' = [conn EXCEPT ![r] = None]
  /\ Reply(r, "ok")
  /\ GoTo(r, IF Entered(r) THEN "clear" ELSE "done")
  /\ UNCHANGED <<bypass, pool, local, body, token, user, faults>>

(* The handlers commit; all but create_webhook have then done their work.   *)
Commit(r) ==
  /\ pc[r] = "commit"
  /\ \E c \in Conns :
       /\ Takes(r, c)
       /\ \/ /\ Flushable(r, c) /\ Committed(r, c)
             /\ IF body[r].endpoint = "create_webhook"
                THEN GoTo(r, "refresh") /\ UNCHANGED answer
                ELSE Reply(r, "ok") /\ GoTo(r, IF Entered(r) THEN "clear" ELSE "done")
             /\ UNCHANGED <<bypass, pool, local, body, token, user, faults>>
          \/ ~ Flushable(r, c) /\ Refuse(r, "500")

(* refresh, in a transaction of its own on any connection: the row may be   *)
(* hidden from it.                                                          *)
Refresh(r) ==
  /\ pc[r] = "refresh"
  /\ \E c \in Conns :
       /\ Takes(r, c)
       /\ \/ /\ Visible(c, token[r].tenant)
             /\ Hold(r, c) /\ Reply(r, "ok") /\ GoTo(r, "clear")
             /\ UNCHANGED <<request, local, token, user, written>>
          \/ ~ Visible(c, token[r].tenant) /\ Refuse(r, "500")

(* The finally of get_scoped_db, whatever connection its session now gets:  *)
(* no commit follows, so the setting is back when the session is closed.    *)
ClearScope(r) ==
  /\ pc[r] = "clear"
  /\ \E c \in Conns :
       /\ Takes(r, c) /\ Hold(r, c)
       /\ local' = [local EXCEPT ![c] = None]
  /\ GoTo(r, "close")
  /\ UNCHANGED <<request, token, user, written, answer>>

Close(r) ==
  /\ pc[r] = "close"
  /\ Rollback(r) /\ GoTo(r, "done")
  /\ UNCHANGED <<bypass, pool, body, token, user, committed, answer, faults>>

----
Statements == {"authenticate", "roles", "insertToken", "currentUser", "scope", "getUser",
               "selectRole", "insertUser", "insertRole", "insertTenant", "commit", "refresh"}

Fault == faults < MaxFaults /\ faults' = faults + 1

(* A statement raises: no connection in time, an error, or its connection   *)
(* is lost.                                                                 *)
StatementRaises(r) ==
  /\ Fault /\ pc[r] \in Statements
  /\ \E lost \in {{}, {conn[r]} \ {None}} : Return({r}, lost)
  /\ Raise(r, "500")
  /\ UNCHANGED <<bypass, pool, body, token, user, committed>>

(* The commit is done and its reply lost with the connection. *)
CommitReplyLost(r) ==
  /\ Fault /\ pc[r] = "commit"
  /\ \E c \in Conns : Takes(r, c) /\ Flushable(r, c) /\ Return({r}, {c})
  /\ committed' = [committed EXCEPT ![r] = @ \union Flushed(r)]
  /\ Raise(r, "500")
  /\ UNCHANGED <<bypass, pool, body, token, user>>

(* set_config(.., '') raises in the finally, which passes over it. *)
ClearScopeRaises(r) ==
  /\ Fault /\ pc[r] = "clear"
  /\ GoTo(r, "close")
  /\ UNCHANGED <<bypass, pool, setting, local, body, token, user, conn, written, committed, answer>>

Running == {r \in Requests : pc[r] \notin {"unsent", "done", "dead"}}

(* The process restarts: the requests it was serving have no answer. *)
Crash ==
  /\ Fault /\ Return(Running, Conns)
  /\ pc' = [r \in Requests |-> IF r \in Running THEN "dead" ELSE pc[r]]
  /\ UNCHANGED <<bypass, pool, body, token, user, committed, answer>>

Handle(r) ==
  \/ AuthenticateUser(r) \/ GetUserRoles(r) \/ InsertToken(r)
  \/ GetCurrentUser(r) \/ SetScope(r) \/ CheckPermission(r)
  \/ GetUser(r) \/ SelectRole(r) \/ InsertUser(r) \/ InsertRole(r) \/ InsertTenant(r)
  \/ Commit(r) \/ Refresh(r) \/ ClearScope(r) \/ Close(r)

Next ==
  \/ \E r \in Requests :
       Receive(r) \/ Handle(r) \/ StatementRaises(r) \/ CommitReplyLost(r) \/ ClearScopeRaises(r)
  \/ Crash

(* Connections, statements and the event loop serve every handler in turn.  *)
Spec == Init /\ [][Next]_vars /\ \A r \in Requests : WF_vars(Handle(r))

----
(* From set_config to the first commit, every statement of a scoped handler *)
(* runs on a connection that names the tenant of its token, whatever the    *)
(* requests before it left on it or do meanwhile on the others.             *)
ScopedUntilCommit ==
  \A r \in Requests :
    pc[r] \in {"permission", "getUser", "selectRole", "insertUser", "insertRole", "commit"}
    /\ body[r].endpoint \in Scoped =>
      conn[r] # None /\ local[conn[r]] = token[r].tenant

(* A user, its role and the audit log's entry are there together or not at  *)
(* all, through any failure; what is answered with success is there, and    *)
(* what is refused has left nothing.                                        *)
AnsweredAsCommitted ==
  \A r \in Requests :
    /\ body[r] # None => committed[r] \in {{}, RowsOf(body[r].endpoint)}
    /\ answer[r] = "ok" => committed[r] = RowsOf(body[r].endpoint)
    /\ answer[r] \in {"400", "401", "403"} => committed[r] = {}

Matches(u, r) == u.tenant = body[r].tenant /\ u.email = body[r].email
Ambiguous(u) == \E v \in Users : v # u /\ v.tenant = u.tenant /\ v.email = u.email

(* A login gives the token of an active user of that tenant, email and      *)
(* password, and refuses one only if it is hidden, or shares its email with *)
(* another of its tenant: nothing keeps create_user from making two.        *)
LoginOwn ==
  \A r \in Requests : body[r] # None /\ body[r].endpoint = "login" =>
    /\ answer[r] = "ok" => \E u \in Users :
         /\ Matches(u, r) /\ u.active /\ u.password = body[r].password
         /\ token[r].user = u.id /\ token[r].tenant = u.tenant
    /\ answer[r] = "401" /\ bypass => \A u \in OldUsers :
         Matches(u, r) /\ u.active /\ u.password = body[r].password => Ambiguous(u)

(* Rows are only written for a user of their tenant that holds a role with  *)
(* the permission, also by a token that a login issued in between.          *)
WritersPermitted ==
  \A r \in Requests : committed[r] # {} /\ body[r].endpoint # "login" =>
    /\ \E u \in Users : u.id = token[r].user /\ u.tenant = token[r].tenant /\ u.active
    /\ HasPermission(RolesOf(token[r].user, token[r].tenant), Required(body[r].endpoint))

(* Every request ends, although requests wait for each other's connections, *)
(* be there a single one, and for each other's slugs: none that holds a     *)
(* connection waits for another.                                            *)
RequestsEnd ==
  \A r \in Requests : (pc[r] # "unsent") ~> (pc[r] \in {"done", "dead"})

====
