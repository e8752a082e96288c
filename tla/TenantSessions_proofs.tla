---- MODULE TenantSessions_proofs ----
(***************************************************************************)
(* Proofs about TenantSessions, for any requests, connections, tenants,    *)
(* users and number of failures.                                           *)
(***************************************************************************)
EXTENDS TenantSessions, TLAPS

Shapes ==
  /\ bypass \in BOOLEAN /\ pool \in Pools
  /\ body \in [Requests -> Bodies \union {None}]
  /\ DOMAIN token = Requests /\ DOMAIN user = Requests
  /\ pc \in [Requests -> Pcs]
  /\ written \in [Requests -> SUBSET Tables] /\ committed \in [Requests -> SUBSET Tables]
  /\ answer \in [Requests -> Answers]
  /\ faults \in 0..MaxFaults

(* No two requests hold one connection, and one of the pool has no         *)
(* transaction of its own.                                                 *)
Pool ==
  /\ setting \in [Conns -> Settings] /\ local \in [Conns -> Settings]
  /\ conn \in [Requests -> Conns \union {None}]
  /\ \A r, q \in Requests : conn[r] = conn[q] /\ conn[r] # None => r = q
  /\ \A c \in Conns : (\A r \in Requests : conn[r] # c) => local[c] = setting[c]

(* Which endpoints a handler can be at a place of. *)
Place(r) ==
  /\ pc[r] = "unsent" <=> body[r] = None
  /\ pc[r] # "unsent" => body[r] \in Bodies /\ body[r].endpoint \in Endpoints
  /\ pc[r] \in {"authenticate", "roles", "insertToken"} => body[r].endpoint = "login"
  /\ pc[r] = "currentUser" => body[r].endpoint # "login"
  /\ pc[r] \in {"scope", "clear", "close"} => body[r].endpoint \in Scoped
  /\ pc[r] = "permission" => body[r].endpoint \in {"create_user", "create_tenant", "create_webhook"}
  /\ pc[r] = "getUser" => body[r].endpoint = "me"
  /\ pc[r] \in {"selectRole", "insertUser", "insertRole"} => body[r].endpoint = "create_user"
  /\ pc[r] = "insertTenant" => body[r].endpoint = "create_tenant"
  /\ pc[r] = "commit" => body[r].endpoint # "me"
  /\ pc[r] = "refresh" => body[r].endpoint = "create_webhook"

(* What it has inserted, committed and answered there. *)
Ledger(r) ==
  /\ pc[r] \notin {"refresh", "clear", "close", "done", "dead"} => committed[r] = {} /\ answer[r] = "none"
  /\ pc[r] \notin {"insertRole", "commit"} => written[r] = {}
  /\ pc[r] = "insertRole" => written[r] = {"users"}
  /\ pc[r] = "commit" => Flushed(r) = RowsOf(body[r].endpoint)
  /\ pc[r] = "refresh" => committed[r] = RowsOf(body[r].endpoint) /\ answer[r] = "none"
  /\ body[r] # None => committed[r] \in {{}, RowsOf(body[r].endpoint)}
  /\ answer[r] = "ok" => committed[r] = RowsOf(body[r].endpoint)
  /\ answer[r] \in {"400", "401", "403"} => committed[r] = {}

(* A token names roles its user has. *)
Genuine(r) ==
  token[r] \in [user : Ids, tenant : Tenants, roles : SUBSET RolesOf(token[r].user, token[r].tenant)]

Claimed(r) ==
  /\ token[r] = None \/ Genuine(r)
  /\ body[r] # None /\ body[r].endpoint # "login" =>
       /\ Genuine(r)
       /\ pc[r] \in {"scope", "permission", "selectRole", "insertUser", "insertRole",
                     "insertTenant", "commit"} \/ committed[r] # {} =>
            \E u \in Users : u.id = token[r].user /\ u.tenant = token[r].tenant /\ u.active
       /\ pc[r] \in {"selectRole", "insertUser", "insertRole", "insertTenant", "commit"}
            \/ committed[r] # {} =>
            Permitted(r)

(* A login knows its user, and refuses one only for a reason. *)
Excused(r) == \A u \in OldUsers :
  Matches(u, r) /\ u.active /\ u.password = body[r].password => Ambiguous(u)

Found(r) ==
  /\ user[r] = None \/ user[r] \in Users
  /\ body[r] # None /\ body[r].endpoint = "login" =>
       /\ pc[r] \in {"roles", "insertToken", "commit"} \/ answer[r] = "ok" =>
            /\ user[r] \in Users /\ Matches(user[r], r)
            /\ user[r].active /\ user[r].password = body[r].password
       /\ pc[r] \in {"insertToken", "commit"} \/ answer[r] = "ok" =>
            Genuine(r) /\ token[r].user = user[r].id /\ token[r].tenant = user[r].tenant
       /\ answer[r] = "401" /\ bypass => Excused(r)

Confined(r) ==
  pc[r] \in {"permission", "getUser", "selectRole", "insertUser", "insertRole", "commit"}
  /\ body[r].endpoint \in Scoped =>
    conn[r] # None /\ local[conn[r]] = token[r].tenant

Handled(r) == Place(r) /\ Ledger(r) /\ Claimed(r) /\ Found(r)

IInv == Shapes /\ Pool /\ \A r \in Requests : Handled(r) /\ Confined(r)

LEMMA RowsAre ==
  /\ RowsOf("login") = {"refresh_tokens"} /\ RowsOf("create_user") = {"users", "user_roles", "audit_logs"}
  /\ RowsOf("create_tenant") = {"tenants"} /\ RowsOf("create_webhook") = {"webhook_configs"}
  /\ RowsOf("me") = {}
  /\ \A e \in Endpoints : RowsOf(e) \subseteq Tables
BY DEF RowsOf, UserTables, Tables, Endpoints

----
(* Tables grow, and requests that do not act stay as they are.             *)
Same(q) ==
  /\ body'[q] = body[q] /\ token'[q] = token[q] /\ user'[q] = user[q] /\ pc'[q] = pc[q]
  /\ written'[q] = written[q] /\ committed'[q] = committed[q] /\ answer'[q] = answer[q]

Grown == Users \subseteq Users' /\ UserRoles \subseteq UserRoles'

(* What r may do to the tables. *)
Acts(r) ==
  /\ UNCHANGED <<bypass, pool>>
  /\ \A q \in Requests \ {r} : Same(q)
  /\ committed[r] \subseteq committed'[r]
  /\ (body'[r] = body[r] /\ token'[r] = token[r]) \/ committed[r] = {}

LEMMA TablesGrow ==
  ASSUME \A q \in Requests : committed[q] \subseteq committed'[q],
         \A q \in Requests : (body'[q] = body[q] /\ token'[q] = token[q]) \/ committed[q] = {}
  PROVE  Grown
<1>1. ASSUME NEW q \in Requests, NEW table, table \in committed[q]
      PROVE  table \in committed'[q] /\ body'[q] = body[q] /\ token'[q] = token[q]
  BY <1>1
<1>2. Users \subseteq Users'
  <2> SUFFICES ASSUME NEW u \in Users PROVE u \in Users'
    OBVIOUS
  <2>1. CASE u \in OldUsers
    BY <2>1 DEF Users
  <2>2. CASE u \notin OldUsers
    <3>1. PICK q \in Requests : "users" \in committed[q] /\ u = NewUser(q)
      BY <2>2 DEF Users, Having
    <3>2. "users" \in committed'[q] /\ body'[q] = body[q] /\ token'[q] = token[q]
      BY <1>1, <3>1
    <3>3. u = NewUser(q)'
      BY <3>1, <3>2 DEF NewUser
    <3> QED BY <3>2, <3>3 DEF Users, Having
  <2> QED BY <2>1, <2>2
<1>3. UserRoles \subseteq UserRoles'
  <2> SUFFICES ASSUME NEW x \in UserRoles PROVE x \in UserRoles'
    OBVIOUS
  <2>1. CASE x \in OldRoles
    BY <2>1 DEF UserRoles
  <2>2. CASE x \notin OldRoles
    <3>1. PICK q \in Requests : "user_roles" \in committed[q] /\ x = NewRole(q)
      BY <2>2 DEF UserRoles, Having
    <3>2. "user_roles" \in committed'[q] /\ body'[q] = body[q] /\ token'[q] = token[q]
      BY <1>1, <3>1
    <3>3. x = NewRole(q)'
      BY <3>1, <3>2 DEF NewRole
    <3> QED BY <3>2, <3>3 DEF UserRoles, Having
  <2> QED BY <2>1, <2>2
<1> QED BY <1>2, <1>3 DEF Grown

LEMMA RolesGrow ==
  ASSUME Grown, NEW u, NEW t
  PROVE  RolesOf(u, t) \subseteq RolesOf(u, t)'
BY DEF Grown, RolesOf

LEMMA GenuineStays ==
  ASSUME Grown, NEW q \in Requests, token'[q] = token[q], Genuine(q)
  PROVE  Genuine(q)'
<1>1. PICK t : t = token[q]
  OBVIOUS
<1>2. RolesOf(t.user, t.tenant) \subseteq RolesOf(t.user, t.tenant)'
  BY RolesGrow
<1>3. t \in [user : Ids, tenant : Tenants, roles : SUBSET RolesOf(t.user, t.tenant)]
  BY <1>1 DEF Genuine
<1>4. t \in [user : Ids, tenant : Tenants, roles : SUBSET RolesOf(t.user, t.tenant)']
  BY <1>2, <1>3
<1> QED BY <1>1, <1>4 DEF Genuine, RolesOf

LEMMA ExcusedStays ==
  ASSUME Grown, NEW q \in Requests, body'[q] = body[q], Excused(q)
  PROVE  Excused(q)'
BY DEF Grown, Excused, Ambiguous, Matches

LEMMA BystanderHandled ==
  ASSUME Grown, UNCHANGED <<bypass, pool>>, NEW q \in Requests, Same(q), Handled(q)
  PROVE  Handled(q)'
<1>1. Place(q)'
  BY DEF Handled, Place, Same
<1>2. Ledger(q)'
  BY DEF Handled, Ledger, Flushed, Same
<1>3. Claimed(q)'
  <2>1. Genuine(q) => Genuine(q)'
    BY GenuineStays DEF Same
  <2>2. Permitted(q) => Permitted(q)'
    BY DEF Permitted, Same
  <2>3. Users \subseteq Users'
    BY DEF Grown
  <2> QED BY <2>1, <2>2, <2>3 DEF Handled, Claimed, Same
<1>4. Found(q)'
  <2>1. Genuine(q) => Genuine(q)'
    BY GenuineStays DEF Same
  <2>2. Excused(q) => Excused(q)'
    BY ExcusedStays DEF Same
  <2>3. Users \subseteq Users'
    BY DEF Grown
  <2> QED BY <2>1, <2>2, <2>3 DEF Handled, Found, Same, Matches
<1> QED BY <1>1, <1>2, <1>3, <1>4 DEF Handled

LEMMA ActsGrow ==
  ASSUME NEW r \in Requests, Acts(r)
  PROVE  Grown
<1>1. \A q \in Requests : committed[q] \subseteq committed'[q]
  BY DEF Acts, Same
<1>2. \A q \in Requests : (body'[q] = body[q] /\ token'[q] = token[q]) \/ committed[q] = {}
  BY DEF Acts, Same
<1> QED BY <1>1, <1>2, TablesGrow

----
(* Connections: what r does with its own leaves those of the others alone. *)
Moves(r) ==
  \A q \in Requests \ {r} :
    conn'[q] = conn[q] /\ (conn[q] # None => local'[conn[q]] = local[conn[q]])

LEMMA PoolRests ==
  ASSUME Pool, NEW r \in Requests, UNCHANGED <<setting, local, conn>>
  PROVE  Pool' /\ Moves(r)
BY DEF Pool, Moves

LEMMA PoolHolds ==
  ASSUME Pool, NEW r \in Requests, NEW c \in Conns, Takes(r, c), Hold(r, c), setting' = setting,
         local' = local \/ \E t \in Settings : local' = [local EXCEPT ![c] = t]
  PROVE  Pool' /\ Moves(r) /\ conn'[r] = c /\ (conn[r] # None => c = conn[r])
<1>1. conn' \in [Requests -> Conns \union {None}] /\ conn'[r] = c /\ \A q \in Requests \ {r} : conn'[q] = conn[q]
  BY DEF Pool, Hold
<1>2. \A q \in Requests \ {r} : conn[q] # c
  BY SessionsAssumption DEF Takes, Idle, Pool
<1>3. local' \in [Conns -> Settings] /\ \A d \in Conns \ {c} : local'[d] = local[d]
  BY DEF Pool
<1>4. \A q, p \in Requests : conn'[q] = conn'[p] /\ conn'[q] # None => q = p
  BY <1>1, <1>2 DEF Pool
<1>5. \A d \in Conns : (\A q \in Requests : conn'[q] # d) => local'[d] = setting'[d]
  <2> SUFFICES ASSUME NEW d \in Conns, \A q \in Requests : conn'[q] # d PROVE local'[d] = setting'[d]
    OBVIOUS
  <2>1. d # c
    BY <1>1
  <2>2. \A q \in Requests : conn[q] # d
    BY <1>1, <2>1, SessionsAssumption DEF Takes
  <2> QED BY <1>3, <2>1, <2>2 DEF Pool
<1>6. Moves(r)
  BY <1>1, <1>2, <1>3 DEF Moves, Pool
<1> QED BY <1>1, <1>3, <1>4, <1>5, <1>6 DEF Pool, Takes

LEMMA PoolReturns ==
  ASSUME Pool, NEW r \in Requests, NEW lost \in SUBSET Conns, Return({r}, lost),
         \A c \in lost : c = conn[r] \/ Idle(c)
  PROVE  Pool' /\ Moves(r)
<1>1. /\ setting' = [c \in Conns |-> IF c \in lost THEN None ELSE setting[c]]
      /\ local' = [c \in Conns |-> IF c \in lost THEN None
                                   ELSE IF conn[r] = c THEN setting[c] ELSE local[c]]
      /\ conn' = [q \in Requests |-> IF q = r THEN None ELSE conn[q]]
  BY DEF Return
<1>2. setting' \in [Conns -> Settings] /\ local' \in [Conns -> Settings]
  BY <1>1 DEF Pool, Settings
<1>3. conn' \in [Requests -> Conns \union {None}]
  BY <1>1 DEF Pool
<1>4. \A q, p \in Requests : conn'[q] = conn'[p] /\ conn'[q] # None => q = p
  BY <1>1 DEF Pool
<1>5. \A c \in Conns : (\A q \in Requests : conn'[q] # c) => local'[c] = setting'[c]
  BY <1>1 DEF Pool
<1>6. Moves(r)
  <2> SUFFICES ASSUME NEW q \in Requests \ {r}
               PROVE  conn'[q] = conn[q] /\ (conn[q] # None => local'[conn[q]] = local[conn[q]])
    BY DEF Moves
  <2>1. conn[q] # None => conn[q] # conn[r] /\ conn[q] \notin lost /\ conn[q] \in Conns
    BY DEF Pool, Idle
  <2> QED BY <1>1, <2>1
<1> QED BY <1>2, <1>3, <1>4, <1>5, <1>6 DEF Pool

LEMMA PoolCommits ==
  ASSUME Pool, NEW r \in Requests, NEW c \in Conns, Takes(r, c), local' = local,
         setting' = [setting EXCEPT ![c] = local[c]], conn' = [conn EXCEPT ![r] = None]
  PROVE  Pool' /\ Moves(r)
<1>1. setting' \in [Conns -> Settings] /\ setting'[c] = local[c] /\ \A d \in Conns \ {c} : setting'[d] = setting[d]
  BY DEF Pool
<1>2. conn' \in [Requests -> Conns \union {None}] /\ conn'[r] = None /\ \A q \in Requests \ {r} : conn'[q] = conn[q]
  BY DEF Pool
<1>3. \A q, p \in Requests : conn'[q] = conn'[p] /\ conn'[q] # None => q = p
  BY <1>2 DEF Pool
<1>4. \A d \in Conns : (\A q \in Requests : conn'[q] # d) => local'[d] = setting'[d]
  <2> SUFFICES ASSUME NEW d \in Conns, \A q \in Requests : conn'[q] # d, d # c PROVE local'[d] = setting'[d]
    BY <1>1
  <2>1. \A q \in Requests : conn[q] # d
    BY <1>2, SessionsAssumption DEF Takes
  <2> QED BY <1>1, <2>1 DEF Pool
<1> QED BY <1>1, <1>2, <1>3, <1>4 DEF Pool, Moves

(* A step of r: what remains to show is about r alone. *)
LEMMA StepInv ==
  ASSUME IInv, NEW r \in Requests, Acts(r), Moves(r), Shapes', Pool', Handled(r)', Confined(r)'
  PROVE  IInv'
<1>1. Grown
  BY ActsGrow
<1>2. ASSUME NEW q \in Requests \ {r}
      PROVE  Handled(q)' /\ Confined(q)'
  <2>1. Same(q) /\ UNCHANGED <<bypass, pool>> /\ Handled(q) /\ Confined(q)
    BY DEF Acts, IInv
  <2>2. Handled(q)'
    BY <1>1, <2>1, BystanderHandled
  <2>3. conn'[q] = conn[q] /\ (conn[q] # None => local'[conn[q]] = local[conn[q]])
    BY DEF Moves
  <2>4. Confined(q)'
    BY <2>1, <2>3 DEF Confined, Same
  <2> QED BY <2>2, <2>4
<1> QED BY <1>2 DEF IInv

----
(* One lemma per way to leave a statement, then one per action.            *)

(* The values at r of what has been assigned. *)
LEMMA RequestFacts ==
  ASSUME IInv, NEW r \in Requests
  PROVE  /\ Shapes /\ Pool /\ Place(r) /\ Ledger(r) /\ Claimed(r) /\ Found(r) /\ Confined(r)
         /\ body[r] # None => body[r] \in Bodies /\ body[r].endpoint \in Endpoints
         /\ pc[r] # "unsent" => body[r] # None
BY DEF IInv, Handled, Place

LEMMA PlainActs ==
  ASSUME IInv, NEW r \in Requests, NEW where \in Pcs, GoTo(r, where), UNCHANGED <<bypass, pool>>,
         body' = body, committed' = committed,
         user' = user \/ \E u : user' = [user EXCEPT ![r] = u],
         token' = token \/ (committed[r] = {} /\ \E t : token' = [token EXCEPT ![r] = t]),
         written' = written \/ \E w \in SUBSET Tables : written' = [written EXCEPT ![r] = w],
         answer' = answer \/ \E a \in Answers : answer' = [answer EXCEPT ![r] = a],
         faults' \in 0..MaxFaults
  PROVE  /\ Shapes' /\ Acts(r) /\ pc'[r] = where
<1>1. Shapes
  BY DEF IInv
<1>2. pc' \in [Requests -> Pcs] /\ pc'[r] = where /\ \A q \in Requests \ {r} : pc'[q] = pc[q]
  BY <1>1 DEF Shapes, GoTo
<1>3. DOMAIN user' = Requests /\ \A q \in Requests \ {r} : user'[q] = user[q]
  BY <1>1 DEF Shapes
<1>4. DOMAIN token' = Requests /\ \A q \in Requests \ {r} : token'[q] = token[q]
  BY <1>1 DEF Shapes
<1>5. written' \in [Requests -> SUBSET Tables] /\ \A q \in Requests \ {r} : written'[q] = written[q]
  BY <1>1 DEF Shapes
<1>6. answer' \in [Requests -> Answers] /\ \A q \in Requests \ {r} : answer'[q] = answer[q]
  BY <1>1 DEF Shapes
<1>7. Shapes'
  BY <1>1, <1>2, <1>3, <1>4, <1>5, <1>6 DEF Shapes
<1>8. Acts(r)
  BY <1>2, <1>3, <1>4, <1>5, <1>6 DEF Acts, Same
<1> QED BY <1>2, <1>7, <1>8

(* A handler that has failed: its transaction is rolled back, or the reply *)
(* to its commit was lost.                                                 *)
LEMMA EndsInv ==
  ASSUME IInv, NEW r \in Requests, pc[r] \in Statements \union {"permission"},
         NEW code \in Answers \ {"none", "ok"}, Raise(r, code),
         NEW lost \in SUBSET Conns, Return({r}, lost), \A c \in lost : c = conn[r] \/ Idle(c),
         UNCHANGED <<bypass, pool, body, token, user>>, faults' \in 0..MaxFaults,
         \/ committed' = committed /\ (code # "500" => pc[r] # "refresh")
         \/ /\ pc[r] = "commit" /\ code = "500"
            /\ committed' = [committed EXCEPT ![r] = @ \union Flushed(r)],
         code = "401" /\ body[r].endpoint = "login" /\ bypass => Excused(r)
  PROVE  IInv'
<1>1. /\ Shapes /\ Pool /\ Place(r) /\ Ledger(r) /\ Claimed(r) /\ Found(r)
      /\ body[r] # None /\ body[r].endpoint \in Endpoints
  BY RequestFacts DEF Statements
<1>2. /\ pc' \in [Requests -> Pcs]
      /\ pc'[r] = IF Entered(r) THEN "clear" ELSE "done"
      /\ \A q \in Requests \ {r} : pc'[q] = pc[q]
  BY <1>1 DEF Raise, GoTo, Shapes, Pcs
<1>3. answer' \in [Requests -> Answers] /\ answer'[r] = code /\ \A q \in Requests \ {r} : answer'[q] = answer[q]
  BY <1>1 DEF Raise, Reply, Shapes
<1>4. /\ written' \in [Requests -> SUBSET Tables] /\ written'[r] = {}
      /\ \A q \in Requests \ {r} : written'[q] = written[q]
  BY <1>1 DEF Return, Shapes
<1>5. /\ committed' \in [Requests -> SUBSET Tables] /\ committed[r] \subseteq committed'[r]
      /\ committed'[r] \in {{}, RowsOf(body[r].endpoint)}
      /\ code # "500" => committed'[r] = {}
      /\ committed'[r] = committed[r] \/ (pc[r] = "commit" /\ committed'[r] # {})
      /\ \A q \in Requests \ {r} : committed'[q] = committed[q]
  <2>1. CASE committed' = committed /\ (code # "500" => pc[r] # "refresh")
    BY <1>1, <2>1 DEF Shapes, Ledger, Statements
  <2>2. CASE /\ pc[r] = "commit" /\ code = "500"
             /\ committed' = [committed EXCEPT ![r] = @ \union Flushed(r)]
    <3>1. committed[r] = {} /\ Flushed(r) = RowsOf(body[r].endpoint) /\ RowsOf(body[r].endpoint) \subseteq Tables
      BY <1>1, <2>2, RowsAre DEF Ledger
    <3>2. committed'[r] = RowsOf(body[r].endpoint)
      BY <1>1, <2>2, <3>1 DEF Shapes
    <3>3. committed' \in [Requests -> SUBSET Tables]
      BY <1>1, <2>2, <3>1 DEF Shapes
    <3> QED BY <1>1, <2>2, <3>1, <3>2, <3>3 DEF Shapes
  <2> QED BY <2>1, <2>2
<1>6. Shapes'
  BY <1>1, <1>2, <1>3, <1>4, <1>5 DEF Shapes
<1>7. Acts(r)
  BY <1>2, <1>3, <1>4, <1>5 DEF Acts, Same
<1>8. Grown
  BY <1>7, ActsGrow
<1>9. Pool' /\ Moves(r)
  BY <1>1, PoolReturns
<1>10. Place(r)'
  <2>1. pc'[r] = "clear" => body[r].endpoint \in Scoped
    BY <1>2 DEF Entered
  <2> QED BY <1>1, <1>2, <2>1 DEF Place
<1>11. Ledger(r)'
  <2>1. pc'[r] \in {"clear", "done"} /\ body'[r] = body[r]
    BY <1>2
  <2>2. code # "ok" /\ code # "none" /\ code \in Answers
    OBVIOUS
  <2> QED BY <1>1, <1>3, <1>4, <1>5, <2>1, <2>2 DEF Ledger
<1>12. Claimed(r)'
  <2>1. Genuine(r) => Genuine(r)'
    BY <1>8, GenuineStays
  <2>2. Permitted(r) => Permitted(r)'
    BY DEF Permitted
  <2>3. Users \subseteq Users'
    BY <1>8 DEF Grown
  <2>4. body'[r] = body[r] /\ token'[r] = token[r] /\ pc'[r] \in {"clear", "done"}
    BY <1>2
  <2>5. committed'[r] # {} => committed[r] # {} \/ pc[r] = "commit"
    BY <1>5
  <2> QED BY <1>1, <2>1, <2>2, <2>3, <2>4, <2>5 DEF Claimed
<1>13. Found(r)'
  <2>1. Excused(r) => Excused(r)'
    BY <1>8, ExcusedStays
  <2>2. Users \subseteq Users'
    BY <1>8 DEF Grown
  <2>3. pc'[r] \in {"clear", "done"} /\ user'[r] = user[r] /\ body'[r] = body[r] /\ UNCHANGED <<bypass, pool>>
    BY <1>2
  <2> QED BY <1>1, <1>3, <2>1, <2>2, <2>3 DEF Found
<1>14. Confined(r)'
  BY <1>2 DEF Confined
<1> QED BY <1>6, <1>7, <1>9, <1>10, <1>11, <1>12, <1>13, <1>14, StepInv DEF Handled

LEMMA RefuseInv ==
  ASSUME IInv, NEW r \in Requests, pc[r] \in Statements \union {"permission"},
         NEW code \in {"400", "401", "403", "500"}, Refuse(r, code),
         code # "500" => pc[r] # "refresh",
         code = "401" /\ body[r].endpoint = "login" /\ bypass => Excused(r)
  PROVE  IInv'
<1>1. code \in Answers \ {"none", "ok"}
  BY DEF Answers
<1>2. Raise(r, code) /\ Return({r}, {}) /\ UNCHANGED <<bypass, pool, body, token, user, committed, faults>>
  BY DEF Refuse, Rollback
<1>3. faults' \in 0..MaxFaults
  BY <1>2 DEF IInv, Shapes
<1>4. {} \in SUBSET Conns /\ \A c \in {} : c = conn[r] \/ Idle(c)
  OBVIOUS
<1> QED BY <1>1, <1>2, <1>3, <1>4, EndsInv

LEMMA FaultInv ==
  ASSUME IInv, NEW r \in Requests, StatementRaises(r) \/ CommitReplyLost(r) \/ ClearScopeRaises(r)
  PROVE  IInv'
<1>1. "500" \in Answers \ {"none", "ok"} /\ faults' \in 0..MaxFaults
  <2>1. faults \in 0..MaxFaults /\ MaxFaults \in Nat /\ Fault
    BY SessionsAssumption DEF IInv, Shapes, StatementRaises, CommitReplyLost, ClearScopeRaises
  <2> QED BY <2>1 DEF Fault, Answers
<1>2. conn[r] \in Conns \union {None}
  BY DEF IInv, Pool
<1>3. CASE StatementRaises(r)
  <2>1. PICK lost \in {{}, {conn[r]} \ {None}} : Return({r}, lost)
    BY <1>3 DEF StatementRaises
  <2>2. lost \in SUBSET Conns /\ \A c \in lost : c = conn[r] \/ Idle(c)
    BY <1>2
  <2>3. pc[r] \in Statements /\ Raise(r, "500") /\ UNCHANGED <<bypass, pool, body, token, user, committed>>
    BY <1>3 DEF StatementRaises
  <2> QED BY <1>1, <2>1, <2>2, <2>3, EndsInv
<1>4. CASE CommitReplyLost(r)
  <2>1. PICK c \in Conns : Takes(r, c) /\ Return({r}, {c})
    BY <1>4 DEF CommitReplyLost
  <2>2. {c} \in SUBSET Conns /\ \A d \in {c} : d = conn[r] \/ Idle(d)
    BY <2>1 DEF Takes
  <2>3. /\ pc[r] = "commit" /\ Raise(r, "500") /\ UNCHANGED <<bypass, pool, body, token, user>>
        /\ committed' = [committed EXCEPT ![r] = @ \union Flushed(r)]
    BY <1>4 DEF CommitReplyLost
  <2>4. pc[r] \in Statements \union {"permission"}
    BY <2>3 DEF Statements
  <2> QED BY <1>1, <2>1, <2>2, <2>3, <2>4, EndsInv
<1>5. CASE ClearScopeRaises(r)
  <2>1. /\ pc[r] = "clear" /\ GoTo(r, "close")
        /\ UNCHANGED <<bypass, pool, setting, local, body, token, user, conn, written, committed, answer>>
    BY <1>5 DEF ClearScopeRaises
  <2>2. Shapes' /\ Acts(r) /\ pc'[r] = "close"
    <3>1. "close" \in Pcs
      BY DEF Pcs
    <3> QED BY <1>1, <2>1, <3>1, PlainActs
  <2>3. Pool' /\ Moves(r)
    BY <2>1, PoolRests DEF IInv
  <2>4. Grown
    BY <2>2, ActsGrow
  <2>5. Place(r) /\ Ledger(r) /\ Claimed(r) /\ Found(r)
    BY RequestFacts
  <2>6. Place(r)' /\ Ledger(r)'
    BY <2>1, <2>2, <2>5 DEF Place, Ledger
  <2>7. Claimed(r)'
    BY <2>1, <2>2, <2>4, <2>5, GenuineStays DEF Claimed, Grown, Permitted
  <2>8. Found(r)'
    BY <2>1, <2>2, <2>4, <2>5, GenuineStays, ExcusedStays DEF Found, Grown, Matches
  <2>9. Confined(r)'
    BY <2>2 DEF Confined
  <2> QED BY <2>2, <2>3, <2>6, <2>7, <2>8, <2>9, StepInv DEF Handled
<1> QED BY <1>3, <1>4, <1>5

(* A handler goes on with what it knows; a login has no more to find then. *)
LEMMA GoesOnInv ==
  ASSUME IInv, NEW r \in Requests, NEW where \in Pcs, GoTo(r, where),
         UNCHANGED <<bypass, pool, body, token, user, committed, faults>>,
         written' = written \/ \E w \in SUBSET Tables : written' = [written EXCEPT ![r] = w],
         answer' = answer \/ (Reply(r, "ok") /\ body[r].endpoint # "login"),
         Pool', Moves(r), Place(r)', Ledger(r)', Confined(r)',
         body[r] # None /\ body[r].endpoint # "login" =>
           /\ where \in {"scope", "permission", "selectRole", "insertUser", "insertRole",
                         "insertTenant", "commit"} =>
                \E u \in Users : u.id = token[r].user /\ u.tenant = token[r].tenant /\ u.active
           /\ where \in {"selectRole", "insertUser", "insertRole", "insertTenant", "commit"} =>
                Permitted(r),
         body[r] # None /\ body[r].endpoint = "login" =>
           where \notin {"roles", "insertToken"} /\ (where = "commit" => pc[r] = "insertToken")
  PROVE  IInv'
<1>1. Claimed(r) /\ Found(r) /\ Shapes
  BY RequestFacts
<1>2. Shapes' /\ Acts(r) /\ pc'[r] = where
  <2>1. faults' \in 0..MaxFaults /\ "ok" \in Answers
    BY <1>1 DEF Shapes, Answers
  <2>2. answer' = answer \/ \E a \in Answers : answer' = [answer EXCEPT ![r] = a]
    BY <2>1 DEF Reply
  <2> QED BY <2>1, <2>2, PlainActs
<1>3. Grown
  BY <1>2, ActsGrow
<1>4. /\ body'[r] = body[r] /\ token'[r] = token[r] /\ user'[r] = user[r]
      /\ committed'[r] = committed[r] /\ UNCHANGED <<bypass, pool>>
      /\ Users \subseteq Users'
  BY <1>3 DEF Grown
<1>5. (Genuine(r) => Genuine(r)') /\ (Excused(r) => Excused(r)') /\ (Permitted(r) => Permitted(r)')
  BY <1>3, GenuineStays, ExcusedStays DEF Permitted
<1>6. Claimed(r)'
  BY <1>1, <1>2, <1>4, <1>5 DEF Claimed
<1>7. body[r].endpoint = "login" => answer'[r] = answer[r]
  OBVIOUS
<1>8. Found(r)'
  BY <1>1, <1>2, <1>4, <1>5, <1>7 DEF Found, Matches
<1> QED BY <1>2, <1>6, <1>8, StepInv DEF Handled

LEMMA WrittenAtR ==
  ASSUME IInv, NEW r \in Requests, NEW table \in Tables, Insert(r, table)
  PROVE  /\ \E w \in SUBSET Tables : written' = [written EXCEPT ![r] = w]
         /\ written'[r] = written[r] \union {table}
BY DEF IInv, Shapes, Insert

LEMMA PcsAre == \A p \in Statements \union {"permission", "clear", "close", "done", "dead"} : p \in Pcs
BY DEF Statements, Pcs

LEMMA TablesAre ==
  /\ "refresh_tokens" \in Tables /\ "users" \in Tables /\ "user_roles" \in Tables /\ "tenants" \in Tables
BY RowsAre DEF Endpoints

LEMMA UsersTyped ==
  ASSUME IInv, NEW u \in Users
  PROVE  u.id \in Ids /\ u.tenant \in Tenants
<1>1. CASE u \in OldUsers
  BY <1>1, SessionsAssumption DEF Ids
<1>2. CASE u \notin OldUsers
  <2>1. PICK q \in Requests : "users" \in committed[q] /\ u = NewUser(q)
    BY <1>2 DEF Users, Having
  <2>2. Place(q) /\ Ledger(q) /\ Claimed(q)
    BY RequestFacts
  <2>3. body[q] # None /\ body[q].endpoint \in Endpoints
    BY <2>1, <2>2 DEF Place, Ledger
  <2>4. "users" \in RowsOf(body[q].endpoint)
    BY <2>1, <2>2, <2>3 DEF Ledger
  <2>5. body[q].endpoint # "login"
    BY <2>4, RowsAre
  <2>6. token[q].tenant \in Tenants
    BY <2>2, <2>3, <2>5 DEF Claimed, Genuine
  <2> QED BY <2>1, <2>6 DEF NewUser, Ids
<1> QED BY <1>1, <1>2

LEMMA IssuedGenuine ==
  ASSUME IInv, NEW t \in Issued
  PROVE  t \in [user : Ids, tenant : Tenants, roles : SUBSET RolesOf(t.user, t.tenant)]
<1>1. CASE t \in OldTokens
  <2>1. PICK u \in OldUsers : t = Claims(u, {x.role : x \in {y \in OldRoles : y.user = u.id}})
    BY <1>1 DEF OldTokens
  <2>2. u.id \in Ids /\ u.tenant \in Tenants
    BY SessionsAssumption DEF Ids
  <2>3. \A x \in OldRoles : x.user = u.id => x.tenant = u.tenant
    BY SessionsAssumption
  <2>4. {x.role : x \in {y \in OldRoles : y.user = u.id}} \subseteq RolesOf(u.id, u.tenant)
    BY <2>3 DEF RolesOf, UserRoles
  <2> QED BY <2>1, <2>2, <2>4 DEF Claims
<1>2. CASE t \notin OldTokens
  <2>1. PICK q \in Requests : LoggedIn(q) /\ t = token[q]
    BY <1>2 DEF Issued
  <2>2. Found(q)
    BY RequestFacts
  <2> QED BY <2>1, <2>2 DEF Found, Genuine, LoggedIn
<1> QED BY <1>1, <1>2

LEMMA ReceiveInv ==
  ASSUME IInv, NEW r \in Requests, Receive(r)
  PROVE  IInv'
<1>1. PICK b \in Bodies :
        /\ body' = [body EXCEPT ![r] = b]
        /\ IF b.endpoint = "login"
           THEN GoTo(r, "authenticate") /\ UNCHANGED token
           ELSE GoTo(r, "currentUser") /\ \E t \in Issued : token' = [token EXCEPT ![r] = t]
  BY DEF Receive
<1>2. /\ pc[r] = "unsent"
      /\ UNCHANGED <<bypass, pool, setting, local, user, conn, written, committed, answer, faults>>
  BY DEF Receive
<1>3. Shapes /\ Pool /\ Place(r) /\ Ledger(r) /\ Claimed(r) /\ Found(r)
  BY RequestFacts
<1>4. b.endpoint \in Endpoints /\ b # None
  BY SessionsAssumption
<1>5. body' \in [Requests -> Bodies \union {None}] /\ body'[r] = b /\ \A q \in Requests \ {r} : body'[q] = body[q]
  BY <1>1, <1>3 DEF Shapes
<1>6. committed[r] = {} /\ answer[r] = "none" /\ written[r] = {}
  BY <1>2, <1>3 DEF Ledger
<1>7. /\ pc' \in [Requests -> Pcs] /\ \A q \in Requests \ {r} : pc'[q] = pc[q]
      /\ pc'[r] = IF b.endpoint = "login" THEN "authenticate" ELSE "currentUser"
  BY <1>1, <1>3 DEF Shapes, GoTo, Pcs
<1>8. /\ DOMAIN token' = Requests /\ \A q \in Requests \ {r} : token'[q] = token[q]
      /\ IF b.endpoint = "login" THEN token'[r] = token[r] ELSE token'[r] \in Issued
  BY <1>1, <1>3 DEF Shapes
<1>9. Shapes'
  BY <1>2, <1>3, <1>5, <1>7, <1>8 DEF Shapes
<1>10. Acts(r)
  BY <1>2, <1>5, <1>6, <1>7, <1>8 DEF Acts, Same
<1>11. Grown
  BY <1>10, ActsGrow
<1>12. Pool' /\ Moves(r)
  BY <1>2, <1>3, PoolRests
<1>13. Place(r)'
  BY <1>4, <1>5, <1>7 DEF Place
<1>14. Ledger(r)'
  BY <1>2, <1>6, <1>7 DEF Ledger
<1>15. Claimed(r)'
  <2>1. CASE b.endpoint = "login"
    BY <2>1, <1>3, <1>5, <1>8, <1>11, GenuineStays DEF Claimed
  <2>2. CASE b.endpoint # "login"
    <3>1. PICK t \in Issued : token'[r] = t
      BY <2>2, <1>8
    <3>2. t \in [user : Ids, tenant : Tenants, roles : SUBSET RolesOf(t.user, t.tenant)]
      BY <3>1, IssuedGenuine
    <3>3. RolesOf(t.user, t.tenant) \subseteq RolesOf(t.user, t.tenant)'
      BY <1>11, RolesGrow
    <3>4. t \in [user : Ids, tenant : Tenants, roles : SUBSET RolesOf(t.user, t.tenant)']
      BY <3>2, <3>3
    <3>5. Genuine(r)'
      BY <3>1, <3>4 DEF Genuine, RolesOf
    <3> QED BY <2>2, <3>5, <1>2, <1>5, <1>6, <1>7 DEF Claimed
  <2> QED BY <2>1, <2>2
<1>16. Found(r)'
  BY <1>2, <1>3, <1>5, <1>6, <1>7, <1>11 DEF Found, Grown
<1>17. Confined(r)'
  BY <1>7 DEF Confined
<1> QED BY <1>9, <1>10, <1>12, <1>13, <1>14, <1>15, <1>16, <1>17, StepInv DEF Handled

LEMMA AuthenticateInv ==
  ASSUME IInv, NEW r \in Requests, AuthenticateUser(r)
  PROVE  IInv'
<1>1. pc[r] = "authenticate" /\ pc[r] \in Statements \union {"permission"}
  BY DEF AuthenticateUser, Statements
<1>2. /\ Shapes /\ Pool /\ Place(r) /\ Ledger(r) /\ Claimed(r) /\ Found(r)
      /\ body[r] # None /\ body[r].endpoint = "login"
  BY <1>1, RequestFacts DEF Place
<1>3. PICK c \in Conns :
        /\ Takes(r, c)
        /\ \/ \E u \in Candidates(r, c) :
               /\ u.password = body[r].password
               /\ user' = [user EXCEPT ![r] = u]
               /\ Hold(r, c) /\ GoTo(r, "roles")
               /\ UNCHANGED <<request, local, token, written, answer>>
           \/ /\ Candidates(r, c) = {} \/ \E u \in Candidates(r, c) : u.password # body[r].password
              /\ Refuse(r, "401")
           \/ Refuse(r, "500")
  BY DEF AuthenticateUser
<1>4. ASSUME NEW u \in Candidates(r, c), u.password = body[r].password,
             user' = [user EXCEPT ![r] = u], Hold(r, c), GoTo(r, "roles"),
             UNCHANGED <<request, local, token, written, answer>>
      PROVE  IInv'
  <2>1. UNCHANGED <<bypass, pool, setting, body, committed, faults>>
    BY <1>4 DEF request
  <2>2. faults' \in 0..MaxFaults /\ "roles" \in Pcs
    BY <1>2, <2>1 DEF Shapes, Pcs
  <2>3. Shapes' /\ Acts(r) /\ pc'[r] = "roles"
    BY <1>4, <2>1, <2>2, PlainActs
  <2>4. Pool' /\ Moves(r)
    BY <1>2, <1>3, <1>4, <2>1, PoolHolds
  <2>5. Grown
    BY <2>3, ActsGrow
  <2>6. u \in Users /\ Matches(u, r) /\ u.active /\ user'[r] = u
    BY <1>2, <1>4 DEF Candidates, Matches, Shapes
  <2>7. Place(r)' /\ Ledger(r)'
    BY <1>1, <1>2, <1>4, <2>1, <2>3 DEF Place, Ledger
  <2>8. Claimed(r)'
    BY <1>2, <1>4, <2>1, <2>5, GenuineStays DEF Claimed
  <2>9. answer'[r] = "none"
    BY <1>1, <1>2, <1>4 DEF Ledger
  <2>10. u \in Users' /\ Matches(u, r)'
    BY <2>1, <2>5, <2>6 DEF Grown, Matches
  <2>11. Found(r)'
    BY <1>4, <2>1, <2>3, <2>6, <2>9, <2>10 DEF Found, Matches
  <2>12. Confined(r)'
    BY <2>3 DEF Confined
  <2> QED BY <2>3, <2>4, <2>7, <2>8, <2>11, <2>12, StepInv DEF Handled
<1>5. ASSUME Candidates(r, c) = {} \/ \E u \in Candidates(r, c) : u.password # body[r].password,
             Refuse(r, "401")
      PROVE  IInv'
  <2>1. bypass => Excused(r)
    <3> SUFFICES ASSUME bypass, NEW u \in OldUsers, Matches(u, r), u.active, u.password = body[r].password
                 PROVE  Ambiguous(u)
      BY DEF Excused
    <3>1. u \in Candidates(r, c)
      BY DEF Candidates, Users, Matches, Visible
    <3>2. PICK v \in Candidates(r, c) : v.password # body[r].password
      BY <1>5, <3>1
    <3> QED BY <3>2 DEF Candidates, Ambiguous, Matches
  <2> QED BY <1>1, <1>5, <2>1, RefuseInv
<1>6. CASE Refuse(r, "500")
  BY <1>1, <1>6, RefuseInv
<1> QED BY <1>3, <1>4, <1>5, <1>6

LEMMA GetUserRolesInv ==
  ASSUME IInv, NEW r \in Requests, GetUserRoles(r)
  PROVE  IInv'
<1>1. PICK c \in Conns :
        Takes(r, c) /\ Hold(r, c) /\ token' = [token EXCEPT ![r] = Claims(user[r], RolesSeen(r, c))]
  BY DEF GetUserRoles
<1>2. /\ pc[r] = "roles" /\ GoTo(r, "insertToken")
      /\ UNCHANGED <<bypass, pool, setting, local, body, user, written, committed, answer, faults>>
  BY DEF GetUserRoles, request
<1>3. /\ Shapes /\ Pool /\ Place(r) /\ Ledger(r) /\ Claimed(r) /\ Found(r)
      /\ body[r] # None /\ body[r].endpoint = "login" /\ committed[r] = {} /\ answer[r] = "none"
  BY <1>2, RequestFacts DEF Place, Ledger
<1>4. Shapes' /\ Acts(r) /\ pc'[r] = "insertToken"
  <2>1. faults' \in 0..MaxFaults /\ "insertToken" \in Pcs
    BY <1>2, <1>3 DEF Shapes, Pcs
  <2>2. committed[r] = {} /\ \E t : token' = [token EXCEPT ![r] = t]
    BY <1>1, <1>3
  <2> QED BY <1>2, <2>1, <2>2, PlainActs
<1>5. Pool' /\ Moves(r)
  BY <1>1, <1>2, <1>3, PoolHolds
<1>6. Grown
  BY <1>4, ActsGrow
<1>7. user[r] \in Users /\ user[r].id \in Ids /\ user[r].tenant \in Tenants
  BY <1>2, <1>3, UsersTyped DEF Found
<1>8. PICK t : t = Claims(user[r], RolesSeen(r, c)) /\ token'[r] = t
  BY <1>1, <1>3 DEF Shapes
<1>9. t.user = user[r].id /\ t.tenant = user[r].tenant /\ t \in [user : Ids, tenant : Tenants, roles : SUBSET RolesOf(t.user, t.tenant)]
  <2>1. RolesSeen(r, c) \subseteq RolesOf(user[r].id, user[r].tenant)
    BY DEF RolesSeen, RolesOf
  <2> QED BY <1>7, <1>8, <2>1 DEF Claims
<1>10. Genuine(r)'
  <2>1. RolesOf(t.user, t.tenant) \subseteq RolesOf(t.user, t.tenant)'
    BY <1>6, RolesGrow
  <2>2. t \in [user : Ids, tenant : Tenants, roles : SUBSET RolesOf(t.user, t.tenant)']
    BY <1>9, <2>1
  <2> QED BY <1>8, <2>2 DEF Genuine, RolesOf
<1>11. Place(r)' /\ Ledger(r)'
  BY <1>2, <1>3, <1>4 DEF Place, Ledger
<1>12. Claimed(r)'
  BY <1>2, <1>3, <1>10 DEF Claimed
<1>13. Found(r)'
  BY <1>2, <1>3, <1>4, <1>6, <1>8, <1>9, <1>10 DEF Found, Matches, Grown
<1>14. Confined(r)'
  BY <1>4 DEF Confined
<1> QED BY <1>4, <1>5, <1>11, <1>12, <1>13, <1>14, StepInv DEF Handled

LEMMA InsertTokenInv ==
  ASSUME IInv, NEW r \in Requests, InsertToken(r)
  PROVE  IInv'
<1>1. pc[r] = "insertToken" /\ pc[r] \in Statements \union {"permission"}
  BY DEF InsertToken, Statements
<1>2. Pool /\ Place(r) /\ Ledger(r) /\ body[r] # None /\ body[r].endpoint = "login"
  BY <1>1, RequestFacts DEF Place
<1>3. PICK c \in Conns :
        /\ Takes(r, c)
        /\ \/ /\ Hold(r, c) /\ Insert(r, "refresh_tokens") /\ GoTo(r, "commit")
              /\ UNCHANGED <<request, local, token, user, answer>>
           \/ Refuse(r, "500")
  BY DEF InsertToken
<1>4. ASSUME Hold(r, c), Insert(r, "refresh_tokens"), GoTo(r, "commit"),
             UNCHANGED <<request, local, token, user, answer>>
      PROVE  IInv'
  <2>1. UNCHANGED <<bypass, pool, setting, body, committed, faults>>
    BY <1>4 DEF request
  <2>2. "commit" \in Pcs /\ pc'[r] = "commit"
    BY <1>4 DEF Pcs, GoTo, IInv, Shapes
  <2>3. written'[r] = {"refresh_tokens"} /\ \E w \in SUBSET Tables : written' = [written EXCEPT ![r] = w]
    BY <1>1, <1>2, <1>4, WrittenAtR, TablesAre DEF Ledger
  <2>4. Pool' /\ Moves(r)
    BY <1>2, <1>3, <1>4, <2>1, PoolHolds
  <2>5. Place(r)' /\ Confined(r)'
    BY <1>1, <1>2, <2>1, <2>2 DEF Place, Confined, Scoped
  <2>6. Flushed(r)' = RowsOf(body[r].endpoint)
    BY <1>2, <2>1, <2>3, RowsAre DEF Flushed
  <2>7. Ledger(r)'
    BY <1>1, <1>2, <1>4, <2>1, <2>2, <2>6 DEF Ledger
  <2> QED BY <1>1, <1>2, <1>4, <2>1, <2>2, <2>3, <2>4, <2>5, <2>7, GoesOnInv
<1> QED BY <1>1, <1>3, <1>4, RefuseInv

LEMMA GetCurrentUserInv ==
  ASSUME IInv, NEW r \in Requests, GetCurrentUser(r)
  PROVE  IInv'
<1>1. pc[r] = "currentUser" /\ pc[r] \in Statements \union {"permission"}
  BY DEF GetCurrentUser, Statements
<1>2. /\ Pool /\ Place(r) /\ Ledger(r) /\ body[r] # None
      /\ body[r].endpoint # "login" /\ body[r].endpoint \in Endpoints
  BY <1>1, RequestFacts DEF Place
<1>3. ASSUME NEW c \in Conns, Takes(r, c), Hold(r, c),
             NEW u \in Users, u.id = token[r].user, u.tenant = token[r].tenant, u.active,
             NEW where, where = (IF body[r].endpoint \in Scoped THEN "scope" ELSE "permission"),
             GoTo(r, where), UNCHANGED <<request, local, token, user, written, answer>>
      PROVE  IInv'
  <2>1. UNCHANGED <<bypass, pool, setting, body, committed, faults>>
    BY <1>3 DEF request
  <2>2. where \in {"scope", "permission"} /\ where \in Pcs /\ pc'[r] = where
    BY <1>3 DEF Pcs, GoTo, IInv, Shapes
  <2>3. Pool' /\ Moves(r)
    BY <1>2, <1>3, <2>1, PoolHolds
  <2>4. where = "permission" => body[r].endpoint = "create_tenant"
    BY <1>2, <1>3 DEF Scoped, Endpoints
  <2>5. Place(r)' /\ Confined(r)'
    BY <1>2, <1>3, <2>1, <2>2, <2>4 DEF Place, Confined, Scoped
  <2>6. Ledger(r)'
    BY <1>1, <1>2, <1>3, <2>1, <2>2 DEF Ledger
  <2> QED BY <1>2, <1>3, <2>1, <2>2, <2>3, <2>5, <2>6, GoesOnInv
<1>4. CASE Refuse(r, "401")
  BY <1>1, <1>2, <1>4, RefuseInv
<1>5. CASE Refuse(r, "500")
  BY <1>1, <1>5, RefuseInv
<1> QED BY <1>3, <1>4, <1>5 DEF GetCurrentUser

LEMMA SetScopeInv ==
  ASSUME IInv, NEW r \in Requests, SetScope(r)
  PROVE  IInv'
<1>1. PICK c \in Conns :
        Takes(r, c) /\ Hold(r, c) /\ local' = [local EXCEPT ![c] = token[r].tenant]
  BY DEF SetScope
<1>2. PICK where : where = (IF body[r].endpoint = "me" THEN "getUser" ELSE "permission") /\ GoTo(r, where)
  BY DEF SetScope
<1>3. /\ pc[r] = "scope"
      /\ UNCHANGED <<bypass, pool, setting, body, committed, faults, token, user, written, answer>>
  BY DEF SetScope, request
<1>4. /\ Shapes /\ Pool /\ Place(r) /\ Ledger(r) /\ Claimed(r) /\ body[r] # None
      /\ body[r].endpoint \in Scoped /\ body[r].endpoint # "login"
  BY <1>3, RequestFacts DEF Place, Scoped
<1>5. where \in {"getUser", "permission"} /\ where \in Pcs /\ pc'[r] = where
  BY <1>2, <1>4 DEF Pcs, GoTo, Shapes
<1>6. token[r].tenant \in Settings
  BY <1>4 DEF Claimed, Genuine, Settings
<1>7. Pool' /\ Moves(r) /\ conn'[r] = c
  BY <1>1, <1>3, <1>4, <1>6, PoolHolds
<1>8. Place(r)' /\ Ledger(r)'
  BY <1>2, <1>3, <1>4, <1>5 DEF Place, Ledger, Scoped
<1>9. Confined(r)'
  <2>1. local'[c] = token[r].tenant /\ c # None
    BY <1>1, <1>4, SessionsAssumption DEF Pool
  <2> QED BY <1>3, <1>7, <2>1 DEF Confined
<1>10. \E u \in Users : u.id = token[r].user /\ u.tenant = token[r].tenant /\ u.active
  BY <1>3, <1>4 DEF Claimed
<1> QED BY <1>2, <1>3, <1>4, <1>5, <1>7, <1>8, <1>9, <1>10, GoesOnInv

LEMMA CheckPermissionInv ==
  ASSUME IInv, NEW r \in Requests, CheckPermission(r)
  PROVE  IInv'
<1>1. pc[r] = "permission"
  BY DEF CheckPermission
<1>2. /\ Shapes /\ Pool /\ Place(r) /\ Ledger(r) /\ Claimed(r) /\ Confined(r) /\ body[r] # None
      /\ body[r].endpoint \in {"create_user", "create_tenant", "create_webhook"}
  BY <1>1, RequestFacts DEF Place
<1>3. ASSUME Permitted(r), NEW where,
             where = (CASE body[r].endpoint = "create_user"   -> "selectRole"
                        [] body[r].endpoint = "create_tenant" -> "insertTenant"
                        [] OTHER                              -> "commit"),
             GoTo(r, where), UNCHANGED <<request, local, token, user, conn, written, answer>>
      PROVE  IInv'
  <2>1. UNCHANGED <<bypass, pool, setting, body, committed, faults>>
    BY <1>3 DEF request
  <2>2. \/ body[r].endpoint = "create_user" /\ where = "selectRole"
        \/ body[r].endpoint = "create_tenant" /\ where = "insertTenant"
        \/ body[r].endpoint = "create_webhook" /\ where = "commit"
    BY <1>2, <1>3
  <2>3. where \in Pcs /\ pc'[r] = where
    BY <1>2, <1>3, <2>2 DEF Pcs, GoTo, Shapes
  <2>4. Pool' /\ Moves(r)
    BY <1>2, <1>3, <2>1, PoolRests
  <2>5. Place(r)'
    BY <1>2, <2>1, <2>2, <2>3 DEF Place
  <2>6. Confined(r)'
    BY <1>1, <1>2, <1>3, <2>1, <2>2, <2>3 DEF Confined
  <2>7. written'[r] = {} /\ committed'[r] = {} /\ answer'[r] = "none"
    BY <1>1, <1>2, <1>3, <2>1 DEF Ledger
  <2>8. where = "commit" => Flushed(r)' = RowsOf(body[r].endpoint)
    BY <2>1, <2>2, <2>7, RowsAre DEF Flushed
  <2>9. Ledger(r)'
    BY <2>1, <2>2, <2>3, <2>7, <2>8 DEF Ledger
  <2>10. \E u \in Users : u.id = token[r].user /\ u.tenant = token[r].tenant /\ u.active
    BY <1>1, <1>2 DEF Claimed
  <2> QED BY <1>2, <1>3, <2>1, <2>2, <2>3, <2>4, <2>5, <2>6, <2>9, <2>10, GoesOnInv
<1>4. CASE Refuse(r, "403")
  BY <1>1, <1>4, RefuseInv
<1> QED BY <1>3, <1>4 DEF CheckPermission

(* Statements that go on where an insert or a select has succeeded. *)
LEMMA CreatesInv ==
  ASSUME IInv, NEW r \in Requests, NEW c \in Conns, Takes(r, c), Hold(r, c),
         NEW where \in Pcs, GoTo(r, where),
         UNCHANGED <<bypass, pool, setting, body, committed, faults, local, token, user, answer>>,
         written' = written \/ \E w \in SUBSET Tables : written' = [written EXCEPT ![r] = w],
         \/ pc[r] = "selectRole" /\ where = "insertUser" /\ written'[r] = {}
         \/ pc[r] = "insertUser" /\ where = "insertRole" /\ written'[r] = {"users"}
         \/ pc[r] = "insertRole" /\ where = "commit" /\ written'[r] = {"users", "user_roles"}
         \/ pc[r] = "insertTenant" /\ where = "commit" /\ written'[r] = {"tenants"}
  PROVE  IInv'
<1>1. /\ Shapes /\ Pool /\ Place(r) /\ Ledger(r) /\ Claimed(r) /\ Confined(r) /\ body[r] # None
      /\ pc[r] = "insertTenant" => body[r].endpoint = "create_tenant"
      /\ pc[r] # "insertTenant" => body[r].endpoint = "create_user"
  BY RequestFacts DEF Place
<1>2. pc'[r] = where
  BY <1>1 DEF Shapes, GoTo
<1>3. Pool' /\ Moves(r) /\ conn'[r] = c /\ (conn[r] # None => c = conn[r])
  BY <1>1, PoolHolds
<1>4. Place(r)'
  BY <1>1, <1>2 DEF Place
<1>5. Confined(r)'
  BY <1>1, <1>2, <1>3 DEF Confined, Scoped
<1>6. where = "commit" => Flushed(r)' = RowsOf(body[r].endpoint)
  <2>1. CASE pc[r] = "insertTenant"
    BY <1>1, <2>1, RowsAre DEF Flushed
  <2>2. CASE pc[r] = "insertRole"
    BY <1>1, <2>2, RowsAre DEF Flushed
  <2> QED BY <2>1, <2>2
<1>7. committed'[r] = {} /\ answer'[r] = "none"
  BY <1>1 DEF Ledger
<1>8. Ledger(r)'
  BY <1>2, <1>6, <1>7 DEF Ledger
<1>9. /\ \E u \in Users : u.id = token[r].user /\ u.tenant = token[r].tenant /\ u.active
      /\ Permitted(r)
  BY <1>1 DEF Claimed
<1> QED BY <1>1, <1>3, <1>4, <1>5, <1>8, <1>9, GoesOnInv

LEMMA SelectRoleInv ==
  ASSUME IInv, NEW r \in Requests, SelectRole(r)
  PROVE  IInv'
<1>1. pc[r] = "selectRole" /\ pc[r] \in Statements \union {"permission"}
  BY DEF SelectRole, Statements
<1>2. Ledger(r)
  BY RequestFacts
<1>3. ASSUME NEW c \in Conns, Takes(r, c), Hold(r, c), GoTo(r, "insertUser"),
             UNCHANGED <<request, local, token, user, written, answer>>
      PROVE  IInv'
  <2>1. UNCHANGED <<bypass, pool, setting, body, committed, faults>>
    BY <1>3 DEF request
  <2>2. "insertUser" \in Pcs /\ written'[r] = {}
    BY <1>1, <1>2, <1>3 DEF Pcs, Ledger
  <2> QED BY <1>1, <1>3, <2>1, <2>2, CreatesInv
<1>4. CASE Refuse(r, "400")
  BY <1>1, <1>4, RefuseInv
<1> QED BY <1>3, <1>4 DEF SelectRole

LEMMA InsertsInv ==
  ASSUME IInv, NEW r \in Requests, InsertUser(r) \/ InsertRole(r) \/ InsertTenant(r)
  PROVE  IInv'
<1>1. pc[r] \in {"insertUser", "insertRole", "insertTenant"} /\ pc[r] \in Statements \union {"permission"}
  BY DEF InsertUser, InsertRole, InsertTenant, Statements
<1>2. Ledger(r)
  BY RequestFacts
<1>3. ASSUME NEW c \in Conns, Takes(r, c), Hold(r, c), NEW table \in Tables, NEW where \in Pcs,
             Insert(r, table), GoTo(r, where), UNCHANGED <<request, local, token, user, answer>>,
             \/ pc[r] = "insertUser" /\ table = "users" /\ where = "insertRole"
             \/ pc[r] = "insertRole" /\ table = "user_roles" /\ where = "commit"
             \/ pc[r] = "insertTenant" /\ table = "tenants" /\ where = "commit"
      PROVE  IInv'
  <2>1. UNCHANGED <<bypass, pool, setting, body, committed, faults>>
    BY <1>3 DEF request
  <2>2. /\ written'[r] = written[r] \union {table}
        /\ \E w \in SUBSET Tables : written' = [written EXCEPT ![r] = w]
    BY <1>3, WrittenAtR
  <2>3. \/ pc[r] = "insertUser" /\ where = "insertRole" /\ written'[r] = {"users"}
        \/ pc[r] = "insertRole" /\ where = "commit" /\ written'[r] = {"users", "user_roles"}
        \/ pc[r] = "insertTenant" /\ where = "commit" /\ written'[r] = {"tenants"}
    BY <1>2, <1>3, <2>2 DEF Ledger
  <2> QED BY <1>3, <2>1, <2>2, <2>3, CreatesInv
<1>4. CASE Refuse(r, "500")
  BY <1>1, <1>4, RefuseInv
<1>5. "insertRole" \in Pcs /\ "commit" \in Pcs
  BY DEF Pcs
<1>6. CASE InsertUser(r)
  BY <1>3, <1>4, <1>5, <1>6, TablesAre DEF InsertUser, Flush
<1>7. CASE InsertRole(r)
  BY <1>3, <1>4, <1>5, <1>7, TablesAre DEF InsertRole, Flush
<1>8. CASE InsertTenant(r)
  BY <1>3, <1>4, <1>5, <1>8, TablesAre DEF InsertTenant
<1> QED BY <1>6, <1>7, <1>8

LEMMA CommitInv ==
  ASSUME IInv, NEW r \in Requests, Commit(r)
  PROVE  IInv'
<1>1. pc[r] = "commit" /\ pc[r] \in Statements \union {"permission"}
  BY DEF Commit, Statements
<1>2. /\ Shapes /\ Pool /\ Place(r) /\ Ledger(r) /\ Claimed(r) /\ Found(r) /\ body[r] # None
      /\ body[r].endpoint \in Endpoints
  BY <1>1, RequestFacts
<1>3. ASSUME NEW c \in Conns, Takes(r, c), Committed(r, c),
             IF body[r].endpoint = "create_webhook"
             THEN GoTo(r, "refresh") /\ UNCHANGED answer
             ELSE Reply(r, "ok") /\ GoTo(r, IF Entered(r) THEN "clear" ELSE "done"),
             UNCHANGED <<bypass, pool, local, body, token, user, faults>>
      PROVE  IInv'
  <2>1. /\ pc' \in [Requests -> Pcs] /\ \A q \in Requests \ {r} : pc'[q] = pc[q]
        /\ pc'[r] = IF body[r].endpoint = "create_webhook" THEN "refresh"
                    ELSE IF Entered(r) THEN "clear" ELSE "done"
    BY <1>2, <1>3 DEF GoTo, Shapes, Pcs
  <2>2. /\ answer' \in [Requests -> Answers] /\ \A q \in Requests \ {r} : answer'[q] = answer[q]
        /\ answer'[r] = IF body[r].endpoint = "create_webhook" THEN "none" ELSE "ok"
    BY <1>1, <1>2, <1>3 DEF Reply, Shapes, Answers, Ledger
  <2>3. committed[r] = {} /\ Flushed(r) = RowsOf(body[r].endpoint) /\ RowsOf(body[r].endpoint) \subseteq Tables
    BY <1>1, <1>2, RowsAre DEF Ledger
  <2>4. /\ committed' \in [Requests -> SUBSET Tables] /\ \A q \in Requests \ {r} : committed'[q] = committed[q]
        /\ committed'[r] = RowsOf(body[r].endpoint)
    BY <1>2, <1>3, <2>3 DEF Committed, Shapes
  <2>5. /\ written' \in [Requests -> SUBSET Tables] /\ \A q \in Requests \ {r} : written'[q] = written[q]
        /\ written'[r] = {}
    BY <1>2, <1>3 DEF Committed, Shapes
  <2>6. Shapes'
    BY <1>2, <1>3, <2>1, <2>2, <2>4, <2>5 DEF Shapes
  <2>7. Acts(r)
    BY <1>3, <2>1, <2>2, <2>3, <2>4, <2>5 DEF Acts, Same
  <2>8. Grown
    BY <2>7, ActsGrow
  <2>9. Pool' /\ Moves(r)
    BY <1>2, <1>3, PoolCommits DEF Committed
  <2>10. Place(r)'
    BY <1>2, <1>3, <2>1 DEF Place, Entered
  <2>11. Ledger(r)'
    BY <1>3, <2>1, <2>2, <2>4, <2>5 DEF Ledger
  <2>12. /\ (Genuine(r) => Genuine(r)') /\ (Permitted(r) => Permitted(r)')
         /\ Users \subseteq Users'
    BY <1>3, <2>8, GenuineStays DEF Permitted, Grown
  <2>13. Claimed(r)'
    BY <1>1, <1>2, <1>3, <2>1, <2>12 DEF Claimed
  <2>14. Found(r)'
    BY <1>1, <1>2, <1>3, <2>1, <2>2, <2>12 DEF Found, Matches
  <2>15. Confined(r)'
    BY <2>1 DEF Confined
  <2> QED BY <2>6, <2>7, <2>9, <2>10, <2>11, <2>13, <2>14, <2>15, StepInv DEF Handled
<1>4. CASE Refuse(r, "500")
  BY <1>1, <1>4, RefuseInv
<1> QED BY <1>3, <1>4 DEF Commit

LEMMA RefreshInv ==
  ASSUME IInv, NEW r \in Requests, Refresh(r)
  PROVE  IInv'
<1>1. pc[r] = "refresh" /\ pc[r] \in Statements \union {"permission"}
  BY DEF Refresh, Statements
<1>2. Shapes /\ Pool /\ Place(r) /\ Ledger(r) /\ body[r] # None /\ body[r].endpoint = "create_webhook"
  BY <1>1, RequestFacts DEF Place
<1>3. ASSUME NEW c \in Conns, Takes(r, c), Hold(r, c), Reply(r, "ok"), GoTo(r, "clear"),
             UNCHANGED <<request, local, token, user, written>>
      PROVE  IInv'
  <2>1. UNCHANGED <<bypass, pool, setting, body, committed, faults>>
    BY <1>3 DEF request
  <2>2. "clear" \in Pcs /\ pc'[r] = "clear" /\ answer'[r] = "ok"
    BY <1>2, <1>3 DEF Pcs, GoTo, Reply, Shapes
  <2>3. Pool' /\ Moves(r)
    BY <1>2, <1>3, <2>1, PoolHolds
  <2>4. Place(r)' /\ Confined(r)'
    BY <1>2, <2>1, <2>2 DEF Place, Confined, Scoped
  <2>5. Ledger(r)'
    BY <1>1, <1>2, <1>3, <2>1, <2>2 DEF Ledger
  <2> QED BY <1>2, <1>3, <2>1, <2>2, <2>3, <2>4, <2>5, GoesOnInv
<1>4. CASE Refuse(r, "500")
  BY <1>1, <1>4, RefuseInv
<1> QED BY <1>3, <1>4 DEF Refresh

LEMMA GetUserInv ==
  ASSUME IInv, NEW r \in Requests, GetUser(r)
  PROVE  IInv'
<1>1. PICK c \in Conns : Takes(r, c) /\ Hold(r, c)
  BY DEF GetUser
<1>2. /\ pc[r] = "getUser" /\ Reply(r, "ok") /\ GoTo(r, "clear")
      /\ UNCHANGED <<bypass, pool, setting, body, committed, faults, local, token, user, written>>
  BY DEF GetUser, request
<1>3. Shapes /\ Pool /\ Place(r) /\ Ledger(r) /\ body[r] # None /\ body[r].endpoint = "me"
  BY <1>2, RequestFacts DEF Place
<1>4. "clear" \in Pcs /\ pc'[r] = "clear" /\ answer'[r] = "ok"
  BY <1>2, <1>3 DEF Pcs, GoTo, Reply, Shapes
<1>5. Pool' /\ Moves(r)
  BY <1>1, <1>2, <1>3, PoolHolds
<1>6. Place(r)' /\ Confined(r)'
  BY <1>2, <1>3, <1>4 DEF Place, Confined, Scoped
<1>7. Ledger(r)'
  BY <1>2, <1>3, <1>4, RowsAre DEF Ledger
<1> QED BY <1>2, <1>3, <1>4, <1>5, <1>6, <1>7, GoesOnInv

LEMMA LeavesInv ==
  ASSUME IInv, NEW r \in Requests, ClearScope(r) \/ Close(r)
  PROVE  IInv'
<1>1. Shapes /\ Pool /\ Place(r) /\ Ledger(r)
  BY RequestFacts
<1>2. CASE ClearScope(r)
  <2>1. PICK c \in Conns : Takes(r, c) /\ Hold(r, c) /\ local' = [local EXCEPT ![c] = None]
    BY <1>2 DEF ClearScope
  <2>2. /\ pc[r] = "clear" /\ GoTo(r, "close")
        /\ UNCHANGED <<bypass, pool, setting, body, committed, faults, token, user, written, answer>>
    BY <1>2 DEF ClearScope, request
  <2>3. "close" \in Pcs /\ pc'[r] = "close" /\ None \in Settings
    BY <1>1, <2>2 DEF Pcs, GoTo, Shapes, Settings
  <2>4. Pool' /\ Moves(r)
    BY <1>1, <2>1, <2>2, <2>3, PoolHolds
  <2>5. Place(r)' /\ Confined(r)' /\ Ledger(r)'
    BY <1>1, <2>2, <2>3 DEF Place, Confined, Ledger
  <2> QED BY <2>2, <2>3, <2>4, <2>5, GoesOnInv
<1>3. CASE Close(r)
  <2>1. /\ pc[r] = "close" /\ Return({r}, {}) /\ GoTo(r, "done")
        /\ UNCHANGED <<bypass, pool, body, token, user, committed, answer, faults>>
    BY <1>3 DEF Close, Rollback
  <2>2. "done" \in Pcs /\ pc'[r] = "done"
    BY <1>1, <2>1 DEF Pcs, GoTo, Shapes
  <2>3. Pool' /\ Moves(r)
    <3>1. {} \in SUBSET Conns /\ \A c \in {} : c = conn[r] \/ Idle(c)
      OBVIOUS
    <3> QED BY <1>1, <2>1, <3>1, PoolReturns
  <2>4. written' = [written EXCEPT ![r] = {}] /\ written'[r] = {}
    BY <1>1, <2>1 DEF Return, Shapes
  <2>5. \E w \in SUBSET Tables : written' = [written EXCEPT ![r] = w]
    BY <2>4
  <2>6. Place(r)' /\ Confined(r)' /\ Ledger(r)'
    BY <1>1, <2>1, <2>2, <2>4 DEF Place, Confined, Ledger
  <2> QED BY <2>1, <2>2, <2>3, <2>5, <2>6, GoesOnInv
<1> QED BY <1>2, <1>3

LEMMA CrashInv == IInv /\ Crash => IInv'
<1> SUFFICES ASSUME IInv, Crash PROVE IInv'
  OBVIOUS
<1>1. /\ Return(Running, Conns)
      /\ pc' = [r \in Requests |-> IF r \in Running THEN "dead" ELSE pc[r]]
      /\ UNCHANGED <<bypass, pool, body, token, user, committed, answer>> /\ Fault
  BY DEF Crash
<1>2. Shapes /\ Pool
  BY DEF IInv
<1>3. /\ setting' = [c \in Conns |-> None] /\ local' = [c \in Conns |-> None]
      /\ conn' = [r \in Requests |-> IF r \in Running THEN None ELSE conn[r]]
      /\ written' = [r \in Requests |-> IF r \in Running THEN {} ELSE written[r]]
  BY <1>1 DEF Return
<1>4. faults' \in 0..MaxFaults
  BY <1>1, <1>2, SessionsAssumption DEF Fault, Shapes
<1>5. Shapes'
  <2>1. pc' \in [Requests -> Pcs] /\ written' \in [Requests -> SUBSET Tables]
    BY <1>1, <1>2, <1>3 DEF Shapes, Pcs
  <2> QED BY <1>1, <1>2, <1>4, <2>1 DEF Shapes
<1>6. Pool'
  <2>1. setting' \in [Conns -> Settings] /\ local' \in [Conns -> Settings]
    BY <1>3 DEF Settings
  <2>2. conn' \in [Requests -> Conns \union {None}]
    BY <1>2, <1>3 DEF Pool
  <2>3. \A r, q \in Requests : conn'[r] = conn'[q] /\ conn'[r] # None => r = q
    BY <1>2, <1>3 DEF Pool
  <2> QED BY <1>3, <2>1, <2>2, <2>3 DEF Pool
<1>7. Grown
  BY <1>1, TablesGrow
<1>8. ASSUME NEW r \in Requests
      PROVE  Handled(r)' /\ Confined(r)'
  <2>1. /\ Place(r) /\ Ledger(r) /\ Claimed(r) /\ Found(r)
        /\ body'[r] = body[r] /\ token'[r] = token[r] /\ user'[r] = user[r]
        /\ committed'[r] = committed[r] /\ answer'[r] = answer[r]
    BY <1>1, RequestFacts
  <2>2. CASE r \in Running
    <3>1. pc'[r] = "dead" /\ written'[r] = {} /\ pc[r] # "unsent"
      BY <1>1, <1>3, <2>2 DEF Running
    <3>2. Place(r)' /\ Ledger(r)' /\ Confined(r)'
      BY <2>1, <3>1 DEF Place, Ledger, Confined
    <3>3. /\ (Genuine(r) => Genuine(r)') /\ (Permitted(r) => Permitted(r)')
          /\ (Excused(r) => Excused(r)') /\ Users \subseteq Users' /\ UNCHANGED <<bypass, pool>>
      BY <1>1, <1>7, GenuineStays, ExcusedStays DEF Permitted, Grown
    <3>4. Claimed(r)'
      BY <2>1, <3>1, <3>3 DEF Claimed
    <3>5. Found(r)'
      BY <2>1, <3>1, <3>3 DEF Found, Matches
    <3> QED BY <3>2, <3>4, <3>5 DEF Handled
  <2>3. CASE r \notin Running
    <3>1. pc[r] \in {"unsent", "done", "dead"} /\ pc'[r] = pc[r] /\ written'[r] = written[r]
      BY <1>1, <1>3, <2>3 DEF Running
    <3>2. Same(r) /\ UNCHANGED <<bypass, pool>>
      BY <1>1, <2>1, <3>1 DEF Same
    <3>3. Handled(r)'
      BY <1>7, <3>2, <2>1, BystanderHandled DEF Handled
    <3> QED BY <3>1, <3>3 DEF Confined
  <2> QED BY <2>2, <2>3
<1> QED BY <1>5, <1>6, <1>8 DEF IInv

LEMMA InitInv == Init => IInv
<1> SUFFICES ASSUME Init PROVE IInv
  OBVIOUS
<1>1. Shapes
  BY SessionsAssumption DEF Init, Shapes, Pcs, Answers
<1>2. Pool
  <2>1. OldSettings \subseteq Settings
    BY SessionsAssumption DEF Settings
  <2> QED BY <2>1 DEF Init, Pool
<1>3. ASSUME NEW r \in Requests
      PROVE  Handled(r) /\ Confined(r)
  <2>1. /\ pc[r] = "unsent" /\ body[r] = None /\ token[r] = None /\ user[r] = None
        /\ written[r] = {} /\ committed[r] = {} /\ answer[r] = "none"
    BY DEF Init
  <2> QED BY <2>1 DEF Handled, Confined, Place, Ledger, Claimed, Found
<1> QED BY <1>1, <1>2, <1>3 DEF IInv

LEMMA NextInv == IInv /\ [Next]_vars => IInv'
<1> SUFFICES ASSUME IInv, [Next]_vars PROVE IInv'
  OBVIOUS
<1>1. ASSUME NEW r \in Requests, Handle(r)
      PROVE  IInv'
  BY <1>1, AuthenticateInv, GetUserRolesInv, InsertTokenInv, GetCurrentUserInv, SetScopeInv,
     CheckPermissionInv, GetUserInv, SelectRoleInv, InsertsInv, CommitInv, RefreshInv, LeavesInv
     DEF Handle
<1>2. CASE UNCHANGED vars
  <2>1. UNCHANGED <<bypass, pool, setting, local, body, token, user, pc, conn, written, committed, answer, faults>>
    BY <1>2 DEF vars
  <2>2. Grown /\ Shapes' /\ Pool'
    <3>1. Grown
      BY <2>1, TablesGrow
    <3> QED BY <2>1, <3>1 DEF IInv, Shapes, Pool
  <2>3. ASSUME NEW r \in Requests
        PROVE  Handled(r)' /\ Confined(r)'
    <3>1. Same(r) /\ Handled(r) /\ Confined(r) /\ UNCHANGED <<bypass, pool>>
      BY <2>1 DEF Same, IInv
    <3> QED BY <2>1, <2>2, <3>1, BystanderHandled DEF Confined
  <2> QED BY <2>2, <2>3 DEF IInv
<1> QED BY <1>1, <1>2, ReceiveInv, FaultInv, CrashInv DEF Next

LEMMA Invariant == Spec => []IInv
BY InitInv, NextInv, PTL DEF Spec

(* Type correctness, with the exclusive use of connections.                *)
THEOREM TypesAreKept == Spec => []TypeOK
<1>1. IInv => TypeOK
  <2> SUFFICES ASSUME IInv PROVE TypeOK
    OBVIOUS
  <2>1. ASSUME NEW r \in Requests
        PROVE  /\ token[r] = None \/ token[r] \in [user : Ids, tenant : Tenants, roles : SUBSET {x.role : x \in UserRoles}]
               /\ user[r] = None \/ user[r] \in Users
    <3>1. Claimed(r) /\ Found(r)
      BY RequestFacts
    <3>2. RolesOf(token[r].user, token[r].tenant) \subseteq {x.role : x \in UserRoles}
      BY DEF RolesOf
    <3> QED BY <3>1, <3>2 DEF Claimed, Found, Genuine
  <2> QED BY <2>1 DEF IInv, Shapes, Pool, TypeOK
<1> QED BY <1>1, Invariant, PTL

(* Until the first commit of a scoped handler every statement runs under   *)
(* the tenant of its token.                                                *)
THEOREM StatementsScoped == Spec => []ScopedUntilCommit
<1>1. IInv => ScopedUntilCommit
  BY DEF IInv, Confined, ScopedUntilCommit
<1> QED BY <1>1, Invariant, PTL

(* The rows of a request are there together or not at all, and as it was   *)
(* answered.                                                               *)
THEOREM AnswersMatchCommits == Spec => []AnsweredAsCommitted
<1>1. IInv => AnsweredAsCommitted
  BY DEF IInv, Handled, Ledger, AnsweredAsCommitted
<1> QED BY <1>1, Invariant, PTL

(* A login gives the token of its own user, and refuses one only if it is  *)
(* hidden or shares its email.                                             *)
THEOREM LoginsFindTheirUser == Spec => []LoginOwn
<1>1. IInv => LoginOwn
  <2> SUFFICES ASSUME IInv, NEW r \in Requests, body[r] # None, body[r].endpoint = "login"
               PROVE  /\ answer[r] = "ok" => \E u \in Users :
                           /\ Matches(u, r) /\ u.active /\ u.password = body[r].password
                           /\ token[r].user = u.id /\ token[r].tenant = u.tenant
                      /\ answer[r] = "401" /\ bypass => Excused(r)
    BY DEF LoginOwn, Excused
  <2>1. Found(r)
    BY RequestFacts
  <2> QED BY <2>1 DEF Found
<1> QED BY <1>1, Invariant, PTL

(* Rows are only written for active users with a role that permits it.     *)
THEOREM OnlyPermittedWrite == Spec => []WritersPermitted
<1>1. IInv => WritersPermitted
  <2> SUFFICES ASSUME IInv, NEW r \in Requests, committed[r] # {}, body[r].endpoint # "login"
               PROVE  /\ \E u \in Users : u.id = token[r].user /\ u.tenant = token[r].tenant /\ u.active
                      /\ HasPermission(RolesOf(token[r].user, token[r].tenant), Required(body[r].endpoint))
    BY DEF WritersPermitted
  <2>1. Place(r) /\ Ledger(r) /\ Claimed(r)
    BY RequestFacts
  <2>2. body[r] # None /\ body[r].endpoint \in Endpoints
    BY <2>1 DEF Place, Ledger
  <2>3. /\ Genuine(r) /\ Permitted(r)
        /\ \E u \in Users : u.id = token[r].user /\ u.tenant = token[r].tenant /\ u.active
    BY <2>1, <2>2 DEF Claimed
  <2>4. token[r].roles \subseteq RolesOf(token[r].user, token[r].tenant)
    BY <2>3 DEF Genuine
  <2>5. HasPermission(token[r].roles, Required(body[r].endpoint))
    <3>1. body[r].endpoint # "me"
      BY <2>1, <2>2, RowsAre DEF Ledger
    <3>2. Required(body[r].endpoint) # None
      BY <2>2, <3>1, PermissionAssumption
         DEF Required, Endpoints, AdminPermissions, DeveloperPermissions
    <3> QED BY <2>3, <3>2 DEF Permitted
  <2> QED BY <2>3, <2>4, <2>5 DEF HasPermission
<1> QED BY <1>1, Invariant, PTL

====
