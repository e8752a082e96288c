---- MODULE PlatformRequests ----
(***************************************************************************)
(* The requests of the platform API that write rows: a definition or a     *)
(* webhook is created, a webhook is deleted, has its secret rotated or is  *)
(* triggered, an execution is asked for by a user or by the scheduler.     *)
(* Requests interleave at every await of a query; a transaction shows the  *)
(* others nothing before its commit and reads what was committed.  An id   *)
(* or a secret that a request generates is written as that request.        *)
(***************************************************************************)
EXTENDS Integers

CONSTANTS
  Requests,        \* requests, each sent once
  Tenants,
  OldDefinitions,  \* the definitions there are before the first request
  OldWebhooks,     \* the webhooks there are before the first request
  None,            \* no value; an id no row has
  MaxFaults        \* bound: failing database calls and restarts

Managing  == {"create_process", "create_webhook", "delete", "rotate"}
Executing == {"manual", "trigger", "internal"}
Endpoints == Managing \union Executing

DefinitionIds == OldDefinitions \union Requests
WebhookIds    == OldWebhooks \union Requests
Secrets       == WebhookIds

ASSUME RequestsAssumption ==
  /\ MaxFaults \in Nat
  /\ None \notin DefinitionIds \union WebhookIds \union Tenants
  /\ None \notin Endpoints \union {"ok", "refused", "error"}
  /\ Requests \intersect (OldDefinitions \union OldWebhooks) = {}  \* generated ids are new

VARIABLES
  process_definitions,  \* id -> its tenant, for the ids that have a row
  webhook_configs,      \* id -> row
  process_executions,   \* id -> row
  requests,             \* what each request asks, where its handler is, its answer
  started,              \* the executions whose _run_workflow was given to the loop
  faults

vars == <<process_definitions, webhook_configs, process_executions, requests, started, faults>>
tables == <<process_definitions, webhook_configs, process_executions>>

Webhook == [tenant_id : Tenants, workflow_id : DefinitionIds, secret : Secrets, is_active : BOOLEAN]
Execution == [tenant_id : Tenants, process_definition_id : DefinitionIds, trigger_type : Executing]

Request ==
  [ endpoint  : Endpoints \union {None},
    tenant    : Tenants \union {None},      \* the caller's, or found by the lookup
    target    : DefinitionIds \union WebhookIds \union {None},
    signed    : Secrets \union {None},      \* the secret that makes the signature
    workflow  : DefinitionIds \union {None},
    phase     : {"unsent", "received", "define", "commit", "refresh", "answered"},
    answer    : {None, "ok", "refused", "error"},  \* 2xx, 4xx, 5xx or none
    after     : SUBSET Requests ]           \* history: the deletes and rotations of its
                                            \* webhook answered before a trigger arrived

Unsent ==
  [ endpoint |-> None, tenant |-> None, target |-> None, signed |-> None, workflow |-> None,
    phase |-> "unsent", answer |-> None, after |-> {} ]

(* create_webhook does not ask whose workflow_id is, so a webhook may name *)
(* a definition of another tenant.                                         *)
Init ==
  /\ process_definitions \in [OldDefinitions -> Tenants]
  /\ webhook_configs \in
       [OldWebhooks -> {row \in Webhook : row.workflow_id \in OldDefinitions /\ row.secret \in OldWebhooks}]
  /\ \A w \in OldWebhooks : webhook_configs[w].secret = w
  /\ process_executions = <<>>
  /\ requests = [r \in Requests |-> Unsent]
  /\ started = {}
  /\ faults = 0

----
(* The table once the row is stored. *)
Row(table, id, row) == [i \in DOMAIN table \union {id} |-> IF i = id THEN row ELSE table[i]]

InPhase(r, phase) == requests[r].phase = phase
For(r, endpoints) == requests[r].endpoint \in endpoints

GoTo(r, phase) == requests' = [requests EXCEPT ![r].phase = phase]
Answer(r, answer) == requests' = [requests EXCEPT ![r].phase = "answered", ![r].answer = answer]

Answered(r) == InPhase(r, "answered")
InFlight(r) == ~ InPhase(r, "unsent") /\ ~ Answered(r)
Did(r, endpoint) == For(r, {endpoint}) /\ requests[r].answer = "ok"

Changed(w) ==
  {q \in Requests : (Did(q, "delete") \/ Did(q, "rotate")) /\ requests[q].target = w}

(* The secrets somebody was told for a webhook; None stands for any other. *)
SecretsOf(w) == ({w} \ {None}) \union {q \in Changed(w) : For(q, {"rotate"})}

Receive(r) ==
  \E endpoint \in Endpoints, tenant \in Tenants \union {None} :
    LET known ==
          CASE endpoint = "create_process" -> {}
            [] endpoint \in {"create_webhook", "manual", "internal"} -> DOMAIN process_definitions
            [] OTHER -> DOMAIN webhook_configs
    IN \E target \in known \union {None} :
       \E signed \in IF endpoint = "trigger" THEN SecretsOf(target) \union {None} ELSE {None} :
      /\ InPhase(r, "unsent")
      /\ (tenant = None) <=> (endpoint \in {"trigger", "internal"})
      /\ requests' = [requests EXCEPT ![r] =
           [Unsent EXCEPT !.endpoint = endpoint, !.tenant = tenant, !.target = target,
                          !.signed = signed, !.phase = "received",
                          !.after = IF endpoint = "trigger" THEN Changed(target) ELSE {}]]
      /\ UNCHANGED <<tables, started, faults>>

(* get_current_user or require_permission refuses the token, or            *)
(* internal_trigger the secret of the services.                            *)
Refuse(r) ==
  /\ InPhase(r, "received") /\ ~ For(r, {"trigger"})
  /\ Answer(r, "refused")
  /\ UNCHANGED <<tables, started, faults>>

----
(* What the transactions write. *)

NewWebhook(r) ==
  [tenant_id |-> requests[r].tenant, workflow_id |-> requests[r].target, secret |-> r, is_active |-> TRUE]

(* The UPDATEs set the one column that the handler assigned. *)
Deactivate(r) ==
  webhook_configs' = [webhook_configs EXCEPT ![requests[r].target].is_active = FALSE]

RotateReactivates(r) ==  \* mutant: the whole row is written as it was read
  webhook_configs' = [webhook_configs EXCEPT ![requests[r].target].secret = r,
                                             ![requests[r].target].is_active = TRUE]
RotateNotCommitted(r) ==  \* mutant: flush without commit
  UNCHANGED webhook_configs
Rotate(r) ==
  webhook_configs' = [webhook_configs EXCEPT ![requests[r].target].secret = r]

NewExecutionOfTarget(r) ==  \* mutant: the webhook's id in place of its workflow_id
  [ tenant_id |-> requests[r].tenant, process_definition_id |-> requests[r].target,
    trigger_type |-> requests[r].endpoint ]
NewExecution(r) ==
  [ tenant_id |-> requests[r].tenant, process_definition_id |-> requests[r].workflow,
    trigger_type |-> requests[r].endpoint ]

(* The write that the commit of r makes durable: create_process and         *)
(* create_webhook insert in the transaction of their one step.              *)
Writes(r) ==
  \/ /\ InPhase(r, "received") /\ For(r, {"create_process"})
     /\ process_definitions' = Row(process_definitions, r, requests[r].tenant)
     /\ UNCHANGED <<webhook_configs, process_executions>>
  \/ /\ InPhase(r, "received") /\ For(r, {"create_webhook"}) /\ requests[r].target # None
     /\ webhook_configs' = Row(webhook_configs, r, NewWebhook(r))
     /\ UNCHANGED <<process_definitions, process_executions>>
  \/ /\ InPhase(r, "commit")
     /\ \/ For(r, {"delete"}) /\ Deactivate(r)
        \/ For(r, {"rotate"}) /\ Rotate(r)
     /\ UNCHANGED <<process_definitions, process_executions>>
  \/ /\ InPhase(r, "commit") /\ For(r, Executing)
     /\ process_executions' = Row(process_executions, r, NewExecution(r))
     /\ UNCHANGED <<process_definitions, webhook_configs>>

----
(* create_process: insert, refresh and commit in one transaction. *)
CreateProcess(r) ==
  /\ For(r, {"create_process"}) /\ Writes(r)
  /\ Answer(r, "ok")
  /\ UNCHANGED <<started, faults>>

CreateWebhook(r) ==
  /\ For(r, {"create_webhook"}) /\ Writes(r)
  /\ GoTo(r, "refresh")
  /\ UNCHANGED <<started, faults>>

(* The validator rejects the steps (422), or the foreign key of a webhook  *)
(* its workflow_id, which no handler catches.                              *)
RejectCreation(r) ==
  /\ InPhase(r, "received")
  /\ \/ For(r, {"create_process"}) /\ Answer(r, "refused")
     \/ For(r, {"create_webhook"}) /\ requests[r].target = None /\ Answer(r, "error")
  /\ UNCHANGED <<tables, started, faults>>

----
(* The select of deactivate_webhook and of rotate_secret. *)
HasOwnWebhook(r) ==
  LET w == requests[r].target IN
    w # None /\ webhook_configs[w].tenant_id = requests[r].tenant

FindOwnWebhook(r) ==
  /\ InPhase(r, "received") /\ For(r, {"delete", "rotate"})
  /\ IF HasOwnWebhook(r) THEN GoTo(r, "commit") ELSE Answer(r, "refused")
  /\ UNCHANGED <<tables, started, faults>>

CommitWebhook(r) ==
  /\ Writes(r)
  /\ \/ For(r, {"delete"}) /\ Answer(r, "ok")
     \/ For(r, {"rotate"}) /\ GoTo(r, "refresh")
  /\ UNCHANGED <<started, faults>>

----
(* The webhook's lookup, in no tenant, and the test of the signature.  A   *)
(* signature that is not ASCII, a body that is not JSON or a mapping that  *)
(* does not parse raises.                                                  *)
ActiveWebhook(r) ==
  requests[r].target # None /\ webhook_configs[requests[r].target].is_active

LookUpWebhook(r) ==
  /\ InPhase(r, "received") /\ For(r, {"trigger"})
  /\ IF ~ ActiveWebhook(r) THEN Answer(r, "refused")
     ELSE LET webhook == webhook_configs[requests[r].target] IN
       \/ Answer(r, "error")
       \/ webhook.secret # requests[r].signed /\ Answer(r, "refused")
       \/ /\ webhook.secret = requests[r].signed
          /\ requests' = [requests EXCEPT ![r].tenant = webhook.tenant_id,
                                          ![r].workflow = webhook.workflow_id,
                                          ![r].phase = "define"]
  /\ UNCHANGED <<tables, started, faults>>

(* internal_trigger takes the tenant from the definition. *)
LookUpDefinition(r) ==
  LET definition == requests[r].target IN
    /\ InPhase(r, "received") /\ For(r, {"internal"})
    /\ IF definition = None THEN Answer(r, "refused")
       ELSE requests' = [requests EXCEPT ![r].tenant = process_definitions[definition],
                                         ![r].workflow = definition, ![r].phase = "define"]
    /\ UNCHANGED <<tables, started, faults>>

AskExecution(r) ==
  /\ InPhase(r, "received") /\ For(r, {"manual"})
  /\ requests' = [requests EXCEPT ![r].workflow = requests[r].target, ![r].phase = "define"]
  /\ UNCHANGED <<tables, started, faults>>

(* create_execution: its select; without a row it returns None, which is a *)
(* 404 for a user and an exception in the other two handlers.              *)
DefinesAnyTenant(r) ==  \* mutant: the select does not name the tenant
  requests[r].workflow # None
Defines(r) ==
  LET definition == requests[r].workflow IN
    definition # None /\ process_definitions[definition] = requests[r].tenant

FindDefinition(r) ==
  /\ InPhase(r, "define")
  /\ IF Defines(r) THEN GoTo(r, "commit")
     ELSE Answer(r, IF For(r, {"manual"}) THEN "refused" ELSE "error")
  /\ UNCHANGED <<tables, started, faults>>

CommitExecution(r) ==
  /\ For(r, Executing) /\ Writes(r)
  /\ GoTo(r, "refresh")
  /\ UNCHANGED <<started, faults>>

(* The row is read back; create_execution then hands the coroutine to the  *)
(* loop, and the handler answers without another await.                    *)
ToStart(r) == IF For(r, Executing) THEN {r} ELSE {}

Refresh(r) ==
  /\ InPhase(r, "refresh")
  /\ started' = started \union ToStart(r)
  /\ Answer(r, "ok")
  /\ UNCHANGED <<tables, faults>>

----
Fail == faults < MaxFaults /\ faults' = faults + 1

(* A database call raises: the session rolls back and the answer is a 500. *)
QueryRaisesStarts(r) ==  \* mutant: the coroutine is started in a finally
  /\ InFlight(r) /\ Fail
  /\ Answer(r, "error")
  /\ started' = started \union ToStart(r)
  /\ UNCHANGED tables
QueryRaises(r) ==
  /\ InFlight(r) /\ Fail
  /\ Answer(r, "error")
  /\ UNCHANGED <<tables, started>>

(* The server has committed and the reply is lost. *)
CommitReplyLost(r) ==
  /\ InFlight(r) /\ Fail
  /\ Writes(r) /\ Answer(r, "error")
  /\ UNCHANGED started

(* The process dies: no request in flight is answered, none goes on. *)
Crash ==
  /\ Fail
  /\ \E r \in Requests : InFlight(r)
  /\ requests' = [r \in Requests |->
       IF InFlight(r) THEN [requests[r] EXCEPT !.phase = "answered", !.answer = "error"] ELSE requests[r]]
  /\ UNCHANGED <<tables, started>>

----
Manage(r) ==
  \/ CreateProcess(r) \/ RejectCreation(r) \/ CreateWebhook(r)
  \/ FindOwnWebhook(r) \/ CommitWebhook(r)
Execute(r) ==
  \/ LookUpWebhook(r) \/ LookUpDefinition(r) \/ AskExecution(r)
  \/ FindDefinition(r) \/ CommitExecution(r)

Next ==
  \/ \E r \in Requests :
       \/ Receive(r) \/ Refuse(r) \/ Manage(r) \/ Execute(r) \/ Refresh(r)
       \/ QueryRaises(r) \/ CommitReplyLost(r)
  \/ Crash

Spec == Init /\ [][Next]_vars

----
TypeOK ==
  /\ DOMAIN process_definitions \subseteq DefinitionIds
  /\ \A d \in DOMAIN process_definitions : process_definitions[d] \in Tenants
  /\ DOMAIN webhook_configs \subseteq WebhookIds
  /\ \A w \in DOMAIN webhook_configs : webhook_configs[w] \in Webhook
  /\ DOMAIN process_executions \subseteq Requests
  /\ \A e \in DOMAIN process_executions : process_executions[e] \in Execution
  /\ requests \in [Requests -> Request]
  /\ started \subseteq Requests
  /\ faults \in 0..MaxFaults

(* A webhook whose DELETE was answered stays inactive, whatever rotations  *)
(* of it read its row before and commit after (webhooks/service.py:69-96). *)
DeletedStaysInactive ==
  \A r \in Requests : Did(r, "delete") => ~ webhook_configs[requests[r].target].is_active

Triggered == {e \in DOMAIN process_executions : For(e, {"trigger"})}
Before(e, endpoint) ==  \* done on e's webhook and answered before e arrived
  \E q \in requests[e].after : For(q, {endpoint})

(* A trigger that arrives once a DELETE of its webhook was answered makes  *)
(* no execution, and after the answer to a rotation none is made by one    *)
(* signed with the secret the webhook was created with, whatever deletes   *)
(* and rotations overlap (webhooks/router.py:85-88, service.py:69-96).     *)
TriggerMeetsNewRow ==
  \A e \in Triggered :
    /\ ~ Before(e, "delete")
    /\ Before(e, "rotate") => requests[e].signed # requests[e].target

(* An execution is in the tenant of its definition, and a triggered one in *)
(* that of its webhook too: the executor looks the definition up by id     *)
(* alone (executions/service.py:18-23).                                    *)
TenantsAgree ==
  \A e \in DOMAIN process_executions :
    LET tenant == process_executions[e].tenant_id IN
      /\ process_definitions[process_executions[e].process_definition_id] = tenant
      /\ e \in Triggered => webhook_configs[requests[e].target].tenant_id = tenant

(* A coroutine is started only for a committed row whose request is then   *)
(* answered with 202, and a 202 is given only with the coroutine started:  *)
(* what never runs was never accepted (executions/service.py:35-43).       *)
AcceptedIsStarted ==
  /\ started \subseteq DOMAIN process_executions
  /\ started = {r \in Requests : For(r, Executing) /\ requests[r].answer = "ok"}

====
