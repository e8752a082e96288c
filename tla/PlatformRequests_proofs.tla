---- MODULE PlatformRequests_proofs ----
(***************************************************************************)
(* The safety properties of PlatformRequests, for any number of requests,  *)
(* tenants, definitions and webhooks and any budget of faults.             *)
(***************************************************************************)
EXTENDS PlatformRequests, TLAPS

Target(r)   == requests[r].target
InPhases(r, phases) == requests[r].phase \in phases

(* What a request has found in the tables, where its handler is.           *)
Found(r) ==
  /\ For(r, {"create_webhook", "manual", "internal"}) => Target(r) \in DOMAIN process_definitions \union {None}
  /\ For(r, {"delete", "rotate", "trigger"}) => Target(r) \in DOMAIN webhook_configs \union {None}
  /\ For(r, Managing \union {"manual"}) => requests[r].tenant # None
  /\ InPhase(r, "define") =>
       /\ For(r, Executing) /\ requests[r].tenant # None
       /\ requests[r].workflow \in DOMAIN process_definitions \union {None}
  /\ InPhase(r, "commit") =>
       /\ For(r, {"delete", "rotate"}) => Target(r) # None
       /\ For(r, Executing) =>
            /\ requests[r].tenant # None
            /\ requests[r].workflow \in DOMAIN process_definitions
            /\ process_definitions[requests[r].workflow] = requests[r].tenant
  /\ For(r, {"trigger"}) /\ InPhases(r, {"define", "commit"}) =>
       Target(r) # None /\ webhook_configs[Target(r)].tenant_id = requests[r].tenant

(* What it has done.                                                       *)
Done(r) ==
  /\ requests[r].answer # None <=> Answered(r)
  /\ InPhase(r, "unsent") <=> requests[r].endpoint = None
  /\ InPhase(r, "refresh") => For(r, {"create_webhook", "rotate"} \union Executing)
  /\ For(r, Executing) /\ (InPhase(r, "refresh") \/ requests[r].answer = "ok") =>
       r \in DOMAIN process_executions
  /\ Did(r, "delete") => Target(r) # None /\ ~ webhook_configs[Target(r)].is_active
  /\ For(r, {"rotate"}) /\ (InPhase(r, "refresh") \/ requests[r].answer = "ok") =>
       Target(r) # None /\ webhook_configs[Target(r)].secret # Target(r)
  /\ r \in started <=> For(r, Executing) /\ requests[r].answer = "ok"

(* The rows that bear its name.                                            *)
Wrote(r) ==
  /\ r \in DOMAIN process_definitions => For(r, {"create_process"}) /\ Answered(r)
  /\ r \in DOMAIN webhook_configs =>
       For(r, {"create_webhook"}) /\ InPhases(r, {"refresh", "answered"})
  /\ r \in DOMAIN process_executions =>
       /\ For(r, Executing) /\ InPhases(r, {"refresh", "answered"})
       /\ LET row == process_executions[r] IN
            /\ row.process_definition_id \in DOMAIN process_definitions
            /\ process_definitions[row.process_definition_id] = row.tenant_id
            /\ For(r, {"trigger"}) =>
                 Target(r) # None /\ webhook_configs[Target(r)].tenant_id = row.tenant_id

(* What had been answered when a trigger arrived, and what it came to.     *)
Past(r) ==
  /\ For(r, {"trigger"}) => requests[r].after \subseteq Changed(Target(r))
  /\ For(r, {"trigger"}) /\ (InPhases(r, {"define", "commit"}) \/ r \in DOMAIN process_executions) =>
       /\ ~ Before(r, "delete")
       /\ Before(r, "rotate") => requests[r].signed # Target(r)

Consistent(r) == Found(r) /\ Done(r) /\ Wrote(r) /\ Past(r)

(* The foreign key of a webhook. *)
ForeignKey ==
  \A w \in DOMAIN webhook_configs : webhook_configs[w].workflow_id \in DOMAIN process_definitions

IInv == TypeOK /\ ForeignKey /\ \A r \in Requests : Consistent(r)

----
(* What a step of any request leaves true of the tables.                   *)
TablesGrow ==
  /\ \A d \in DOMAIN process_definitions :
       d \in DOMAIN process_definitions' /\ process_definitions'[d] = process_definitions[d]
  /\ \A w \in DOMAIN webhook_configs :
       /\ w \in DOMAIN webhook_configs' /\ webhook_configs'[w].tenant_id = webhook_configs[w].tenant_id
       /\ ~ webhook_configs[w].is_active => ~ webhook_configs'[w].is_active
       /\ webhook_configs[w].secret # w => webhook_configs'[w].secret # w
  /\ \A e \in DOMAIN process_executions :
       e \in DOMAIN process_executions' /\ process_executions'[e] = process_executions[e]

(* No rows but those named r are new. *)
NoRowsBut(r) ==
  /\ DOMAIN process_definitions' \subseteq DOMAIN process_definitions \union {r}
  /\ DOMAIN webhook_configs' \subseteq DOMAIN webhook_configs \union {r}
  /\ DOMAIN process_executions' \subseteq DOMAIN process_executions \union {r}

TablesSound ==
  /\ ForeignKey
  /\ DOMAIN process_definitions \subseteq DefinitionIds
  /\ \A d \in DOMAIN process_definitions : process_definitions[d] \in Tenants
  /\ DOMAIN webhook_configs \subseteq WebhookIds
  /\ \A w \in DOMAIN webhook_configs : webhook_configs[w] \in Webhook
  /\ DOMAIN process_executions \subseteq Requests
  /\ \A e \in DOMAIN process_executions : process_executions[e] \in Execution

(* A write adds the row of its request, or changes a row that there is.    *)
LEMMA WriteGrows ==
  ASSUME IInv, NEW r \in Requests, Writes(r)
  PROVE  TablesSound' /\ TablesGrow /\ NoRowsBut(r)
<1> DEFINE w == Target(r)
<1>0. /\ TablesSound /\ Consistent(r)
      /\ requests[r] \in Request
      /\ r \in DefinitionIds /\ r \in WebhookIds /\ r \in Secrets
  BY DEF IInv, TypeOK, TablesSound, DefinitionIds, WebhookIds, Secrets
<1>1. CASE /\ InPhase(r, "received") /\ For(r, {"create_process"})
           /\ process_definitions' = Row(process_definitions, r, requests[r].tenant)
           /\ UNCHANGED <<webhook_configs, process_executions>>
  <2>1. r \notin DOMAIN process_definitions /\ requests[r].tenant \in Tenants
    BY <1>0, <1>1 DEF Consistent, Wrote, Found, For, InPhase, Answered, Managing, Request
  <2>2. /\ DOMAIN process_definitions' = DOMAIN process_definitions \union {r}
        /\ process_definitions'[r] = requests[r].tenant
        /\ \A d \in DOMAIN process_definitions : process_definitions'[d] = process_definitions[d]
    BY <1>1, <2>1 DEF Row
  <2> QED BY <1>0, <1>1, <2>1, <2>2 DEF TablesSound, ForeignKey, TablesGrow, NoRowsBut
<1>2. CASE /\ InPhase(r, "received") /\ For(r, {"create_webhook"}) /\ requests[r].target # None
           /\ webhook_configs' = Row(webhook_configs, r, NewWebhook(r))
           /\ UNCHANGED <<process_definitions, process_executions>>
  <2>1. r \notin DOMAIN webhook_configs /\ requests[r].tenant \in Tenants /\ w \in DefinitionIds
    BY <1>0, <1>2 DEF Consistent, Wrote, Found, For, InPhase, InPhases, Managing, Request, Target, TablesSound
  <2>2. NewWebhook(r) \in Webhook
    BY <1>0, <2>1 DEF NewWebhook, Webhook, Target
  <2>3. /\ DOMAIN webhook_configs' = DOMAIN webhook_configs \union {r}
        /\ webhook_configs'[r] = NewWebhook(r)
        /\ \A v \in DOMAIN webhook_configs : webhook_configs'[v] = webhook_configs[v]
    BY <1>2, <2>1 DEF Row
  <2>4. ForeignKey'
    <3>1. NewWebhook(r).workflow_id \in DOMAIN process_definitions
      BY <1>0, <1>2 DEF NewWebhook, Consistent, Found, For, Target
    <3> QED BY <1>0, <1>2, <2>3, <3>1 DEF TablesSound, ForeignKey
  <2> QED BY <1>0, <1>2, <2>1, <2>2, <2>3, <2>4 DEF TablesSound, TablesGrow, NoRowsBut
<1>3. CASE /\ InPhase(r, "commit")
           /\ \/ For(r, {"delete"}) /\ Deactivate(r)
              \/ For(r, {"rotate"}) /\ Rotate(r)
           /\ UNCHANGED <<process_definitions, process_executions>>
  <2>1. w \in DOMAIN webhook_configs /\ webhook_configs[w] \in Webhook
    BY <1>0, <1>3 DEF Consistent, Found, For, InPhase, Target, TablesSound
  <2>2. w # r
    BY <1>0, <1>3, <2>1 DEF Consistent, Wrote, For, Target
  <2>3. /\ DOMAIN webhook_configs' = DOMAIN webhook_configs
        /\ \A v \in DOMAIN webhook_configs \ {w} : webhook_configs'[v] = webhook_configs[v]
        /\ \/ webhook_configs'[w] = [webhook_configs[w] EXCEPT !.is_active = FALSE]
           \/ webhook_configs'[w] = [webhook_configs[w] EXCEPT !.secret = r]
    BY <1>3, <2>1 DEF Deactivate, Rotate, Target
  <2>4. /\ webhook_configs'[w] \in Webhook
        /\ webhook_configs'[w].tenant_id = webhook_configs[w].tenant_id
        /\ webhook_configs'[w].workflow_id = webhook_configs[w].workflow_id
        /\ ~ webhook_configs[w].is_active => ~ webhook_configs'[w].is_active
        /\ webhook_configs[w].secret # w => webhook_configs'[w].secret # w
    BY <1>0, <2>1, <2>2, <2>3 DEF Webhook
  <2> HIDE DEF w
  <2> QED BY <1>0, <1>3, <2>1, <2>3, <2>4 DEF TablesSound, ForeignKey, TablesGrow, NoRowsBut
<1>4. CASE /\ InPhase(r, "commit") /\ For(r, Executing)
           /\ process_executions' = Row(process_executions, r, NewExecution(r))
           /\ UNCHANGED <<process_definitions, webhook_configs>>
  <2>1. /\ r \notin DOMAIN process_executions /\ requests[r].tenant \in Tenants
        /\ requests[r].workflow \in DefinitionIds
    BY <1>0, <1>4 DEF Consistent, Wrote, Found, For, InPhase, InPhases, Request, TablesSound
  <2>2. NewExecution(r) \in Execution
    BY <1>4, <2>1 DEF NewExecution, Execution, For
  <2>3. /\ DOMAIN process_executions' = DOMAIN process_executions \union {r}
        /\ process_executions'[r] = NewExecution(r)
        /\ \A e \in DOMAIN process_executions : process_executions'[e] = process_executions[e]
    BY <1>4, <2>1 DEF Row
  <2> QED BY <1>0, <1>4, <2>1, <2>2, <2>3 DEF TablesSound, ForeignKey, TablesGrow, NoRowsBut
<1> QED BY <1>1, <1>2, <1>3, <1>4 DEF Writes

(* The row it adds is the one the request asks for. *)
LEMMA WriteLeaves ==
  ASSUME IInv, NEW r \in Requests, Writes(r),
         requests'[r].endpoint = requests[r].endpoint, requests'[r].target = requests[r].target,
         requests'[r].phase \in {"refresh", "answered"},
         For(r, {"create_process"}) => requests'[r].phase = "answered"
  PROVE  /\ Wrote(r)'
         /\ r \in DOMAIN process_executions' => InPhase(r, "commit")
         /\ For(r, Executing) => r \in DOMAIN process_executions'
<1>0. Consistent(r) /\ TablesGrow /\ NoRowsBut(r) /\ requests[r] \in Request
  BY WriteGrows DEF IInv, TypeOK
<1>1. /\ r \in DOMAIN process_definitions' => For(r, {"create_process"})
      /\ r \in DOMAIN webhook_configs' => For(r, {"create_webhook"})
  <2>1. r \in DOMAIN process_definitions => For(r, {"create_process"})
    BY <1>0 DEF Consistent, Wrote
  <2>2. r \in DOMAIN webhook_configs => For(r, {"create_webhook"})
    BY <1>0 DEF Consistent, Wrote
  <2> QED BY <2>1, <2>2 DEF Writes, Row, Deactivate, Rotate
<1>2. CASE ~ For(r, Executing)
  <2>1. r \notin DOMAIN process_executions'
    BY <1>0, <1>2 DEF Consistent, Wrote, Writes
  <2> QED
    BY <1>1, <1>2, <2>1 DEF Wrote, For, InPhases, InPhase, Answered, Target
<1>3. CASE For(r, Executing)
  <2>1. /\ InPhase(r, "commit")
        /\ process_executions' = Row(process_executions, r, NewExecution(r))
        /\ UNCHANGED <<process_definitions, webhook_configs>>
    BY <1>3 DEF Writes, For, Executing
  <2>2. r \in DOMAIN process_executions' /\ process_executions'[r] = NewExecution(r)
    BY <2>1 DEF Row
  <2>3. /\ requests[r].workflow \in DOMAIN process_definitions
        /\ process_definitions[requests[r].workflow] = requests[r].tenant
        /\ For(r, {"trigger"}) => Target(r) # None /\ webhook_configs[Target(r)].tenant_id = requests[r].tenant
    BY <1>0, <1>3, <2>1 DEF Consistent, Found, InPhase, InPhases
  <2> QED
    BY <1>1, <1>3, <2>1, <2>2, <2>3
    DEF NewExecution, Wrote, For, Executing, InPhases, InPhase, Answered, Target
<1> QED BY <1>2, <1>3

LEMMA SameTables ==
  ASSUME IInv, UNCHANGED tables, NEW r
  PROVE  TablesSound' /\ TablesGrow /\ NoRowsBut(r)
BY DEF IInv, TypeOK, TablesSound, ForeignKey, TablesGrow, NoRowsBut, tables

----
(* A request that takes no step keeps what it has, whatever another does.  *)
Kept(q) ==
  /\ requests'[q] = requests[q]
  /\ q \in started' <=> q \in started
  /\ q \in DOMAIN process_definitions' => q \in DOMAIN process_definitions
  /\ q \in DOMAIN webhook_configs' => q \in DOMAIN webhook_configs
  /\ q \in DOMAIN process_executions' => q \in DOMAIN process_executions

(* An answer is final. *)
AnswersStay == \A q \in Requests : Answered(q) => requests'[q] = requests[q]

LEMMA ChangesStay ==
  ASSUME IInv, AnswersStay, NEW w
  PROVE  Changed(w) \subseteq Changed(w)'
BY RequestsAssumption DEF IInv, Consistent, Done, AnswersStay, Changed, Did, For

LEMMA BystanderConsistent ==
  ASSUME IInv, TablesGrow, AnswersStay, NEW q \in Requests, Kept(q)
  PROVE  Consistent(q)'
<1>1. Consistent(q) /\ TypeOK
  BY DEF IInv
<1>2. Found(q)'
  BY <1>1 DEF Kept, TablesGrow, Consistent, Found, For, InPhase, InPhases, Target, TypeOK
<1>3. Done(q)'
  <2>1. For(q, {"delete", "rotate", "trigger"}) => Target(q) \in DOMAIN webhook_configs \union {None}
    BY <1>1 DEF Consistent, Found
  <2> QED
    BY <1>1, <2>1 DEF Kept, TablesGrow, Consistent, Done, For, InPhase, Target, Answered, Did
<1>4. Wrote(q)'
  <2>1. For(q, {"trigger"}) => Target(q) \in DOMAIN webhook_configs \union {None}
    BY <1>1 DEF Consistent, Found, For
  <2> QED
    BY <1>1, <2>1 DEF Kept, TablesGrow, Consistent, Wrote, For, InPhase, InPhases, Target, Answered
<1>5. Past(q)'
  <2>1. For(q, {"trigger"}) => requests[q].after \subseteq Changed(Target(q))
    BY <1>1 DEF Consistent, Past
  <2>2. Changed(Target(q)) \subseteq Changed(Target(q))'
    BY ChangesStay DEF Target, Kept
  <2>3. \A p \in Changed(Target(q)) : requests'[p] = requests[p]
    BY RequestsAssumption DEF IInv, Consistent, Done, AnswersStay, Changed, Did
  <2>4. For(q, {"trigger"}) => \A endpoint : Before(q, endpoint)' <=> Before(q, endpoint)
    BY <2>1, <2>3 DEF Before, Kept, For
  <2> QED
    BY <1>1, <2>1, <2>2, <2>4 DEF Kept, Consistent, Past, For, InPhases, Target
<1> QED BY <1>2, <1>3, <1>4, <1>5 DEF Consistent

----
(* A step of request r, as far as the others see it.                       *)
StepOf(r) ==
  /\ TablesSound' /\ TablesGrow /\ NoRowsBut(r)
  /\ requests' \in [Requests -> Request]
  /\ \A q \in Requests \ {r} : requests'[q] = requests[q] /\ (q \in started' <=> q \in started)
  /\ ~ Answered(r)
  /\ started' \subseteq Requests /\ faults' \in 0..MaxFaults

LEMMA StepConsistent ==
  ASSUME IInv, NEW r \in Requests, StepOf(r), Consistent(r)'
  PROVE  IInv'
<1>1. AnswersStay
  BY DEF StepOf, AnswersStay
<1>2. \A q \in Requests \ {r} : Kept(q)
  BY DEF StepOf, NoRowsBut, Kept
<1>3. \A q \in Requests \ {r} : Consistent(q)'
  BY <1>1, <1>2, BystanderConsistent DEF StepOf
<1>4. TypeOK'
  BY DEF StepOf, TablesSound, TypeOK
<1> QED BY <1>3, <1>4 DEF IInv, StepOf, TablesSound

LEMMA AnswerFields ==
  ASSUME IInv, NEW r \in Requests, NEW a \in {"ok", "refused", "error"}, Answer(r, a)
  PROVE  /\ requests' \in [Requests -> Request]
         /\ \A q \in Requests \ {r} : requests'[q] = requests[q]
         /\ requests'[r] = [requests[r] EXCEPT !.phase = "answered", !.answer = a]
         /\ requests[r] \in Request
<1>1. requests \in [Requests -> Request] /\ requests[r] \in Request
  BY DEF IInv, TypeOK
<1>2. [requests[r] EXCEPT !.phase = "answered", !.answer = a] \in Request
  BY <1>1 DEF Request
<1>3. requests' = [requests EXCEPT ![r] = [requests[r] EXCEPT !.phase = "answered", !.answer = a]]
  BY <1>1 DEF Answer
<1> QED BY <1>1, <1>2, <1>3

LEMMA GoToFields ==
  ASSUME IInv, NEW r \in Requests, NEW phase \in {"commit", "refresh", "define"}, GoTo(r, phase)
  PROVE  /\ requests' \in [Requests -> Request]
         /\ \A q \in Requests \ {r} : requests'[q] = requests[q]
         /\ requests'[r] = [requests[r] EXCEPT !.phase = phase]
         /\ requests[r] \in Request
BY DEF IInv, TypeOK, GoTo, Request

(* What a request asked for does not change any more. *)
SameAsked(r) ==
  /\ requests'[r].endpoint = requests[r].endpoint /\ requests'[r].target = requests[r].target
  /\ requests'[r].signed = requests[r].signed /\ requests'[r].after = requests[r].after

LEMMA PastKept ==
  ASSUME IInv, NEW r \in Requests, StepOf(r), SameAsked(r),
         requests'[r].phase \in {"define", "commit"} \/ r \in DOMAIN process_executions' =>
           InPhases(r, {"define", "commit"}) \/ r \in DOMAIN process_executions
  PROVE  Past(r)'
<1>1. AnswersStay
  BY DEF StepOf, AnswersStay
<1>2. For(r, {"trigger"}) => requests[r].after \subseteq Changed(Target(r))
  BY DEF IInv, Consistent, Past
<1>3. Changed(Target(r)) \subseteq Changed(Target(r))'
  BY <1>1, ChangesStay DEF Target, SameAsked
<1>4. \A p \in Changed(Target(r)) : requests'[p] = requests[p]
  BY <1>1, RequestsAssumption DEF IInv, Consistent, Done, AnswersStay, Changed, Did
<1>5. For(r, {"trigger"}) => \A endpoint : Before(r, endpoint)' <=> Before(r, endpoint)
  BY <1>2, <1>4 DEF Before, SameAsked, For
<1>6. Past(r)
  BY DEF IInv, Consistent
<1> QED
  BY <1>2, <1>3, <1>5, <1>6 DEF SameAsked, Past, For, InPhases, Target

(* A request that fails or is refused, having written or not. *)
LEMMA FailedConsistent ==
  ASSUME IInv, NEW r \in Requests, NEW a \in {"refused", "error"}, Answer(r, a),
         ~ InPhase(r, "unsent"), ~ Answered(r), UNCHANGED started, faults' \in 0..MaxFaults,
         Writes(r) \/ UNCHANGED tables
  PROVE  IInv'
<1>1. TablesSound' /\ TablesGrow /\ NoRowsBut(r)
  BY WriteGrows, SameTables
<1>2. /\ requests' \in [Requests -> Request]
      /\ \A q \in Requests \ {r} : requests'[q] = requests[q]
      /\ requests'[r] = [requests[r] EXCEPT !.phase = "answered", !.answer = a]
      /\ requests[r] \in Request /\ Consistent(r) /\ TypeOK
  BY AnswerFields DEF IInv
<1>3. StepOf(r)
  BY <1>1, <1>2 DEF StepOf, TypeOK
<1>4. SameAsked(r) /\ requests'[r].tenant = requests[r].tenant
      /\ requests'[r].phase = "answered" /\ requests'[r].answer = a
  BY <1>2 DEF SameAsked, Request
<1>5. Found(r)'
  BY <1>1, <1>2, <1>4 DEF TablesGrow, SameAsked, Consistent, Found, For, InPhase, InPhases, Target
<1>6. Done(r)'
  BY <1>1, <1>2, <1>4, RequestsAssumption
  DEF SameAsked, Consistent, Done, For, InPhase, Target, Answered, Did
<1>7. Wrote(r)' /\ (r \in DOMAIN process_executions' => r \in DOMAIN process_executions \/ InPhase(r, "commit"))
  <2>1. CASE UNCHANGED tables
    BY <1>2, <1>4, <2>1 DEF tables, SameAsked, Consistent, Wrote, For, InPhase, InPhases, Target, Answered
  <2>2. CASE Writes(r)
    BY <1>2, <1>4, <2>2, WriteLeaves DEF SameAsked
  <2> QED BY <2>1, <2>2
<1>8. Past(r)'
  BY <1>3, <1>4, <1>7, PastKept DEF InPhase, InPhases
<1> QED BY <1>3, <1>5, <1>6, <1>7, <1>8, StepConsistent DEF Consistent

----
(* A request arrives with what its caller may know. *)
Asks(r, endpoint, tenant, target, signed, after) ==
  /\ InPhase(r, "unsent")
  /\ (tenant = None) <=> (endpoint \in {"trigger", "internal"})
  /\ endpoint \in {"create_webhook", "manual", "internal"} => target \in DOMAIN process_definitions \union {None}
  /\ endpoint \in {"delete", "rotate", "trigger"} => target \in DOMAIN webhook_configs \union {None}
  /\ after = IF endpoint = "trigger" THEN Changed(target) ELSE {}
  /\ requests' = [requests EXCEPT ![r] =
       [Unsent EXCEPT !.endpoint = endpoint, !.tenant = tenant, !.target = target,
                      !.signed = signed, !.phase = "received", !.after = after]]
  /\ UNCHANGED <<tables, started, faults>>

LEMMA ReceiveConsistent ==
  ASSUME IInv, NEW r \in Requests, Receive(r)
  PROVE  IInv'
<1>1. TablesSound' /\ TablesGrow /\ NoRowsBut(r)
  BY SameTables DEF Receive
<1>2. PICK endpoint \in Endpoints, tenant \in Tenants \union {None},
           target \in DefinitionIds \union WebhookIds \union {None},
           signed \in Secrets \union {None}, after \in SUBSET Requests :
        Asks(r, endpoint, tenant, target, signed, after)
  <2>1. PICK endpoint \in Endpoints, tenant \in Tenants \union {None} :
          \E target \in (CASE endpoint = "create_process" -> {}
                           [] endpoint \in {"create_webhook", "manual", "internal"} -> DOMAIN process_definitions
                           [] OTHER -> DOMAIN webhook_configs) \union {None} :
          \E signed \in IF endpoint = "trigger" THEN SecretsOf(target) \union {None} ELSE {None} :
            /\ InPhase(r, "unsent")
            /\ (tenant = None) <=> (endpoint \in {"trigger", "internal"})
            /\ requests' = [requests EXCEPT ![r] =
                 [Unsent EXCEPT !.endpoint = endpoint, !.tenant = tenant, !.target = target,
                                !.signed = signed, !.phase = "received",
                                !.after = IF endpoint = "trigger" THEN Changed(target) ELSE {}]]
            /\ UNCHANGED <<tables, started, faults>>
    BY DEF Receive
  <2>2. DOMAIN webhook_configs \subseteq WebhookIds
    BY DEF IInv, TypeOK
  <2>3. \A w \in DOMAIN webhook_configs \union {None} : SecretsOf(w) \subseteq Secrets
    BY <2>2 DEF SecretsOf, Changed, Secrets, WebhookIds
  <2>4. \A target \in (CASE endpoint = "create_process" -> {}
                           [] endpoint \in {"create_webhook", "manual", "internal"} -> DOMAIN process_definitions
                           [] OTHER -> DOMAIN webhook_configs) \union {None} :
          /\ endpoint \in {"create_webhook", "manual", "internal"} => target \in DOMAIN process_definitions \union {None}
          /\ endpoint \in {"delete", "rotate", "trigger"} => target \in DOMAIN webhook_configs \union {None}
          /\ target \in DOMAIN process_definitions \union DOMAIN webhook_configs \union {None}
    OBVIOUS
  <2>5. \A target : \A signed \in IF endpoint = "trigger" THEN SecretsOf(target) \union {None} ELSE {None} :
          target \in DOMAIN webhook_configs \union {None} \/ endpoint # "trigger" => signed \in Secrets \union {None}
    BY <2>3
  <2>6. PICK target, signed :
          /\ target \in (CASE endpoint = "create_process" -> {}
                           [] endpoint \in {"create_webhook", "manual", "internal"} -> DOMAIN process_definitions
                           [] OTHER -> DOMAIN webhook_configs) \union {None}
          /\ signed \in IF endpoint = "trigger" THEN SecretsOf(target) \union {None} ELSE {None}
          /\ InPhase(r, "unsent")
          /\ (tenant = None) <=> (endpoint \in {"trigger", "internal"})
          /\ requests' = [requests EXCEPT ![r] =
               [Unsent EXCEPT !.endpoint = endpoint, !.tenant = tenant, !.target = target,
                              !.signed = signed, !.phase = "received",
                              !.after = IF endpoint = "trigger" THEN Changed(target) ELSE {}]]
          /\ UNCHANGED <<tables, started, faults>>
    BY <2>1
  <2> DEFINE after == IF endpoint = "trigger" THEN Changed(target) ELSE {}
  <2>7. signed \in Secrets \union {None}
    BY <2>4, <2>5, <2>6
  <2>8. after \in SUBSET Requests
    BY DEF Changed
  <2>9. target \in DefinitionIds \union WebhookIds \union {None}
    BY <2>4, <2>6 DEF IInv, TypeOK
  <2>10. Asks(r, endpoint, tenant, target, signed, after)
    BY <2>4, <2>6 DEF Asks
  <2> QED BY <2>7, <2>8, <2>9, <2>10
<1> DEFINE q == [Unsent EXCEPT !.endpoint = endpoint, !.tenant = tenant, !.target = target,
                               !.signed = signed, !.phase = "received", !.after = after]
<1>3. /\ q \in Request
      /\ q.endpoint = endpoint /\ q.tenant = tenant /\ q.target = target /\ q.after = after
      /\ q.phase = "received" /\ q.answer = None
  BY <1>2 DEF Unsent, Request
<1>4. requests \in [Requests -> Request] /\ Consistent(r)
  BY DEF IInv, TypeOK
<1>5. /\ requests' \in [Requests -> Request] /\ requests'[r] = q
      /\ \A p \in Requests \ {r} : requests'[p] = requests[p]
  <2> HIDE DEF q
  <2>1. requests' = [requests EXCEPT ![r] = q]
    BY <1>2 DEF Asks, q
  <2> QED BY <1>3, <1>4, <2>1
<1> HIDE DEF q
<1>6. StepOf(r)
  BY <1>1, <1>2, <1>5 DEF Asks, StepOf, InPhase, Answered, IInv, TypeOK
<1>7. endpoint # None
  BY <1>2, RequestsAssumption
<1>8. Found(r)'
  BY <1>2, <1>3, <1>5 DEF Asks, Found, For, InPhase, InPhases, Target, tables, Managing
<1>9. r \notin DOMAIN process_definitions /\ r \notin DOMAIN webhook_configs
      /\ r \notin DOMAIN process_executions /\ r \notin started
  BY <1>2, <1>4, RequestsAssumption DEF Asks, Consistent, Wrote, Done, For, InPhase, InPhases, Answered
<1>10. Done(r)'
  BY <1>2, <1>3, <1>5, <1>7, <1>9, RequestsAssumption DEF Asks, Done, For, InPhase, Answered, Did
<1>11. Wrote(r)'
  BY <1>2, <1>9 DEF Asks, Wrote, tables
<1>12. Past(r)'
  <2>1. AnswersStay
    BY <1>6 DEF StepOf, AnswersStay
  <2>2. For(r, {"trigger"})' => requests'[r].after \subseteq Changed(target)
    BY <1>2, <1>3, <1>5 DEF Asks, For
  <2>3. Changed(target) \subseteq Changed(target)'
    BY <2>1, ChangesStay
  <2>4. Target(r)' = target
    BY <1>3, <1>5 DEF Target
  <2> QED BY <1>2, <1>3, <1>5, <1>9, <2>2, <2>3, <2>4 DEF Asks, Past, InPhases, tables
<1> QED BY <1>6, <1>8, <1>10, <1>11, <1>12, StepConsistent DEF Consistent

(* A request that goes on to its next query. *)
LEMMA GoesOnConsistent ==
  ASSUME IInv, NEW r \in Requests, ~ InPhase(r, "unsent"), ~ InPhase(r, "refresh"), ~ Answered(r),
         requests' \in [Requests -> Request],
         \A q \in Requests \ {r} : requests'[q] = requests[q],
         requests'[r].phase \in {"define", "commit"}, requests'[r].answer = requests[r].answer,
         SameAsked(r), UNCHANGED <<tables, started, faults>>,
         Found(r)', Past(r)'
  PROVE  IInv'
<1>1. TablesSound' /\ TablesGrow /\ NoRowsBut(r)
  BY SameTables
<1>2. StepOf(r)
  BY <1>1 DEF StepOf, IInv, TypeOK
<1>3. Consistent(r)
  BY DEF IInv
<1>4. Done(r)' 
  BY <1>3 DEF SameAsked, Consistent, Done, For, InPhase, Target, Answered, Did, tables
<1>5. Wrote(r)'
  <2>1. r \notin DOMAIN process_definitions /\ r \notin DOMAIN webhook_configs
        /\ r \notin DOMAIN process_executions
    BY <1>3 DEF Consistent, Wrote, InPhase, InPhases, Answered
  <2> QED BY <2>1 DEF Wrote, tables
<1> QED BY <1>2, <1>4, <1>5, StepConsistent DEF Consistent

LEMMA FindOwnWebhookConsistent ==
  ASSUME IInv, NEW r \in Requests, FindOwnWebhook(r)
  PROVE  IInv'
<1>1. CASE Answer(r, "refused")
  BY <1>1, FailedConsistent DEF FindOwnWebhook, InPhase, Answered, IInv, TypeOK
<1>2. CASE GoTo(r, "commit") /\ HasOwnWebhook(r)
  <2>1. /\ requests' \in [Requests -> Request]
        /\ \A q \in Requests \ {r} : requests'[q] = requests[q]
        /\ requests'[r] = [requests[r] EXCEPT !.phase = "commit"]
        /\ requests[r] \in Request
    BY <1>2, GoToFields
  <2>2. Consistent(r)
    BY DEF IInv
  <2>3. SameAsked(r) /\ requests'[r].phase = "commit" /\ requests'[r].tenant = requests[r].tenant
        /\ requests'[r].answer = requests[r].answer
    BY <2>1 DEF SameAsked, Request
  <2>4. Found(r)'
    BY <1>2, <2>2, <2>3 DEF FindOwnWebhook, HasOwnWebhook, Consistent, Found, SameAsked, For, InPhase,
                             InPhases, Target, tables, Executing
  <2>5. Past(r)'
    BY <2>3 DEF FindOwnWebhook, SameAsked, Past, For
  <2> QED BY <2>1, <2>3, <2>4, <2>5, GoesOnConsistent DEF FindOwnWebhook, InPhase, Answered
<1> QED BY <1>1, <1>2 DEF FindOwnWebhook

LEMMA LookUpWebhookConsistent ==
  ASSUME IInv, NEW r \in Requests, LookUpWebhook(r)
  PROVE  IInv'
<1>1. CASE Answer(r, "refused") \/ Answer(r, "error")
  BY <1>1, FailedConsistent DEF LookUpWebhook, InPhase, Answered, IInv, TypeOK
<1> DEFINE w == Target(r)
<1>2. CASE /\ ActiveWebhook(r) /\ webhook_configs[w].secret = requests[r].signed
           /\ requests' = [requests EXCEPT ![r].tenant = webhook_configs[w].tenant_id,
                                           ![r].workflow = webhook_configs[w].workflow_id,
                                           ![r].phase = "define"]
  <2>1. /\ requests \in [Requests -> Request] /\ requests[r] \in Request /\ Consistent(r)
        /\ For(r, {"trigger"}) /\ InPhase(r, "received")
    BY DEF IInv, TypeOK, LookUpWebhook
  <2>2. w \in DOMAIN webhook_configs /\ webhook_configs[w] \in Webhook /\ w # None
        /\ webhook_configs[w].is_active
    BY <1>2, <2>1 DEF ActiveWebhook, Target, Consistent, Found, For, IInv, TypeOK
  <2> DEFINE q == [requests[r] EXCEPT !.tenant = webhook_configs[w].tenant_id,
                                      !.workflow = webhook_configs[w].workflow_id, !.phase = "define"]
  <2>3. q \in Request /\ webhook_configs[w].tenant_id \in Tenants
    BY <2>1, <2>2 DEF Request, Webhook
  <2>4. requests' = [requests EXCEPT ![r] = q]
    BY <1>2, <2>1
  <2>5. /\ requests' \in [Requests -> Request] /\ requests'[r] = q
        /\ \A p \in Requests \ {r} : requests'[p] = requests[p]
    <3> HIDE DEF q
    <3> QED BY <2>1, <2>3, <2>4
  <2>6. /\ SameAsked(r) /\ requests'[r].phase = "define" /\ requests'[r].answer = requests[r].answer
        /\ requests'[r].tenant = webhook_configs[w].tenant_id
        /\ requests'[r].workflow = webhook_configs[w].workflow_id
    BY <2>1, <2>5 DEF SameAsked, Request
  <2>7. webhook_configs[w].workflow_id \in DOMAIN process_definitions
    BY <2>2 DEF IInv, ForeignKey
  <2>8. Found(r)'
    BY <2>1, <2>2, <2>3, <2>6, <2>7, RequestsAssumption
    DEF LookUpWebhook, SameAsked, Found, For, InPhase, InPhases, Target, tables, Managing, Executing
  <2>9. Past(r)'
    <3>0. w' = w
      BY <2>6 DEF SameAsked, Target
    <3>1. requests[r].after \subseteq Changed(w)
      BY <2>1 DEF Consistent, Past
    <3> HIDE DEF w, q
    <3>2. ASSUME NEW p \in Changed(w)
          PROVE  /\ p \in Changed(w)' /\ ~ For(p, {"delete"})'
                 /\ webhook_configs[w].secret # w
      <4>1. /\ p \in Requests /\ (Did(p, "delete") \/ Did(p, "rotate"))
            /\ requests[p].target = w /\ Done(p)
        BY <3>2 DEF Changed, IInv, Consistent
      <4>2. ~ Did(p, "delete")
        BY <2>2, <4>1 DEF Done, Target
      <4>3. Did(p, "rotate")
        BY <4>1, <4>2
      <4>4. p # r
        BY <2>1, <4>3 DEF Did, For
      <4>5. requests'[p] = requests[p]
        BY <2>5, <4>1, <4>4
      <4>6. Did(p, "rotate")' /\ ~ For(p, {"delete"})'
        BY <4>3, <4>5 DEF Did, For
      <4>7. webhook_configs[w].secret # w
        BY <4>1, <4>3 DEF Done, Did, Target
      <4> QED BY <3>0, <4>1, <4>5, <4>6, <4>7 DEF Changed
    <3>3. requests'[r].after = requests[r].after /\ requests'[r].signed = webhook_configs[w].secret
      BY <1>2, <2>6 DEF SameAsked
    <3>4. ~ Before(r, "delete")'
      BY <3>1, <3>2, <3>3 DEF Before
    <3>5. Before(r, "rotate")' => requests'[r].signed # w
      BY <3>1, <3>2, <3>3 DEF Before
    <3>6. requests'[r].after \subseteq Changed(w)'
      BY <3>1, <3>2, <3>3
    <3>7. Target(r)' = w
      BY <3>0 DEF w
    <3> QED BY <3>0, <3>4, <3>5, <3>6, <3>7 DEF Past
  <2> QED BY <2>1, <2>5, <2>6, <2>8, <2>9, GoesOnConsistent DEF LookUpWebhook, InPhase, Answered
<1> QED BY <1>1, <1>2 DEF LookUpWebhook, Target

LEMMA LookUpDefinitionConsistent ==
  ASSUME IInv, NEW r \in Requests, LookUpDefinition(r)
  PROVE  IInv'
<1>1. CASE Answer(r, "refused")
  BY <1>1, FailedConsistent DEF LookUpDefinition, InPhase, Answered, IInv, TypeOK
<1> DEFINE d == Target(r)
<1>2. CASE /\ d # None
           /\ requests' = [requests EXCEPT ![r].tenant = process_definitions[d],
                                           ![r].workflow = d, ![r].phase = "define"]
  <2>1. /\ requests \in [Requests -> Request] /\ requests[r] \in Request /\ Consistent(r)
        /\ For(r, {"internal"}) /\ InPhase(r, "received")
    BY DEF IInv, TypeOK, LookUpDefinition
  <2>2. d \in DOMAIN process_definitions /\ process_definitions[d] \in Tenants /\ d \in DefinitionIds
    BY <1>2, <2>1 DEF Consistent, Found, For, IInv, TypeOK
  <2> DEFINE q == [requests[r] EXCEPT !.tenant = process_definitions[d], !.workflow = d, !.phase = "define"]
  <2>3. q \in Request
    BY <2>1, <2>2 DEF Request
  <2>4. requests' = [requests EXCEPT ![r] = q]
    BY <1>2, <2>1
  <2>5. /\ requests' \in [Requests -> Request] /\ requests'[r] = q
        /\ \A p \in Requests \ {r} : requests'[p] = requests[p]
    <3> HIDE DEF q
    <3> QED BY <2>1, <2>3, <2>4
  <2>6. /\ SameAsked(r) /\ requests'[r].phase = "define" /\ requests'[r].answer = requests[r].answer
        /\ requests'[r].tenant = process_definitions[d] /\ requests'[r].workflow = d
    BY <2>1, <2>5 DEF SameAsked, Request
  <2>7. Found(r)' /\ Past(r)'
    BY <2>1, <2>2, <2>6, RequestsAssumption
    DEF LookUpDefinition, SameAsked, Found, Past, For, InPhase, InPhases, Target, tables, Managing, Executing
  <2> QED BY <2>1, <2>5, <2>6, <2>7, GoesOnConsistent DEF LookUpDefinition, InPhase, Answered
<1> QED BY <1>1, <1>2 DEF LookUpDefinition, Target

LEMMA AskExecutionConsistent ==
  ASSUME IInv, NEW r \in Requests, AskExecution(r)
  PROVE  IInv'
<1> DEFINE q == [requests[r] EXCEPT !.workflow = Target(r), !.phase = "define"]
<1>1. /\ requests \in [Requests -> Request] /\ requests[r] \in Request /\ Consistent(r)
      /\ For(r, {"manual"}) /\ InPhase(r, "received")
  BY DEF IInv, TypeOK, AskExecution
<1>2. Target(r) \in DOMAIN process_definitions \union {None} /\ Target(r) \in DefinitionIds \union {None}
  BY <1>1 DEF Consistent, Found, For, IInv, TypeOK
<1>3. q \in Request
  BY <1>1, <1>2 DEF Request
<1>4. requests' = [requests EXCEPT ![r] = q]
  BY <1>1 DEF AskExecution, Target
<1>5. /\ requests' \in [Requests -> Request] /\ requests'[r] = q
      /\ \A p \in Requests \ {r} : requests'[p] = requests[p]
  <2> HIDE DEF q
  <2> QED BY <1>1, <1>3, <1>4
<1>6. /\ SameAsked(r) /\ requests'[r].phase = "define" /\ requests'[r].answer = requests[r].answer
      /\ requests'[r].tenant = requests[r].tenant /\ requests'[r].workflow = Target(r)
  BY <1>1, <1>5 DEF SameAsked, Request
<1>7. Found(r)' /\ Past(r)'
  BY <1>1, <1>2, <1>6 DEF AskExecution, Consistent, SameAsked, Found, Past, For, InPhase, InPhases,
                          Target, tables, Managing, Executing
<1> QED BY <1>1, <1>5, <1>6, <1>7, GoesOnConsistent DEF AskExecution, InPhase, Answered

LEMMA FindDefinitionConsistent ==
  ASSUME IInv, NEW r \in Requests, FindDefinition(r)
  PROVE  IInv'
<1>1. CASE \E a \in {"refused", "error"} : Answer(r, a)
  BY <1>1, FailedConsistent DEF FindDefinition, InPhase, Answered, IInv, TypeOK
<1>2. CASE GoTo(r, "commit") /\ Defines(r)
  <2>1. /\ requests' \in [Requests -> Request]
        /\ \A q \in Requests \ {r} : requests'[q] = requests[q]
        /\ requests'[r] = [requests[r] EXCEPT !.phase = "commit"]
        /\ requests[r] \in Request
    BY <1>2, GoToFields
  <2>2. Consistent(r) /\ InPhase(r, "define")
    BY DEF IInv, FindDefinition
  <2>3. /\ SameAsked(r) /\ requests'[r].phase = "commit" /\ requests'[r].tenant = requests[r].tenant
        /\ requests'[r].answer = requests[r].answer /\ requests'[r].workflow = requests[r].workflow
    BY <2>1 DEF SameAsked, Request
  <2>4. For(r, Executing) /\ ~ For(r, {"delete", "rotate"})
    BY <2>2 DEF Consistent, Found, For, Executing
  <2>5. Found(r)'
    BY <1>2, <2>2, <2>3, <2>4 DEF FindDefinition, Defines, Consistent, Found, SameAsked, For, InPhase,
                                  InPhases, Target, tables
  <2>6. StepOf(r)
    BY <2>1, <2>2, SameTables DEF FindDefinition, StepOf, InPhase, Answered, IInv, TypeOK
  <2>7. Past(r)'
    BY <2>2, <2>3, <2>6, PastKept DEF InPhase, InPhases
  <2> QED BY <2>1, <2>2, <2>3, <2>5, <2>7, GoesOnConsistent DEF FindDefinition, InPhase, Answered
<1> QED BY <1>1, <1>2 DEF FindDefinition

----
(* A request whose write is committed and that goes on to read it back. *)
LEMMA WroteConsistent ==
  ASSUME IInv, NEW r \in Requests, GoTo(r, "refresh"), Writes(r), UNCHANGED <<started, faults>>,
         For(r, {"create_webhook", "rotate"} \union Executing)
  PROVE  IInv'
<1>1. TablesSound' /\ TablesGrow /\ NoRowsBut(r)
  BY WriteGrows
<1>2. /\ requests' \in [Requests -> Request]
      /\ \A q \in Requests \ {r} : requests'[q] = requests[q]
      /\ requests'[r] = [requests[r] EXCEPT !.phase = "refresh"]
      /\ requests[r] \in Request /\ Consistent(r) /\ TypeOK
  BY GoToFields DEF IInv
<1>3. /\ SameAsked(r) /\ requests'[r].phase = "refresh" /\ requests'[r].answer = requests[r].answer
      /\ requests'[r].tenant = requests[r].tenant
  BY <1>2 DEF SameAsked, Request
<1>4. InPhases(r, {"received", "commit"})
  BY DEF Writes, InPhase, InPhases
<1>5. StepOf(r)
  BY <1>1, <1>2, <1>4 DEF StepOf, TypeOK, InPhases, InPhase, Answered
<1>6. ~ For(r, {"create_process"})
  BY DEF For, Executing
<1>7. Found(r)'
  BY <1>1, <1>2, <1>3 DEF TablesGrow, SameAsked, Consistent, Found, For, InPhase, InPhases, Target
<1>8. Wrote(r)' /\ (r \in DOMAIN process_executions' => InPhase(r, "commit"))
      /\ (For(r, Executing) => r \in DOMAIN process_executions')
  BY <1>3, <1>6, WriteLeaves DEF SameAsked
<1>9. requests[r].answer = None /\ requests[r].endpoint # None /\ r \notin started
  BY <1>2, <1>4, RequestsAssumption DEF Consistent, Done, InPhases, InPhase, Answered
<1>10. For(r, {"rotate"}) => Target(r) # None /\ webhook_configs'[Target(r)].secret # Target(r)
  <2> SUFFICES ASSUME For(r, {"rotate"})
               PROVE  Target(r) # None /\ webhook_configs'[Target(r)].secret # Target(r)
    OBVIOUS
  <2>1. InPhase(r, "commit") /\ Rotate(r)
    BY DEF Writes, For, Executing
  <2>2. Target(r) \in DOMAIN webhook_configs /\ webhook_configs[Target(r)] \in Webhook /\ Target(r) # None
    BY <1>2, <2>1 DEF Consistent, Found, For, InPhase, TypeOK
  <2>3. Target(r) # r
    BY <1>2, <2>2 DEF Consistent, Wrote, For
  <2>4. webhook_configs'[Target(r)].secret = r
    BY <2>1, <2>2 DEF Rotate, Target, Webhook
  <2> QED BY <2>2, <2>3, <2>4
<1>11. Done(r)'
  BY <1>3, <1>6, <1>8, <1>9, <1>10, RequestsAssumption
  DEF SameAsked, Done, For, InPhase, Target, Answered, Did
<1>12. Past(r)'
  BY <1>3, <1>5, <1>8, PastKept DEF InPhase, InPhases
<1> QED BY <1>5, <1>7, <1>8, <1>11, <1>12, StepConsistent DEF Consistent

LEMMA CreateProcessConsistent ==
  ASSUME IInv, NEW r \in Requests, CreateProcess(r)
  PROVE  IInv'
<1>1. TablesSound' /\ TablesGrow /\ NoRowsBut(r)
  BY WriteGrows DEF CreateProcess
<1>2. /\ requests' \in [Requests -> Request]
      /\ \A q \in Requests \ {r} : requests'[q] = requests[q]
      /\ requests'[r] = [requests[r] EXCEPT !.phase = "answered", !.answer = "ok"]
      /\ requests[r] \in Request /\ Consistent(r) /\ TypeOK
  BY AnswerFields DEF IInv, CreateProcess
<1>3. /\ SameAsked(r) /\ requests'[r].phase = "answered" /\ requests'[r].answer = "ok"
      /\ requests'[r].tenant = requests[r].tenant
  BY <1>2 DEF SameAsked, Request
<1>4. requests[r].endpoint = "create_process" /\ InPhase(r, "received")
  BY DEF CreateProcess, Writes, For, Executing
<1>5. StepOf(r)
  BY <1>1, <1>2, <1>4 DEF StepOf, TypeOK, InPhase, Answered, CreateProcess
<1>6. Found(r)'
  BY <1>2, <1>3, <1>4 DEF SameAsked, Consistent, Found, For, InPhase, InPhases, Executing, Managing
<1>7. Wrote(r)' /\ (r \in DOMAIN process_executions' => InPhase(r, "commit"))
  BY <1>3, <1>4, WriteLeaves DEF SameAsked, CreateProcess
<1>8. Done(r)'
  BY <1>2, <1>3, <1>4, RequestsAssumption
  DEF SameAsked, Consistent, Done, For, InPhase, Answered, Did, Executing, CreateProcess
<1>9. Past(r)'
  BY <1>3, <1>4 DEF SameAsked, Past, For
<1> QED BY <1>5, <1>6, <1>7, <1>8, <1>9, StepConsistent DEF Consistent

LEMMA DeleteConsistent ==
  ASSUME IInv, NEW r \in Requests, Writes(r), For(r, {"delete"}), Answer(r, "ok"), UNCHANGED <<started, faults>>
  PROVE  IInv'
<1>1. TablesSound' /\ TablesGrow /\ NoRowsBut(r)
  BY WriteGrows
<1>2. /\ requests' \in [Requests -> Request]
      /\ \A q \in Requests \ {r} : requests'[q] = requests[q]
      /\ requests'[r] = [requests[r] EXCEPT !.phase = "answered", !.answer = "ok"]
      /\ requests[r] \in Request /\ Consistent(r) /\ TypeOK
  BY AnswerFields DEF IInv
<1>3. /\ SameAsked(r) /\ requests'[r].phase = "answered" /\ requests'[r].answer = "ok"
      /\ requests'[r].tenant = requests[r].tenant
  BY <1>2 DEF SameAsked, Request
<1>4. requests[r].endpoint = "delete" /\ InPhase(r, "commit") /\ Deactivate(r)
  BY DEF Writes, For, Executing
<1>5. StepOf(r)
  BY <1>1, <1>2, <1>4 DEF StepOf, TypeOK, InPhase, Answered
<1>6. Found(r)'
  BY <1>1, <1>2, <1>3, <1>4 DEF TablesGrow, SameAsked, Consistent, Found, For, InPhase, InPhases, Target, Executing
<1>7. Wrote(r)'
  BY <1>3, <1>4, WriteLeaves DEF SameAsked, For
<1>8. Target(r) # None /\ ~ webhook_configs'[Target(r)].is_active
  <2>1. Target(r) \in DOMAIN webhook_configs /\ webhook_configs[Target(r)] \in Webhook /\ Target(r) # None
    BY <1>2, <1>4 DEF Consistent, Found, For, InPhase, TypeOK
  <2> QED BY <1>4, <2>1 DEF Deactivate, Target, Webhook
<1>9. Done(r)'
  BY <1>2, <1>3, <1>4, <1>8, RequestsAssumption
  DEF SameAsked, Consistent, Done, For, InPhase, Target, Answered, Did, Executing
<1>10. Past(r)'
  BY <1>3, <1>4 DEF SameAsked, Past, For
<1> QED BY <1>5, <1>6, <1>7, <1>9, <1>10, StepConsistent DEF Consistent

(* The row read back, the coroutine handed to the loop, the 2xx. *)
LEMMA RefreshConsistent ==
  ASSUME IInv, NEW r \in Requests, Refresh(r)
  PROVE  IInv'
<1>1. TablesSound' /\ TablesGrow /\ NoRowsBut(r)
  BY SameTables DEF Refresh
<1>2. /\ requests' \in [Requests -> Request]
      /\ \A q \in Requests \ {r} : requests'[q] = requests[q]
      /\ requests'[r] = [requests[r] EXCEPT !.phase = "answered", !.answer = "ok"]
      /\ requests[r] \in Request /\ Consistent(r) /\ TypeOK
  BY AnswerFields DEF IInv, Refresh
<1>3. /\ SameAsked(r) /\ requests'[r].phase = "answered" /\ requests'[r].answer = "ok"
      /\ requests'[r].tenant = requests[r].tenant
  BY <1>2 DEF SameAsked, Request
<1>4. InPhase(r, "refresh") /\ For(r, {"create_webhook", "rotate"} \union Executing)
  BY <1>2 DEF Refresh, Consistent, Done
<1>5. /\ r \in started' <=> For(r, Executing)
      /\ \A q \in Requests \ {r} : q \in started' <=> q \in started
      /\ started' \subseteq Requests
  <2>1. r \notin started
    BY <1>2, <1>4, RequestsAssumption DEF Consistent, Done, InPhase, Answered
  <2> QED BY <1>2, <2>1 DEF Refresh, ToStart, TypeOK
<1>6. StepOf(r)
  BY <1>1, <1>2, <1>4, <1>5 DEF StepOf, TypeOK, InPhase, Answered, Refresh
<1>7. Found(r)'
  BY <1>1, <1>2, <1>3, <1>4 DEF TablesGrow, SameAsked, Consistent, Found, For, InPhase, InPhases, Target
<1>8. Wrote(r)'
  BY <1>2, <1>3, <1>4 DEF SameAsked, Consistent, Wrote, For, InPhase, InPhases, Target, Answered, Refresh, tables
<1>9. ~ For(r, {"delete"})
  BY <1>4 DEF For, Executing
<1>10. Done(r)'
  BY <1>2, <1>3, <1>4, <1>5, <1>9, RequestsAssumption
  DEF SameAsked, Consistent, Done, For, InPhase, Target, Answered, Did, Refresh, tables
<1>11. Past(r)'
  BY <1>3, <1>6, PastKept DEF InPhase, InPhases, Refresh, tables
<1> QED BY <1>6, <1>7, <1>8, <1>10, <1>11, StepConsistent DEF Consistent

----
LEMMA CrashConsistent ==
  ASSUME IInv, Crash
  PROVE  IInv'
<1> DEFINE died(r) == [requests[r] EXCEPT !.phase = "answered", !.answer = "error"]
<1>1. requests \in [Requests -> Request] /\ TypeOK
  BY DEF IInv, TypeOK
<1>2. /\ requests' = [r \in Requests |-> IF InFlight(r) THEN died(r) ELSE requests[r]]
      /\ UNCHANGED <<tables, started>> /\ faults' \in 0..MaxFaults
  <2>1. faults' \in 0..MaxFaults
    <3>1. Fail
      BY DEF Crash
    <3> QED BY <1>1, <3>1, RequestsAssumption DEF Fail, TypeOK
  <2>2. requests' = [r \in Requests |-> IF InFlight(r) THEN died(r) ELSE requests[r]]
    BY Zenon DEF Crash
  <2> QED BY <2>1, <2>2 DEF Crash
<1>3. ASSUME NEW r \in Requests
      PROVE  died(r) \in Request
  <2>1. requests[r] \in Request
    BY <1>1
  <2> QED BY <2>1 DEF Request
<1>4. requests' \in [Requests -> Request]
  <2> HIDE DEF died
  <2> QED BY <1>1, <1>2, <1>3
<1>5. AnswersStay
  BY <1>2 DEF AnswersStay, InFlight
<1>6. /\ TypeOK'
      /\ ForeignKey' /\ TablesGrow
  BY <1>1, <1>2, <1>4 DEF TypeOK, tables, IInv, ForeignKey, TablesGrow
<1>7. ASSUME NEW r \in Requests
      PROVE  Consistent(r)'
  <2>1. CASE ~ InFlight(r)
    BY <1>2, <1>5, <1>6, <2>1, BystanderConsistent DEF Kept, tables
  <2>2. CASE InFlight(r)
    <3>1. Consistent(r) /\ ~ InPhase(r, "unsent") /\ ~ Answered(r)
      BY <2>2 DEF IInv, InFlight
    <3>2. SameAsked(r) /\ requests'[r].phase = "answered" /\ requests'[r].answer = "error"
          /\ requests'[r].tenant = requests[r].tenant
      <4>1. requests'[r] = died(r) /\ requests[r] \in Request
        BY <1>1, <1>2, <2>2
      <4> QED BY <4>1 DEF SameAsked, Request
    <3>3. Found(r)'
      BY <1>2, <3>1, <3>2 DEF SameAsked, Consistent, Found, For, InPhase, InPhases, Target, tables
    <3>4. Done(r)'
      BY <1>2, <3>1, <3>2, RequestsAssumption
      DEF SameAsked, Consistent, Done, For, InPhase, Target, Answered, Did, tables
    <3>5. Wrote(r)'
      BY <1>2, <3>1, <3>2 DEF SameAsked, Consistent, Wrote, For, InPhase, InPhases, Target, Answered, tables
    <3>6. Past(r)'
      <4>1. For(r, {"trigger"}) => requests[r].after \subseteq Changed(Target(r))
        BY <3>1 DEF Consistent, Past
      <4>2. Changed(Target(r)) \subseteq Changed(Target(r))'
        BY <1>5, <3>2, ChangesStay DEF Target, SameAsked
      <4>3. \A p \in Changed(Target(r)) : requests'[p] = requests[p]
        BY <1>5, RequestsAssumption DEF IInv, Consistent, Done, AnswersStay, Changed, Did
      <4>4. For(r, {"trigger"}) => \A endpoint : Before(r, endpoint)' <=> Before(r, endpoint)
        BY <3>2, <4>1, <4>3 DEF Before, SameAsked, For
      <4>5. Past(r)
        BY <3>1 DEF Consistent
      <4> QED
        BY <1>2, <3>2, <4>1, <4>2, <4>4, <4>5 DEF SameAsked, Past, For, InPhases, Target, tables
    <3> QED BY <3>3, <3>4, <3>5, <3>6 DEF Consistent
  <2> QED BY <2>1, <2>2
<1> QED BY <1>6, <1>7 DEF IInv

LEMMA InitConsistent == Init => IInv
<1> SUFFICES ASSUME Init PROVE IInv
  OBVIOUS
<1>1. Unsent \in Request
  BY DEF Unsent, Request
<1>2. requests \in [Requests -> Request] /\ \A r \in Requests : requests[r] = Unsent
  <2> HIDE DEF Unsent, Request
  <2> QED BY <1>1 DEF Init
<1>3. DOMAIN process_executions = {}
  BY DEF Init
<1>4. /\ DOMAIN process_definitions = OldDefinitions /\ DOMAIN webhook_configs = OldWebhooks
      /\ \A d \in OldDefinitions : process_definitions[d] \in Tenants
      /\ \A w \in OldWebhooks : webhook_configs[w] \in Webhook /\ webhook_configs[w].workflow_id \in OldDefinitions
  BY DEF Init
<1>5. TypeOK /\ ForeignKey
  BY <1>2, <1>3, <1>4, RequestsAssumption DEF TypeOK, ForeignKey, Init, DefinitionIds, WebhookIds
<1>6. ASSUME NEW r \in Requests
      PROVE  Consistent(r)
  <2>1. /\ requests[r].endpoint = None /\ requests[r].answer = None /\ requests[r].phase = "unsent"
    BY <1>2 DEF Unsent
  <2>2. \A endpoints : endpoints \subseteq Endpoints => ~ For(r, endpoints)
    BY <2>1, RequestsAssumption DEF For
  <2>3. /\ ~ For(r, {"create_webhook", "manual", "internal"}) /\ ~ For(r, {"delete", "rotate", "trigger"})
        /\ ~ For(r, Managing \union {"manual"}) /\ ~ For(r, {"trigger"}) /\ ~ For(r, Executing)
        /\ ~ For(r, {"rotate"}) /\ ~ For(r, {"delete"})
    BY <2>2 DEF Endpoints, Managing, Executing
  <2>4. r \notin DOMAIN process_definitions /\ r \notin DOMAIN webhook_configs
        /\ r \notin DOMAIN process_executions /\ r \notin started
    BY <1>3, <1>4, RequestsAssumption DEF Init
  <2> QED BY <2>1, <2>3, <2>4 DEF Consistent, Found, Done, Wrote, Past, InPhase, InPhases, Answered, Did
<1> QED BY <1>5, <1>6 DEF IInv

LEMMA StutterConsistent == IInv /\ UNCHANGED vars => IInv'
BY DEF IInv, TypeOK, ForeignKey, Consistent, Found, Done, Wrote, Past, Before, Changed, Did, Answered,
       InPhase, InPhases, For, Target, vars

LEMMA RequestConsistent ==
  ASSUME IInv, NEW r \in Requests,
         \/ Receive(r) \/ Refuse(r) \/ Manage(r) \/ Execute(r) \/ Refresh(r)
         \/ QueryRaises(r) \/ CommitReplyLost(r)
  PROVE  IInv'
<1>0. TypeOK
  BY DEF IInv
<1>1. CASE Refuse(r) \/ RejectCreation(r)
  BY <1>0, <1>1, FailedConsistent DEF Refuse, RejectCreation, InPhase, Answered, TypeOK
<1>2. CASE QueryRaises(r) \/ CommitReplyLost(r)
  <2>1. /\ \E a \in {"error"} : Answer(r, a)
        /\ ~ InPhase(r, "unsent") /\ ~ Answered(r) /\ UNCHANGED started
        /\ faults' \in 0..MaxFaults /\ (Writes(r) \/ UNCHANGED tables)
    BY <1>0, <1>2, RequestsAssumption DEF QueryRaises, CommitReplyLost, InFlight, Fail, TypeOK
  <2> QED BY <2>1, FailedConsistent
<1>3. CASE Receive(r)
  BY <1>3, ReceiveConsistent
<1>4. CASE CreateProcess(r)
  BY <1>4, CreateProcessConsistent
<1>5. CASE CreateWebhook(r)
  BY <1>5, WroteConsistent DEF CreateWebhook, For
<1>6. CASE FindOwnWebhook(r)
  BY <1>6, FindOwnWebhookConsistent
<1>7. CASE CommitWebhook(r)
  BY <1>7, DeleteConsistent, WroteConsistent DEF CommitWebhook, For
<1>8. CASE LookUpWebhook(r)
  BY <1>8, LookUpWebhookConsistent
<1>9. CASE LookUpDefinition(r)
  BY <1>9, LookUpDefinitionConsistent
<1>10. CASE AskExecution(r)
  BY <1>10, AskExecutionConsistent
<1>11. CASE FindDefinition(r)
  BY <1>11, FindDefinitionConsistent
<1>12. CASE CommitExecution(r)
  BY <1>12, WroteConsistent DEF CommitExecution, For
<1>13. CASE Refresh(r)
  BY <1>13, RefreshConsistent
<1> QED
  BY <1>1, <1>2, <1>3, <1>4, <1>5, <1>6, <1>7, <1>8, <1>9, <1>10, <1>11, <1>12, <1>13
  DEF Manage, Execute

LEMMA Consistency == Spec => []IInv
<1>1. IInv /\ [Next]_vars => IInv'
  BY RequestConsistent, CrashConsistent, StutterConsistent DEF Next
<1> QED BY <1>1, InitConsistent, PTL DEF Spec

----
(* The tables, the requests and the set of started executions keep their   *)
(* shape: every row is in the schema of its table.                         *)
THEOREM TypesHold == Spec => []TypeOK
BY Consistency, PTL DEF IInv

(* No rotation, however it overlaps with it, undoes a DELETE that was      *)
(* answered (webhooks/service.py:69-96).                                   *)
THEOREM DeletionIsFinal == Spec => []DeletedStaysInactive
<1>1. IInv => DeletedStaysInactive
  BY DEF IInv, Consistent, Done, DeletedStaysInactive, Target
<1> QED BY <1>1, Consistency, PTL

(* A trigger sees every delete and rotation that was answered before it    *)
(* came: it makes no execution for a deleted webhook, nor one signed with  *)
(* the first secret of a rotated webhook (webhooks/router.py:85-88).       *)
THEOREM TriggersMeetTheNewRow == Spec => []TriggerMeetsNewRow
<1>1. IInv => TriggerMeetsNewRow
  BY DEF IInv, TypeOK, Consistent, Past, TriggerMeetsNewRow, Triggered, Target
<1> QED BY <1>1, Consistency, PTL

(* The tenant of an execution is its definition's, and its webhook's, so   *)
(* that the executor may look the definition up by its id alone            *)
(* (executions/service.py:18-23).                                          *)
THEOREM ExecutionsStayInTheirTenant == Spec => []TenantsAgree
<1>1. IInv => TenantsAgree
  BY DEF IInv, TypeOK, Consistent, Wrote, TenantsAgree, Triggered, Target
<1> QED BY <1>1, Consistency, PTL

(* The executions given to the loop are those whose caller got a 202, and  *)
(* each has its committed row (executions/service.py:35-43).               *)
THEOREM AcceptedAreStarted == Spec => []AcceptedIsStarted
<1>1. IInv => AcceptedIsStarted
  BY DEF IInv, TypeOK, Consistent, Done, AcceptedIsStarted
<1> QED BY <1>1, Consistency, PTL

====
