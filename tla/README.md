# Constructor in TLA+

TLA+ models of Constructor, a multi-tenant platform that runs workflows made of
agent, condition, transform and stub steps, in four Python services around
PostgreSQL and Redis. Paths below are abbreviated: **P** =
`src/services/platform-api/src`, **A** = `src/services/agent-orchestration/src`,
**S** = `src/services/scheduler-service/src`, **W** =
`src/services/websocket-service/src`.

Contents: [inventory](#1-inventory) · [modules](#2-modules-and-how-they-follow-the-code) ·
[runs](#3-runs-bounds-and-what-they-show) · [fairness](#4-fairness) ·
[findings](#5-where-the-code-and-its-words-disagree) · [proofs](#6-proofs) ·
[not modelled](#7-what-is-not-modelled) · [plan](#8-plan)

## 1. Inventory

### Components, their state and their operations

| component | state | operations | modelled in |
|---|---|---|---|
| workflow executor and dispatcher (P/executions/executor, dispatcher, condition, transform, events) | rows of `process_executions`; the in-memory row; `current_step_id`; `_pending` and its Futures | `execute_workflow` (one asyncio task per execution), `dispatch_agent_step`, `register/resolve/reject_pending`, `_publish_status_change` | WorkflowExecution |
| result consumer of the platform (P/executions/redis_consumer, P/main) | consumer group of `agent.result.ready`, the batch in hand | read, settle, acknowledge | WorkflowExecution |
| executions service and router, internal trigger (P/executions/service, router; P/internal/router) | rows; coroutines handed to the loop | `create_execution` from a user, a webhook or the scheduler | PlatformRequests |
| webhooks (P/webhooks) | rows of `webhook_configs`: tenant, workflow, secret, `is_active` | create, delete, rotate, trigger, list | PlatformRequests |
| workflow definitions (P/workflows) | rows of `process_definitions` | create, list, get; `validate_steps` | WorkflowDefinition (validation, and how the executor reads the steps), PlatformRequests (creation) |
| agent worker (A/consumer, A/publisher, A/worker) | consumer group of `agent.task.created`, the batch in hand, the task under way | read, run, publish, write memory, acknowledge | AgentService (alone), WorkflowExecution (with the platform) |
| agent runner, tools, model router (A/runner, A/tools, A/router) | the conversation, its iterations, the timer, an open engine or client, `last_model_used` | `AgentRunner.run`, `should_continue`, `execute_tool_node`, `get_model` | AgentRun, AgentService; its outcome in WorkflowExecution |
| agent memories (A/memory) | rows of `agent_execution_logs`; a Redis history | `LongTermMemory.write`; nothing calls the Redis history | AgentService (`logs`) |
| scheduler dispatch (S/dispatcher) | the Redis lock of a workflow, the attempt under way | lock, POST with retries, unlock | SchedulerDispatch |
| scheduler job loader (S/job_loader, S/worker) | APScheduler's jobs, the rows read last | poll, remove, add | SchedulerJobs |
| websocket service (W) | consumer group of `execution.status.changed`, connections, rooms, joins under way | connect, disconnect, join, leave; consume and emit | StatusDelivery |
| tenant isolation in sessions (P/database, P/auth/dependencies) | pooled connections and their `app.current_tenant` | `get_db`, `get_scoped_db`, commit, rollback, close | TenantSessions |
| auth, users, roles, audit, tenants (P/auth, users, rbac, audit, tenants) | users, role assignments, refresh tokens, audit entries, tenants; issued tokens | login, me, create user, create tenant, permission check | TenantSessions |
| infrastructure and migrations | - | - | not modelled |

### How they interact

```
 scheduler --POST /internal/executions--> platform-api <--HTTP-- users, webhooks
   |  lock in Redis                        |  rows in PostgreSQL
   |                                       |--XADD agent.task.created-------> agent worker
   `--reads process_definitions            |<--XADD agent.result.ready------- (one task at a time)
                                           `--XADD execution.status.changed-> websocket service --> clients
```

Each service is one process with one asyncio event loop, so that code runs
without interruption between two awaits of an external call (a query, a commit,
a Redis command, an HTTP request, a timer). Those awaits are where executions,
requests, consumers and handlers interleave, and they are the steps of the
models. The three streams have consumer groups with one consumer each, which
always read with `">"`: an entry that was delivered and not handled stays in
the pending entries list, which nothing reads.

### What is hard

* Results are matched to Futures **by execution id alone**
  (`dispatcher._pending`): a late or second result of an earlier step meets the
  Future of a later one.
* `_pending` keeps its entry after a timeout or a failed XADD, and a timer, a
  result and a restart race each other.
* A coroutine lives in memory only, its row in the database: commits, events
  and tasks are not atomic together.
* Every external call may fail before or after taking effect, and the except
  clauses make calls that may fail in turn.
* Scheduler instances share nothing but a lock with a time to live, which a
  dispatch may outlive, and retry requests that may have succeeded or may yet.
* Jobs are reloaded far more often than they fire, and are not updated.
* A websocket client leaves, drops or reconnects while its join awaits the
  database.
* Requests read a row, await, and write it.
* `set_config(.., false)` outlives the transaction that commits it, the pool
  does not reset it, and a session changes its connection at each commit.

`PROJECT.json` lists these hazards one by one ("hazards"), each at its line,
with the properties that would catch it or the reason why none does.

### What makes each component correct

* **Executor.** An output is stored under the step that asked for it, by the
  execution that asked for it; a completed row holds an output for every agent
  step dispatched, unless the definition wrote over it; a terminal row is final; events announce committed rows and
  end with the terminal one; every execution ends.
* **Definitions.** What the validator accepts is what the executor relies on.
* **Worker.** A task handed to it is answered, in order, with one success at
  most; its log agrees with what it answered and with the model it used.
* **Requests.** What was answered holds for what arrives later; an accepted
  execution is started; its row agrees with its definition and webhook on the
  tenant.
* **Runner.** Each tool call is answered before the model is called again; the
  loop is bounded and its verdict is right; a tool closes what it opened.
* **Sessions.** A scoped handler's statements run in the tenant of its token; a
  request's rows are there together or not at all; tokens and writers are who
  they should be; requests that wait for each other all end.
* **Scheduler.** A lock never stands in the way of the next tick; dispatches of a
  workflow only overlap where one has outlived its lock; an undisturbed tick is
  served; retries do not duplicate what was answered; schedules fire, and stop
  when removed.
* **Delivery.** At most once, in order, to the members of the room and of the
  tenant only, and to all of them unless a failure passed an event over.

## 2. Modules and how they follow the code

`RedisStream` - a stream and one consumer group: `last` is the group's last
delivered entry, `pos` the consumer's place in the batch in its memory.
Composed (EXTENDS) by WorkflowExecution (two groups), AgentService and
StatusDelivery.

`WorkflowDefinition` - steps as the table stores them. `ValidateSteps` gives the
errors of `validate_steps`, in its order of cases: no steps, errors of single
steps, and only then dangling "next"s. `TypesOf`, `NextsOf` and `BranchOf` are what
the executor makes of the steps: `steps_map` keeps the last step of an id, an object
as "next" cannot be looked up, branches are not validated. `Executable` says what
the executor needs in terms of positions. MCWorkflowExecution derives the
constants of its runs from lists of steps through this module, and states in two
ASSUMEs, which TLC evaluates, that these lists are accepted and that on all short
lists `ValidateSteps` and `Executable` agree.

`WorkflowExecution` - the core: platform-api, Redis and the agent worker
together. `pc[e]` names the external call that the coroutine of execution `e`
is suspended in; an action is that call taking effect and the code up to the
next one. Executions execute the same definition, given by `TypeOf`, `NextOf`,
`BranchesOf`; an agent step whose task cannot be built ends its execution
(`BuildTaskRaises`). `row` is the committed row, `obj` the ORM object that
`_publish_status_change` reads; their `ctx` keeps, for each step, *which task*
produced the output stored under it, which is all that attribution needs, or
`Written`, as the context given at the creation (`Given`) and the destination
paths of transforms (`WritesOf`) are free to name a step's id.
`fut` and `pending` are the Future and the dictionary entry of
`register_pending`. Conditions take any of their branches or raise, transforms
write or raise. The three step types the executor passes over (`notify`,
`wait`, `human_approval`) are "stub". The worker's `pc` follows `_process`:
run, publish, write memory, and the handler's second publish. Kinds of failure
are enabled by `Faults` and counted by `MaxFaults`; a failing XADD or commit may
have taken effect. `StepTimesOut` may fire at any time of an await, a result
already set included, as `wait_for` allows.

`ExecutionLifecycle` - the abstract specification of a row: inserted pending,
running once, outputs recorded only while it runs, ends completed or failed.
WorkflowExecution is shown to implement it (`LifecycleSpec`) under a refinement
mapping that forgets everything but the committed status and the set of steps
with an entry.

`PlatformRequests` - the HTTP handlers that write: `create_process`, the webhook
operations, and the three callers of `create_execution`. `phase` is the query a
request is in; a select reads committed rows, a commit shows its writes at once,
and an UPDATE sets only the columns that were assigned (SQLAlchemy's unit of
work), which `DeletedStaysInactive` depends on. Rows and secrets are named by the
request that generates them. `after` is a history variable: the deletes and
rotations of the webhook answered when a trigger arrived. The reading endpoints
change nothing and are left out. Answers are "ok" (2xx), "refused" (4xx) and
"error" (5xx, or no answer).

`AgentRun` - the LangGraph loop of one task: `CallModel` with `should_continue` after
it, the tool calls of a message one by one, each refused, or opened and closed
with or without an error, and the ends of a run (last word, limit, supersteps,
exception, timer). A message keeps who it is from, its calls and what it answers.
It has no initial state of its own: AgentService extends it.

`AgentService` - the worker process around AgentRun: read a batch, pick the model,
run, publish, write the log, publish the handler's failure, acknowledge. Failures
are counted: `faults` bounds them, `losses` are those that may cost a task its
answer. `last_model_used` is the router's, shared by all tasks. The timer and a
TimeoutError of the model's client look alike to `run()`.

`TaskService` - what the worker promises those who enqueue tasks: answers in order,
one success at most and only as the first answer, at most one failure after it.
AgentService is shown to implement it (`ServiceSpec`), with the tasks mapped to
their number and results to task and status. WorkflowExecution's worker is the same
protocol with the graph reduced to its outcome, so that the composition stays small;
it is shown to implement the same TaskService.

`TenantSessions` - sessions, connections and the handlers of accounts, statement by
statement. `setting` is `app.current_tenant` as last committed on a connection,
`local` the value inside its open transaction: commit copies one way, rollback (and
with it close, the pool's reset and any exception) the other. `Takes` gives a
statement the connection its session holds, or an idle one of `pool`, the connections
there are. `bypass` says whether
the role is exempt from row level security, as the deployed one is; `Visible` is what
the policies let through otherwise, and `Unnamed` a setting that is NULL, which hides
all rows, or '', which is no uuid and makes the statement raise: both are possible. Rows are not a variable: `committed[r]` is the set
of tables request `r` has committed rows to, from which `Users`, `UserRoles` and
`Slugs` are computed; `written` is the same for its open transaction. Tokens are their
claims. `RolePermissions` is the table of P/rbac/permissions.

`SchedulerDispatch` - instances, each firing `dispatch()` for every tick of one
job, with a clock in units of five seconds. `timer` is the most an attempt or a
sleep has left, `lock.ttl` what the key has. `Pass` lets time go on only when
nothing is due, which is how an instance keeps to its timeouts. The timeout of an
attempt bounds each of its phases and not their sum, so `PostTime` is several times
ten seconds, and a run with three attempts outlives its lock; `Release` then deletes
another's. A request that its instance gave up stays in `late` and may be served
(`ServeLate`) at any time, in a later run or after the last. `TimingAssumption` says of
`_LOCK_TTL` only what its comment does: it does not exceed the period of the job.

`ScheduledRuns` - what such a lock promises: no run is of a tick before that of one begun
earlier, runs overlap only through a run that is `spent` (it has outlived its lock) or
`exposed` (its lock was deleted by one that had), and in a run there is another execution only
after a lost answer. Two instances may run the same tick one after the other, as they do
(section 5). SchedulerDispatch is shown to implement it (`RunsSpec`); the lock, the clock,
the attempts and the failures are forgotten.

`SchedulerJobs` - `load_jobs` and the polling loop, counted in polls. `Sync` is
the whole of `load_jobs` after its query, which awaits nothing: the jobs without
a row are removed, the missing ones added, in any order of the rows, until a bad
interval raises. A job counts the polls until it fires.

`RoomBroadcast` - what the websocket service promises to clients: events are passed one by
one in their order and never a second time, each is seen by the members its room has at
that moment, and whoever is owed an event that did not reach the whole room has missed it.
StatusDelivery is shown to implement it (`BroadcastSpec`); the consumer group, the batch,
connections and joins under way are forgotten.

`StatusDelivery` - the websocket process. A join awaits the database between
`RequestJoin` and `JoinReturns`; in between all other handlers run. `since` and
`missed` are history variables, for what a client in a room is owed and what a
failure passed over.

Definitions marked `\* mutant:` are wrong versions of the one that follows them.
They take no part in any specification; each shows that a property notices the
mistake it names (`PROJECT.json`, "mutants").

## 3. Runs, bounds and what they show

| run | bounds | distinct states | shows |
|---|---|---|---|
| `exec_chain` | 2 executions, 2 agent steps, batches of 2, 4 tasks, 2 faults of any kind but a lost event | 2.8 M | `OutputAttribution`, `OneOpenTask`, `WaiterReachable`, `CompletedAnswersAll` |
| `exec_mixed` | 1 execution, all step types, a condition that goes on, back, ends or names no step, a transform and a creator that write under steps' ids, 3 tasks, 3 faults of any kind | 0.60 M | `TerminalEventLast`, `OutputIsAwaited` with repeated visits, `EveryExecutionEnds`, `EventsAnnounceCommitted`, `TerminalRowStable`, refinement of ExecutionLifecycle and of TaskService |
| `agent_service` | 2 tasks of 4 kinds (limits -1 to 3, no override, one known, one not), 2 calls a message, 3 supersteps, 2 faults | 0.29 M | `CallsAnswered`, `VerdictMatches`, `ToolClosed`, `LogsAgree`, `EveryTaskAnswered`, refinement of TaskService |
| `requests` | 3 requests of any kind, 2 tenants, an old definition and an old webhook, 1 fault | 0.93 M | `TypeOK`, `DeletedStaysInactive`, `TriggerMeetsNewRow`, `TenantsAgree`, `AcceptedIsStarted` |
| `sessions` | 2 requests of 10 kinds, a pool of 1 or 2 connections, 4 users of 2 tenants, 1 fault | 0.68 M | `ScopedUntilCommit`, `AnsweredAsCommitted`, `LoginOwn`, `WritersPermitted`, `RequestsEnd` |
| `sched_safe` | 2 instances, 2 ticks, attempts of up to 30 s, 3 faults | 3.1 M | `NextCycleCanAcquire`, `TickServed`, `OncePerFiring`, refinement of ScheduledRuns |
| `jobs` | 2 workflows, 2 changes of the table, 2 faults | 35 k | `JobsHaveRows`, `TimersRunOn`, `ScheduleFires`, `RemovedStops` |
| `delivery` | 3 clients of 2 tenants, 1 execution, 3 events, batches of 2, 2 faults | 0.53 M | `ShownOnceInOrder`, `RoomsAreTenants`, `MemberSeesAll`, `EveryEventPassed`, refinement of RoomBroadcast |
| `exec_failure_attribution`, `sched_duplicate`, `jobs_bad_interval`, `jobs_edited` | minimal | - | a violation each, section 5 |

Type invariants are proved of the modules whose runs do not list one (section 6).

Why these bounds are enough for the cases that matter:

* two executions are the fewest that share `_pending`, a batch and the worker;
  two agent steps the fewest where a late result meets a later Future; two
  faults allow, for instance, a redundant result and a failing acknowledgement.
  Batches of two hold a second entry to be lost with the first one's failure
  (the code's `COUNT` is 5 or 10). A second step of the same execution only
  starts when the first has ended, so longer chains repeat the same hand-over.
* `exec_mixed` has `CHECK_DEADLOCK FALSE`: an execution that loops stops where
  `MaxTasks` does, and `EveryExecutionEnds` excuses it there (`Dispatching`): nothing in
  the code bounds the visits of a cycle. In the other runs over `Spec` the end of everything is the
  explicit action `AtRest`, and any other halt would be reported.
* `requests`: a delete, a rotation and a trigger of the same webhook are three
  requests. Requests are sent once each, so it stops (`CHECK_DEADLOCK FALSE`).
  Requests and tenants are symmetric: no property singles one out, and rows,
  secrets and executions that are named by requests are permuted with them.
* `sched_safe`: two ticks are the fewest where a run of the first, its lock and the
  requests it gave up meet runs of the second; three faults let all three of its attempts
  fail, or two and a DEL. `Period` and `LockTTL` are 60 s and 55 s in units of 5 s, `Backoff`
  is 2 s and 4 s, rounded up; `PostTime` is three phases of 10 s, with which a run may
  take well over the lock's 55 s and the period. Runs that hang even longer only meet ticks
  further on in the same way; the proofs are for any `PostTime`.
* `agent_service`: the limits stand on both sides of 0 and 1 and of what the
  superstep limit allows (two calls of the model and one round of tools fit in three
  supersteps); a second task meets what the first left in the router and in the
  batch.
* `sessions`: a request can meet what the other left on its connection, log in with
  the other's new user, write with the other's new token, wait for its slug, and, with a
  pool of one, wait for its connection at every statement; initially a connection may hold a setting that requests before
  these left on it, which stands for longer histories. It stops when both requests are
  done (`CHECK_DEADLOCK FALSE`); that they all get there is `RequestsEnd`.
* `jobs`: a schedule that fires at every poll, and one that needs three polls in
  a row to go by without its timer being reset.
* `delivery`: two clients of one tenant, one of which may stay while the other
  comes and goes, and a third of another tenant; three events are a batch of two
  and one beyond it.

## 4. Fairness

* `LiveSpec` of WorkflowExecution: weak fairness of `Execute(e)` for each execution - the event loop
  keeps serving every coroutine, and a timer that is due fires. Nothing is
  assumed of agents, worker or result consumer: an execution whose task is never
  answered ends by its timer. A "database" failure or a "platformCrash" may end
  the coroutine ("dead") and leave the row behind by design of the code: no recovery
  looks for rows of a previous process, and `EveryExecutionEnds` excuses those.
* `AgentService`: weak fairness of `Worker`, the one loop of the worker process,
  for a process that keeps running: models and tools return, raise or are cut off by
  the timer. `EveryTaskAnswered` allows for tasks that a loss after their arrival costs
  an answer, and for no others.
* `TenantSessions`: weak fairness of `Handle(r)` for each request - the event loop
  serves every handler, the database answers every statement. A request that waits for
  an idle connection or for another's slug needs no stronger fairness: what it waits for
  is held by requests that end, and requests are sent once each.
* `StatusDelivery`, `SchedulerJobs`: weak fairness of the one loop each of them
  runs (`StatusConsumer.start`, `_periodic_reload`), which both end in a sleep
  or an await that returns. Clients, publishers and edits of the table are free.

Failures are drawn from a finite budget, so liveness is claimed when failures
stop. No action is strongly fair.

## 5. Where the code and its words disagree

1. `exec_failure_attribution` - the worker publishes a task's success, its memory
   write raises, and the handler publishes "failed" for the same task. If the
   first result has already moved the execution on, the second rejects the
   Future of the *next* step, and the execution fails although no step did. The
   handler's comment says the failure is published so that the platform "can
   resolve the pending Future instead of hanging until timeout". Outputs are not
   affected: `OutputAttribution` holds, and is proved.
2. `sched_duplicate` - the lock is deleted right after the dispatch, so an
   instance that fires a little later in the same tick acquires it and
   dispatches again, although S/worker.py says the lock "prevents duplicate
   executions". Dispatches do not *overlap* as long as none outlives its lock; one
   that does, with slow attempts, deletes the other's lock when it ends (`RunsSpec`
   says how far that goes).
3. `jobs_bad_interval` - an `interval_minutes` that is no number raises out of
   `load_jobs`, now and at each poll, and the rows behind it get no job,
   although its docstring says "New workflows in DB → job added".
4. `jobs_edited` - a schedule that is modified in the table goes on by its old trigger
   until the scheduler restarts: `load_jobs` skips every workflow that has a job, and
   there is no other way to update one. The design of the triggers
   (docs/superpowers/specs/2026-05-20-triggers-design.md:222-231, 293) has the platform
   publish an invalidation when a definition is created or modified, and the scheduler
   reload that job; neither service has it at this commit. As no endpoint edits a
   definition, this concerns edits of the table.

## 6. Proofs

`WorkflowExecution_proofs` proves, for any number of executions, any definition
(cyclic ones and invalid references included), any batch sizes and any budget of
faults, from `DefinitionAssumption` and `BoundAssumption` alone:

| theorem | property | idea |
|---|---|---|
| `TypeCorrect` | `TypeOK` | `TypeInv`: the types, and `Control`: at each `pc`, what `obj`, `at` and `row` must be |
| `OutputsAttributed` | `OutputAttribution` | `Attribution`, below |
| `OneTaskInFlight` | `OneOpenTask` | the same |
| `AwaitedOutput` | `OutputIsAwaited` | the same |
| `TerminalRows` | `TerminalRowStable` | by `Control`, no coroutine that may commit finds a terminal row |

`OutputAttribution` is not inductive: nothing in the state says that the result
about to settle a Future is of the task that is awaited. The code never checks
it, as results carry no more than the execution id into `_pending`. It is true
because of the order of things elsewhere, which `Attribution` spells out:

* `AwaitedTask` - an awaiting coroutine awaits the task it enqueued for its step;
* `ResultsOfWorker` - results are of tasks the worker is past, or of the one it is
  on once it has tried to publish;
* `OneSuccess` - a task succeeds at most once (its handler's second result is
  always "failed");
* `OneOpenTask` - an execution that may still store outputs has one task in flight
  at most that could produce one, and it is the awaited one;
* `FutureOutput` - a Future holds an output only while its task is awaited;
* `OutputAttribution` - what is stored is attributed right.

The step that needs them all is `HandleResultAttribution`: a success that is
unread makes its task open, by `OneOpenTask` its execution has ended or awaits
that very task, and by `OneSuccess` the task is closed afterwards. A timeout ends
the execution (`on_error` is not acted upon), which is why a late success can do
no harm; were timeouts skipped or retried, `OneOpenTask` would break. Proofs are
one lemma per group of actions, each with what it leaves unchanged
(`CoroutineFrame`, `StreamFrame`, `WorkerFrame`) stated once.

Its second part builds on `Attribution` and proves, under the same assumptions, what rows,
events, Futures and tasks of an execution have to do with each other:

| theorem | property | part of the invariant |
|---|---|---|
| `WaitersReachable` | `WaiterReachable` | `Waiter` |
| `CompletedRowsAnswered` | `CompletedAnswersAll` | `Answered`: all tasks of an execution have their outputs, or what was written over them, but the awaited one |
| `TerminalEventsLast` | `TerminalEventLast` | `Told`: no terminal event before "done", and the row's then |
| `CommittedAnnounced` | `EventsAnnounceCommitted` | `Synced`: before a publication the in-memory row is the committed one |
| `RowsFollowLifecycle` | `LifecycleSpec` | `Context`: the committed context is the in-memory one but in "commitNext", where that may have more in it and nothing less |

`Answered` uses `AwaitedTask` of `Attribution`: the output that arrives is stored under the
step of the only task without one. The refinement needs `Context`, because a commit
writes whatever the session holds: did an output wait for the commit of a terminal status, or
could a commit take one back, no step of ExecutionLifecycle would match. A step of a
coroutine leaves other executions alone (`StepsAside`, `AsideRowed`); `RaiseRowed`,
`LoopRowed` and `CommitRowed` are the ways to leave a call that most actions share.

Its third part proves `WorkerServes` (`ServiceSpec`): the worker inside the composition
implements TaskService, with the tasks as their number and `results` as the answers. The
invariant it needs is `Replying`: `Attribution`, by which the task in hand has no result
before its first publication, and `OneResult`, by which it has one at most as long as the
handler may still publish its failure. A first XADD is then an `Answer`, that of the handler an
`Answer` or a `ReportFailure`, an enqueued task one more, and every other action leaves tasks and
results alone (`ConsumerAside`, `ExecutorEnqueues`).

Its last part is about lists of steps of any length: `AcceptsExecutable` (`validate_steps`
accepts exactly the `Executable` lists) and `DefinitionsAsAssumed` (an accepted list, as
the executor reads it, meets `DefinitionAssumption` of WorkflowExecution, so that the
theorems above hold of every definition the API stores).

`PlatformRequests_proofs` proves, for any number of requests, tenants, definitions and
webhooks and any budget of faults, from `RequestsAssumption` (ids that are generated are
new; "no value" is no value):

| theorem | property |
|---|---|
| `TypesHold` | `TypeOK` |
| `DeletionIsFinal` | `DeletedStaysInactive` |
| `TriggersMeetTheNewRow` | `TriggerMeetsNewRow` |
| `ExecutionsStayInTheirTenant` | `TenantsAgree` |
| `AcceptedAreStarted` | `AcceptedIsStarted` |

Its invariant `IInv` says of each request what it has found (`Found`: a handler that got
past its select still has the row it selected, since rows are never deleted and keep
their tenant), what it has done (`Done`), which rows bear its name (`Wrote`) and what had
been answered when a trigger arrived (`Past`). A step changes the tables in a monotone
way only (`TablesGrow`: rows stay, tenants stay, inactive stays inactive, a secret that
was replaced never returns), whatever request takes it; `BystanderConsistent` derives
from that alone that the other requests keep their part, so each action is proved about
its own request. `WriteGrows` is where interleaving would show: the UPDATE of a rotation
leaves `is_active` as another request committed it. `TriggersMeetTheNewRow` needs, beyond
`Past`, that answers are final (`ChangesStay`).

`AgentService_proofs` proves, for any tools, tasks, models, limits, batch sizes and
failures, from `RunAssumption` and `ServiceAssumption`:

| theorem | property | part of the invariant |
|---|---|---|
| `ConversationsAnswered` | `CallsAnswered` | `Conversation` |
| `VerdictsMatch` | `VerdictMatches` | `Counted`, `Verdict` |
| `ToolsClosed` | `ToolClosed` | `Opened` |
| `LogsFollowResults` | `LogsAgree` | `Progress`, `LogsInPast`, `RunOfTask` |
| `WorkerServes` | `ServiceSpec` | `Progress` |

`RunInv` is about one run. `CallsAnswered` says nothing while tools run; `Conversation` says
that all but the last message match, that the last one is the model's and that `answers`
holds the answers to its first calls, so that `ToolsDone` completes the match, and `Opened`
(a tool is only open with calls and supersteps left) is why neither of its ways out leaves
one open. `Progress` says what has been published for the task in hand at each stage: nothing,
exactly one result, or, while a failure is being reported, either. Hence a log row can only be the
first result of its task, and every XADD is an `Answer` or a `ReportFailure` of TaskService.

`StatusDelivery_proofs` proves, for any clients, executions, batch size and failures, from
`DeliveryAssumption`: `TypeCorrect` (`TypeOK`), `ShownOnce` (`ShownOnceInOrder`),
`RoomsKeepToTenants` (`RoomsAreTenants`) and `MembersSeeAll` (`MemberSeesAll`). Beyond these
its invariant says that only entries the consumer is past were shown (`ShownPassed`), that
exactly the members of a room have a time of admission (`Admissions`), and that a join which
awaits the database is of a connected client (`Joins`). A step of the consumer either passes over entries, which are then in
`missed` (`PassesOver`), or shows one (`Emits`); the three invariants are proved of these
two kinds of step, whichever action takes them. `ServiceBroadcasts` (`BroadcastSpec`) maps the
first kind to `PassOver` and the second to `Deliver`, with `passed` as `Passed`, the entries whose emission is over; that
nothing is read before there is a group is `Uncreated`, which no other proof needs.
`RedisStream_proofs` has what the three
proofs with streams need of `XReadGroup`, `Advance` and `DropBatch`.

`TenantSessions_proofs` proves, for any requests, connections, tenants, users and failures, from
`SessionsAssumption` (ids are keys) and `PermissionAssumption`:

| theorem | property | part of the invariant |
|---|---|---|
| `TypesAreKept` | `TypeOK` | `Shapes`, `Pool` |
| `StatementsScoped` | `ScopedUntilCommit` | `Confined`, from `Pool` |
| `AnswersMatchCommits` | `AnsweredAsCommitted` | `Place`, `Ledger` |
| `LoginsFindTheirUser` | `LoginOwn` | `Found` |
| `OnlyPermittedWrite` | `WritersPermitted` | `Claimed` |

`Pool` (no connection has two holders) is what keeps the setting of one request from another:
all that an action does to connections is one of four lemmas (`PoolRests`, `PoolHolds`,
`PoolReturns`, `PoolCommits`), each of which leaves the connections of the others alone
(`Moves`). `Ledger` says what a transaction has inserted at each statement, so that `Commit` commits
`RowsOf` the endpoint in one piece. What the other requests know stays true because
users and roles are only added (`Grown`, `BystanderHandled`). Every failure is one lemma
(`EndsInv`): rolled back, or its commit done and the reply lost.

`SchedulerDispatch_proofs` proves, for any instances, ticks, numbers of retries, times and
failures, from `SchedulerAssumption` and `TimingAssumption`, which do not bound an attempt:

| theorem | property | part of the invariant |
|---|---|---|
| `TypeCorrect` | `TypeOK` | |
| `NextCycleAcquires` | `NextCycleCanAcquire` | `Origin` |
| `TicksServed` | `TickServed` | `Punctual`, `Origin`, `Served` |
| `OncePerRun` | `OncePerFiring` | `Counted` |
| `RunsKeepToLock` | `RunsSpec` | `Punctual`, `Held`, `Origin`, `Counted` |

The code never compares the owner of the lock, and a run may outlive its own. What is left is
due to when a key is set: `Origin` says that it was for a tick, in the unit that was due, by an
instance that handled it, so that with `LockTTL <= Period` the key is gone when the next one is
due, and an instance which finds a key finds one of its own tick. `Punctual`, that ticks are
handled in that unit, is what `Pass` keeps by waiting. Hence `Served`: a tick that was handled
and not skipped has an execution, a run on the way to one, or was disrupted; that another's key
was deleted does not matter. `Held` dates the lock of a run that still has it: in the
refinement, an instance that begins finds no lock, so every run under way has outlived its own
or lost it to one that had (`spent`, `exposed`), and none is of a later tick. `Counted` bounds
what a run has created, lost and given up, those requests included that are served later.

`SchedulerJobs_proofs` proves, for any workflows, triggers, periods, changes and failures, from
`JobsAssumption`: `JobsOfRows` (`JobsHaveRows`), `TimersAreKept` (`TimersRunOn`, of schedules that
are as before) and, beyond the
runs, `FiresWithinPeriod`: no job is ever further from firing than its period. A load removes
jobs or adds missing ones and does nothing else to any (`SyncJobs`), wherever a bad interval
makes it stop.

Every invariant, action property and refinement that a passing run checks is proved. What is
only model-checked is liveness (`EveryExecutionEnds`, `EveryTaskAnswered`, `ScheduleFires`,
`RemovedStops`, `EveryEventPassed`, `RequestsEnd`), since fairness and ENABLED are out of the
prover's reach, and the four violations, whose runs are their evidence.

## 7. What is not modelled

* **Row level security after the first commit of a scoped session.** `ScopedUntilCommit`
  ends at the commit, because the code's promise does: afterwards a session may get
  another connection, with another tenant's setting or none, and a session of `get_db` may
  find a setting that was left behind. Those statements are in the model (`Refresh`,
  `ClearScope`, the login); under a role that bypasses the policies, as the deployed one
  does (P/internal/router.py says so), they see the same rows.
* **`get_tenant_db`**, which nothing calls; a mutant of `SetScope` shows what it would do.
* **Refresh tokens, edits of users, roles or tenants**: no endpoint uses or offers them.
  The reading endpoints change nothing.
* **Passwords, signatures, JMESPath, prompts, queries, responses**: what they decide is
  modelled, not what they compute.
* **`ShortTermMemory`, `FALLBACK_CHAIN`**: nothing uses them. `tools_allowed` is passed to
  the model but not tested by `execute_tool_node`, which is why AgentRun lets a model call
  any registered name. A task the worker cannot parse cannot come from the platform,
  which builds it with the same fields.
* **A lost XREADGROUP reply** in WorkflowExecution's worker: it has the effect of
  `ReadTasks` followed by `AgentCrash`. The result consumer's is a fault of that model
  ("resultRead"), the worker's one of AgentService.
* **A consumer group that could not be created** is taken for one that exists;
  StatusDelivery has those behaviours, WorkflowExecution assumes its groups.
* **Spelling of room ids** in the websocket service, **APScheduler's** arithmetic and
  LangGraph itself, which are taken as the code uses them.
* **A leave that overtakes a join** is a behaviour of StatusDelivery, after which the client
  is in the room: no property calls it wrong. Nor is a client that joins late owed the
  events before its join; it reads the row over HTTP.
* **Periods below `_LOCK_TTL`**: `interval_minutes` 0 and the like are outside
  `TimingAssumption`.
* Front end, containers, migrations.

## 8. Plan

Done: every component with state of its own is modelled and model-checked; every safety
property and all five refinements are proved; the validator.

Next, in this order:

1. *Prove*: abstract specifications of what requests and sessions promise - a webhook as a
   register that deletes and rotations write, a request's rows as one atomic write - and that
   PlatformRequests and TenantSessions implement them.
2. *Compose*: SchedulerDispatch with the internal trigger of PlatformRequests, so that
   a lost answer and a retried POST meet the handler that commits.
3. *Compose*: the events of WorkflowExecution with RoomBroadcast, for what a client that
   joins late is told.

To repeat a run: `tlc -config <cfg> <module>` with the names in `PROJECT.json`; to
check the proofs: `tlapm` on the eight modules whose names end in `_proofs`.
