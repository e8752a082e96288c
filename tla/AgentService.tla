---- MODULE AgentService ----
(***************************************************************************)
(* The agent worker: RedisConsumer reads batches of tasks, has AgentRunner *)
(* run them one by one (AgentRun), publishes their results and logs them   *)
(* in agent_execution_logs.  The platform enqueues the tasks.              *)
(***************************************************************************)
EXTENDS AgentRun, RedisStream

CONSTANTS
  Tasks,        \* what a task may ask: [limit, override]
  Supported,    \* the model ids _instantiate knows
  Default,      \* the model id ROUTING_TABLE gives every task type
  None,         \* no model_override
  TaskCount,    \* COUNT of XREADGROUP (5 in the code)
  MaxTasks,     \* bound: tasks enqueued
  MaxFaults     \* bound: failures

ASSUME ServiceAssumption ==
  /\ \A t \in Tasks : t.limit \in Int
  /\ Default \in Supported
  /\ TaskCount \in Nat \ {0} /\ MaxTasks \in Nat /\ MaxFaults \in Nat

VARIABLES
  tasks,            \* the stream agent.task.created
  group,            \* its consumer group
  stage,            \* where _process is with the task in hand
  last_model_used,  \* of the ModelRouter all tasks share
  results,          \* the stream agent.result.ready
  logs,             \* agent_execution_logs
  faults,           \* failures so far
  losses            \* those among them that may cost a task its answer

serviceVars == <<tasks, group, stage, last_model_used, results, logs, faults, losses>>
vars == <<runVars, serviceVars>>

Statuses == {"completed", "failed", "timeout"}

Init ==
  /\ maxIterations = 0 /\ pc = "done" /\ messages = <<>> /\ iterations = 0 /\ steps = 0
  /\ answers = <<>> /\ open = FALSE /\ result = NoResult
  /\ tasks = <<>> /\ group = NewGroup /\ stage = "idle" /\ last_model_used = ""
  /\ results = <<>> /\ logs = <<>>
  /\ faults = 0 /\ losses = 0

----
Fault == faults < MaxFaults /\ faults' = faults + 1 /\ UNCHANGED losses
Loss  == faults < MaxFaults /\ faults' = faults + 1 /\ losses' = losses + 1
Fine  == UNCHANGED <<faults, losses>>

Task == tasks[InHand(group)]

(* The platform, whenever it comes to it. *)
Enqueue ==
  /\ Len(tasks) < MaxTasks
  /\ \E t \in Tasks : tasks' = Append(tasks, t)
  /\ UNCHANGED <<runVars, group, stage, last_model_used, results, logs>> /\ Fine

(* XREADGROUP; with its reply, the batch is lost. *)
ReadTasks ==
  /\ stage = "idle" /\ CanRead(group, tasks)
  /\ \/ group' = XReadGroup(group, tasks, TaskCount) /\ Fine
     \/ group' = DropBatch(XReadGroup(group, tasks, TaskCount)) /\ Loss
  /\ UNCHANGED <<runVars, tasks, stage, last_model_used, results, logs>>

ResolveModelId(task) == IF task.override = None THEN Default ELSE task.override

LastModelKept(task) ==  \* mutant: the last model is kept for a task without override
  IF task.override = None /\ last_model_used # "" THEN last_model_used ELSE ResolveModelId(task)

(* The model a task is run with, which get_model notes. *)
ModelUsed(task) == ResolveModelId(task)

(* run() up to the graph: get_model raises for an id it does not know, or   *)
(* when the client cannot be made.                                          *)
BeginTask ==
  /\ stage = "idle" /\ ~ Drained(group)
  /\ last_model_used' = ModelUsed(Task)
  /\ \/ last_model_used' \in Supported /\ stage' = "run" /\ StartRun(Task.limit)
     \/ stage' = "publishFailed" /\ UNCHANGED runVars
  /\ UNCHANGED <<tasks, group, results, logs>> /\ Fine

RunStep ==
  /\ stage = "run" /\ Graph
  /\ stage' = IF pc' = "done" THEN "publish" ELSE "run"
  /\ UNCHANGED <<tasks, group, last_model_used, results, logs>> /\ Fine

RunTimesOut ==
  /\ stage = "run" /\ TimesOut
  /\ stage' = "publish"
  /\ UNCHANGED <<tasks, group, last_model_used, results, logs>> /\ Fine

Publish(status, model) ==
  results' = Append(results, [task |-> InHand(group), status |-> status, model |-> model])

PublishResult ==
  /\ stage = "publish"
  /\ Publish(result.status, last_model_used)
  /\ stage' = "memory"
  /\ UNCHANGED <<runVars, tasks, group, last_model_used, logs>> /\ Fine

PublishAgain ==  \* mutant: the publication is tried again
  /\ stage = "publish"
  /\ Publish(result.status, last_model_used) \/ UNCHANGED results
  /\ UNCHANGED <<runVars, tasks, group, stage, last_model_used, logs>> /\ Fault

(* The XADD of the result raises, having reached Redis or not. *)
PublishResultRaises ==
  /\ stage = "publish"
  /\ Publish(result.status, last_model_used) \/ UNCHANGED results
  /\ stage' = "publishFailed"
  /\ UNCHANGED <<runVars, tasks, group, last_model_used, logs>> /\ Fault

Log == Append(logs, Last(results))

(* LongTermMemory.write raises with or without the row. *)
WriteMemory ==
  /\ stage = "memory"
  /\ \/ logs' = Log /\ stage' = "ack" /\ Fine
     \/ logs' \in {Log, logs} /\ stage' = "publishFailed" /\ Fault
  /\ UNCHANGED <<runVars, tasks, group, last_model_used, results>>

PublishFailureSilent ==  \* mutant: the handler only logs the error
  /\ stage = "publishFailed" /\ stage' = "ack"
  /\ UNCHANGED <<runVars, tasks, group, last_model_used, results, logs>> /\ Fine

(* The handler publishes a failed result; if that raises it is logged. *)
PublishFailure ==
  /\ stage = "publishFailed" /\ stage' = "ack"
  /\ \/ Publish("failed", "") /\ Fine
     \/ (Publish("failed", "") \/ UNCHANGED results) /\ Loss
  /\ UNCHANGED <<runVars, tasks, group, last_model_used, logs>>

(* XACK in the finally clause: when it raises the rest of the batch is lost. *)
AckTask ==
  /\ stage = "ack" /\ stage' = "idle" /\ ForgetRun
  /\ \/ group' = Advance(group) /\ Fine
     \/ group' = DropBatch(group) /\ Loss
  /\ UNCHANGED <<tasks, last_model_used, results, logs>>

CrashRedelivers ==  \* mutant: a restarted worker reads its pending entries
  /\ ~ Drained(group) /\ stage' = "idle" /\ ForgetRun
  /\ last_model_used' = ""
  /\ UNCHANGED <<tasks, group, results, logs>> /\ Loss

(* The process restarts, with a router of its own. *)
Crash ==
  /\ ~ Drained(group) /\ stage' = "idle" /\ ForgetRun
  /\ group' = DropBatch(group)
  /\ last_model_used' = ""
  /\ UNCHANGED <<tasks, results, logs>> /\ Loss

Worker ==
  \/ ReadTasks \/ BeginTask \/ RunStep \/ RunTimesOut
  \/ PublishResult \/ PublishResultRaises \/ WriteMemory \/ PublishFailure \/ AckTask

AtRest ==
  /\ Len(tasks) = MaxTasks /\ stage = "idle" /\ Drained(group) /\ ~ CanRead(group, tasks)
  /\ UNCHANGED vars

Next == Enqueue \/ Worker \/ Crash \/ AtRest

(* The worker process keeps running; models and tools answer, raise, or are *)
(* cut off by the timer.                                                    *)
Spec == Init /\ [][Next]_vars /\ WF_vars(Worker)

----
(* Every log row repeats the first result of its task, with the model the   *)
(* task asks for, although all tasks share the router's last_model_used;    *)
(* no task has two rows.                                                    *)
LogsAgree ==
  /\ \A k \in DOMAIN logs :
       /\ logs[k].model = ResolveModelId(tasks[logs[k].task])
       /\ \E i \in DOMAIN results :
            /\ results[i] = logs[k]
            /\ \A j \in 1..(i - 1) : results[j].task # logs[k].task
  /\ \A k, l \in DOMAIN logs : logs[k].task = logs[l].task => k = l

(* A task the worker has not passed over yet is answered, whatever limits   *)
(* and models it has and whichever single call after its run fails: only a  *)
(* crash, a failed XACK, a lost batch or a failure that cannot be published *)
(* may leave it without an answer.                                          *)
Due(t)      == t \in DOMAIN tasks /\ t > group.pos /\ ~ (stage = "ack" /\ t = InHand(group))
Answered(t) == \E i \in DOMAIN results : results[i].task = t
EveryTaskAnswered ==
  \A t \in 1..MaxTasks : \A n \in 0..MaxFaults :
    (Due(t) /\ losses = n) ~> (Answered(t) \/ losses > n)

(* The worker implements the service its clients see. *)
Service == INSTANCE TaskService WITH
  enqueued <- Len(tasks),
  answers  <- [i \in DOMAIN results |-> [task |-> results[i].task, status |-> results[i].status]]
ServiceSpec == Service!Spec

====
