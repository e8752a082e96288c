---- MODULE WorkflowExecution ----
(***************************************************************************)
(* The life of workflow executions across three processes:                 *)
(*                                                                         *)
(*   platform-api         create_execution, one asyncio task per execution *)
(*                        (execute_workflow), and the result consumer;     *)
(*   Redis                the streams agent.task.created (tasks),          *)
(*                        agent.result.ready (results) and                 *)
(*                        execution.status.changed (events);               *)
(*   agent-orchestration  the worker that runs tasks one at a time.        *)
(*                                                                         *)
(* A platform action is one external call of a coroutine (a commit or an   *)
(* XADD) taking effect, followed by the code up to the next external call: *)
(* pc names the call the coroutine is suspended in.  Between two of them   *)
(* the event loop may run any other coroutine.                             *)
(*                                                                         *)
(* One definition is executed by all executions.  Data is abstracted to    *)
(* what the control flow and attribution of outputs depend on: an agent's  *)
(* output is the task that produced it, a condition takes any of its       *)
(* branches, a condition or a transform may raise.                         *)
(***************************************************************************)
EXTENDS Integers, Sequences, FiniteSets, RedisStream

CONSTANTS
  Executions,   \* execution ids that may be created
  StepIds,      \* the steps of the definition
  TypeOf,       \* step -> "agent" | "condition" | "transform" | "stub"
  NextOf,       \* step -> its "next"
  BranchesOf,   \* condition step -> the values of its "branches"
  First,        \* definition.steps[0]["id"]
  WritesOf,     \* transform step -> the step ids its destination paths begin with
  Given,        \* the step ids among the keys of a context given at creation:
                \* a set of such sets
  None,         \* a missing or null "next" or branch: the loop ends
  Unknown,      \* a "next" or branch that names no step: a branch is not
                \* validated, nor a "next" that is a dict
  TaskCount,    \* COUNT of the worker's XREADGROUP (5 in the code)
  ResultCount,  \* COUNT of the result consumer's XREADGROUP (10 in the code)
  MaxTasks,     \* bound: tasks ever enqueued
  Faults,       \* the kinds of failure that may happen
  MaxFaults     \* bound: failures that happen in a behaviour

StepTypes == {"agent", "condition", "transform", "stub"}
StepRefs  == StepIds \union {None, Unknown}
FaultKinds == {"database", "statusPublish", "enqueue", "resultRead", "resultAck", "platformCrash",
               "agentPublish", "memoryWrite", "taskAck", "agentCrash"}

ASSUME DefinitionAssumption ==
  /\ None \notin StepIds /\ Unknown \notin StepIds /\ None # Unknown
  /\ First \in StepIds
  /\ TypeOf \in [StepIds -> StepTypes]
  /\ NextOf \in [StepIds -> StepRefs]
  /\ BranchesOf \in [StepIds -> SUBSET StepRefs]
  /\ WritesOf \in [StepIds -> SUBSET StepIds] /\ Given \subseteq SUBSET StepIds

ASSUME BoundAssumption ==
  /\ TaskCount \in Nat \ {0} /\ ResultCount \in Nat \ {0}
  /\ MaxTasks \in Nat /\ MaxFaults \in Nat /\ Faults \subseteq FaultKinds

VARIABLES
  row,          \* execution -> its committed row of process_executions
  obj,          \* execution -> the executor's in-memory ProcessExecution
  pc,           \* execution -> the external call its coroutine is in
  at,           \* execution -> the local current_step_id of execute_workflow
  pending,      \* the keys of dispatcher._pending
  fut,          \* execution -> the Future register_pending made for it
  awaiting,     \* execution -> the last task it enqueued, 0 for none
  events,       \* execution -> its entries in execution.status.changed
  tasks,        \* the stream agent.task.created
  taskGroup,    \* its consumer group, the agent worker
  results,      \* the stream agent.result.ready
  resultGroup,  \* its consumer group, the platform's result consumer
  worker,       \* the agent worker: the call _process is in, the result status
  faults        \* failures so far

vars == <<row, obj, pc, at, pending, fut, awaiting, events,
          tasks, taskGroup, results, resultGroup, worker, faults>>
executorVars == <<row, obj, pc, at, awaiting, events, tasks>>
agentVars    == <<taskGroup, results, worker>>

Statuses == {"absent", "pending", "running", "completed", "failed"}
(* The context column keeps, for each step, the task whose output is       *)
(* stored under the step's id, Empty when there is nothing, or Written     *)
(* when the creator of the execution or a transform has put a value there. *)
Empty   == 0
Written == -1
Entries == Nat \union {Written}

Rows == [status : Statuses, step : StepIds \union {None}, ctx : [StepIds -> Entries]]
Pcs == {"absent", "refresh", "commitRunning", "publishRunning", "commitStep",
        "publishStep", "enqueue", "await", "commitNext", "commitCompleted",
        "commitFailed", "publishEnd", "done", "dead"}
Committing == {"commitRunning", "commitStep", "commitNext", "commitCompleted", "commitFailed"}
Live == Pcs \ {"absent", "done", "dead"}
ResultStatuses == {"completed", "failed", "timeout"}
Tasks == [exec : Executions, step : StepIds]
Results == [task : Nat \ {0}, status : ResultStatuses]
Futures == [kind : {"none", "wait", "result", "error", "cancelled"}, task : Nat]
Events == [status : Statuses, step : StepIds \union {None}]

NoRow == [status |-> "absent", step |-> None, ctx |-> [s \in StepIds |-> Empty]]
NoFuture == [kind |-> "none", task |-> 0]
Idle == [pc |-> "idle", status |-> "completed"]

Init ==
  /\ row = [e \in Executions |-> NoRow]
  /\ obj = [e \in Executions |-> NoRow]
  /\ pc = [e \in Executions |-> "absent"]
  /\ at = [e \in Executions |-> None]
  /\ pending = {}
  /\ fut = [e \in Executions |-> NoFuture]
  /\ awaiting = [e \in Executions |-> 0]
  /\ events = [e \in Executions |-> <<>>]
  /\ tasks = <<>> /\ taskGroup = NewGroup
  /\ results = <<>> /\ resultGroup = NewGroup
  /\ worker = Idle
  /\ faults = 0

----
(* Failures are drawn from a finite budget. *)
FailBy(kind) ==
  /\ kind \in Faults /\ faults < MaxFaults
  /\ faults' = faults + 1

Goto(e, l) == pc' = [pc EXCEPT ![e] = l]

(* db.commit(): what the in-memory row holds becomes the committed row. *)
Commit(e) == row' = [row EXCEPT ![e] = obj[e]]

(* The "while current_step_id" test, the step lookup and the assignments   *)
(* up to the next commit, with s the new current_step_id.                  *)
LoopHead(e, s) ==
  /\ at' = [at EXCEPT ![e] = s]
  /\ \/ /\ s = None
        /\ Goto(e, "commitCompleted")
        /\ obj' = [obj EXCEPT ![e].status = "completed", ![e].step = None]
     \/ /\ s = Unknown
        /\ Goto(e, "commitFailed")
        /\ obj' = [obj EXCEPT ![e].status = "failed"]
     \/ /\ s \in StepIds
        /\ Goto(e, "commitStep")
        /\ obj' = [obj EXCEPT ![e].step = s]

(* An exception inside the loop: both handlers set the status and commit.  *)
Raise(e) ==
  /\ Goto(e, "commitFailed")
  /\ obj' = [obj EXCEPT ![e].status = "failed"]
  /\ UNCHANGED at

(* _publish_status_change: the event is built from the in-memory row; a    *)
(* failing XADD is swallowed.                                              *)
Announce(e) ==
  \/ /\ events' = [events EXCEPT ![e] =
                     Append(@, [status |-> obj[e].status, step |-> obj[e].step])]
     /\ UNCHANGED faults
  \/ FailBy("statusPublish") /\ UNCHANGED events

----
(* The context with other values under some of its keys. *)
Overwrite(ctx, keys) == [s \in StepIds |-> IF s \in keys THEN Written ELSE ctx[s]]

(* create_execution: insert the row, its context as given, and commit; the *)
(* refresh is next.                                                        *)
CreateExecution(e) ==
  /\ pc[e] = "absent"
  /\ Goto(e, "refresh")
  /\ \E keys \in Given :
       row' = [row EXCEPT ![e].status = "pending", ![e].ctx = Overwrite(@, keys)]
  /\ UNCHANGED <<obj, at, pending, fut, awaiting, events, tasks, agentVars, resultGroup, faults>>

(* The refresh returns, the task is created, loads the row and marks it. *)
StartWorkflow(e) ==
  /\ pc[e] = "refresh"
  /\ Goto(e, "commitRunning")
  /\ obj' = [obj EXCEPT ![e] = [row[e] EXCEPT !.status = "running"]]
  /\ UNCHANGED <<row, at, pending, fut, awaiting, events, tasks, agentVars, resultGroup, faults>>

CommitRunning(e) ==
  /\ pc[e] = "commitRunning"
  /\ Commit(e) /\ Goto(e, "publishRunning")
  /\ UNCHANGED <<obj, at, pending, fut, awaiting, events, tasks, agentVars, resultGroup, faults>>

PublishRunning(e) ==
  /\ pc[e] = "publishRunning"
  /\ Announce(e) /\ LoopHead(e, First)
  /\ UNCHANGED <<row, pending, fut, awaiting, tasks, agentVars, resultGroup>>

CommitStepFlushes(e) ==  \* mutant: flush instead of commit
  /\ pc[e] = "commitStep"
  /\ Goto(e, "publishStep")
  /\ UNCHANGED <<row, obj, at, pending, fut, awaiting, events, tasks, agentVars, resultGroup, faults>>

CommitStep(e) ==
  /\ pc[e] = "commitStep"
  /\ Commit(e) /\ Goto(e, "publishStep")
  /\ UNCHANGED <<obj, at, pending, fut, awaiting, events, tasks, agentVars, resultGroup, faults>>

(* The step's status is published, then the match on its type is entered.  *)
InStep(e, type) == pc[e] = "publishStep" /\ TypeOf[at[e]] = type /\ Announce(e)

(* evaluate_condition returns a branch, or raises; no commit of its own. *)
EvaluateCondition(e) ==
  /\ InStep(e, "condition")
  /\ (\E s \in BranchesOf[at[e]] : LoopHead(e, s)) \/ Raise(e)
  /\ UNCHANGED <<row, pending, fut, awaiting, tasks, agentVars, resultGroup>>

(* apply_transform replaces the context by a copy with values written into *)
(* it, under step ids too, or raises; a commit is next.                    *)
ApplyTransform(e) ==
  /\ InStep(e, "transform")
  /\ \/ /\ obj' = [obj EXCEPT ![e].ctx = Overwrite(@, WritesOf[at[e]])]
        /\ at' = [at EXCEPT ![e] = NextOf[at[e]]]
        /\ Goto(e, "commitNext")
     \/ Raise(e)
  /\ UNCHANGED <<row, pending, fut, awaiting, tasks, agentVars, resultGroup>>

(* notify, wait, human_approval: straight to the next step.  The commit    *)
(* that follows has nothing to write and no transaction to end.            *)
SkipStub(e) ==
  /\ InStep(e, "stub")
  /\ LoopHead(e, NextOf[at[e]])
  /\ UNCHANGED <<row, pending, fut, awaiting, tasks, agentVars, resultGroup>>

(* dispatch_agent_step cannot make the AgentTask: the configuration of the *)
(* step is not validated when the definition is created.                   *)
BuildTaskRaises(e) ==
  /\ InStep(e, "agent")
  /\ Raise(e)
  /\ UNCHANGED <<row, pending, fut, awaiting, tasks, agentVars, resultGroup>>

(* dispatch_agent_step up to the XADD: register_pending makes a new Future *)
(* under the execution's id and forgets the one that was there.            *)
RegisterPending(e) ==
  /\ InStep(e, "agent")
  /\ pending' = pending \union {e}
  /\ fut' = [fut EXCEPT ![e] = [kind |-> "wait", task |-> 0]]
  /\ Goto(e, "enqueue")
  /\ UNCHANGED <<row, obj, at, awaiting, tasks, agentVars, resultGroup>>

NewTask(e) == Append(tasks, [exec |-> e, step |-> at[e]])

EnqueueTask(e) ==
  /\ pc[e] = "enqueue" /\ Len(tasks) < MaxTasks
  /\ tasks' = NewTask(e)
  /\ awaiting' = [awaiting EXCEPT ![e] = Len(tasks) + 1]
  /\ Goto(e, "await")
  /\ UNCHANGED <<row, obj, at, pending, fut, events, agentVars, resultGroup, faults>>

(* The XADD raises, having reached Redis or not; _pending keeps its entry. *)
EnqueueRaises(e) ==
  /\ pc[e] = "enqueue" /\ Len(tasks) < MaxTasks
  /\ FailBy("enqueue")
  /\ tasks' \in {tasks, NewTask(e)}
  /\ Raise(e)
  /\ UNCHANGED <<row, pending, fut, awaiting, events, agentVars, resultGroup>>

ReceiveOutputUnderNext(e) ==  \* mutant: current_step_id moved on first
  /\ pc[e] = "await" /\ fut[e].kind = "result"
  /\ at' = [at EXCEPT ![e] = NextOf[at[e]]]
  /\ obj' = [obj EXCEPT ![e].ctx[at'[e]] = fut[e].task]
  /\ Goto(e, "commitNext")
  /\ UNCHANGED <<row, pending, fut, awaiting, events, tasks, agentVars, resultGroup, faults>>

(* wait_for returns: the output is stored under the step that dispatched. *)
ReceiveOutput(e) ==
  /\ pc[e] = "await" /\ fut[e].kind = "result"
  /\ obj' = [obj EXCEPT ![e].ctx[at[e]] = fut[e].task]
  /\ at' = [at EXCEPT ![e] = NextOf[at[e]]]
  /\ Goto(e, "commitNext")
  /\ UNCHANGED <<row, pending, fut, awaiting, events, tasks, agentVars, resultGroup, faults>>

(* wait_for raises the agent's error. *)
ReceiveError(e) ==
  /\ pc[e] = "await" /\ fut[e].kind = "error"
  /\ Raise(e)
  /\ UNCHANGED <<row, pending, fut, awaiting, events, tasks, agentVars, resultGroup, faults>>

StepTimesOutSkips(e) ==  \* mutant: on_error "skip" applied to a timeout
  /\ pc[e] = "await"
  /\ fut' = [fut EXCEPT ![e].kind = IF @ = "wait" THEN "cancelled" ELSE @]
  /\ at' = [at EXCEPT ![e] = NextOf[at[e]]]
  /\ Goto(e, "commitNext")
  /\ UNCHANGED <<row, obj, pending, awaiting, events, tasks, agentVars, resultGroup, faults>>

StepTimesOutNever(e) ==  \* mutant: the timer only bounds an answered wait
  /\ pc[e] = "await" /\ fut[e].kind # "wait"
  /\ Raise(e)
  /\ UNCHANGED <<row, pending, fut, awaiting, events, tasks, agentVars, resultGroup, faults>>

(* The timer fires.  It wins over a result that was set but not yet        *)
(* received; a Future still waiting is cancelled.  _pending keeps it.      *)
StepTimesOut(e) ==
  /\ pc[e] = "await"
  /\ fut' = [fut EXCEPT ![e].kind = IF @ = "wait" THEN "cancelled" ELSE @]
  /\ Raise(e)
  /\ UNCHANGED <<row, pending, awaiting, events, tasks, agentVars, resultGroup, faults>>

CommitNext(e) ==
  /\ pc[e] = "commitNext"
  /\ Commit(e) /\ LoopHead(e, at[e])
  /\ UNCHANGED <<pending, fut, awaiting, events, tasks, agentVars, resultGroup, faults>>

CommitCompleted(e) ==
  /\ pc[e] = "commitCompleted"
  /\ Commit(e) /\ Goto(e, "publishEnd")
  /\ UNCHANGED <<obj, at, pending, fut, awaiting, events, tasks, agentVars, resultGroup, faults>>

CommitFailed(e) ==
  /\ pc[e] = "commitFailed"
  /\ Commit(e) /\ Goto(e, "publishEnd")
  /\ UNCHANGED <<obj, at, pending, fut, awaiting, events, tasks, agentVars, resultGroup, faults>>

PublishEndRaises(e) ==  \* mutant: a failing publication is not swallowed
  /\ pc[e] = "publishEnd"
  /\ \/ Announce(e) /\ Goto(e, "done") /\ UNCHANGED <<obj, at>>
     \/ /\ FailBy("statusPublish") /\ Raise(e)
        /\ events' = [events EXCEPT ![e] =
                        Append(@, [status |-> obj[e].status, step |-> obj[e].step])]
  /\ UNCHANGED <<row, pending, fut, awaiting, tasks, agentVars, resultGroup>>

PublishEnd(e) ==
  /\ pc[e] = "publishEnd"
  /\ Announce(e) /\ Goto(e, "done")
  /\ UNCHANGED <<row, obj, at, pending, fut, awaiting, tasks, agentVars, resultGroup>>

DatabaseRaisesHandled(e) ==  \* mutant: the handler rolls back and goes on
  /\ pc[e] \in Committing
  /\ FailBy("database")
  /\ Raise(e)
  /\ UNCHANGED row \/ Commit(e)
  /\ UNCHANGED <<pending, fut, awaiting, events, tasks, agentVars, resultGroup>>

(* A database call raises, the commit having taken effect or not.  The     *)
(* session refuses the commit of the handlers too: the task dies.          *)
DatabaseRaises(e) ==
  /\ pc[e] \in Committing \union {"refresh"}
  /\ FailBy("database")
  /\ Goto(e, "dead")
  /\ \/ UNCHANGED row
     \/ pc[e] # "refresh" /\ Commit(e)
  /\ UNCHANGED <<obj, at, pending, fut, awaiting, events, tasks, agentVars, resultGroup>>

----
(* The result consumer, start_result_consumer.  When the reply of its      *)
(* XREADGROUP is lost, so is the batch.                                    *)
ReadResults ==
  /\ CanRead(resultGroup, results)
  /\ LET read == XReadGroup(resultGroup, results, ResultCount) IN
       \/ resultGroup' = read /\ UNCHANGED faults
       \/ resultGroup' = DropBatch(read) /\ FailBy("resultRead")
  /\ UNCHANGED <<executorVars, pending, fut, agentVars>>

SettleKeepsEntry(e, r) ==  \* mutant: get instead of pop
  /\ pending' = pending
  /\ fut' = IF e \in pending /\ fut[e].kind = "wait"
            THEN [fut EXCEPT ![e] = [kind |-> IF r.status = "completed" THEN "result" ELSE "error",
                                     task |-> r.task]]
            ELSE fut

(* resolve_pending and reject_pending: pop the entry of the execution the  *)
(* result is for, and set the popped Future if it is not done.             *)
Settle(e, r) ==
  /\ pending' = pending \ {e}
  /\ fut' = IF e \in pending /\ fut[e].kind = "wait"
            THEN [fut EXCEPT ![e] = [kind |-> IF r.status = "completed" THEN "result" ELSE "error",
                                     task |-> r.task]]
            ELSE fut

(* One entry: settle, then XACK.  A failing XACK is tried once more; when  *)
(* that fails too the loop over the batch is left.                         *)
HandleResult ==
  /\ ~ Drained(resultGroup)
  /\ LET r == results[InHand(resultGroup)] IN Settle(tasks[r.task].exec, r)
  /\ \/ resultGroup' = Advance(resultGroup) /\ UNCHANGED faults
     \/ resultGroup' = DropBatch(resultGroup) /\ FailBy("resultAck")
  /\ UNCHANGED <<executorVars, agentVars>>

PlatformCrashSweeps ==  \* mutant: the restart fails every unfinished row
  /\ FailBy("platformCrash")
  /\ pc' = [e \in Executions |-> IF pc[e] \in Live THEN "dead" ELSE pc[e]]
  /\ row' = [e \in Executions |-> IF pc[e] \in Live THEN [row[e] EXCEPT !.status = "failed"]
                                  ELSE row[e]]
  /\ obj' = row' /\ pending' = {}
  /\ fut' = [e \in Executions |-> NoFuture]
  /\ resultGroup' = DropBatch(resultGroup)
  /\ UNCHANGED <<at, awaiting, events, tasks, agentVars>>

(* The platform-api process restarts: its coroutines, _pending and the     *)
(* batch in hand are gone, the rows stay as they were committed.           *)
PlatformCrash ==
  /\ FailBy("platformCrash")
  /\ pc' = [e \in Executions |-> IF pc[e] \in Live THEN "dead" ELSE pc[e]]
  /\ obj' = row
  /\ pending' = {}
  /\ fut' = [e \in Executions |-> NoFuture]
  /\ resultGroup' = DropBatch(resultGroup)
  /\ UNCHANGED <<row, at, awaiting, events, tasks, agentVars>>

----
(* The agent worker, RedisConsumer: one task at a time. *)
platformVars == <<row, obj, pc, at, pending, fut, awaiting, events, tasks, resultGroup>>

ReadTasks ==
  /\ worker.pc = "idle" /\ CanRead(taskGroup, tasks)
  /\ taskGroup' = XReadGroup(taskGroup, tasks, TaskCount)
  /\ UNCHANGED <<platformVars, results, worker, faults>>

(* runner.run returns a result, or raises before its own try. *)
RunTask ==
  /\ worker.pc = "idle" /\ ~ Drained(taskGroup)
  /\ \/ \E status \in ResultStatuses : worker' = [pc |-> "publish", status |-> status]
     \/ worker' = [pc |-> "publishFailed", status |-> "failed"]
  /\ UNCHANGED <<platformVars, taskGroup, results, faults>>

Published(status) == Append(results, [task |-> InHand(taskGroup), status |-> status])

PublishResult ==
  /\ worker.pc = "publish"
  /\ results' = Published(worker.status)
  /\ worker' = [worker EXCEPT !.pc = "memory"]
  /\ UNCHANGED <<platformVars, taskGroup, faults>>

PublishResultRetries ==  \* mutant: the publication is retried
  /\ worker.pc = "publish"
  /\ FailBy("agentPublish")
  /\ results' \in {results, Published(worker.status)}
  /\ UNCHANGED <<platformVars, taskGroup, worker>>

(* The XADD of the result raises, having reached Redis or not. *)
PublishResultRaises ==
  /\ worker.pc = "publish"
  /\ FailBy("agentPublish")
  /\ results' \in {results, Published(worker.status)}
  /\ worker' = [pc |-> "publishFailed", status |-> "failed"]
  /\ UNCHANGED <<platformVars, taskGroup>>

(* long_term.write: when it raises, the handler publishes a second result. *)
WriteMemory ==
  /\ worker.pc = "memory"
  /\ \/ worker' = [Idle EXCEPT !.pc = "ack"] /\ UNCHANGED faults
     \/ worker' = [pc |-> "publishFailed", status |-> "failed"] /\ FailBy("memoryWrite")
  /\ UNCHANGED <<platformVars, taskGroup, results>>

(* The handler publishes a failed result; if that raises it is logged. *)
PublishFailure ==
  /\ worker.pc = "publishFailed"
  /\ \/ results' = Published("failed") /\ UNCHANGED faults
     \/ UNCHANGED results /\ FailBy("agentPublish")
  /\ worker' = [Idle EXCEPT !.pc = "ack"]
  /\ UNCHANGED <<platformVars, taskGroup>>

(* XACK in the finally clause: when it raises the rest of the batch is lost. *)
AckTask ==
  /\ worker.pc = "ack"
  /\ \/ taskGroup' = Advance(taskGroup) /\ UNCHANGED faults
     \/ taskGroup' = DropBatch(taskGroup) /\ FailBy("taskAck")
  /\ worker' = Idle
  /\ UNCHANGED <<platformVars, results>>

AgentCrashRedelivers ==  \* mutant: a restarted worker reads its pending entries
  /\ ~ Drained(taskGroup)
  /\ FailBy("agentCrash")
  /\ worker' = Idle
  /\ UNCHANGED <<platformVars, taskGroup, results>>

AgentCrash ==
  /\ ~ Drained(taskGroup)
  /\ FailBy("agentCrash")
  /\ taskGroup' = DropBatch(taskGroup)
  /\ worker' = Idle
  /\ UNCHANGED <<platformVars, results>>

----
(* The calls of an execution's coroutine that the event loop must serve. *)
Execute(e) ==
  \/ StartWorkflow(e) \/ CommitRunning(e) \/ PublishRunning(e) \/ CommitStep(e)
  \/ EvaluateCondition(e) \/ ApplyTransform(e) \/ SkipStub(e) \/ RegisterPending(e)
  \/ BuildTaskRaises(e) \/ EnqueueTask(e) \/ ReceiveOutput(e) \/ ReceiveError(e) \/ StepTimesOut(e)
  \/ CommitNext(e) \/ CommitCompleted(e) \/ CommitFailed(e) \/ PublishEnd(e)

Worker ==
  \/ ReadTasks \/ RunTask \/ PublishResult \/ PublishResultRaises
  \/ WriteMemory \/ PublishFailure \/ AckTask

(* Nothing is left to do: every execution was created and its coroutine    *)
(* ended, and both streams are drained.                                    *)
AtRest ==
  /\ \A e \in Executions : pc[e] \in {"done", "dead"}
  /\ Drained(taskGroup) /\ taskGroup.last = Len(tasks)
  /\ Drained(resultGroup) /\ resultGroup.last = Len(results)
  /\ UNCHANGED vars

Next ==
  \/ \E e \in Executions :
       CreateExecution(e) \/ Execute(e) \/ EnqueueRaises(e) \/ DatabaseRaises(e)
  \/ ReadResults \/ HandleResult \/ PlatformCrash
  \/ Worker \/ AgentCrash
  \/ AtRest

Spec == Init /\ [][Next]_vars

(* The event loop serves every coroutine, timers included; nothing is      *)
(* assumed of the agents.                                                  *)
LiveSpec == Spec /\ \A e \in Executions : WF_vars(Execute(e))

----
TypeOK ==
  /\ row \in [Executions -> Rows] /\ obj \in [Executions -> Rows]
  /\ pc \in [Executions -> Pcs]
  /\ at \in [Executions -> StepRefs]
  /\ pending \subseteq Executions
  /\ fut \in [Executions -> Futures]
  /\ awaiting \in [Executions -> Nat]
  /\ events \in [Executions -> Seq(Events)]
  /\ tasks \in Seq(Tasks) /\ taskGroup \in GroupsUpTo(Len(tasks))
  /\ results \in Seq(Results) /\ resultGroup \in GroupsUpTo(Len(results))
  /\ worker \in [pc : {"idle", "publish", "memory", "publishFailed", "ack"},
                 status : ResultStatuses]
  /\ faults \in 0..MaxFaults

Terminal == {"completed", "failed"}
Success(i, t) == results[i].task = t /\ results[i].status = "completed"
Succeeded(t) == \E i \in DOMAIN results : Success(i, t)

(* The steps under whose ids a creator or a transform may write. *)
Overwritable == (UNION Given) \union (UNION {WritesOf[s] : s \in StepIds})

(* What is stored under step s: nothing, a value somebody wrote there, or  *)
(* the output of a task that e dispatched for s and that succeeded.        *)
Attributed(e, s, t) ==
  \/ t = Empty
  \/ t = Written /\ s \in Overwritable
  \/ /\ t \in DOMAIN tasks
     /\ tasks[t] = [exec |-> e, step |-> s]
     /\ Succeeded(t)

(* An output stored under a step's id, in memory or in the database, is    *)
(* put there by the definition or the creator of the execution, or it is   *)
(* the output of a task that this execution dispatched for this very step, *)
(* and that succeeded: results are matched by execution id alone           *)
(* (dispatcher._pending), so nothing in the code compares step or task.    *)
OutputAttribution ==
  \A e \in Executions : \A s \in StepIds :
    Attributed(e, s, obj[e].ctx[s]) /\ Attributed(e, s, row[e].ctx[s])

(* The Future an awaiting execution is about to receive an output from     *)
(* carries the output of the task it is waiting for, not of an earlier     *)
(* visit to the step.                                                      *)
OutputIsAwaited ==
  \A e \in Executions :
    pc[e] = "await" /\ fut[e].kind = "result" => fut[e].task = awaiting[e]

(* Task t may still hand an output to the result consumer: the worker has  *)
(* not begun it, is publishing its success, or the success is unread.      *)
Startable(t)  == t > taskGroup.pos /\ ~ (t = InHand(taskGroup) /\ worker.pc # "idle")
Succeeding(t) == /\ ~ Drained(taskGroup) /\ t = InHand(taskGroup)
                 /\ worker = [pc |-> "publish", status |-> "completed"]
Unread(t)     == \E i \in DOMAIN results : i > resultGroup.pos /\ Success(i, t)
Open(t)       == Startable(t) \/ Succeeding(t) \/ Unread(t)

(* An execution that may still store outputs has at most one task in       *)
(* flight that could produce one: the task it awaits, and only until the   *)
(* Future carries a result.  A second one would be stored under the wrong  *)
(* step.                                                                   *)
Ending == {"commitFailed", "publishEnd", "done", "dead"}
OneOpenTask ==
  \A t \in DOMAIN tasks : Open(t) =>
    LET e == tasks[t].exec IN
      \/ pc[e] \in Ending
      \/ pc[e] = "await" /\ t = awaiting[e] /\ fut[e].kind # "result"

(* A coroutine suspended in dispatch_agent_step waits on an unsettled      *)
(* Future exactly when _pending still leads the consumer to it: no wakeup  *)
(* is lost to a popped or overwritten entry.                               *)
WaiterReachable ==
  \A e \in Executions :
    pc[e] \in {"enqueue", "await"} => (e \in pending <=> fut[e].kind = "wait")

(* A row marked completed holds an output for every step the execution     *)
(* dispatched to an agent, or what its creator or a transform wrote in its *)
(* place: no timeout, error or lost result is skipped over on the way to   *)
(* "completed".                                                            *)
CompletedAnswersAll ==
  \A e \in Executions : row[e].status = "completed" =>
    \A t \in DOMAIN tasks : tasks[t].exec = e => row[e].ctx[tasks[t].step] # Empty

(* A terminal event is the last one of its execution and announces the     *)
(* status the row ended with.                                              *)
TerminalEventLast ==
  \A e \in Executions : \A i \in DOMAIN events[e] :
    events[e][i].status \in Terminal =>
      i = Len(events[e]) /\ events[e][i].status = row[e].status

(* A status event never runs ahead of the database: what it announces is   *)
(* the committed row, although it is built from the in-memory object.      *)
EventsAnnounceCommitted ==
  [][\A e \in Executions : events'[e] # events[e] =>
       events'[e][Len(events'[e])] = [status |-> row[e].status, step |-> row[e].step]]_vars

(* A row that reached a terminal status never changes again: a late        *)
(* result, a timer or a restart does not touch it.                         *)
TerminalRowStable ==
  [][\A e \in Executions : row[e].status \in Terminal => row'[e] = row[e]]_vars

(* The committed rows implement the lifecycle readers rely on. *)
Lifecycle == INSTANCE ExecutionLifecycle WITH
  status   <- [e \in Executions |-> row[e].status],
  recorded <- [e \in Executions |-> {s \in StepIds : row[e].ctx[s] # Empty}]
LifecycleSpec == Lifecycle!Spec

(* The worker serves the executor as AgentService's worker serves anyone:  *)
(* whatever becomes of executions, and whether or not their tasks reach    *)
(* the stream.                                                             *)
Service == INSTANCE TaskService WITH
  Statuses <- ResultStatuses,
  enqueued <- Len(tasks),
  answers  <- results
ServiceSpec == Service!Spec

(* Every created execution ends, whatever the agents do or fail to do:     *)
(* each await ends by its timer at the latest.  It is left behind only by  *)
(* a database call that raises or a restart of the platform, and runs on   *)
(* only round a cycle of its definition, for MaxTasks tasks at least.      *)
Dispatching(e) == pc[e] = "enqueue" /\ Len(tasks) = MaxTasks
EveryExecutionEnds ==
  \A e \in Executions :
    (row[e].status # "absent") ~> (row[e].status \in Terminal \/ pc[e] = "dead" \/ Dispatching(e))

(* "Publish a failed result so Platform API can resolve the pending Future *)
(* instead of hanging until timeout" (the worker's handler): the Future a  *)
(* failure resolves is the one of the task that failed.                    *)
FailureAttribution ==
  \A e \in Executions :
    pc[e] = "await" /\ fut[e].kind = "error" => fut[e].task = awaiting[e]

====
