---- MODULE WorkflowExecution_proofs ----
(***************************************************************************)
(* Proofs about WorkflowExecution, for every set of executions, every      *)
(* definition of a workflow, every batch size and every budget of faults.  *)
(* In this order: types and the attribution of outputs; what rows, events, *)
(* Futures and tasks of an execution have to do with each other, and the   *)
(* refinement of ExecutionLifecycle; the refinement of TaskService; and    *)
(* that a list of steps the API accepts is a definition as assumed here.   *)
(***************************************************************************)
EXTENDS WorkflowExecution, RedisStream_proofs, TLAPS

----
(* Where the coroutine is decides what the committed row and the in-memory *)
(* object hold, and that its current step is one of the definition.        *)
Running == {"publishRunning", "commitStep", "publishStep", "enqueue", "await", "commitNext"}
AtStep == {"commitStep", "publishStep", "enqueue", "await"}

ControlOf(e) ==
  /\ pc[e] = "absent" => row[e] = NoRow
  /\ pc[e] = "refresh" => row[e].status = "pending"
  /\ pc[e] = "commitRunning" => row[e].status = "pending" /\ obj[e] = [row[e] EXCEPT !.status = "running"]
  /\ pc[e] \in Running => row[e].status = "running" /\ obj[e].status = "running"
  /\ pc[e] = "commitCompleted" => row[e].status = "running" /\ obj[e].status = "completed"
  /\ pc[e] = "commitFailed" => row[e].status = "running" /\ obj[e].status = "failed"
  /\ pc[e] \in {"publishEnd", "done"} => row[e].status \in Terminal
  /\ pc[e] \in AtStep => at[e] \in StepIds

Control == /\ \A e \in Executions : ControlOf(e)
           /\ worker.pc # "idle" => ~ Drained(taskGroup)

TypeInv == TypeOK /\ Control

LEMMA InitType == Init => TypeInv
BY DefinitionAssumption, BoundAssumption
DEF Init, TypeInv, TypeOK, Control, ControlOf, Rows, Entries, Empty, Statuses, Pcs, StepRefs, Futures,
    NoRow, NoFuture,
    NewGroup, GroupsUpTo, Idle, ResultStatuses, Running, AtStep

LEMMA FailByType ==
  ASSUME TypeOK, NEW kind, FailBy(kind)
  PROVE  faults' \in 0..MaxFaults
BY BoundAssumption DEF TypeOK, FailBy

LEMMA AnnounceType ==
  ASSUME TypeOK, NEW e \in Executions, Announce(e)
  PROVE  events' \in [Executions -> Seq(Events)] /\ faults' \in 0..MaxFaults
<1>1. faults' \in 0..MaxFaults
  BY BoundAssumption DEF TypeOK, Announce, FailBy
<1>2. [status |-> obj[e].status, step |-> obj[e].step] \in Events
  BY DEF TypeOK, Events, Rows
<1>3. Append(events[e], [status |-> obj[e].status, step |-> obj[e].step]) \in Seq(Events)
  BY <1>2 DEF TypeOK
<1>4. events' \in [Executions -> Seq(Events)]
  BY <1>3 DEF TypeOK, Announce
<1> QED BY <1>1, <1>4

LEMMA RowUpdates ==
  ASSUME NEW r \in Rows
  PROVE  /\ \A st \in Statuses : [r EXCEPT !.status = st] \in Rows
         /\ \A s \in StepIds \union {None} : [r EXCEPT !.step = s] \in Rows
         /\ \A x : \A n \in Nat : [r EXCEPT !.ctx[x] = n] \in Rows
         /\ \A keys : [r EXCEPT !.ctx = Overwrite(@, keys)] \in Rows
BY DEF Rows, Entries, Overwrite

LEMMA LoopHeadType ==
  ASSUME TypeInv, NEW e \in Executions, NEW s \in StepRefs, LoopHead(e, s)
  PROVE  /\ at' \in [Executions -> StepRefs]
         /\ pc' \in [Executions -> Pcs]
         /\ obj' \in [Executions -> Rows]
<1>1. at' \in [Executions -> StepRefs] /\ pc' \in [Executions -> Pcs]
  BY DEF TypeInv, TypeOK, LoopHead, Goto, Pcs
<1>2. obj[e] \in Rows
  BY DEF TypeInv, TypeOK
<1>3. /\ [obj[e] EXCEPT !.status = "completed", !.step = None] \in Rows
      /\ [obj[e] EXCEPT !.status = "failed"] \in Rows
      /\ s \in StepIds => [obj[e] EXCEPT !.step = s] \in Rows
  BY <1>2 DEF Rows, Statuses
<1>4. obj' \in [Executions -> Rows]
  BY <1>3 DEF TypeInv, TypeOK, LoopHead
<1> QED BY <1>1, <1>4

LEMMA RaiseType ==
  ASSUME TypeInv, NEW e \in Executions, Raise(e)
  PROVE  /\ at' \in [Executions -> StepRefs]
         /\ pc' \in [Executions -> Pcs]
         /\ obj' \in [Executions -> Rows]
<1>1. obj \in [Executions -> Rows] /\ pc \in [Executions -> Pcs] /\ at \in [Executions -> StepRefs]
  BY DEF TypeInv, TypeOK
<1>2. "failed" \in Statuses /\ obj[e] \in Rows
  BY <1>1 DEF Statuses
<1>3. [obj[e] EXCEPT !.status = "failed"] \in Rows
  BY <1>2, RowUpdates
<1>4. obj' \in [Executions -> Rows]
  BY <1>1, <1>3 DEF Raise
<1> QED BY <1>1, <1>4 DEF Raise, Goto, Pcs

LEMMA LoopHeadControl ==
  ASSUME TypeInv, NEW e \in Executions, NEW s \in StepRefs, LoopHead(e, s),
         row'[e].status = "running", obj[e].status = "running"
  PROVE  ControlOf(e)'
<1>0. obj \in [Executions -> Rows] /\ pc \in [Executions -> Pcs] /\ at \in [Executions -> StepRefs]
  BY DEF TypeInv, TypeOK
<1>1. at'[e] = s
  BY <1>0 DEF LoopHead
<1>2. CASE s = None
  <2>1. pc'[e] = "commitCompleted" /\ obj'[e].status = "completed"
    BY <1>0, <1>2, DefinitionAssumption DEF LoopHead, Goto, Rows
  <2> QED BY <2>1 DEF ControlOf, Running, AtStep
<1>3. CASE s = Unknown
  <2>1. pc'[e] = "commitFailed" /\ obj'[e].status = "failed"
    BY <1>0, <1>3, DefinitionAssumption DEF LoopHead, Goto, Rows
  <2> QED BY <2>1 DEF ControlOf, Running, AtStep
<1>4. CASE s \in StepIds
  <2>1. pc'[e] = "commitStep" /\ obj'[e].status = "running"
    BY <1>0, <1>4, DefinitionAssumption DEF LoopHead, Goto, Rows
  <2> QED BY <1>1, <1>4, <2>1 DEF ControlOf, Running, AtStep
<1> QED BY <1>2, <1>3, <1>4 DEF StepRefs

(* A step of one coroutine leaves the others where they were. *)
LEMMA ControlFrame ==
  ASSUME TypeInv, NEW e \in Executions, ControlOf(e)',
         \A f \in Executions \ {e} : /\ row'[f] = row[f] /\ obj'[f] = obj[f]
                                     /\ pc'[f] = pc[f] /\ at'[f] = at[f],
         UNCHANGED <<worker, taskGroup>>
  PROVE  Control'
BY DEF TypeInv, Control, ControlOf, Drained

LEMMA CommitRunningType ==
  ASSUME TypeInv, NEW e \in Executions, CommitRunning(e)
  PROVE  TypeInv'
<1>1. TypeOK'
  BY DEF TypeInv, TypeOK, CommitRunning, Commit, Goto, Pcs, agentVars
<1>2. ControlOf(e)'
  BY DEF TypeInv, TypeOK, Rows, Control, ControlOf, CommitRunning, Commit, Goto, Running, AtStep
<1>3. Control'
  BY <1>2, ControlFrame DEF TypeInv, TypeOK, CommitRunning, Commit, Goto, agentVars
<1> QED BY <1>1, <1>3 DEF TypeInv

LEMMA PublishRunningType ==
  ASSUME TypeInv, NEW e \in Executions, PublishRunning(e)
  PROVE  TypeInv'
<1>0. First \in StepRefs /\ LoopHead(e, First) /\ Announce(e)
  BY DefinitionAssumption DEF PublishRunning, StepRefs
<1>1. TypeOK'
  BY <1>0, AnnounceType, LoopHeadType DEF TypeInv, TypeOK, PublishRunning, agentVars
<1>2. ControlOf(e)'
  BY <1>0, LoopHeadControl DEF TypeInv, Control, ControlOf, PublishRunning, Running
<1>3. Control'
  BY <1>2, ControlFrame DEF TypeInv, TypeOK, PublishRunning, LoopHead, Goto, agentVars
<1> QED BY <1>1, <1>3 DEF TypeInv

LEMMA RaiseControl ==
  ASSUME TypeInv, NEW e \in Executions, Raise(e), row'[e].status = "running"
  PROVE  ControlOf(e)'
<1>1. pc'[e] = "commitFailed" /\ obj'[e].status = "failed"
  BY DEF TypeInv, TypeOK, Raise, Goto, Rows
<1> QED BY <1>1 DEF ControlOf, Running, AtStep

LEMMA CreateExecutionType ==
  ASSUME TypeInv, NEW e \in Executions, CreateExecution(e)
  PROVE  TypeInv'
<1>1. TypeOK'
  <2>1. row[e] \in Rows /\ "pending" \in Statuses
    BY DEF TypeInv, TypeOK, Statuses
  <2>2. PICK keys \in Given :
          row' = [row EXCEPT ![e].status = "pending", ![e].ctx = Overwrite(@, keys)]
    BY DEF CreateExecution
  <2>3. Overwrite(row[e].ctx, keys) \in [StepIds -> Entries]
    BY <2>1 DEF Rows, Entries, Overwrite
  <2>4. [row[e] EXCEPT !.status = "pending", !.ctx = Overwrite(row[e].ctx, keys)] \in Rows
    BY <2>1, <2>3 DEF Rows
  <2>5. row' = [row EXCEPT ![e] =
                  [row[e] EXCEPT !.status = "pending", !.ctx = Overwrite(row[e].ctx, keys)]]
    BY <2>1, <2>2 DEF Rows
  <2>6. row' \in [Executions -> Rows] /\ pc' \in [Executions -> Pcs]
    BY <2>4, <2>5 DEF TypeInv, TypeOK, CreateExecution, Goto, Pcs
  <2> QED BY <2>6 DEF TypeInv, TypeOK, CreateExecution, agentVars
<1>2. ControlOf(e)'
  BY DEF TypeInv, TypeOK, Rows, Control, ControlOf, CreateExecution, Goto, Running, AtStep
<1>3. Control'
  BY <1>2, ControlFrame DEF TypeInv, TypeOK, CreateExecution, Goto, agentVars
<1> QED BY <1>1, <1>3 DEF TypeInv

LEMMA StartWorkflowType ==
  ASSUME TypeInv, NEW e \in Executions, StartWorkflow(e)
  PROVE  TypeInv'
<1>1. TypeOK'
  <2>1. row[e] \in Rows /\ "running" \in Statuses
    BY DEF TypeInv, TypeOK, Statuses
  <2>2. [row[e] EXCEPT !.status = "running"] \in Rows
    BY <2>1, RowUpdates
  <2>3. obj' \in [Executions -> Rows] /\ pc' \in [Executions -> Pcs]
    BY <2>2 DEF TypeInv, TypeOK, StartWorkflow, Goto, Pcs
  <2> QED BY <2>3 DEF TypeInv, TypeOK, StartWorkflow, agentVars
<1>2. ControlOf(e)'
  BY DEF TypeInv, TypeOK, Control, ControlOf, StartWorkflow, Goto, Running, AtStep, NoRow
<1>3. Control'
  BY <1>2, ControlFrame DEF TypeInv, TypeOK, StartWorkflow, Goto, agentVars
<1> QED BY <1>1, <1>3 DEF TypeInv

LEMMA CommitStepType ==
  ASSUME TypeInv, NEW e \in Executions, CommitStep(e)
  PROVE  TypeInv'
<1>1. TypeOK'
  BY DEF TypeInv, TypeOK, CommitStep, Goto, Pcs, agentVars, Commit
<1>2. ControlOf(e)'
  BY DEF TypeInv, TypeOK, Control, ControlOf, CommitStep, Goto, Running, AtStep, NoRow, Commit
<1>3. Control'
  BY <1>2, ControlFrame DEF TypeInv, TypeOK, CommitStep, Goto, agentVars, Commit
<1> QED BY <1>1, <1>3 DEF TypeInv

LEMMA CommitCompletedType ==
  ASSUME TypeInv, NEW e \in Executions, CommitCompleted(e)
  PROVE  TypeInv'
<1>1. TypeOK'
  BY DEF TypeInv, TypeOK, CommitCompleted, Goto, Pcs, agentVars, Commit
<1>2. ControlOf(e)'
  BY DEF TypeInv, TypeOK, Control, ControlOf, CommitCompleted, Goto, Running, AtStep, NoRow, Commit, Terminal
<1>3. Control'
  BY <1>2, ControlFrame DEF TypeInv, TypeOK, CommitCompleted, Goto, agentVars, Commit, Terminal
<1> QED BY <1>1, <1>3 DEF TypeInv

LEMMA CommitFailedType ==
  ASSUME TypeInv, NEW e \in Executions, CommitFailed(e)
  PROVE  TypeInv'
<1>1. TypeOK'
  BY DEF TypeInv, TypeOK, CommitFailed, Goto, Pcs, agentVars, Commit
<1>2. ControlOf(e)'
  BY DEF TypeInv, TypeOK, Control, ControlOf, CommitFailed, Goto, Running, AtStep, NoRow, Commit, Terminal
<1>3. Control'
  BY <1>2, ControlFrame DEF TypeInv, TypeOK, CommitFailed, Goto, agentVars, Commit, Terminal
<1> QED BY <1>1, <1>3 DEF TypeInv

LEMMA NewTaskType ==
  ASSUME TypeInv, NEW e \in Executions, pc[e] = "enqueue"
  PROVE  /\ NewTask(e) \in Seq(Tasks) /\ Len(NewTask(e)) = Len(tasks) + 1
         /\ taskGroup \in GroupsUpTo(Len(NewTask(e)))
<1>1. [exec |-> e, step |-> at[e]] \in Tasks
  BY DEF TypeInv, Control, ControlOf, AtStep, Tasks
<1>2. NewTask(e) \in Seq(Tasks) /\ Len(NewTask(e)) = Len(tasks) + 1
  BY <1>1 DEF TypeInv, TypeOK, NewTask
<1>3. Len(tasks) \in Nat /\ taskGroup \in GroupsUpTo(Len(tasks))
  BY DEF TypeInv, TypeOK
<1> QED BY <1>2, <1>3, GroupMoves

LEMMA EnqueueTaskType ==
  ASSUME TypeInv, NEW e \in Executions, EnqueueTask(e)
  PROVE  TypeInv'
<1>0. pc[e] = "enqueue" /\ tasks' = NewTask(e)
  BY DEF EnqueueTask
<1>1. TypeOK'
  <2>1. tasks' \in Seq(Tasks) /\ taskGroup' \in GroupsUpTo(Len(tasks'))
    BY <1>0, NewTaskType DEF EnqueueTask, agentVars
  <2>2. Len(tasks) + 1 \in Nat
    BY DEF TypeInv, TypeOK
  <2> QED BY <2>1, <2>2 DEF TypeInv, TypeOK, EnqueueTask, Goto, Pcs, agentVars
<1>2. ControlOf(e)'
  BY DEF TypeInv, TypeOK, Control, ControlOf, EnqueueTask, Goto, Running, AtStep
<1>3. Control'
  BY <1>2, ControlFrame DEF TypeInv, TypeOK, EnqueueTask, Goto, agentVars
<1> QED BY <1>1, <1>3 DEF TypeInv

LEMMA EnqueueRaisesType ==
  ASSUME TypeInv, NEW e \in Executions, EnqueueRaises(e)
  PROVE  TypeInv'
<1>0. pc[e] = "enqueue" /\ tasks' \in {tasks, NewTask(e)} /\ Raise(e) /\ FailBy("enqueue")
  BY DEF EnqueueRaises
<1>1. TypeOK'
  <2>1. tasks' \in Seq(Tasks) /\ taskGroup' \in GroupsUpTo(Len(tasks'))
    BY <1>0, NewTaskType DEF EnqueueRaises, agentVars, TypeInv, TypeOK
  <2>2. faults' \in 0..MaxFaults
    BY <1>0, BoundAssumption DEF FailBy, TypeInv, TypeOK
  <2> QED BY <1>0, <2>1, <2>2, RaiseType DEF TypeInv, TypeOK, EnqueueRaises, agentVars
<1>2. ControlOf(e)'
  BY <1>0, RaiseControl DEF TypeInv, Control, ControlOf, EnqueueRaises, Running
<1>3. Control'
  BY <1>2, ControlFrame DEF TypeInv, TypeOK, EnqueueRaises, Raise, Goto, agentVars
<1> QED BY <1>1, <1>3 DEF TypeInv

LEMMA EvaluateConditionType ==
  ASSUME TypeInv, NEW e \in Executions, EvaluateCondition(e)
  PROVE  TypeInv'
<1>0. /\ pc[e] = "publishStep" /\ Announce(e)
      /\ row'[e].status = "running" /\ obj[e].status = "running"
  BY DEF EvaluateCondition, InStep, TypeInv, Control, ControlOf, Running
<1>1. CASE Raise(e)
  <2>1. TypeOK'
    BY <1>0, <1>1, AnnounceType, RaiseType DEF TypeInv, TypeOK, EvaluateCondition, agentVars
  <2>2. Control'
    BY <1>0, <1>1, RaiseControl, ControlFrame
    DEF TypeInv, TypeOK, EvaluateCondition, Raise, Goto, agentVars
  <2> QED BY <2>1, <2>2 DEF TypeInv
<1>2. CASE \E s \in BranchesOf[at[e]] : LoopHead(e, s)
  <2>1. PICK s \in StepRefs : LoopHead(e, s)
    BY <1>0, <1>2, DefinitionAssumption DEF TypeInv, Control, ControlOf, AtStep
  <2>2. TypeOK'
    BY <1>0, <2>1, AnnounceType, LoopHeadType DEF TypeInv, TypeOK, EvaluateCondition, agentVars
  <2>3. ControlOf(e)'
    BY <1>0, <2>1, LoopHeadControl
  <2>4. Control'
    BY <2>1, <2>3, ControlFrame DEF TypeInv, TypeOK, EvaluateCondition, LoopHead, Goto, agentVars
  <2> QED BY <2>2, <2>4 DEF TypeInv
<1> QED BY <1>1, <1>2 DEF EvaluateCondition

LEMMA ApplyTransformType ==
  ASSUME TypeInv, NEW e \in Executions, ApplyTransform(e)
  PROVE  TypeInv'
<1>0. /\ pc[e] = "publishStep" /\ Announce(e) /\ at[e] \in StepIds
      /\ row'[e].status = "running" /\ obj[e].status = "running"
  BY DEF ApplyTransform, InStep, TypeInv, Control, ControlOf, Running, AtStep
<1>1. CASE Raise(e)
  <2>1. TypeOK'
    BY <1>0, <1>1, AnnounceType, RaiseType DEF TypeInv, TypeOK, ApplyTransform, agentVars
  <2>2. Control'
    BY <1>0, <1>1, RaiseControl, ControlFrame
    DEF TypeInv, TypeOK, ApplyTransform, Raise, Goto, agentVars
  <2> QED BY <2>1, <2>2 DEF TypeInv
<1>2. CASE ~ Raise(e)
  <2>1. /\ at' = [at EXCEPT ![e] = NextOf[at[e]]] /\ Goto(e, "commitNext")
        /\ obj' = [obj EXCEPT ![e].ctx = Overwrite(@, WritesOf[at[e]])]
        /\ NextOf[at[e]] \in StepRefs
    BY <1>0, <1>2, DefinitionAssumption DEF ApplyTransform
  <2>2. obj' \in [Executions -> Rows] /\ obj'[e].status = obj[e].status
    <3>1. obj[e] \in Rows
      BY DEF TypeInv, TypeOK
    <3>2. [obj[e] EXCEPT !.ctx = Overwrite(@, WritesOf[at[e]])] \in Rows
      BY <3>1, RowUpdates
    <3> QED BY <2>1, <3>1, <3>2 DEF TypeInv, TypeOK, Rows
  <2>3. TypeOK' /\ ControlOf(e)'
    <3>1. TypeOK'
      BY <1>0, <2>1, <2>2, AnnounceType DEF TypeInv, TypeOK, ApplyTransform, Goto, Pcs, agentVars
    <3>2. ControlOf(e)'
      BY <1>0, <2>1, <2>2 DEF TypeInv, TypeOK, ControlOf, Goto, Running, AtStep
    <3> QED BY <3>1, <3>2
  <2>4. Control'
    BY <2>1, <2>3, ControlFrame DEF TypeInv, TypeOK, ApplyTransform, Goto, agentVars
  <2> QED BY <2>3, <2>4 DEF TypeInv
<1> QED BY <1>1, <1>2

LEMMA SkipStubType ==
  ASSUME TypeInv, NEW e \in Executions, SkipStub(e)
  PROVE  TypeInv'
<1>0. /\ pc[e] = "publishStep" /\ Announce(e) /\ LoopHead(e, NextOf[at[e]])
      /\ NextOf[at[e]] \in StepRefs
      /\ row'[e].status = "running" /\ obj[e].status = "running"
  BY DefinitionAssumption DEF SkipStub, InStep, TypeInv, Control, ControlOf, Running, AtStep
<1>1. TypeOK'
  BY <1>0, AnnounceType, LoopHeadType DEF TypeInv, TypeOK, SkipStub, agentVars
<1>2. ControlOf(e)'
  BY <1>0, LoopHeadControl
<1>3. Control'
  BY <1>0, <1>2, ControlFrame DEF TypeInv, TypeOK, SkipStub, LoopHead, Goto, agentVars
<1> QED BY <1>1, <1>3 DEF TypeInv

LEMMA RegisterPendingType ==
  ASSUME TypeInv, NEW e \in Executions, RegisterPending(e)
  PROVE  TypeInv'
<1>0. pc[e] = "publishStep" /\ Announce(e)
  BY DEF RegisterPending, InStep
<1>1. TypeOK'
  BY <1>0, AnnounceType DEF TypeInv, TypeOK, RegisterPending, Goto, Pcs, Futures, agentVars
<1>2. ControlOf(e)'
  BY <1>0 DEF TypeInv, TypeOK, Control, ControlOf, RegisterPending, Goto, Running, AtStep
<1>3. Control'
  BY <1>2, ControlFrame DEF TypeInv, TypeOK, RegisterPending, Goto, agentVars
<1> QED BY <1>1, <1>3 DEF TypeInv

LEMMA BuildTaskRaisesType ==
  ASSUME TypeInv, NEW e \in Executions, BuildTaskRaises(e)
  PROVE  TypeInv'
<1>0. /\ pc[e] = "publishStep" /\ Announce(e) /\ Raise(e)
      /\ row'[e].status = "running"
  BY DEF BuildTaskRaises, InStep, TypeInv, Control, ControlOf, Running
<1>1. TypeOK'
  BY <1>0, AnnounceType, RaiseType DEF TypeInv, TypeOK, BuildTaskRaises, agentVars
<1>2. Control'
  BY <1>0, RaiseControl, ControlFrame
  DEF TypeInv, TypeOK, BuildTaskRaises, Raise, Goto, agentVars
<1> QED BY <1>1, <1>2 DEF TypeInv

LEMMA ReceiveOutputType ==
  ASSUME TypeInv, NEW e \in Executions, ReceiveOutput(e)
  PROVE  TypeInv'
<1>0. pc[e] = "await" /\ at[e] \in StepIds /\ NextOf[at[e]] \in StepRefs
  BY DefinitionAssumption DEF ReceiveOutput, TypeInv, Control, ControlOf, AtStep
<1>1. TypeOK'
  <2>1. obj[e] \in Rows /\ fut[e].task \in Nat
    BY DEF TypeInv, TypeOK, Futures
  <2>2. [obj[e] EXCEPT !.ctx[at[e]] = fut[e].task] \in Rows
    BY <2>1, RowUpdates
  <2>3. obj' \in [Executions -> Rows]
    BY <2>2 DEF TypeInv, TypeOK, ReceiveOutput
  <2> QED BY <1>0, <2>3 DEF TypeInv, TypeOK, ReceiveOutput, Goto, Pcs, agentVars
<1>2. ControlOf(e)'
  <2>1. obj'[e].status = obj[e].status
    BY DEF TypeInv, TypeOK, ReceiveOutput, Rows
  <2> QED BY <1>0, <2>1 DEF TypeInv, TypeOK, Control, ControlOf, ReceiveOutput, Goto, Running, AtStep
<1>3. Control'
  BY <1>2, ControlFrame DEF TypeInv, TypeOK, ReceiveOutput, Goto, agentVars
<1> QED BY <1>1, <1>3 DEF TypeInv

LEMMA ReceiveErrorType ==
  ASSUME TypeInv, NEW e \in Executions, ReceiveError(e)
  PROVE  TypeInv'
<1>1. TypeOK'
  BY RaiseType DEF TypeInv, TypeOK, ReceiveError, agentVars
<1>2. ControlOf(e)'
  BY RaiseControl DEF TypeInv, Control, ControlOf, ReceiveError, Running
<1>3. Control'
  BY <1>2, ControlFrame DEF TypeInv, TypeOK, ReceiveError, Raise, Goto, agentVars
<1> QED BY <1>1, <1>3 DEF TypeInv

LEMMA StepTimesOutType ==
  ASSUME TypeInv, NEW e \in Executions, StepTimesOut(e)
  PROVE  TypeInv'
<1>1. TypeOK'
  <2>1. fut' \in [Executions -> Futures]
    BY DEF TypeInv, TypeOK, StepTimesOut, Futures
  <2> QED BY <2>1, RaiseType DEF TypeInv, TypeOK, StepTimesOut, agentVars
<1>2. ControlOf(e)'
  BY RaiseControl DEF TypeInv, Control, ControlOf, StepTimesOut, Running
<1>3. Control'
  BY <1>2, ControlFrame DEF TypeInv, TypeOK, StepTimesOut, Raise, Goto, agentVars
<1> QED BY <1>1, <1>3 DEF TypeInv

LEMMA CommitNextType ==
  ASSUME TypeInv, NEW e \in Executions, CommitNext(e)
  PROVE  TypeInv'
<1>0. /\ at[e] \in StepRefs /\ LoopHead(e, at[e])
      /\ row'[e].status = "running" /\ obj[e].status = "running"
  BY DEF CommitNext, Commit, TypeInv, TypeOK, Control, ControlOf, Running
<1>1. TypeOK'
  BY <1>0, LoopHeadType DEF TypeInv, TypeOK, CommitNext, Commit, agentVars
<1>2. ControlOf(e)'
  BY <1>0, LoopHeadControl
<1>3. Control'
  BY <1>0, <1>2, ControlFrame DEF TypeInv, TypeOK, CommitNext, Commit, LoopHead, Goto, agentVars
<1> QED BY <1>1, <1>3 DEF TypeInv

LEMMA PublishEndType ==
  ASSUME TypeInv, NEW e \in Executions, PublishEnd(e)
  PROVE  TypeInv'
<1>1. TypeOK'
  BY AnnounceType DEF TypeInv, TypeOK, PublishEnd, Goto, Pcs, agentVars
<1>2. ControlOf(e)'
  BY DEF TypeInv, TypeOK, Control, ControlOf, PublishEnd, Goto, Running, AtStep
<1>3. Control'
  BY <1>2, ControlFrame DEF TypeInv, TypeOK, PublishEnd, Goto, agentVars
<1> QED BY <1>1, <1>3 DEF TypeInv

LEMMA DatabaseRaisesType ==
  ASSUME TypeInv, NEW e \in Executions, DatabaseRaises(e)
  PROVE  TypeInv'
<1>0. faults' \in 0..MaxFaults
  BY BoundAssumption DEF TypeInv, TypeOK, DatabaseRaises, FailBy
<1>1. TypeOK'
  BY <1>0 DEF TypeInv, TypeOK, DatabaseRaises, Commit, Goto, Pcs, agentVars
<1>2. ControlOf(e)'
  BY DEF TypeInv, TypeOK, ControlOf, DatabaseRaises, Goto, Running, AtStep
<1>3. Control'
  BY <1>2, ControlFrame DEF TypeInv, TypeOK, DatabaseRaises, Commit, Goto, agentVars
<1> QED BY <1>1, <1>3 DEF TypeInv

LEMMA ExecuteType ==
  ASSUME TypeInv, NEW e \in Executions, Execute(e)
  PROVE  TypeInv'
BY StartWorkflowType, CommitRunningType, PublishRunningType, CommitStepType,
   EvaluateConditionType, ApplyTransformType, SkipStubType, RegisterPendingType,
   BuildTaskRaisesType, EnqueueTaskType, ReceiveOutputType, ReceiveErrorType, StepTimesOutType,
   CommitNextType, CommitCompletedType, CommitFailedType, PublishEndType
DEF Execute

----
(* The result consumer, the worker and crashes. *)

LEMMA ReadResultsType == TypeInv /\ ReadResults => TypeInv'
<1> SUFFICES ASSUME TypeInv, ReadResults PROVE TypeInv'
  OBVIOUS
<1>1. resultGroup' \in GroupsUpTo(Len(results))
  <2>1. results \in Seq(Results) /\ resultGroup \in GroupsUpTo(Len(results))
    BY DEF TypeInv, TypeOK
  <2> QED BY <2>1, GroupReads, GroupLoses, BoundAssumption DEF ReadResults
<1>2. faults' \in 0..MaxFaults
  BY BoundAssumption DEF TypeInv, TypeOK, ReadResults, FailBy
<1>3. TypeOK'
  BY <1>1, <1>2 DEF TypeInv, TypeOK, ReadResults, executorVars, agentVars
<1> QED BY <1>3 DEF TypeInv, Control, ControlOf, ReadResults, executorVars, agentVars, Drained

LEMMA HandleResultType == TypeInv /\ HandleResult => TypeInv'
<1> SUFFICES ASSUME TypeInv, HandleResult PROVE TypeInv'
  OBVIOUS
<1>1. resultGroup' \in GroupsUpTo(Len(results))
  <2>1. results \in Seq(Results) /\ resultGroup \in GroupsUpTo(Len(results))
    BY DEF TypeInv, TypeOK
  <2> QED BY <2>1, GroupMoves DEF HandleResult
<1>2. faults' \in 0..MaxFaults
  BY BoundAssumption DEF TypeInv, TypeOK, HandleResult, FailBy
<1>3. pending' \subseteq Executions /\ fut' \in [Executions -> Futures]
  <2>1. InHand(resultGroup) \in 1..Len(results)
    BY GroupMoves DEF TypeInv, TypeOK, HandleResult
  <2> DEFINE r == results[InHand(resultGroup)]
  <2>2. r \in Results /\ Settle(tasks[r.task].exec, r)
    BY <2>1 DEF HandleResult, TypeInv, TypeOK
  <2>3. [kind |-> IF r.status = "completed" THEN "result" ELSE "error", task |-> r.task] \in Futures
    BY <2>2 DEF Results, Futures
  <2> QED BY <2>2, <2>3 DEF Settle, TypeInv, TypeOK
<1>4. TypeOK'
  BY <1>1, <1>2, <1>3 DEF TypeInv, TypeOK, HandleResult, executorVars, agentVars
<1> QED BY <1>4 DEF TypeInv, Control, ControlOf, HandleResult, executorVars, agentVars, Drained

LEMMA PlatformCrashType == TypeInv /\ PlatformCrash => TypeInv'
<1> SUFFICES ASSUME TypeInv, PlatformCrash PROVE TypeInv'
  OBVIOUS
<1>1. resultGroup' \in GroupsUpTo(Len(results))
  <2>1. results \in Seq(Results) /\ resultGroup \in GroupsUpTo(Len(results))
    BY DEF TypeInv, TypeOK
  <2> QED BY <2>1, GroupMoves DEF PlatformCrash
<1>2. faults' \in 0..MaxFaults
  BY BoundAssumption DEF TypeInv, TypeOK, PlatformCrash, FailBy
<1>3. TypeOK'
  BY <1>1, <1>2 DEF TypeInv, TypeOK, PlatformCrash, agentVars, Pcs, Futures, NoFuture
<1>4. Control'
  <2>1. \A e \in Executions : ControlOf(e)'
    BY DEF TypeInv, TypeOK, Control, ControlOf, PlatformCrash, Live, Pcs, Running, AtStep
  <2> QED BY <2>1 DEF TypeInv, Control, PlatformCrash, agentVars, Drained
<1> QED BY <1>3, <1>4 DEF TypeInv

(* What every step of the worker process has to establish. *)
LEMMA WorkerFrame ==
  ASSUME TypeInv, UNCHANGED platformVars,
         taskGroup' \in GroupsUpTo(Len(tasks)), results' \in Seq(Results),
         Len(results) <= Len(results'),
         worker' \in [pc : {"idle", "publish", "memory", "publishFailed", "ack"},
                      status : ResultStatuses],
         worker'.pc # "idle" => ~ Drained(taskGroup'), faults' \in 0..MaxFaults
  PROVE  TypeInv'
<1>1. resultGroup' \in GroupsUpTo(Len(results'))
  <2>1. Len(results) \in Nat /\ Len(results') \in Nat /\ resultGroup \in GroupsUpTo(Len(results))
    BY DEF TypeInv, TypeOK
  <2> QED BY <2>1, GroupMoves DEF platformVars
<1>2. TypeOK'
  BY <1>1 DEF TypeInv, TypeOK, platformVars
<1> QED BY <1>2 DEF TypeInv, Control, ControlOf, platformVars, Drained

LEMMA PublishedType ==
  ASSUME TypeInv, ~ Drained(taskGroup), NEW status \in ResultStatuses
  PROVE  Published(status) \in Seq(Results) /\ Len(Published(status)) = Len(results) + 1
<1>1. InHand(taskGroup) \in Nat \ {0}
  BY GroupMoves DEF TypeInv, TypeOK
<1> QED BY <1>1 DEF Published, Results, TypeInv, TypeOK

LEMMA WorkerType == TypeInv /\ (Worker \/ AgentCrash) => TypeInv'
<1> SUFFICES ASSUME TypeInv, Worker \/ AgentCrash PROVE TypeInv'
  OBVIOUS
<1>0. /\ taskGroup \in GroupsUpTo(Len(tasks)) /\ results \in Seq(Results)
      /\ worker \in [pc : {"idle", "publish", "memory", "publishFailed", "ack"},
                     status : ResultStatuses]
      /\ worker.pc # "idle" => ~ Drained(taskGroup)
      /\ faults \in 0..MaxFaults /\ Len(tasks) \in Nat /\ Len(results) \in Nat
      /\ Idle \in [pc : {"idle"}, status : ResultStatuses]
  BY DEF TypeInv, TypeOK, Control, Idle, ResultStatuses
<1>1. CASE ReadTasks
  <2>1. taskGroup' \in GroupsUpTo(Len(tasks))
    BY <1>0, <1>1, GroupReads, BoundAssumption DEF ReadTasks, TypeInv, TypeOK
  <2> QED BY <1>0, <1>1, <2>1, WorkerFrame DEF ReadTasks
<1>2. CASE RunTask
  <2>1. /\ worker' \in [pc : {"idle", "publish", "memory", "publishFailed", "ack"},
                        status : ResultStatuses]
        /\ ~ Drained(taskGroup') /\ UNCHANGED <<platformVars, taskGroup, results, faults>>
    BY <1>2 DEF RunTask, ResultStatuses, Drained
  <2> QED BY <1>0, <2>1, WorkerFrame
<1>3. CASE PublishResult
  <2>1. results' \in Seq(Results) /\ Len(results') = Len(results) + 1
    BY <1>0, <1>3, PublishedType DEF PublishResult
  <2> QED BY <1>0, <1>3, <2>1, WorkerFrame DEF PublishResult, Drained
<1>4. CASE PublishResultRaises
  <2>1. results' \in Seq(Results) /\ Len(results) <= Len(results')
    BY <1>0, <1>4, PublishedType DEF PublishResultRaises
  <2>2. faults' \in 0..MaxFaults
    BY <1>0, <1>4, BoundAssumption DEF PublishResultRaises, FailBy
  <2> QED BY <1>0, <1>4, <2>1, <2>2, WorkerFrame
          DEF PublishResultRaises, Drained, ResultStatuses
<1>5. CASE WriteMemory
  <2>1. faults' \in 0..MaxFaults
    BY <1>0, <1>5, BoundAssumption DEF WriteMemory, FailBy
  <2> QED BY <1>0, <1>5, <2>1, WorkerFrame DEF WriteMemory, Drained, Idle, ResultStatuses
<1>6. CASE PublishFailure
  <2>1. results' \in Seq(Results) /\ Len(results) <= Len(results')
    BY <1>0, <1>6, PublishedType DEF PublishFailure, ResultStatuses
  <2>2. faults' \in 0..MaxFaults
    BY <1>0, <1>6, BoundAssumption DEF PublishFailure, FailBy
  <2> QED BY <1>0, <1>6, <2>1, <2>2, WorkerFrame
          DEF PublishFailure, Drained, Idle, ResultStatuses
<1>7. CASE AckTask
  <2>1. taskGroup' \in GroupsUpTo(Len(tasks)) /\ faults' \in 0..MaxFaults
    BY <1>0, <1>7, GroupMoves, BoundAssumption DEF AckTask, FailBy
  <2> QED BY <1>0, <1>7, <2>1, WorkerFrame DEF AckTask, Idle
<1>8. CASE AgentCrash
  <2>1. taskGroup' \in GroupsUpTo(Len(tasks)) /\ faults' \in 0..MaxFaults
    BY <1>0, <1>8, GroupMoves, BoundAssumption DEF AgentCrash, FailBy
  <2> QED BY <1>0, <1>8, <2>1, WorkerFrame DEF AgentCrash, Idle
<1> QED BY <1>1, <1>2, <1>3, <1>4, <1>5, <1>6, <1>7, <1>8 DEF Worker

LEMMA StutterType == TypeInv /\ UNCHANGED vars => TypeInv'
BY DEF TypeInv, TypeOK, Control, ControlOf, Drained, vars

LEMMA NextType == TypeInv /\ [Next]_vars => TypeInv'
<1> SUFFICES ASSUME TypeInv, [Next]_vars PROVE TypeInv'
  OBVIOUS
<1>1. ASSUME NEW e \in Executions,
             CreateExecution(e) \/ Execute(e) \/ EnqueueRaises(e) \/ DatabaseRaises(e)
      PROVE  TypeInv'
  BY <1>1, CreateExecutionType, ExecuteType, EnqueueRaisesType, DatabaseRaisesType
<1> QED BY <1>1, ReadResultsType, HandleResultType, PlatformCrashType, WorkerType, StutterType
        DEF Next, AtRest

(* The types of all variables, for every instance of the specification. *)
THEOREM TypeCorrect == Spec => []TypeOK
<1>1. TypeInv => TypeOK
  BY DEF TypeInv
<1> QED BY <1>1, InitType, NextType, PTL DEF Spec

LEMMA TypeInvariant == Spec => []TypeInv
BY InitType, NextType, PTL DEF Spec


----
(* Why outputs are stored under the right step although results carry no   *)
(* more than the execution id into dispatcher._pending.                    *)

(* An awaiting coroutine waits for the task it enqueued for its step. *)
AwaitedTask ==
  \A e \in Executions : pc[e] = "await" =>
    awaiting[e] \in DOMAIN tasks /\ tasks[awaiting[e]] = [exec |-> e, step |-> at[e]]

(* Results are of tasks the worker is past, or of the one it is on once it *)
(* has tried to publish.                                                   *)
ResultsOfWorker ==
  \A i \in DOMAIN results :
    \/ results[i].task <= taskGroup.pos
    \/ results[i].task = InHand(taskGroup) /\ worker.pc \in {"memory", "publishFailed", "ack"}

(* A task succeeds at most once. *)
OneSuccess ==
  \A i, j \in DOMAIN results :
    /\ results[i].status = "completed" /\ results[j].status = "completed"
    /\ results[i].task = results[j].task
    => i = j

(* A Future holds an output only while its task is awaited. *)
FutureOutput ==
  \A e \in Executions : fut[e].kind = "result" =>
    /\ pc[e] # "enqueue"
    /\ pc[e] = "await" => fut[e].task = awaiting[e] /\ Succeeded(fut[e].task)

Attribution ==
  /\ TypeInv
  /\ AwaitedTask /\ ResultsOfWorker /\ OneSuccess
  /\ OneOpenTask /\ FutureOutput /\ OutputAttribution

LEMMA InitAttribution == Init => Attribution
BY InitType
DEF Init, Attribution, TypeInv, AwaitedTask, ResultsOfWorker, OneSuccess, OneOpenTask,
    FutureOutput, OutputAttribution, Attributed, NoRow, NoFuture

LEMMA StreamEntries ==
  ASSUME TypeOK
  PROVE  /\ DOMAIN tasks = 1..Len(tasks) /\ Len(tasks) \in Nat
         /\ DOMAIN results = 1..Len(results) /\ Len(results) \in Nat
         /\ \A t \in DOMAIN tasks : tasks[t].exec \in Executions
         /\ \A i \in DOMAIN results :
              results[i].task \in Nat \ {0} /\ results[i].status \in ResultStatuses
<1>1. tasks \in Seq(Tasks) /\ results \in Seq(Results)
  BY DEF TypeOK
<1>2. \A t \in DOMAIN tasks : tasks[t] \in Tasks
  BY <1>1
<1>3. \A i \in DOMAIN results : results[i] \in Results
  BY <1>1
<1> QED BY <1>1, <1>2, <1>3 DEF Tasks, Results

LEMMA ResultTask ==
  ASSUME TypeInv, ResultsOfWorker, NEW i \in DOMAIN results
  PROVE  results[i].task \in DOMAIN tasks /\ results[i].task # 0
<1>1. /\ taskGroup \in GroupsUpTo(Len(tasks)) /\ results[i].task \in Nat \ {0}
      /\ DOMAIN tasks = 1..Len(tasks) /\ Len(tasks) \in Nat
  BY StreamEntries DEF TypeInv, TypeOK
<1>2. results[i].task <= Len(tasks)
  <2>1. taskGroup.pos \in 0..Len(tasks) /\ taskGroup.last \in 0..Len(tasks)
        /\ taskGroup.pos <= taskGroup.last
    BY <1>1 DEF GroupsUpTo
  <2>2. worker.pc # "idle" => taskGroup.pos # taskGroup.last
    BY DEF TypeInv, Control, Drained
  <2> QED BY <1>1, <2>1, <2>2 DEF ResultsOfWorker, InHand
<1> QED BY <1>1, <1>2

(* A step of e's coroutine that enqueues nothing keeps Attribution if it   *)
(* does not enter the await, leaves it only with an output or for good,    *)
(* and stores nothing but what is attributed.                              *)
LEMMA CoroutineFrame ==
  ASSUME Attribution, TypeInv', NEW e \in Executions,
         UNCHANGED <<tasks, taskGroup, results, resultGroup, worker>>,
         \A f \in Executions \ {e} :
           /\ pc'[f] = pc[f] /\ at'[f] = at[f] /\ awaiting'[f] = awaiting[f]
           /\ fut'[f] = fut[f] /\ obj'[f] = obj[f] /\ row'[f] = row[f],
         pc'[e] # "await",
         pc'[e] = "enqueue" => fut'[e].kind # "result",
         \/ pc'[e] \in Ending
         \/ pc[e] \notin Ending /\ (pc[e] = "await" => fut[e].kind = "result"),
         \A s \in StepIds : Attributed(e, s, obj'[e].ctx[s]) /\ Attributed(e, s, row'[e].ctx[s])
  PROVE  Attribution'
<1>1. AwaitedTask'
  BY DEF Attribution, AwaitedTask
<1>2. ResultsOfWorker' /\ OneSuccess'
  BY DEF Attribution, ResultsOfWorker, OneSuccess, InHand
<1>3. OneOpenTask'
  <2> SUFFICES ASSUME NEW t \in DOMAIN tasks, Open(t)'
               PROVE  \/ pc'[tasks[t].exec] \in Ending
                      \/ /\ pc'[tasks[t].exec] = "await" /\ t = awaiting'[tasks[t].exec]
                         /\ fut'[tasks[t].exec].kind # "result"
    BY DEF OneOpenTask, Ending
  <2>1. Open(t)
    <3>1. Startable(t)' => Startable(t)
      BY DEF Startable, InHand
    <3>2. Succeeding(t)' => Succeeding(t)
      BY DEF Succeeding, InHand, Drained
    <3>3. Unread(t)' => Unread(t)
      BY DEF Unread, Success
    <3> QED BY <3>1, <3>2, <3>3 DEF Open
  <2>2. tasks[t].exec \in Executions
    BY StreamEntries DEF Attribution, TypeInv
  <2> DEFINE f == tasks[t].exec
  <2>3. pc[f] \in Ending \/ (pc[f] = "await" /\ t = awaiting[f] /\ fut[f].kind # "result")
    BY <2>1 DEF Attribution, OneOpenTask
  <2>4. CASE f = e
    BY <2>3, <2>4
  <2>5. CASE f # e
    BY <2>2, <2>3, <2>5
  <2> QED BY <2>4, <2>5
<1>4. FutureOutput'
  <2> SUFFICES ASSUME NEW f \in Executions, fut'[f].kind = "result"
               PROVE  /\ pc'[f] # "enqueue"
                      /\ pc'[f] = "await" => /\ fut'[f].task = awaiting'[f]
                                            /\ Succeeded(fut'[f].task)
    BY DEF FutureOutput, Succeeded, Success
  <2>1. CASE f = e
    BY <2>1
  <2>2. CASE f # e
    BY <2>2 DEF Attribution, FutureOutput
  <2> QED BY <2>1, <2>2
<1>5. OutputAttribution'
  <2> SUFFICES ASSUME NEW f \in Executions, NEW s \in StepIds
               PROVE  Attributed(f, s, obj[f].ctx[s])' /\ Attributed(f, s, row[f].ctx[s])'
    BY DEF OutputAttribution
  <2>1. Attributed(f, s, obj'[f].ctx[s]) /\ Attributed(f, s, row'[f].ctx[s])
    BY DEF Attribution, OutputAttribution
  <2> QED BY <2>1 DEF Attributed, Succeeded, Success
<1> QED BY <1>1, <1>2, <1>3, <1>4, <1>5 DEF Attribution

LEMMA LoopHeadMoves ==
  ASSUME TypeOK, NEW e \in Executions, NEW s, LoopHead(e, s)
  PROVE  /\ pc'[e] \in {"commitStep", "commitCompleted", "commitFailed"}
         /\ obj'[e].ctx = obj[e].ctx
         /\ \A f \in Executions \ {e} : pc'[f] = pc[f] /\ at'[f] = at[f] /\ obj'[f] = obj[f]
<1>1. obj[e] \in Rows
  BY DEF TypeOK
<1> QED BY <1>1 DEF TypeOK, LoopHead, Goto, Rows

LEMMA RaiseMoves ==
  ASSUME TypeOK, NEW e \in Executions, Raise(e)
  PROVE  /\ pc'[e] = "commitFailed" /\ obj'[e].ctx = obj[e].ctx
         /\ \A f \in Executions \ {e} : pc'[f] = pc[f] /\ at'[f] = at[f] /\ obj'[f] = obj[f]
<1>1. obj[e] \in Rows
  BY DEF TypeOK
<1> QED BY <1>1 DEF TypeOK, Raise, Goto, Rows

(* The steps of a coroutine that enqueue nothing. *)
Ordinary(e) ==
  \/ CreateExecution(e) \/ StartWorkflow(e) \/ CommitRunning(e) \/ PublishRunning(e)
  \/ CommitStep(e) \/ EvaluateCondition(e) \/ ApplyTransform(e) \/ SkipStub(e)
  \/ RegisterPending(e) \/ ReceiveOutput(e) \/ ReceiveError(e) \/ StepTimesOut(e)
  \/ CommitNext(e) \/ CommitCompleted(e) \/ CommitFailed(e) \/ PublishEnd(e)
  \/ DatabaseRaises(e) \/ BuildTaskRaises(e)

LEMMA OrdinaryAttribution ==
  ASSUME Attribution, TypeInv', NEW e \in Executions, Ordinary(e)
  PROVE  Attribution'
<1> DEFINE Stores == /\ UNCHANGED <<tasks, taskGroup, results, resultGroup, worker>>
                     /\ \A f \in Executions \ {e} :
                          /\ pc'[f] = pc[f] /\ at'[f] = at[f] /\ awaiting'[f] = awaiting[f]
                          /\ fut'[f] = fut[f] /\ obj'[f] = obj[f] /\ row'[f] = row[f]
           Keeps(ctx) == \A s \in StepIds : \/ ctx[s] \in {row[e].ctx[s], obj[e].ctx[s]}
                                            \/ ctx[s] = Written /\ s \in Overwritable
<1>0. /\ TypeOK /\ AwaitedTask /\ FutureOutput
      /\ \A s \in StepIds : Attributed(e, s, obj[e].ctx[s]) /\ Attributed(e, s, row[e].ctx[s])
  BY DEF Attribution, TypeInv, OutputAttribution
<1>1. Stores
  <2>1. CASE \/ CreateExecution(e) \/ StartWorkflow(e) \/ CommitRunning(e) \/ PublishRunning(e)
            \/ CommitStep(e)
    BY <1>0, <2>1, LoopHeadMoves
    DEF TypeOK, Rows, CreateExecution, StartWorkflow, CommitRunning, PublishRunning, CommitStep,
        Commit, Goto, agentVars
  <2>2. CASE \/ EvaluateCondition(e) \/ ApplyTransform(e) \/ SkipStub(e) \/ RegisterPending(e)
            \/ BuildTaskRaises(e)
    BY <1>0, <2>2, LoopHeadMoves, RaiseMoves
    DEF TypeOK, EvaluateCondition, ApplyTransform, SkipStub, RegisterPending, BuildTaskRaises, Goto,
        agentVars
  <2>3. CASE ReceiveOutput(e) \/ ReceiveError(e) \/ StepTimesOut(e)
    BY <1>0, <2>3, RaiseMoves DEF TypeOK, ReceiveOutput, ReceiveError, StepTimesOut, Goto, agentVars
  <2>4. CASE \/ CommitNext(e) \/ CommitCompleted(e) \/ CommitFailed(e) \/ PublishEnd(e)
            \/ DatabaseRaises(e)
    BY <1>0, <2>4, LoopHeadMoves
    DEF TypeOK, CommitNext, CommitCompleted, CommitFailed, PublishEnd, DatabaseRaises,
        Commit, Goto, agentVars
  <2> QED BY <2>1, <2>2, <2>3, <2>4 DEF Ordinary
<1>2. /\ pc'[e] # "await"
      /\ pc'[e] = "enqueue" => fut'[e].kind # "result"
  <2>1. CASE RegisterPending(e)
    BY <1>0, <2>1 DEF RegisterPending, TypeOK, Goto
  <2>2. CASE ~ RegisterPending(e)
    BY <1>0, <2>2, LoopHeadMoves, RaiseMoves
    DEF Ordinary, TypeOK, CreateExecution, StartWorkflow, CommitRunning, PublishRunning, CommitStep,
        EvaluateCondition, ApplyTransform, SkipStub, ReceiveOutput, ReceiveError, StepTimesOut,
        BuildTaskRaises, CommitNext, CommitCompleted, CommitFailed, PublishEnd, DatabaseRaises, Goto
  <2> QED BY <2>1, <2>2
<1>3. \/ pc'[e] \in Ending
      \/ pc[e] \notin Ending /\ (pc[e] = "await" => fut[e].kind = "result")
  <2>1. CASE \/ ReceiveError(e) \/ StepTimesOut(e) \/ CommitCompleted(e) \/ CommitFailed(e)
            \/ PublishEnd(e) \/ DatabaseRaises(e) \/ BuildTaskRaises(e)
    <3>1. pc'[e] \in {"commitFailed", "publishEnd", "done", "dead"}
      BY <1>0, <2>1, RaiseMoves
      DEF TypeOK, ReceiveError, StepTimesOut, CommitCompleted, CommitFailed, PublishEnd,
          DatabaseRaises, BuildTaskRaises, Goto
    <3> QED BY <3>1 DEF Ending
  <2>2. CASE ReceiveOutput(e)
    BY <2>2 DEF ReceiveOutput, Ending
  <2>3. CASE \/ CreateExecution(e) \/ StartWorkflow(e) \/ CommitRunning(e) \/ PublishRunning(e)
            \/ CommitStep(e) \/ EvaluateCondition(e) \/ ApplyTransform(e) \/ SkipStub(e)
            \/ RegisterPending(e) \/ CommitNext(e)
    <3>1. pc[e] \in {"absent", "refresh", "commitRunning", "publishRunning", "commitStep",
                     "publishStep", "commitNext"}
      BY <2>3 DEF CreateExecution, StartWorkflow, CommitRunning, PublishRunning, CommitStep,
                  EvaluateCondition, ApplyTransform, SkipStub, RegisterPending, CommitNext, InStep
    <3> QED BY <3>1 DEF Ending
  <2> QED BY <2>1, <2>2, <2>3 DEF Ordinary
<1>4. \A s \in StepIds : Attributed(e, s, obj'[e].ctx[s]) /\ Attributed(e, s, row'[e].ctx[s])
  <2>1. CASE ReceiveOutput(e)
    <3>1. /\ pc[e] = "await" /\ at[e] \in StepIds /\ obj[e] \in Rows /\ row' = row
          /\ fut[e].task = awaiting[e] /\ Succeeded(fut[e].task)
          /\ awaiting[e] \in DOMAIN tasks
          /\ tasks[awaiting[e]] = [exec |-> e, step |-> at[e]]
      BY <1>0, <2>1 DEF ReceiveOutput, TypeOK, Attribution, TypeInv, Control, ControlOf, AtStep,
                        AwaitedTask, FutureOutput
    <3>2. Attributed(e, at[e], fut[e].task)
      BY <3>1 DEF Attributed
    <3>3. obj'[e].ctx = [obj[e].ctx EXCEPT ![at[e]] = fut[e].task]
      BY <1>0, <2>1, <3>1 DEF ReceiveOutput, TypeOK, Rows
    <3> QED BY <1>0, <3>1, <3>2, <3>3 DEF Rows
  <2>2. CASE ~ ReceiveOutput(e)
    <3>1. CASE CreateExecution(e)
      <4>1. PICK keys \in Given : row'[e].ctx = Overwrite(row[e].ctx, keys)
        BY <1>0, <3>1 DEF CreateExecution, TypeOK, Rows
      <4>2. \A s \in keys : s \in Overwritable
        BY DEF Overwritable
      <4>3. Keeps(row'[e].ctx) /\ obj'[e] = obj[e]
        BY <3>1, <4>1, <4>2 DEF CreateExecution, Overwrite
      <4> QED BY <1>0, <4>3 DEF Attributed
    <3>2. CASE ApplyTransform(e)
      <4>1. row' = row /\ at[e] \in StepIds
        BY <3>2 DEF ApplyTransform, InStep, Attribution, TypeInv, Control, ControlOf, AtStep
      <4>2. obj'[e].ctx \in {obj[e].ctx, Overwrite(obj[e].ctx, WritesOf[at[e]])}
        BY <1>0, <3>2, RaiseMoves DEF ApplyTransform, TypeOK, Rows
      <4>3. \A s \in WritesOf[at[e]] : s \in Overwritable
        <5>1. WritesOf[at[e]] \subseteq UNION {WritesOf[s] : s \in StepIds}
          BY <4>1, Zenon
        <5> QED BY <5>1 DEF Overwritable
      <4>4. Keeps(obj'[e].ctx)
        BY <4>2, <4>3 DEF Overwrite
      <4> QED BY <1>0, <4>1, <4>4 DEF Attributed
    <3>3. CASE ~ CreateExecution(e) /\ ~ ApplyTransform(e)
      <4>1. obj'[e].ctx \in {row[e].ctx, obj[e].ctx} /\ row'[e].ctx \in {row[e].ctx, obj[e].ctx}
        BY <1>0, <2>2, <3>3, LoopHeadMoves, RaiseMoves
        DEF Ordinary, TypeOK, Rows, StartWorkflow, CommitRunning, PublishRunning, Commit,
            CommitStep, EvaluateCondition, SkipStub, RegisterPending, BuildTaskRaises,
            ReceiveError, StepTimesOut, CommitNext, CommitCompleted, CommitFailed, PublishEnd, DatabaseRaises
      <4> QED BY <1>0, <4>1
    <3> QED BY <3>1, <3>2, <3>3
  <2> QED BY <2>1, <2>2
<1> QED BY <1>1, <1>2, <1>3, <1>4, CoroutineFrame

LEMMA NewTaskEntries ==
  ASSUME TypeInv, NEW e \in Executions, pc[e] = "enqueue"
  PROVE  /\ DOMAIN NewTask(e) = 1..Len(tasks) + 1
         /\ \A t \in DOMAIN tasks : NewTask(e)[t] = tasks[t]
         /\ NewTask(e)[Len(tasks) + 1] = [exec |-> e, step |-> at[e]]
<1>1. [exec |-> e, step |-> at[e]] \in Tasks /\ tasks \in Seq(Tasks)
  BY DEF TypeInv, TypeOK, Control, ControlOf, AtStep, Tasks
<1> QED BY <1>1 DEF NewTask

LEMMA EnqueueAttribution ==
  ASSUME Attribution, TypeInv', NEW e \in Executions, EnqueueTask(e) \/ EnqueueRaises(e)
  PROVE  Attribution'
<1>0. /\ TypeInv /\ TypeOK /\ pc[e] = "enqueue" /\ at[e] \in StepIds /\ Len(tasks) \in Nat
      /\ DOMAIN tasks = 1..Len(tasks)
  <2>1. TypeInv /\ TypeOK /\ pc[e] = "enqueue"
    BY DEF Attribution, TypeInv, EnqueueTask, EnqueueRaises
  <2> QED BY <2>1, StreamEntries DEF TypeInv, Control, ControlOf, AtStep
<1>1. /\ UNCHANGED <<taskGroup, results, resultGroup, worker, fut, row, at>>
      /\ \A f \in Executions : obj'[f].ctx = obj[f].ctx
      /\ \A f \in Executions \ {e} : pc'[f] = pc[f] /\ awaiting'[f] = awaiting[f]
  <2>1. CASE EnqueueTask(e)
    BY <1>0, <2>1 DEF EnqueueTask, Goto, agentVars, TypeOK
  <2>2. CASE EnqueueRaises(e)
    <3>1. Raise(e) /\ at' = at /\ awaiting' = awaiting
      BY <2>2 DEF EnqueueRaises, Raise
    <3> QED BY <1>0, <2>2, <3>1, RaiseMoves DEF EnqueueRaises, agentVars
  <2> QED BY <2>1, <2>2
<1>2. \/ /\ pc'[e] = "await" /\ tasks' = NewTask(e) /\ awaiting'[e] = Len(tasks) + 1
      \/ pc'[e] = "commitFailed" /\ awaiting' = awaiting /\ tasks' \in {tasks, NewTask(e)}
  BY <1>0, RaiseMoves DEF EnqueueTask, EnqueueRaises, Goto, TypeOK
<1>3. /\ \A t \in DOMAIN tasks : t \in DOMAIN tasks' /\ tasks'[t] = tasks[t]
      /\ \A t \in DOMAIN tasks' \ DOMAIN tasks :
           t = Len(tasks) + 1 /\ tasks'[t] = [exec |-> e, step |-> at[e]]
  <2>1. CASE tasks' = tasks
    BY <2>1
  <2>2. CASE tasks' = NewTask(e)
    <3>1. /\ DOMAIN tasks' = 1..Len(tasks) + 1
          /\ \A t \in DOMAIN tasks : tasks'[t] = tasks[t]
          /\ tasks'[Len(tasks) + 1] = [exec |-> e, step |-> at[e]]
      BY <1>0, <2>2, NewTaskEntries
    <3> QED BY <1>0, <3>1
  <2> QED BY <1>2, <2>1, <2>2
<1>4. AwaitedTask'
  <2> SUFFICES ASSUME NEW f \in Executions, pc'[f] = "await"
               PROVE  /\ awaiting'[f] \in DOMAIN tasks'
                      /\ tasks'[awaiting'[f]] = [exec |-> f, step |-> at'[f]]
    BY DEF AwaitedTask
  <2>1. CASE f = e
    BY <1>0, <1>1, <1>2, <2>1, NewTaskEntries
  <2>2. CASE f # e
    BY <1>1, <1>3, <2>2 DEF Attribution, AwaitedTask
  <2> QED BY <2>1, <2>2
<1>5. ResultsOfWorker' /\ OneSuccess'
  BY <1>1 DEF Attribution, ResultsOfWorker, OneSuccess, InHand
<1>6. OneOpenTask'
  <2> SUFFICES ASSUME NEW t \in DOMAIN tasks', Open(t)', NEW f, f = tasks'[t].exec
               PROVE  \/ pc'[f] \in Ending
                      \/ pc'[f] = "await" /\ t = awaiting'[f] /\ fut'[f].kind # "result"
    BY DEF OneOpenTask, Ending
  <2>1. CASE t \in DOMAIN tasks
    <3>1. Startable(t)' => Startable(t)
      BY <1>1 DEF Startable, InHand
    <3>2. Succeeding(t)' => Succeeding(t)
      BY <1>1 DEF Succeeding, InHand, Drained
    <3>3. Unread(t)' => Unread(t)
      BY <1>1 DEF Unread, Success
    <3>4. Open(t) /\ tasks[t].exec = f /\ f \in Executions
      BY <1>0, <1>3, <2>1, <3>1, <3>2, <3>3, StreamEntries DEF Open
    <3>5. pc[f] \in Ending \/ (pc[f] = "await" /\ t = awaiting[f] /\ fut[f].kind # "result")
      BY <2>1, <3>4 DEF Attribution, OneOpenTask
    <3>6. f # e
      BY <1>0, <3>5 DEF Ending
    <3> QED BY <1>1, <3>4, <3>5, <3>6
  <2>2. CASE t \notin DOMAIN tasks
    <3>1. t = Len(tasks) + 1 /\ f = e
      BY <1>3, <2>2
    <3>2. fut'[e].kind # "result"
      BY <1>0, <1>1 DEF Attribution, FutureOutput
    <3> QED BY <1>2, <3>1, <3>2 DEF Ending
  <2> QED BY <2>1, <2>2
<1>7. FutureOutput'
  <2> SUFFICES ASSUME NEW f \in Executions, fut'[f].kind = "result"
               PROVE  /\ pc'[f] # "enqueue"
                      /\ pc'[f] = "await" => /\ fut'[f].task = awaiting'[f]
                                            /\ Succeeded(fut'[f].task)
    BY <1>1 DEF FutureOutput, Succeeded, Success
  <2>1. f # e
    BY <1>0, <1>1 DEF Attribution, FutureOutput
  <2> QED BY <1>1, <2>1 DEF Attribution, FutureOutput
<1>8. OutputAttribution'
  <2> SUFFICES ASSUME NEW f \in Executions, NEW s \in StepIds
               PROVE  Attributed(f, s, obj[f].ctx[s])' /\ Attributed(f, s, row[f].ctx[s])'
    BY DEF OutputAttribution
  <2>1. Attributed(f, s, obj'[f].ctx[s]) /\ Attributed(f, s, row'[f].ctx[s])
    BY <1>1 DEF Attribution, OutputAttribution
  <2> QED BY <1>1, <1>3, <2>1 DEF Attributed, Succeeded, Success
<1> QED BY <1>4, <1>5, <1>6, <1>7, <1>8 DEF Attribution

(* A step that leaves the coroutines and their Futures alone and opens no  *)
(* task: the worker's, a read of results, a stutter.                       *)
LEMMA StreamFrame ==
  ASSUME Attribution, TypeInv', UNCHANGED <<row, obj, pc, at, fut, awaiting, tasks>>,
         ResultsOfWorker', OneSuccess',
         \A t \in DOMAIN tasks : /\ Open(t)' => Open(t)
                                 /\ Succeeded(t) => Succeeded(t)'
  PROVE  Attribution'
<1>1. AwaitedTask' /\ OneOpenTask'
  BY DEF Attribution, AwaitedTask, OneOpenTask, Ending
<1>2. FutureOutput'
  <2> SUFFICES ASSUME NEW f \in Executions, fut[f].kind = "result"
               PROVE  /\ pc[f] # "enqueue"
                      /\ pc[f] = "await" => /\ fut[f].task = awaiting[f]
                                            /\ Succeeded(fut[f].task)'
    BY DEF FutureOutput, Succeeded, Success
  <2> QED BY DEF Attribution, FutureOutput, AwaitedTask
<1>3. OutputAttribution'
  <2> SUFFICES ASSUME NEW f \in Executions, NEW s \in StepIds
               PROVE  Attributed(f, s, obj[f].ctx[s])' /\ Attributed(f, s, row[f].ctx[s])'
    BY DEF OutputAttribution
  <2>1. Attributed(f, s, obj[f].ctx[s]) /\ Attributed(f, s, row[f].ctx[s])
    BY DEF Attribution, OutputAttribution
  <2> QED BY <2>1 DEF Attributed, Succeeded, Success
<1> QED BY <1>1, <1>2, <1>3 DEF Attribution

LEMMA ReadResultsAttribution ==
  ASSUME Attribution, TypeInv', ReadResults
  PROVE  Attribution'
<1>1. /\ resultGroup.pos \in Nat /\ resultGroup'.pos \in Nat
      /\ resultGroup'.pos >= resultGroup.pos
      /\ UNCHANGED <<tasks, taskGroup, results, worker>>
      /\ DOMAIN results \subseteq Nat
  <2>1. /\ results \in Seq(Results) /\ resultGroup \in GroupsUpTo(Len(results))
        /\ CanRead(resultGroup, results)
        /\ UNCHANGED <<tasks, taskGroup, results, worker>>
    BY DEF ReadResults, Attribution, TypeInv, TypeOK, executorVars, agentVars
  <2>2. resultGroup.pos \in Nat
    BY <2>1 DEF GroupsUpTo
  <2>3. DOMAIN results \subseteq Nat
    BY <2>1
  <2> QED BY <2>1, <2>2, <2>3, GroupReads, GroupLoses, BoundAssumption DEF ReadResults
<1>2. ResultsOfWorker' /\ OneSuccess'
  BY <1>1 DEF Attribution, ResultsOfWorker, OneSuccess, InHand
<1>3. \A t \in DOMAIN tasks : /\ Open(t)' => Open(t)
                              /\ Succeeded(t) => Succeeded(t)'
  <2>1. \A t : Unread(t)' => Unread(t)
    BY <1>1 DEF Unread, Success
  <2> QED BY <1>1, <2>1 DEF Open, Startable, Succeeding, Succeeded, Success, InHand, Drained
<1> QED BY <1>2, <1>3, StreamFrame DEF ReadResults, executorVars

(* The worker appends at most a result of the task in hand, a success only *)
(* while it is publishing one.                                             *)
LEMMA PublishAttribution ==
  ASSUME Attribution, TypeInv', UNCHANGED <<platformVars, taskGroup>>,
         worker.pc \in {"publish", "publishFailed"},
         worker'.pc \in {"memory", "publishFailed", "ack"},
         NEW status \in ResultStatuses, results' \in {results, Published(status)},
         status = "completed" => worker = [pc |-> "publish", status |-> "completed"]
  PROVE  Attribution'
<1>0. /\ ~ Drained(taskGroup) /\ TypeInv /\ ResultsOfWorker /\ OneSuccess
      /\ taskGroup.pos \in Nat /\ resultGroup.pos \in Nat
      /\ resultGroup.pos <= Len(results) /\ Len(results) \in Nat
      /\ DOMAIN results = 1..Len(results)
      /\ \A i \in DOMAIN results : results[i].task \in Nat
  <2>1. TypeInv /\ TypeOK /\ Control /\ ResultsOfWorker /\ OneSuccess
    BY DEF Attribution, TypeInv
  <2>2. ~ Drained(taskGroup)
    BY <2>1 DEF Control
  <2>3. /\ results \in Seq(Results) /\ taskGroup \in GroupsUpTo(Len(tasks))
        /\ resultGroup \in GroupsUpTo(Len(results)) /\ tasks \in Seq(Tasks)
    BY <2>1 DEF TypeOK
  <2>4. /\ taskGroup.pos \in Nat /\ resultGroup.pos \in Nat
        /\ resultGroup.pos <= Len(results) /\ Len(results) \in Nat
    BY <2>3 DEF GroupsUpTo
  <2>5. /\ DOMAIN results = 1..Len(results)
        /\ \A i \in DOMAIN results : results[i].task \in Nat
    <3>1. \A i \in DOMAIN results : results[i] \in Results
      BY <2>3
    <3> QED BY <2>3, <3>1 DEF Results
  <2> QED BY <2>1, <2>2, <2>4, <2>5
<1>1. /\ \A i \in DOMAIN results : i \in DOMAIN results' /\ results'[i] = results[i]
      /\ \A i \in DOMAIN results' \ DOMAIN results :
           i = Len(results) + 1 /\ results'[i] = [task |-> InHand(taskGroup), status |-> status]
  <2>1. CASE results' = results
    BY <2>1
  <2>2. CASE results' = Published(status)
    <3>1. results \in Seq(Results) /\ [task |-> InHand(taskGroup), status |-> status] \in Results
      BY <1>0 DEF TypeInv, TypeOK, Results, InHand
    <3>2. /\ DOMAIN results' = 1..Len(results) + 1
          /\ \A i \in DOMAIN results : results'[i] = results[i]
          /\ results'[Len(results) + 1] = [task |-> InHand(taskGroup), status |-> status]
      BY <2>2, <3>1 DEF Published
    <3> QED BY <1>0, <3>2
  <2> QED BY <2>1, <2>2
<1>2. ResultsOfWorker'
  BY <1>0, <1>1 DEF ResultsOfWorker, InHand
<1>3. OneSuccess'
  <2> SUFFICES ASSUME NEW i \in DOMAIN results', NEW j \in DOMAIN results',
                      results'[i].status = "completed", results'[j].status = "completed",
                      results'[i].task = results'[j].task
               PROVE  i = j
    BY DEF OneSuccess
  <2>1. ASSUME NEW k \in DOMAIN results, status = "completed"
        PROVE  results[k].task # InHand(taskGroup)
    BY <1>0, <2>1 DEF ResultsOfWorker, InHand
  <2>2. CASE i \in DOMAIN results /\ j \in DOMAIN results
    BY <1>0, <1>1, <2>2 DEF OneSuccess
  <2>3. CASE i \notin DOMAIN results \/ j \notin DOMAIN results
    BY <1>1, <2>1, <2>3
  <2> QED BY <2>2, <2>3
<1>4. ASSUME NEW t \in DOMAIN tasks
      PROVE  /\ Open(t)' => Open(t)
             /\ Succeeded(t) => Succeeded(t)'
  <2>1. Startable(t)' => Startable(t)
    BY DEF Startable, InHand, platformVars
  <2>2. ~ Succeeding(t)'
    BY DEF Succeeding
  <2>3. ASSUME Unread(t)' PROVE Unread(t) \/ Succeeding(t)
    <3>1. PICK i \in DOMAIN results' : i > resultGroup.pos /\ Success(i, t)'
      BY <2>3 DEF Unread, Success, platformVars
    <3>2. CASE i \in DOMAIN results
      BY <1>1, <3>1, <3>2 DEF Unread, Success
    <3>3. CASE i \notin DOMAIN results
      BY <1>0, <1>1, <3>1, <3>3 DEF Succeeding, Success
    <3> QED BY <3>2, <3>3
  <2>4. Succeeded(t) => Succeeded(t)'
    BY <1>1 DEF Succeeded, Success
  <2> QED BY <2>1, <2>2, <2>3, <2>4 DEF Open
<1> QED BY <1>2, <1>3, <1>4, StreamFrame DEF platformVars

(* The worker moves on, publishing nothing: it starts on the task in hand, *)
(* stays on it past its publication, or leaves it behind.                  *)
LEMMA WorkerMovesAttribution ==
  ASSUME Attribution, TypeInv', UNCHANGED <<platformVars, results>>,
         \/ taskGroup'.pos = taskGroup.pos /\ worker' = worker /\ worker.pc = "idle"
         \/ taskGroup' = taskGroup /\ worker.pc = "idle" /\ worker'.pc # "idle"
         \/ taskGroup' = taskGroup /\ worker.pc = "memory" /\ worker'.pc \in {"ack", "publishFailed"}
         \/ taskGroup'.pos > taskGroup.pos /\ worker'.pc = "idle"
  PROVE  Attribution'
<1>0. /\ TypeInv /\ ResultsOfWorker /\ OneSuccess
      /\ taskGroup.pos \in Nat /\ taskGroup'.pos \in Nat /\ taskGroup.last \in Nat
      /\ worker.pc # "idle" => ~ Drained(taskGroup)
      /\ worker'.pc # "idle" => ~ Drained(taskGroup)'
      /\ \A i \in DOMAIN results : results[i].task \in Nat
  <2>1. TypeInv /\ TypeOK /\ TypeOK' /\ Control /\ Control'
    BY DEF Attribution, TypeInv
  <2>2. /\ taskGroup.pos \in Nat /\ taskGroup'.pos \in Nat /\ taskGroup.last \in Nat
    BY <2>1 DEF TypeOK, GroupsUpTo
  <2>3. \A i \in DOMAIN results : results[i].task \in Nat
    BY <2>1, StreamEntries
  <2> QED BY <2>1, <2>2, <2>3 DEF Attribution, Control
<1>1. ResultsOfWorker'
  BY <1>0 DEF ResultsOfWorker, InHand
<1>2. OneSuccess'
  BY <1>0 DEF OneSuccess
<1>3. ASSUME NEW t \in DOMAIN tasks
      PROVE  /\ Open(t)' => Open(t)
             /\ Succeeded(t) => Succeeded(t)'
  <2>0. t \in Nat
    BY <1>0, StreamEntries DEF TypeInv
  <2>1. Startable(t)' => Startable(t)
    BY <1>0, <2>0 DEF Startable, InHand
  <2>2. Succeeding(t)' => Startable(t) \/ Succeeding(t)
    BY <1>0, <2>0 DEF Succeeding, Startable, InHand, Drained
  <2>3. Unread(t)' => Unread(t)
    BY DEF Unread, Success, platformVars
  <2>4. Succeeded(t) => Succeeded(t)'
    BY DEF Succeeded, Success
  <2> QED BY <2>1, <2>2, <2>3, <2>4 DEF Open
<1> QED BY <1>1, <1>2, <1>3, StreamFrame DEF platformVars

LEMMA WorkerAttribution ==
  ASSUME Attribution, TypeInv', Worker \/ AgentCrash
  PROVE  Attribution'
<1>0. /\ taskGroup \in GroupsUpTo(Len(tasks)) /\ tasks \in Seq(Tasks) /\ Len(tasks) \in Nat
      /\ worker.pc # "idle" => ~ Drained(taskGroup)
      /\ worker \in [pc : {"idle", "publish", "memory", "publishFailed", "ack"},
                      status : ResultStatuses]
  BY DEF Attribution, TypeInv, TypeOK, Control
<1>1. CASE ReadTasks
  <2>1. taskGroup'.pos = taskGroup.pos
    BY <1>0, <1>1, GroupReads, BoundAssumption DEF ReadTasks
  <2> QED BY <1>1, <2>1, WorkerMovesAttribution DEF ReadTasks
<1>2. CASE RunTask
  BY <1>2, WorkerMovesAttribution DEF RunTask, Idle
<1>3. CASE WriteMemory
  BY <1>3, WorkerMovesAttribution DEF WriteMemory, Idle
<1>4. CASE AckTask \/ AgentCrash
  <2>1. ~ Drained(taskGroup) /\ taskGroup' \in {Advance(taskGroup), DropBatch(taskGroup)}
    BY <1>0, <1>4 DEF AckTask, AgentCrash
  <2>2. taskGroup'.pos > taskGroup.pos
    BY <1>0, <2>1 DEF GroupsUpTo, Advance, DropBatch, Drained
  <2> QED BY <1>4, <2>2, WorkerMovesAttribution DEF AckTask, AgentCrash, Idle
<1>5. CASE PublishResult \/ PublishResultRaises
  <2>1. worker.status \in ResultStatuses /\ worker = [pc |-> "publish", status |-> worker.status]
    BY <1>0, <1>5 DEF PublishResult, PublishResultRaises
  <2>2. worker'.pc \in {"memory", "publishFailed"}
    BY <1>0, <1>5 DEF PublishResult, PublishResultRaises
  <2> QED BY <1>5, <2>1, <2>2, PublishAttribution DEF PublishResult, PublishResultRaises
<1>6. CASE PublishFailure
  BY <1>6, PublishAttribution DEF PublishFailure, ResultStatuses, Idle
<1> QED BY <1>1, <1>2, <1>3, <1>4, <1>5, <1>6 DEF Worker

(* Nothing of a task is left open by the result that settles its Future:   *)
(* the worker is past the task, and it succeeded only once.                *)
LEMMA SettledTaskCloses ==
  ASSUME Attribution, NEW i \in DOMAIN results, results[i].status = "completed",
         NEW t, t = results[i].task, UNCHANGED <<taskGroup, results, worker>>, resultGroup'.pos \in Nat, resultGroup'.pos >= i
  PROVE  ~ Open(t)'
<1>0. /\ ResultsOfWorker /\ OneSuccess /\ taskGroup.pos \in Nat /\ t \in Nat
      /\ i \in Nat /\ Len(results) \in Nat /\ DOMAIN results = 1..Len(results)
      /\ worker.pc # "idle" => ~ Drained(taskGroup)
  <2>1. TypeOK /\ Control
    BY DEF Attribution, TypeInv
  <2>2. taskGroup.pos \in Nat
    BY <2>1 DEF TypeOK, GroupsUpTo
  <2> QED BY <2>1, <2>2, StreamEntries DEF Attribution, Control
<1>1. ~ Startable(t)'
  BY <1>0 DEF Startable, ResultsOfWorker, InHand
<1>2. ~ Succeeding(t)'
  BY <1>0 DEF Succeeding, ResultsOfWorker, InHand
<1>3. ~ Unread(t)'
  <2> SUFFICES ASSUME NEW j \in DOMAIN results, j > resultGroup'.pos, Success(j, t)
               PROVE  FALSE
    BY DEF Unread, Success
  <2>1. j = i
    BY <1>0 DEF OneSuccess, Success
  <2> QED BY <2>1, <1>0
<1> QED BY <1>1, <1>2, <1>3 DEF Open

LEMMA HandleResultAttribution ==
  ASSUME Attribution, TypeInv', HandleResult
  PROVE  Attribution'
<1> DEFINE i == InHand(resultGroup)
           r == results[i]
           e == tasks[r.task].exec
<1>0. /\ TypeInv /\ TypeOK /\ ~ Drained(resultGroup)
      /\ UNCHANGED <<row, obj, pc, at, awaiting, tasks, taskGroup, results, worker>>
  BY DEF Attribution, TypeInv, HandleResult, executorVars, agentVars
<1>1. i \in DOMAIN results /\ resultGroup'.pos >= i /\ resultGroup.pos \in Nat
      /\ resultGroup'.pos \in Nat
  <2>1. resultGroup \in GroupsUpTo(Len(results)) /\ Len(results) \in Nat
        /\ DOMAIN results = 1..Len(results)
    BY <1>0, StreamEntries DEF TypeOK
  <2>2. resultGroup' \in {Advance(resultGroup), DropBatch(resultGroup)}
    BY DEF HandleResult
  <2> QED BY <1>0, <2>1, <2>2 DEF GroupsUpTo, InHand, Drained, Advance, DropBatch
<1>2. r.task \in DOMAIN tasks /\ e \in Executions
  <2>1. r.task \in DOMAIN tasks
    BY <1>0, <1>1, ResultTask DEF Attribution
  <2> QED BY <1>0, <2>1, StreamEntries
<1>3. /\ \A f \in Executions \ {e} : fut'[f] = fut[f]
      /\ \/ fut'[e] = fut[e]
         \/ r.status = "completed" /\ fut'[e] = [kind |-> "result", task |-> r.task]
         \/ r.status # "completed" /\ fut'[e] = [kind |-> "error", task |-> r.task]
  <2>1. Settle(e, r) /\ fut \in [Executions -> Futures]
    BY <1>0 DEF HandleResult, TypeOK
  <2> HIDE DEF e, r
  <2> QED BY <1>2, <2>1 DEF Settle
<1>4. r.status = "completed" =>
        \/ pc[e] \in Ending
        \/ pc[e] = "await" /\ r.task = awaiting[e]
  <2> SUFFICES ASSUME r.status = "completed"
               PROVE  \/ pc[e] \in Ending
                      \/ pc[e] = "await" /\ r.task = awaiting[e]
    OBVIOUS
  <2>1. i > resultGroup.pos
    BY <1>1 DEF InHand
  <2>2. Open(r.task)
    BY <1>1, <2>1 DEF Open, Unread, Success
  <2> QED BY <1>2, <2>2 DEF Attribution, OneOpenTask
<1>5. \A t \in DOMAIN tasks : Open(t)' => Open(t)
  <2> SUFFICES ASSUME NEW t \in DOMAIN tasks PROVE Open(t)' => Open(t)
    OBVIOUS
  <2>1. Startable(t)' => Startable(t)
    BY <1>0 DEF Startable, InHand
  <2>2. Succeeding(t)' => Succeeding(t)
    BY <1>0 DEF Succeeding, InHand, Drained
  <2>3. Unread(t)' => Unread(t)
    <3>1. ASSUME NEW j \in DOMAIN results, j > resultGroup'.pos PROVE j > resultGroup.pos
      <4>1. j \in Nat
        BY <1>0, StreamEntries
      <4> QED BY <1>1, <3>1, <4>1 DEF InHand
    <3> QED BY <1>0, <3>1 DEF Unread, Success
  <2> QED BY <2>1, <2>2, <2>3 DEF Open
<1>6. AwaitedTask' /\ ResultsOfWorker' /\ OneSuccess'
  BY <1>0 DEF Attribution, AwaitedTask, ResultsOfWorker, OneSuccess, InHand
<1>7. OneOpenTask'
  <2> SUFFICES ASSUME NEW t \in DOMAIN tasks, Open(t)', NEW f, f = tasks[t].exec
               PROVE  \/ pc[f] \in Ending
                      \/ pc[f] = "await" /\ t = awaiting[f] /\ fut'[f].kind # "result"
    BY <1>0 DEF OneOpenTask, Ending
  <2>1. \/ pc[f] \in Ending
        \/ pc[f] = "await" /\ t = awaiting[f] /\ fut[f].kind # "result"
    BY <1>5 DEF Attribution, OneOpenTask
  <2>2. f \in Executions
    BY <1>0, StreamEntries
  <2>3. CASE fut'[f] = fut[f]
    BY <2>1, <2>3
  <2>4. CASE fut'[f] = [kind |-> "error", task |-> r.task]
    BY <2>1, <2>4
  <2>5. CASE f = e /\ r.status = "completed"
    <3>1. t # r.task
      BY <1>0, <1>1, <2>5, SettledTaskCloses
    <3> QED BY <1>4, <2>1, <2>5, <3>1 DEF Ending
  <2> HIDE DEF e, r
  <2> QED BY <1>3, <2>2, <2>3, <2>4, <2>5
<1>8. FutureOutput'
  <2> SUFFICES ASSUME NEW f \in Executions, fut'[f].kind = "result"
               PROVE  /\ pc[f] # "enqueue"
                      /\ pc[f] = "await" => /\ fut'[f].task = awaiting[f]
                                            /\ Succeeded(fut'[f].task)
    BY <1>0 DEF FutureOutput, Succeeded, Success
  <2>1. CASE fut'[f] = fut[f]
    BY <2>1 DEF Attribution, FutureOutput
  <2>2. CASE f = e /\ r.status = "completed" /\ fut'[e] = [kind |-> "result", task |-> r.task]
    <3>1. Succeeded(r.task)
      BY <1>1, <2>2 DEF Succeeded, Success
    <3> QED BY <1>4, <2>2, <3>1 DEF Ending
  <2> HIDE DEF e, r
  <2> QED BY <1>3, <2>1, <2>2
<1>9. OutputAttribution'
  <2>1. OutputAttribution
    BY DEF Attribution
  <2> QED BY <1>0, <2>1, ZenonT(60) DEF OutputAttribution, Attributed, Succeeded, Success
<1> QED BY <1>6, <1>7, <1>8, <1>9 DEF Attribution

LEMMA PlatformCrashAttribution ==
  ASSUME Attribution, TypeInv', PlatformCrash
  PROVE  Attribution'
<1>0. /\ TypeInv /\ TypeOK /\ obj' = row
      /\ UNCHANGED <<row, at, awaiting, tasks, taskGroup, results, worker>>
  BY DEF Attribution, TypeInv, PlatformCrash, agentVars
<1>1. \A e \in Executions :
        /\ fut'[e].kind = "none"
        /\ pc'[e] \in {"absent", "done", "dead"}
        /\ pc'[e] = "absent" => pc[e] = "absent"
  BY <1>0 DEF PlatformCrash, NoFuture, TypeOK, Live
<1>2. resultGroup.pos \in Nat /\ resultGroup'.pos \in Nat /\ resultGroup'.pos >= resultGroup.pos
  BY <1>0 DEF TypeOK, PlatformCrash, GroupsUpTo, DropBatch
<1>3. AwaitedTask' /\ FutureOutput'
  BY <1>1 DEF AwaitedTask, FutureOutput
<1>4. ResultsOfWorker' /\ OneSuccess'
  BY <1>0 DEF Attribution, ResultsOfWorker, OneSuccess, InHand
<1>5. OneOpenTask'
  <2> SUFFICES ASSUME NEW t \in DOMAIN tasks, Open(t)', NEW f, f = tasks[t].exec
               PROVE  pc'[f] \in Ending
    BY <1>0 DEF OneOpenTask, Ending
  <2>1. f \in Executions /\ DOMAIN results = 1..Len(results) /\ Len(results) \in Nat
    BY <1>0, StreamEntries
  <2>2. Open(t)
    <3>1. Startable(t)' => Startable(t)
      BY <1>0 DEF Startable, InHand
    <3>2. Succeeding(t)' => Succeeding(t)
      BY <1>0 DEF Succeeding, InHand, Drained
    <3>3. Unread(t)' => Unread(t)
      BY <1>0, <1>2, <2>1 DEF Unread, Success
    <3> QED BY <3>1, <3>2, <3>3 DEF Open
  <2>3. pc[f] \in Ending \union {"await"}
    BY <2>2 DEF Attribution, OneOpenTask
  <2> QED BY <1>1, <2>1, <2>3 DEF Ending
<1>6. OutputAttribution'
  <2>1. \A f \in Executions : \A s \in StepIds : Attributed(f, s, row[f].ctx[s])
    BY DEF Attribution, OutputAttribution
  <2> QED BY <1>0, <2>1, ZenonT(60) DEF OutputAttribution, Attributed, Succeeded, Success
<1> QED BY <1>3, <1>4, <1>5, <1>6 DEF Attribution

LEMMA StutterAttribution ==
  ASSUME Attribution, TypeInv', UNCHANGED vars
  PROVE  Attribution'
<1>1. ResultsOfWorker' /\ OneSuccess'
  BY DEF Attribution, ResultsOfWorker, OneSuccess, InHand, vars
<1>2. \A t \in DOMAIN tasks : /\ Open(t)' => Open(t)
                              /\ Succeeded(t) => Succeeded(t)'
  BY DEF Open, Startable, Succeeding, Unread, Succeeded, Success, InHand, Drained, vars
<1> QED BY <1>1, <1>2, StreamFrame DEF vars

LEMMA NextAttribution == Attribution /\ [Next]_vars => Attribution'
<1> SUFFICES ASSUME Attribution, [Next]_vars PROVE Attribution'
  OBVIOUS
<1>0. TypeInv'
  BY NextType DEF Attribution
<1>1. ASSUME NEW e \in Executions,
             CreateExecution(e) \/ Execute(e) \/ EnqueueRaises(e) \/ DatabaseRaises(e)
      PROVE  Attribution'
  <2>1. Ordinary(e) \/ EnqueueTask(e) \/ EnqueueRaises(e)
    BY <1>1 DEF Ordinary, Execute
  <2> QED BY <1>0, <2>1, OrdinaryAttribution, EnqueueAttribution
<1> QED BY <1>0, <1>1, ReadResultsAttribution, HandleResultAttribution, PlatformCrashAttribution,
           WorkerAttribution, StutterAttribution
        DEF Next, AtRest

LEMMA AttributionInvariant == Spec => []Attribution
<1>1. Attribution /\ [Next]_vars => Attribution'
  BY NextAttribution
<1> QED BY <1>1, InitAttribution, PTL DEF Spec

(* Whatever the interleaving of executions, timers, batches, crashes and   *)
(* redundant results, an output is only ever stored under the step whose   *)
(* task produced it, by the execution that dispatched it.                  *)
THEOREM OutputsAttributed == Spec => []OutputAttribution
<1>1. Attribution => OutputAttribution
  BY DEF Attribution
<1> QED BY <1>1, AttributionInvariant, PTL

(* An execution that may still store outputs has no task in flight but the *)
(* one it awaits: what the attribution of outputs rests on.                *)
THEOREM OneTaskInFlight == Spec => []OneOpenTask
<1>1. Attribution => OneOpenTask
  BY DEF Attribution
<1> QED BY <1>1, AttributionInvariant, PTL

(* The output a Future hands to its coroutine is that of the very task it  *)
(* waits for, not of an earlier visit to the same step.                    *)
THEOREM AwaitedOutput == Spec => []OutputIsAwaited
<1>1. Attribution => OutputIsAwaited
  BY DEF Attribution, FutureOutput, OutputIsAwaited
<1> QED BY <1>1, AttributionInvariant, PTL

----
(* A terminal row is out of reach: no coroutine that may still commit, and *)
(* no restart, finds it under its execution id.                            *)

LEMMA RowMoves ==
  ASSUME TypeInv, NEW e \in Executions,
         CreateExecution(e) \/ Execute(e) \/ EnqueueRaises(e) \/ DatabaseRaises(e)
  PROVE  /\ \A f \in Executions \ {e} : row'[f] = row[f]
         /\ row'[e] # row[e] => row[e].status \notin Terminal
<1>0. ControlOf(e) /\ row \in [Executions -> Rows]
  BY DEF TypeInv, TypeOK, Control
<1>1. \/ row' = row
      \/ CreateExecution(e)
      \/ pc[e] \in Committing /\ Commit(e)
  BY DEF Execute, StartWorkflow, CommitRunning, PublishRunning, CommitStep, EvaluateCondition,
         ApplyTransform, SkipStub, RegisterPending, BuildTaskRaises, EnqueueTask, EnqueueRaises, ReceiveOutput,
         ReceiveError, StepTimesOut, CommitNext, CommitCompleted, CommitFailed, PublishEnd,
         DatabaseRaises, Committing
<1>2. CASE CreateExecution(e)
  <2>1. pc[e] = "absent" /\ \A f \in Executions \ {e} : row'[f] = row[f]
    BY <1>0, <1>2 DEF CreateExecution
  <2>2. row[e].status \notin Terminal
    BY <1>0, <2>1 DEF ControlOf, NoRow, Terminal
  <2> QED BY <2>1, <2>2
<1>3. CASE pc[e] \in Committing /\ Commit(e)
  BY <1>0, <1>3 DEF Committing, Commit, ControlOf, NoRow, Terminal, Running
<1> QED BY <1>1, <1>2, <1>3

(* Once a row is completed or failed it never changes again: no late       *)
(* result, timer, handler or restart touches it.                           *)
THEOREM TerminalRows == Spec => TerminalRowStable
<1>1. TypeInv /\ [Next]_vars =>
        [\A e \in Executions : row[e].status \in Terminal => row'[e] = row[e]]_vars
  <2> SUFFICES ASSUME TypeInv, Next, NEW e \in Executions, row[e].status \in Terminal
               PROVE  row'[e] = row[e]
    OBVIOUS
  <2>1. ASSUME NEW f \in Executions,
               CreateExecution(f) \/ Execute(f) \/ EnqueueRaises(f) \/ DatabaseRaises(f)
        PROVE  row'[e] = row[e]
    BY <2>1, RowMoves
  <2>2. CASE ReadResults \/ HandleResult \/ PlatformCrash \/ Worker \/ AgentCrash \/ AtRest
    BY <2>2 DEF ReadResults, HandleResult, PlatformCrash, Worker, AgentCrash, AtRest, ReadTasks,
                RunTask, PublishResult, PublishResultRaises, WriteMemory, PublishFailure, AckTask,
                executorVars, platformVars, vars
  <2> QED BY <2>1, <2>2 DEF Next
<1> QED BY <1>1, TypeInvariant, PTL DEF Spec, TerminalRowStable

----
(***************************************************************************)
(* What rows, events and Futures have to do with each other: proofs that   *)
(* the executions implement ExecutionLifecycle, and of the invariants      *)
(* that relate the row with the events and the tasks of an execution.      *)
(***************************************************************************)

(* The in-memory row is the committed one whenever an event is made of it. *)
Synced(e) == pc[e] \in {"publishRunning", "publishStep", "publishEnd"} => obj[e] = row[e]

(* The committed context is the in-memory one, but in "commitNext", where  *)
(* that has more in it and nothing less.                                   *)
Settling == {"commitRunning", "publishRunning", "commitStep", "publishStep", "enqueue", "await",
             "commitCompleted", "commitFailed"}
Adds(e) == \A s \in StepIds : row[e].ctx[s] # Empty => obj[e].ctx[s] # Empty
Context(e) ==
  /\ pc[e] \in Settling => obj[e].ctx = row[e].ctx
  /\ pc[e] = "commitNext" => Adds(e)
  /\ fut[e].kind = "result" => fut[e].task # 0

(* The Future and its entry in _pending. *)
Waiter(e) == pc[e] \in {"enqueue", "await"} => (e \in pending <=> fut[e].kind = "wait")

(* No terminal event before the end, and then one at most, of the row. *)
Unended(e) == \A i \in DOMAIN events[e] : events[e][i].status \notin Terminal
Closed(e) ==
  \A i \in DOMAIN events[e] : events[e][i].status \in Terminal =>
    i = Len(events[e]) /\ events[e][i].status = row[e].status
Told(e) == IF pc[e] \in {"done", "dead"} THEN Closed(e) ELSE Unended(e)

(* The tasks of e have their outputs, but for the one that is awaited. *)
TasksOf(e) == {t \in DOMAIN tasks : tasks[t].exec = e}
Answered(e) ==
  /\ pc[e] \in {"absent", "refresh"} => TasksOf(e) = {}
  /\ pc[e] \in Running \union {"commitRunning", "commitCompleted"} => \A t \in TasksOf(e) :
       obj[e].ctx[tasks[t].step] # Empty \/ (pc[e] = "await" /\ t = awaiting[e])
  /\ row[e].status = "completed" => \A t \in TasksOf(e) : row[e].ctx[tasks[t].step] # Empty

Rowed(e) == Synced(e) /\ Context(e) /\ Waiter(e) /\ Told(e) /\ Answered(e)

IInv == Attribution /\ \A e \in Executions : Rowed(e)

LEMMA InitRowed == Init => IInv
<1> SUFFICES ASSUME Init PROVE \A e \in Executions : Rowed(e)
  BY InitAttribution DEF IInv
<1> QED
  BY DEF Init, Rowed, Synced, Context, Settling, Waiter, Told, Unended, Answered, TasksOf, Running,
         NoRow, NoFuture

----
(* A step of e's coroutine leaves the other executions alone. *)
StepBy(e) == CreateExecution(e) \/ Execute(e) \/ EnqueueRaises(e) \/ DatabaseRaises(e)

Aside(e) ==
  /\ \A f \in Executions \ {e} :
       /\ row'[f] = row[f] /\ obj'[f] = obj[f] /\ pc'[f] = pc[f] /\ awaiting'[f] = awaiting[f]
       /\ fut'[f] = fut[f] /\ events'[f] = events[f] /\ (f \in pending' <=> f \in pending)
  /\ tasks' = tasks \/ (pc[e] = "enqueue" /\ tasks' = NewTask(e))

LEMMA StepsAside ==
  ASSUME TypeInv, NEW e \in Executions, StepBy(e)
  PROVE  Aside(e)
<1>0. TypeOK
  BY DEF TypeInv
<1>1. CASE CreateExecution(e) \/ StartWorkflow(e) \/ CommitRunning(e) \/ CommitStep(e)
           \/ CommitCompleted(e) \/ CommitFailed(e) \/ DatabaseRaises(e)
  BY <1>0, <1>1 DEF TypeOK, Aside, CreateExecution, StartWorkflow, CommitRunning, CommitStep,
                    CommitCompleted, CommitFailed, DatabaseRaises, Commit, Goto
<1>2. CASE PublishRunning(e) \/ PublishEnd(e) \/ CommitNext(e) \/ SkipStub(e)
  BY <1>0, <1>2 DEF TypeOK, Aside, PublishRunning, PublishEnd, CommitNext, SkipStub, InStep, Commit, Goto,
                    Announce, LoopHead
<1>3. CASE EvaluateCondition(e) \/ ApplyTransform(e) \/ BuildTaskRaises(e) \/ RegisterPending(e)
  BY <1>0, <1>3 DEF TypeOK, Aside, EvaluateCondition, ApplyTransform, BuildTaskRaises, RegisterPending,
                    InStep, Raise, Goto, Announce, LoopHead
<1>4. CASE EnqueueTask(e) \/ EnqueueRaises(e) \/ ReceiveOutput(e) \/ ReceiveError(e) \/ StepTimesOut(e)
  BY <1>0, <1>4 DEF TypeOK, Aside, EnqueueTask, EnqueueRaises, ReceiveOutput, ReceiveError, StepTimesOut,
                    Raise, Goto
<1> QED BY <1>1, <1>2, <1>3, <1>4 DEF StepBy, Execute

LEMMA AsideRowed ==
  ASSUME IInv, NEW e \in Executions, Aside(e), NEW f \in Executions \ {e}
  PROVE  Rowed(f)'
<1>1. Rowed(f) /\ tasks \in Seq(Tasks) /\ TypeInv
  BY DEF IInv, Attribution, TypeInv, TypeOK
<1>2. /\ TasksOf(f)' = TasksOf(f)
      /\ \A t \in TasksOf(f) : tasks'[t] = tasks[t]
  <2>1. CASE tasks' = tasks
    BY <2>1 DEF TasksOf
  <2>2. CASE pc[e] = "enqueue" /\ tasks' = NewTask(e)
    <3>1. /\ DOMAIN tasks = 1..Len(tasks) /\ Len(tasks) \in Nat
      BY <1>1
    <3>2. /\ DOMAIN NewTask(e) = 1..Len(tasks) + 1
          /\ \A t \in DOMAIN tasks : NewTask(e)[t] = tasks[t]
          /\ NewTask(e)[Len(tasks) + 1] = [exec |-> e, step |-> at[e]]
      BY <1>1, <2>2, NewTaskEntries
    <3>3. NewTask(e)[Len(tasks) + 1].exec = e
      BY <3>2
    <3>4. /\ \A t \in DOMAIN NewTask(e) : t \in DOMAIN tasks \/ t = Len(tasks) + 1
          /\ \A t \in DOMAIN tasks : t \in DOMAIN NewTask(e)
      BY <3>1, <3>2
    <3> QED BY <2>2, <3>2, <3>3, <3>4 DEF TasksOf
  <2> QED BY <2>1, <2>2 DEF Aside
<1> QED
  BY <1>1, <1>2 DEF Aside, Rowed, Synced, Context, Adds, Waiter, Told, Unended, Closed, Answered

----
(* What a step of e's coroutine does to Rowed(e): the three ways to leave  *)
(* a call first, then the actions with an assignment of their own.         *)
LEMMA RowedFacts ==
  ASSUME IInv, NEW e \in Executions
  PROVE  /\ Rowed(e) /\ TypeInv /\ ControlOf(e)
         /\ row[e] \in Rows /\ obj[e] \in Rows /\ pc[e] \in Pcs
         /\ events[e] \in Seq(Events)
BY DEF IInv, Attribution, TypeInv, TypeOK, Control

LEMMA AnnounceUnended ==
  ASSUME IInv, NEW e \in Executions, Announce(e), Unended(e), obj[e].status = "running"
  PROVE  Unended(e)'
<1>0. events \in [Executions -> Seq(Events)] /\ events[e] \in Seq(Events) /\ obj[e] \in Rows
  BY DEF IInv, Attribution, TypeInv, TypeOK
<1> DEFINE ev == [status |-> obj[e].status, step |-> obj[e].step]
<1>1. CASE events' = events
  BY <1>1 DEF Unended
<1>2. CASE events' = [events EXCEPT ![e] = Append(@, ev)]
  <2>1. events'[e] = Append(events[e], ev) /\ ev \in Events /\ ev.status \notin Terminal
    BY <1>0, <1>2 DEF Events, Rows, Terminal
  <2> HIDE DEF ev
  <2> QED BY <1>0, <2>1 DEF Unended
<1> QED BY <1>1, <1>2 DEF Announce

LEMMA RaiseRowed ==
  ASSUME IInv, NEW e \in Executions, pc[e] \in {"publishStep", "enqueue", "await"}, Raise(e),
         row' = row, fut'[e].kind = "result" => fut'[e] = fut[e], Unended(e)'
  PROVE  Rowed(e)'
<1>1. pc'[e] = "commitFailed" /\ obj'[e].ctx = obj[e].ctx
  BY RaiseMoves, RowedFacts DEF TypeInv
<1>2. row[e].status = "running"
  BY RowedFacts DEF ControlOf, Running
<1> QED
  BY <1>1, <1>2, RowedFacts
     DEF Rowed, Synced, Context, Settling, Waiter, Told, Answered, Running

LEMMA LoopRowed ==
  ASSUME IInv, NEW e \in Executions, NEW s \in StepRefs, LoopHead(e, s),
         pc[e] \in {"publishRunning", "publishStep", "commitNext"},
         row'[e].ctx = obj[e].ctx, row'[e].status = "running",
         UNCHANGED <<fut, tasks>>, Unended(e)'
  PROVE  Rowed(e)'
<1>1. pc'[e] \in {"commitStep", "commitCompleted", "commitFailed"} /\ obj'[e].ctx = obj[e].ctx
  BY LoopHeadMoves, RowedFacts DEF TypeInv
<1>2. \A t \in TasksOf(e) : obj[e].ctx[tasks[t].step] # Empty
  BY RowedFacts DEF Rowed, Answered, Running
<1>3. TasksOf(e)' = TasksOf(e)
  BY DEF TasksOf
<1> QED
  BY <1>1, <1>2, <1>3, RowedFacts
     DEF Rowed, Synced, Context, Settling, Waiter, Told, Answered, Running

(* A commit: the row becomes the in-memory one, tasks and events stay. *)
LEMMA CommitRowed ==
  ASSUME IInv, NEW e \in Executions, pc[e] \in Committing, row'[e] = obj[e], obj'[e] = obj[e],
         pc'[e] \in {"publishRunning", "publishStep", "publishEnd", "dead"},
         pc'[e] = "publishStep" => pc[e] = "commitStep",
         pc'[e] = "publishRunning" => pc[e] = "commitRunning",
         UNCHANGED <<fut, tasks, events>>
  PROVE  Rowed(e)'
<1>1. Unended(e)' /\ TasksOf(e)' = TasksOf(e)
  BY RowedFacts DEF Rowed, Told, Unended, TasksOf, Committing
<1>2. pc[e] # "commitFailed" => \A t \in TasksOf(e) : obj[e].ctx[tasks[t].step] # Empty
  BY RowedFacts DEF Rowed, Answered, Running, Committing
<1>3. pc[e] = "commitFailed" => obj[e].status = "failed" /\ pc'[e] \in {"publishEnd", "dead"}
  BY RowedFacts DEF ControlOf
<1>4. Synced(e)' /\ Context(e)' /\ Waiter(e)'
  BY RowedFacts DEF Rowed, Synced, Context, Settling, Waiter
<1>5. Told(e)'
  BY <1>1 DEF Told, Closed, Unended
<1>6. Answered(e)'
  BY <1>1, <1>2, <1>3 DEF Answered, Running
<1> QED BY <1>4, <1>5, <1>6 DEF Rowed

LEMMA FirstRowed ==
  ASSUME IInv, NEW e \in Executions, CreateExecution(e) \/ StartWorkflow(e)
  PROVE  Rowed(e)'
<1>1. Unended(e)' /\ TasksOf(e)' = {} /\ pc[e] \in {"absent", "refresh"}
  BY RowedFacts DEF Rowed, Told, Unended, Answered, TasksOf, CreateExecution, StartWorkflow
<1>2. CASE CreateExecution(e)
  <2>1. pc'[e] = "refresh" /\ row'[e].status = "pending" /\ UNCHANGED fut
    BY <1>2 DEF CreateExecution, Goto, IInv, Attribution, TypeInv, TypeOK, Rows
  <2> QED
    BY <1>1, <2>1, RowedFacts DEF Rowed, Synced, Context, Settling, Waiter, Told, Answered, Running
<1>3. CASE StartWorkflow(e)
  <2>1. pc'[e] = "commitRunning" /\ row'[e] = row[e] /\ obj'[e].ctx = row[e].ctx /\ UNCHANGED fut
    BY <1>3 DEF StartWorkflow, Goto, IInv, Attribution, TypeInv, TypeOK, Rows
  <2>2. row[e].status = "pending"
    BY <1>3, RowedFacts DEF StartWorkflow, ControlOf, NoRow
  <2> QED
    BY <1>1, <2>1, <2>2, RowedFacts DEF Rowed, Synced, Context, Settling, Waiter, Told, Answered, Running
<1> QED BY <1>2, <1>3

LEMMA CommitsRowed ==
  ASSUME IInv, NEW e \in Executions,
         CommitRunning(e) \/ CommitStep(e) \/ CommitCompleted(e) \/ CommitFailed(e)
  PROVE  Rowed(e)'
<1>1. /\ pc[e] \in Committing /\ row'[e] = obj[e] /\ obj'[e] = obj[e]
      /\ UNCHANGED <<fut, tasks, events>>
  BY DEF CommitRunning, CommitStep, CommitCompleted, CommitFailed, Commit, Committing,
         IInv, Attribution, TypeInv, TypeOK
<1>2. \/ pc[e] = "commitRunning" /\ pc'[e] = "publishRunning"
      \/ pc[e] = "commitStep" /\ pc'[e] = "publishStep"
      \/ pc'[e] = "publishEnd"
  BY DEF CommitRunning, CommitStep, CommitCompleted, CommitFailed, Goto,
         IInv, Attribution, TypeInv, TypeOK
<1> QED BY <1>1, <1>2, CommitRowed

LEMMA DatabaseRaisesRowed ==
  ASSUME IInv, NEW e \in Executions, DatabaseRaises(e)
  PROVE  Rowed(e)'
<1>1. /\ pc[e] \in Committing \union {"refresh"} /\ pc'[e] = "dead" /\ obj'[e] = obj[e]
      /\ UNCHANGED <<fut, tasks, events>>
  BY DEF DatabaseRaises, Goto, IInv, Attribution, TypeInv, TypeOK
<1>2. CASE pc[e] # "refresh" /\ Commit(e)
  <2>1. row'[e] = obj[e]
    BY <1>2 DEF Commit, IInv, Attribution, TypeInv, TypeOK
  <2> QED BY <1>1, <1>2, <2>1, CommitRowed
<1>3. CASE UNCHANGED row
  <2>1. row[e].status # "completed" /\ Unended(e)'
    BY <1>1, RowedFacts DEF ControlOf, NoRow, Running, Committing, Rowed, Told, Unended
  <2> QED
    BY <1>1, <1>3, <2>1, RowedFacts
       DEF Rowed, Synced, Context, Settling, Waiter, Told, Closed, Unended, Answered, Running
<1> QED BY <1>2, <1>3 DEF DatabaseRaises

LEMMA LoopsRowed ==
  ASSUME IInv, NEW e \in Executions, PublishRunning(e) \/ CommitNext(e) \/ SkipStub(e)
  PROVE  Rowed(e)'
<1>0. /\ row \in [Executions -> Rows] /\ at \in [Executions -> StepRefs]
      /\ pc[e] \in Running /\ Unended(e)
      /\ UNCHANGED <<fut, tasks>>
  BY RowedFacts DEF PublishRunning, CommitNext, SkipStub, InStep, Running, Rowed, Told, TypeInv, TypeOK
<1>1. row[e].status = "running" /\ obj[e].status = "running"
  BY <1>0, RowedFacts DEF ControlOf
<1>2. CASE PublishRunning(e)
  <2>1. First \in StepRefs /\ LoopHead(e, First) /\ Announce(e) /\ row' = row
    BY <1>2, DefinitionAssumption DEF PublishRunning, StepRefs
  <2>2. Unended(e)'
    BY <1>0, <1>1, <2>1, AnnounceUnended
  <2>3. obj[e] = row[e] /\ pc[e] = "publishRunning"
    BY <1>2, RowedFacts DEF PublishRunning, Rowed, Synced
  <2> QED BY <1>0, <1>1, <2>1, <2>2, <2>3, LoopRowed
<1>3. CASE SkipStub(e)
  <2>1. /\ pc[e] = "publishStep" /\ LoopHead(e, NextOf[at[e]]) /\ Announce(e) /\ row' = row
        /\ obj[e] = row[e] /\ at[e] \in StepIds
    BY <1>3, RowedFacts DEF SkipStub, InStep, Rowed, Synced, ControlOf, AtStep
  <2>2. NextOf[at[e]] \in StepRefs
    BY <2>1, DefinitionAssumption
  <2>3. Unended(e)'
    BY <1>0, <1>1, <2>1, AnnounceUnended
  <2> QED BY <1>0, <1>1, <2>1, <2>2, <2>3, LoopRowed
<1>4. CASE CommitNext(e)
  <2>1. /\ pc[e] = "commitNext" /\ LoopHead(e, at[e]) /\ row'[e] = obj[e] /\ events' = events
        /\ at[e] \in StepRefs
    BY <1>0, <1>4 DEF CommitNext, Commit
  <2>2. Unended(e)'
    BY <1>0, <2>1 DEF Unended
  <2> QED BY <1>0, <1>1, <2>1, <2>2, LoopRowed
<1> QED BY <1>2, <1>3, <1>4

LEMMA RaisesRowed ==
  ASSUME IInv, NEW e \in Executions,
         BuildTaskRaises(e) \/ EnqueueRaises(e) \/ ReceiveError(e) \/ StepTimesOut(e)
  PROVE  Rowed(e)'
<1>0. pc[e] \in {"publishStep", "enqueue", "await"} /\ Raise(e) /\ row' = row
  BY DEF BuildTaskRaises, EnqueueRaises, ReceiveError, StepTimesOut, InStep
<1>1. fut'[e].kind = "result" => fut'[e] = fut[e]
  BY DEF BuildTaskRaises, EnqueueRaises, ReceiveError, StepTimesOut, IInv, Attribution, TypeInv, TypeOK,
         Futures
<1>2. Unended(e) /\ obj[e].status = "running"
  BY <1>0, RowedFacts DEF Rowed, Told, ControlOf, Running
<1>3. Announce(e) \/ events' = events
  BY DEF BuildTaskRaises, EnqueueRaises, ReceiveError, StepTimesOut, InStep
<1>4. Unended(e)'
  BY <1>2, <1>3, AnnounceUnended DEF Unended
<1> QED BY <1>0, <1>1, <1>4, RaiseRowed

(* Inside a step the row is the in-memory one, and agents' steps are       *)
(* answered.                                                               *)
LEMMA InStepFacts ==
  ASSUME IInv, NEW e \in Executions, NEW type, InStep(e, type)
  PROVE  /\ pc[e] = "publishStep" /\ at[e] \in StepIds /\ obj[e] = row[e]
         /\ row[e].status = "running" /\ obj[e].status = "running"
         /\ Unended(e)'
         /\ \A t \in TasksOf(e) : obj[e].ctx[tasks[t].step] # Empty
<1>1. /\ pc[e] = "publishStep" /\ Announce(e) /\ at[e] \in StepIds /\ obj[e] = row[e]
      /\ row[e].status = "running" /\ obj[e].status = "running" /\ Unended(e)
  BY RowedFacts DEF InStep, Rowed, Synced, Told, ControlOf, AtStep, Running
<1>2. \A t \in TasksOf(e) : obj[e].ctx[tasks[t].step] # Empty
  BY <1>1, RowedFacts DEF Rowed, Answered, Running
<1> QED BY <1>1, <1>2, AnnounceUnended

LEMMA InStepRowed ==
  ASSUME IInv, NEW e \in Executions, EvaluateCondition(e) \/ ApplyTransform(e) \/ RegisterPending(e)
  PROVE  Rowed(e)'
<1>0. /\ pc[e] = "publishStep" /\ at[e] \in StepIds /\ obj[e] = row[e]
      /\ row[e].status = "running" /\ obj[e].status = "running"
      /\ Unended(e)'
      /\ \A t \in TasksOf(e) : obj[e].ctx[tasks[t].step] # Empty
      /\ row' = row
  BY InStepFacts DEF EvaluateCondition, ApplyTransform, RegisterPending
<1>1. CASE EvaluateCondition(e)
  <2>1. ASSUME NEW s \in BranchesOf[at[e]], LoopHead(e, s)
        PROVE  Rowed(e)'
    <3>1. s \in StepRefs
      BY <1>0, DefinitionAssumption
    <3>2. UNCHANGED <<fut, tasks>>
      BY <1>1 DEF EvaluateCondition
    <3> QED BY <1>0, <2>1, <3>1, <3>2, LoopRowed
  <2>2. CASE Raise(e)
    BY <1>0, <1>1, <2>2, RaiseRowed DEF EvaluateCondition
  <2> QED BY <1>1, <2>1, <2>2 DEF EvaluateCondition
<1>2. CASE ApplyTransform(e)
  <2>1. UNCHANGED <<fut, tasks>>
    BY <1>2 DEF ApplyTransform
  <2>2. CASE Goto(e, "commitNext") /\ obj' = [obj EXCEPT ![e].ctx = Overwrite(@, WritesOf[at[e]])]
    <3>1. pc'[e] = "commitNext"
      BY <2>2 DEF Goto, IInv, Attribution, TypeInv, TypeOK
    <3>2. /\ obj'[e].status = obj[e].status
          /\ \A s \in StepIds : obj[e].ctx[s] # Empty => obj'[e].ctx[s] # Empty
      <4>1. obj[e] \in Rows /\ obj \in [Executions -> Rows]
        BY RowedFacts DEF TypeInv, TypeOK
      <4>2. obj'[e].status = obj[e].status /\ obj'[e].ctx = Overwrite(obj[e].ctx, WritesOf[at[e]])
        BY <2>2, <4>1 DEF Rows
      <4> QED BY <4>2 DEF Overwrite, Empty, Written
    <3>3. Adds(e)'
      BY <1>0, <3>2 DEF Adds
    <3>4. TasksOf(e)' = TasksOf(e) /\ \A t \in TasksOf(e) : tasks[t].step \in StepIds
      <4>1. \A t \in DOMAIN tasks : tasks[t] \in Tasks
        BY RowedFacts DEF TypeInv, TypeOK
      <4> QED BY <2>1, <4>1 DEF TasksOf, Tasks
    <3> QED
      BY <1>0, <2>1, <3>1, <3>2, <3>3, <3>4, RowedFacts
         DEF Rowed, Synced, Context, Settling, Waiter, Told, Answered, Running
  <2>3. CASE Raise(e)
    BY <1>0, <2>1, <2>3, RaiseRowed
  <2> QED BY <1>2, <2>2, <2>3 DEF ApplyTransform
<1>3. CASE RegisterPending(e)
  <2>1. /\ pc'[e] = "enqueue" /\ fut'[e].kind = "wait" /\ e \in pending'
        /\ UNCHANGED <<row, obj, tasks>>
    BY <1>3 DEF RegisterPending, Goto, IInv, Attribution, TypeInv, TypeOK
  <2>2. TasksOf(e)' = TasksOf(e)
    BY <2>1 DEF TasksOf
  <2> QED
    BY <1>0, <2>1, <2>2 DEF Rowed, Synced, Context, Settling, Waiter, Told, Answered, Running
<1> QED BY <1>1, <1>2, <1>3

LEMMA EnqueueTaskRowed ==
  ASSUME IInv, NEW e \in Executions, EnqueueTask(e)
  PROVE  Rowed(e)'
<1>1. /\ pc[e] = "enqueue" /\ pc'[e] = "await" /\ awaiting'[e] = Len(tasks) + 1
      /\ tasks' = NewTask(e)
      /\ UNCHANGED <<row, obj, pending, fut, events>>
  BY DEF EnqueueTask, Goto, IInv, Attribution, TypeInv, TypeOK
<1>2. /\ DOMAIN tasks = 1..Len(tasks) /\ Len(tasks) \in Nat
      /\ DOMAIN NewTask(e) = 1..Len(tasks) + 1
      /\ \A t \in DOMAIN tasks : NewTask(e)[t] = tasks[t]
  <2>1. tasks \in Seq(Tasks)
    BY RowedFacts DEF TypeInv, TypeOK
  <2>2. DOMAIN tasks = 1..Len(tasks) /\ Len(tasks) \in Nat
    BY <2>1
  <2> QED BY <1>1, <2>2, NewTaskEntries, RowedFacts
<1>3. \A t \in TasksOf(e)' : \/ t = awaiting'[e]
                             \/ t \in TasksOf(e) /\ tasks'[t] = tasks[t]
  BY <1>1, <1>2 DEF TasksOf
<1>4. row[e].status = "running" /\ \A t \in TasksOf(e) : obj[e].ctx[tasks[t].step] # Empty
  BY <1>1, RowedFacts DEF Rowed, Answered, Running, ControlOf
<1>5. Answered(e)'
  BY <1>1, <1>3, <1>4 DEF Answered
<1>6. Unended(e)'
  BY <1>1, RowedFacts DEF Rowed, Told, Unended
<1> QED
  BY <1>1, <1>5, <1>6, RowedFacts DEF Rowed, Synced, Context, Settling, Waiter, Told

LEMMA ReceiveOutputRowed ==
  ASSUME IInv, NEW e \in Executions, ReceiveOutput(e)
  PROVE  Rowed(e)'
<1>1. /\ pc[e] = "await" /\ fut[e].kind = "result" /\ pc'[e] = "commitNext"
      /\ obj' = [obj EXCEPT ![e].ctx[at[e]] = fut[e].task]
      /\ UNCHANGED <<row, tasks, fut, events>>
  BY DEF ReceiveOutput, Goto, IInv, Attribution, TypeInv, TypeOK
<1>2. /\ at[e] \in StepIds /\ row[e].status = "running" /\ obj[e].ctx = row[e].ctx
      /\ fut[e].task # 0 /\ Unended(e)
      /\ obj[e] \in Rows /\ obj \in [Executions -> Rows]
  BY <1>1, RowedFacts
     DEF Rowed, Context, Settling, Told, ControlOf, AtStep, Running, TypeInv, TypeOK
<1>3. /\ obj'[e].ctx = [obj[e].ctx EXCEPT ![at[e]] = fut[e].task]
      /\ obj[e].ctx \in [StepIds -> Entries]
  BY <1>1, <1>2 DEF Rows
<1>4. /\ \A x \in StepIds \ {at[e]} : obj'[e].ctx[x] = obj[e].ctx[x]
      /\ obj'[e].ctx[at[e]] # Empty
  BY <1>2, <1>3 DEF Empty
<1>5. Adds(e)'
  BY <1>1, <1>2, <1>4 DEF Adds
<1>6. /\ \A t \in TasksOf(e) : tasks[t].step \in StepIds
      /\ tasks[awaiting[e]].step = at[e]
  <2>1. tasks \in Seq(Tasks)
    BY RowedFacts DEF TypeInv, TypeOK
  <2>2. \A t \in DOMAIN tasks : tasks[t].step \in StepIds
    <3>1. \A t \in DOMAIN tasks : tasks[t] \in Tasks
      BY <2>1
    <3> QED BY <3>1 DEF Tasks
  <2>3. tasks[awaiting[e]] = [exec |-> e, step |-> at[e]]
    BY <1>1 DEF IInv, Attribution, AwaitedTask
  <2> QED BY <2>2, <2>3 DEF TasksOf
<1>7. \A t \in TasksOf(e) : obj[e].ctx[tasks[t].step] # Empty \/ t = awaiting[e]
  BY <1>1, RowedFacts DEF Rowed, Answered, Running
<1>8. \A t \in TasksOf(e) : obj'[e].ctx[tasks[t].step] # Empty
  BY <1>4, <1>6, <1>7
<1>9. TasksOf(e)' = TasksOf(e) /\ Unended(e)'
  BY <1>1, <1>2 DEF TasksOf, Unended
<1> QED
  BY <1>1, <1>2, <1>5, <1>8, <1>9
     DEF Rowed, Synced, Context, Settling, Waiter, Told, Answered, Running

LEMMA PublishEndRowed ==
  ASSUME IInv, NEW e \in Executions, PublishEnd(e)
  PROVE  Rowed(e)'
<1>1. /\ pc[e] = "publishEnd" /\ pc'[e] = "done" /\ Announce(e)
      /\ UNCHANGED <<row, obj, tasks, fut>>
  BY DEF PublishEnd, Goto, IInv, Attribution, TypeInv, TypeOK
<1>2. obj[e] = row[e] /\ Unended(e) /\ TasksOf(e)' = TasksOf(e)
  BY <1>1, RowedFacts DEF Rowed, Synced, Told, TasksOf
<1>3. Closed(e)'
  <2> DEFINE ev == [status |-> obj[e].status, step |-> obj[e].step]
  <2>1. CASE events' = events
    BY <1>2, <2>1 DEF Unended, Closed
  <2>2. CASE events' = [events EXCEPT ![e] = Append(@, ev)]
    <3>1. /\ events[e] \in Seq(Events) /\ events'[e] = Append(events[e], ev) /\ ev \in Events
          /\ ev.status = row'[e].status
      BY <1>1, <1>2, <2>2, RowedFacts DEF Events, Rows, TypeInv, TypeOK
    <3> HIDE DEF ev
    <3> QED BY <1>2, <3>1 DEF Unended, Closed
  <2> QED BY <1>1, <2>1, <2>2 DEF Announce
<1> QED
  BY <1>1, <1>2, <1>3, RowedFacts
     DEF Rowed, Synced, Context, Settling, Waiter, Told, Answered, Running

LEMMA StepRowed ==
  ASSUME IInv, NEW e \in Executions, StepBy(e)
  PROVE  \A f \in Executions : Rowed(f)'
<1>1. Rowed(e)'
  BY FirstRowed, CommitsRowed, DatabaseRaisesRowed, LoopsRowed, RaisesRowed, InStepRowed,
     EnqueueTaskRowed, ReceiveOutputRowed, PublishEndRowed
     DEF StepBy, Execute
<1>2. Aside(e)
  BY StepsAside, RowedFacts
<1> QED BY <1>1, <1>2, AsideRowed

----
(* The steps of the other actors. *)
LEMMA RowedFrame ==
  ASSUME IInv, UNCHANGED <<row, obj, pc, pending, fut, awaiting, events, tasks>>
  PROVE  \A e \in Executions : Rowed(e)'
BY DEF IInv, Rowed, Synced, Context, Settling, Adds, Waiter, Told, Unended, Closed, Answered, TasksOf,
       Running

LEMMA HandleResultRowed ==
  ASSUME IInv, HandleResult
  PROVE  \A e \in Executions : Rowed(e)'
<1> DEFINE r == results[InHand(resultGroup)]
           f == tasks[r.task].exec
<1>1. /\ UNCHANGED <<row, obj, pc, awaiting, events, tasks>>
      /\ pending' = pending \ {f}
      /\ fut' = IF f \in pending /\ fut[f].kind = "wait"
                THEN [fut EXCEPT ![f] = [kind |-> IF r.status = "completed" THEN "result" ELSE "error",
                                         task |-> r.task]]
                ELSE fut
  BY DEF HandleResult, Settle, executorVars
<1>2. r.task # 0
  <2>1. /\ resultGroup \in GroupsUpTo(Len(results)) /\ Len(results) \in Nat
        /\ DOMAIN results = 1..Len(results) /\ TypeInv /\ ResultsOfWorker
    BY DEF IInv, Attribution, TypeInv, TypeOK
  <2>2. InHand(resultGroup) \in DOMAIN results
    BY <2>1, GroupMoves DEF HandleResult
  <2> QED BY <2>1, <2>2, ResultTask
<1> HIDE DEF r, f
<1> SUFFICES ASSUME NEW e \in Executions PROVE Rowed(e)'
  OBVIOUS
<1>3. Rowed(e) /\ fut \in [Executions -> Futures]
  BY DEF IInv, Attribution, TypeInv, TypeOK
<1>4. \/ e # f /\ fut'[e] = fut[e]
      \/ e = f /\ fut'[e] = fut[e] /\ ~ (f \in pending /\ fut[e].kind = "wait")
      \/ /\ e = f /\ f \in pending /\ fut[e].kind = "wait"
         /\ fut'[e].kind \in {"result", "error"} /\ fut'[e].task = r.task
  BY <1>1, <1>3
<1>5. Waiter(e)'
  BY <1>1, <1>3, <1>4 DEF Rowed, Waiter
<1>6. Context(e)'
  BY <1>1, <1>2, <1>3, <1>4 DEF Rowed, Context, Settling, Adds
<1> QED
  BY <1>1, <1>3, <1>5, <1>6 DEF Rowed, Synced, Told, Unended, Closed, Answered, TasksOf, Running

LEMMA PlatformCrashRowed ==
  ASSUME IInv, PlatformCrash
  PROVE  \A e \in Executions : Rowed(e)'
<1> SUFFICES ASSUME NEW e \in Executions PROVE Rowed(e)'
  OBVIOUS
<1>1. /\ UNCHANGED <<row, awaiting, events, tasks>> /\ obj' = row /\ pending' = {}
      /\ fut'[e] = NoFuture
      /\ pc'[e] = IF pc[e] \in Live THEN "dead" ELSE pc[e]
  BY DEF PlatformCrash
<1>2. pc'[e] \in {"absent", "done", "dead"} /\ Rowed(e)
  BY <1>1, RowedFacts DEF Live
<1>3. Told(e)'
  BY <1>1, <1>2 DEF Rowed, Told, Unended, Closed, Live
<1>4. Answered(e)'
  BY <1>1, <1>2 DEF Rowed, Answered, TasksOf, Running, Live
<1> QED
  BY <1>1, <1>2, <1>3, <1>4 DEF Rowed, Synced, Context, Settling, Waiter, NoFuture

LEMMA NextRowed == IInv /\ [Next]_vars => IInv'
<1> SUFFICES ASSUME IInv, [Next]_vars PROVE \A e \in Executions : Rowed(e)'
  BY NextAttribution DEF IInv
<1>1. ASSUME NEW e \in Executions,
             CreateExecution(e) \/ Execute(e) \/ EnqueueRaises(e) \/ DatabaseRaises(e)
      PROVE  \A f \in Executions : Rowed(f)'
  BY <1>1, StepRowed DEF StepBy
<1>2. CASE ReadResults \/ Worker \/ AgentCrash \/ AtRest \/ UNCHANGED vars
  BY <1>2, RowedFrame
     DEF ReadResults, Worker, AgentCrash, AtRest, ReadTasks, RunTask, PublishResult, PublishResultRaises,
         WriteMemory, PublishFailure, AckTask, executorVars, platformVars, vars
<1> QED BY <1>1, <1>2, HandleResultRowed, PlatformCrashRowed DEF Next

LEMMA RowedInvariant == Spec => []IInv
BY InitRowed, NextRowed, PTL DEF Spec

----
(* No wakeup is lost: a coroutine that waits on an unsettled Future is     *)
(* found by the result consumer, in dispatcher._pending.                   *)
THEOREM WaitersReachable == Spec => []WaiterReachable
<1>1. IInv => WaiterReachable
  BY DEF IInv, Rowed, Waiter, WaiterReachable
<1> QED BY <1>1, RowedInvariant, PTL

(* A completed row has the output of every step that was dispatched to an  *)
(* agent, whatever failed, timed out or restarted on the way.              *)
THEOREM CompletedRowsAnswered == Spec => []CompletedAnswersAll
<1>1. IInv => CompletedAnswersAll
  BY DEF IInv, Rowed, Answered, TasksOf, CompletedAnswersAll
<1> QED BY <1>1, RowedInvariant, PTL

(* Nothing is published after the end of an execution, and the end that is *)
(* published is the one of the row.                                        *)
THEOREM TerminalEventsLast == Spec => []TerminalEventLast
<1>1. IInv => TerminalEventLast
  BY DEF IInv, Rowed, Told, Unended, Closed, TerminalEventLast
<1> QED BY <1>1, RowedInvariant, PTL

LEMMA AnnouncedRow ==
  ASSUME IInv, NEW e \in Executions, StepBy(e), events'[e] # events[e]
  PROVE  events'[e][Len(events'[e])] = [status |-> row[e].status, step |-> row[e].step]
<1>1. Announce(e) /\ pc[e] \in {"publishRunning", "publishStep", "publishEnd"}
  BY DEF StepBy, Execute, CreateExecution, StartWorkflow, CommitRunning, PublishRunning, CommitStep,
         EvaluateCondition, ApplyTransform, SkipStub, RegisterPending, BuildTaskRaises, EnqueueTask,
         EnqueueRaises, ReceiveOutput, ReceiveError, StepTimesOut, CommitNext, CommitCompleted,
         CommitFailed, PublishEnd, DatabaseRaises, InStep
<1> DEFINE ev == [status |-> obj[e].status, step |-> obj[e].step]
<1>2. obj[e] = row[e]
  BY <1>1, RowedFacts DEF Rowed, Synced
<1>3. /\ events[e] \in Seq(Events) /\ events'[e] = Append(events[e], ev) /\ ev \in Events
  BY <1>1, RowedFacts DEF Announce, Events, Rows, TypeInv, TypeOK, StepRefs
<1>4. ev = [status |-> row[e].status, step |-> row[e].step]
  BY <1>2
<1> HIDE DEF ev
<1>5. events'[e][Len(events'[e])] = ev
  BY <1>3
<1> QED BY <1>4, <1>5

(* What is announced is committed, although the event is built from the    *)
(* in-memory object.                                                       *)
THEOREM CommittedAnnounced == Spec => EventsAnnounceCommitted
<1>1. IInv /\ [Next]_vars =>
        [\A e \in Executions : events'[e] # events[e] =>
           events'[e][Len(events'[e])] = [status |-> row[e].status, step |-> row[e].step]]_vars
  <2> SUFFICES ASSUME IInv, Next, NEW e \in Executions, events'[e] # events[e]
               PROVE  events'[e][Len(events'[e])] = [status |-> row[e].status, step |-> row[e].step]
    OBVIOUS
  <2>1. ASSUME NEW f \in Executions,
               CreateExecution(f) \/ Execute(f) \/ EnqueueRaises(f) \/ DatabaseRaises(f)
        PROVE  f = e
    BY <2>1, StepsAside, RowedFacts DEF StepBy, Aside
  <2>2. CASE ReadResults \/ HandleResult \/ PlatformCrash \/ Worker \/ AgentCrash \/ AtRest
    BY <2>2 DEF ReadResults, HandleResult, PlatformCrash, Worker, AgentCrash, AtRest, ReadTasks,
                RunTask, PublishResult, PublishResultRaises, WriteMemory, PublishFailure, AckTask,
                executorVars, platformVars, vars
  <2> QED BY <2>1, <2>2, AnnouncedRow DEF Next, StepBy
<1> QED BY <1>1, RowedInvariant, PTL DEF Spec, EventsAnnounceCommitted

----
(* The refinement. *)
Inserts(e) == row[e].status = "absent" /\ row'[e].status = "pending"
Moves(e, from, to) == row[e].status = from /\ row'[e].status = to /\ row'[e].ctx = row[e].ctx
Records(e) ==
  /\ row[e].status = "running" /\ row'[e].status = "running"
  /\ \A s \in StepIds : row[e].ctx[s] # Empty => row'[e].ctx[s] # Empty

LEMMA CommitMoves ==
  ASSUME IInv, NEW e \in Executions, StepBy(e)
  PROVE  \/ row'[e] = row[e]
         \/ Inserts(e) \/ Moves(e, "pending", "running")
         \/ Moves(e, "running", "completed") \/ Moves(e, "running", "failed")
         \/ Moves(e, "running", "running") \/ Records(e)
<1>1. row \in [Executions -> Rows] /\ ControlOf(e) /\ Context(e) /\ obj[e] \in Rows
  BY RowedFacts DEF TypeInv, TypeOK, Rowed
<1>2. \/ row' = row
      \/ CreateExecution(e)
      \/ pc[e] \in Committing /\ Commit(e)
  BY DEF StepBy, Execute, StartWorkflow, CommitRunning, PublishRunning, CommitStep, EvaluateCondition,
         ApplyTransform, SkipStub, RegisterPending, BuildTaskRaises, EnqueueTask, EnqueueRaises,
         ReceiveOutput, ReceiveError, StepTimesOut, CommitNext, CommitCompleted, CommitFailed,
         PublishEnd, DatabaseRaises, Committing
<1>3. CASE CreateExecution(e)
  <2>1. row'[e].status = "pending" /\ row[e] = NoRow
    BY <1>1, <1>3 DEF CreateExecution, ControlOf, Rows
  <2> QED BY <2>1 DEF Inserts, NoRow
<1>4. CASE pc[e] \in Committing /\ Commit(e)
  <2>1. row'[e] = obj[e]
    BY <1>1, <1>4 DEF Commit
  <2>2. CASE pc[e] = "commitNext"
    BY <1>1, <2>1, <2>2 DEF Context, Adds, Records, ControlOf, Running
  <2>3. CASE pc[e] = "commitRunning"
    <3>1. row[e].status = "pending" /\ obj[e].status = "running" /\ obj[e].ctx = row[e].ctx
      BY <1>1, <2>3 DEF ControlOf, Rows, Context, Settling
    <3> QED BY <2>1, <3>1 DEF Moves
  <2>4. CASE pc[e] \in {"commitStep", "commitCompleted", "commitFailed"}
    BY <1>1, <2>1, <2>4 DEF Context, Settling, Moves, ControlOf, Running
  <2> QED BY <1>4, <2>2, <2>3, <2>4 DEF Committing
<1> QED BY <1>2, <1>3, <1>4

LEMMA MovesImplement ==
  ASSUME TypeInv, TypeInv', NEW e \in Executions,
         \A f \in Executions \ {e} : row'[f] = row[f],
         \/ row'[e] = row[e]
         \/ Inserts(e) \/ Moves(e, "pending", "running")
         \/ Moves(e, "running", "completed") \/ Moves(e, "running", "failed")
         \/ Moves(e, "running", "running") \/ Records(e)
  PROVE  [Lifecycle!Next]_(Lifecycle!vars)
<1> DEFINE st == [f \in Executions |-> row[f].status]
           rec == [f \in Executions |-> {s \in StepIds : row[f].ctx[s] # Empty}]
           Held == {s \in StepIds : row'[e].ctx[s] # Empty}
<1>1. CASE row'[e].status = row[e].status /\ row'[e].ctx = row[e].ctx
  <2>1. st' = st /\ rec' = rec
    BY <1>1
  <2> QED BY <2>1 DEF Lifecycle!vars
<1>2. ASSUME NEW from, NEW to, Moves(e, from, to)
      PROVE  st[e] = from /\ st' = [st EXCEPT ![e] = to] /\ rec' = rec
  BY <1>2 DEF Moves
<1>3. CASE Records(e)
  <2>1. st' = st /\ st[e] = "running"
    BY <1>3 DEF Records
  <2>2. rec' = [rec EXCEPT ![e] = @ \union Held]
    <3>1. rec'[e] = rec[e] \union Held
      BY <1>3 DEF Records
    <3> QED BY <3>1
  <2>3. Held \in SUBSET StepIds
    OBVIOUS
  <2> HIDE DEF Held, st, rec
  <2> QED BY <2>1, <2>2, <2>3 DEF Lifecycle!Next, Lifecycle!Record, st, rec
<1>4. CASE Inserts(e)
  <2>1. st[e] = "absent" /\ st' = [st EXCEPT ![e] = "pending"]
    BY <1>4 DEF Inserts
  <2>2. rec' = [rec EXCEPT ![e] = Held]
    OBVIOUS
  <2>3. Held \in SUBSET StepIds
    OBVIOUS
  <2> QED BY <2>1, <2>2, <2>3 DEF Lifecycle!Next, Lifecycle!Insert
<1>5. CASE \/ Moves(e, "pending", "running")
           \/ Moves(e, "running", "completed") \/ Moves(e, "running", "failed")
  BY <1>2, <1>5
     DEF Lifecycle!Next, Lifecycle!Start, Lifecycle!Complete, Lifecycle!Fail, Lifecycle!Move
<1> QED BY <1>1, <1>3, <1>4, <1>5 DEF Moves

LEMMA NextImplements == IInv /\ TypeInv' /\ [Next]_vars => [Lifecycle!Next]_(Lifecycle!vars)
<1> SUFFICES ASSUME IInv, TypeInv', [Next]_vars PROVE [Lifecycle!Next]_(Lifecycle!vars)
  OBVIOUS
<1>1. ASSUME NEW e \in Executions,
             CreateExecution(e) \/ Execute(e) \/ EnqueueRaises(e) \/ DatabaseRaises(e)
      PROVE  [Lifecycle!Next]_(Lifecycle!vars)
  <2>1. StepBy(e) /\ TypeInv
    BY <1>1 DEF StepBy, IInv, Attribution
  <2>2. \A f \in Executions \ {e} : row'[f] = row[f]
    BY <2>1, StepsAside DEF Aside
  <2> QED BY <2>1, <2>2, CommitMoves, MovesImplement
<1>2. CASE \/ ReadResults \/ HandleResult \/ PlatformCrash \/ Worker \/ AgentCrash \/ AtRest
           \/ UNCHANGED vars
  <2>1. row' = row
    BY <1>2 DEF ReadResults, HandleResult, PlatformCrash, Worker, AgentCrash, AtRest, ReadTasks,
                RunTask, PublishResult, PublishResultRaises, WriteMemory, PublishFailure, AckTask,
                executorVars, platformVars, vars
  <2> QED BY <2>1 DEF Lifecycle!vars
<1> QED BY <1>1, <1>2 DEF Next

(* The committed rows go through the lifecycle that readers of the table   *)
(* rely on, whatever fails, restarts or is reordered.                      *)
THEOREM RowsFollowLifecycle == Spec => LifecycleSpec
<1>1. Init => Lifecycle!Init
  BY DEF Init, Lifecycle!Init, NoRow
<1>2. IInv => TypeInv
  BY DEF IInv, Attribution
<1> QED BY <1>1, <1>2, NextImplements, RowedInvariant, PTL DEF Spec, LifecycleSpec, Lifecycle!Spec

----
(***************************************************************************)
(* The worker of the composition implements TaskService.                   *)
(***************************************************************************)

(* While the worker may still publish a failure for its task, the task has *)
(* at most one result.                                                     *)
OneResult ==
  worker.pc \in {"memory", "publishFailed"} =>
    \A i, j \in DOMAIN results :
      results[i].task = InHand(taskGroup) /\ results[j].task = InHand(taskGroup) => i = j

Replying == Attribution /\ OneResult

(* What the worker is about to publish on, and when nothing was so far.    *)
LEMMA ReplyingFacts ==
  ASSUME Replying, worker.pc # "idle"
  PROVE  /\ InHand(taskGroup) \in 1..Len(tasks) /\ Len(tasks) \in Nat
         /\ results \in Seq(Results) /\ DOMAIN results = 1..Len(results) /\ Len(results) \in Nat
         /\ \A i \in DOMAIN results : /\ results[i].task \in Nat
                                      /\ results[i].task <= InHand(taskGroup)
         /\ worker.pc = "publish" => \A i \in DOMAIN results : results[i].task < InHand(taskGroup)
         /\ worker.status \in ResultStatuses
<1>1. /\ TypeOK /\ ~ Drained(taskGroup) /\ ResultsOfWorker
  BY DEF Replying, Attribution, TypeInv, Control
<1>2. /\ taskGroup \in GroupsUpTo(Len(tasks)) /\ Len(tasks) \in Nat /\ results \in Seq(Results)
      /\ worker.status \in ResultStatuses
  BY <1>1, StreamEntries DEF TypeOK
<1>3. InHand(taskGroup) \in 1..Len(tasks) /\ InHand(taskGroup) = taskGroup.pos + 1 /\ taskGroup.pos \in Nat
  BY <1>1, <1>2 DEF GroupsUpTo, InHand, Drained
<1>4. \A i \in DOMAIN results : results[i].task \in Nat
  BY <1>1, StreamEntries
<1>5. DOMAIN results = 1..Len(results) /\ Len(results) \in Nat
  BY <1>1, StreamEntries
<1> QED BY <1>1, <1>2, <1>3, <1>4, <1>5 DEF ResultsOfWorker

LEMMA PublishedEntries ==
  ASSUME Replying, worker.pc # "idle", NEW status \in ResultStatuses
  PROVE  /\ DOMAIN Published(status) = 1..(Len(results) + 1)
         /\ \A i \in DOMAIN results : Published(status)[i] = results[i]
         /\ Published(status)[Len(results) + 1] = [task |-> InHand(taskGroup), status |-> status]
<1>1. results \in Seq(Results) /\ [task |-> InHand(taskGroup), status |-> status] \in Results
  BY ReplyingFacts DEF Results
<1> QED BY <1>1 DEF Published

(* A first publication makes one result of the task.                       *)
LEMMA FirstResult ==
  ASSUME Replying, worker.pc = "publish", UNCHANGED taskGroup,
         results' \in {results, Published(worker.status)}
  PROVE  OneResult'
<1>1. /\ \A i \in DOMAIN results : results[i].task # InHand(taskGroup)
      /\ DOMAIN results = 1..Len(results) /\ Len(results) \in Nat
      /\ worker.status \in ResultStatuses
  BY ReplyingFacts
<1>2. CASE results' = results
  BY <1>1, <1>2 DEF OneResult, InHand
<1>3. CASE results' = Published(worker.status)
  <2>1. /\ DOMAIN results' = 1..(Len(results) + 1)
        /\ \A i \in DOMAIN results : results'[i] = results[i]
    BY <1>1, <1>3, PublishedEntries
  <2>2. \A i \in DOMAIN results' : results'[i].task = InHand(taskGroup) => i = Len(results) + 1
    BY <1>1, <2>1
  <2> QED BY <2>2 DEF OneResult, InHand
<1> QED BY <1>2, <1>3

LEMMA WorkerReplying == Replying /\ (Worker \/ AgentCrash) => OneResult'
<1> SUFFICES ASSUME Replying, Worker \/ AgentCrash PROVE OneResult'
  OBVIOUS
<1>1. /\ worker \in [pc : {"idle", "publish", "memory", "publishFailed", "ack"}, status : ResultStatuses]
      /\ worker.pc # "idle" => ~ Drained(taskGroup)
      /\ ResultsOfWorker /\ OneResult
  BY DEF Replying, Attribution, TypeInv, TypeOK, Control
<1>2. CASE PublishResult \/ PublishResultRaises
  BY <1>2, FirstResult DEF PublishResult, PublishResultRaises
<1>3. CASE RunTask
  <2>1. \A i \in DOMAIN results : results[i].task # InHand(taskGroup)
    <3>1. taskGroup.pos \in Nat
      BY DEF Replying, Attribution, TypeInv, TypeOK, GroupsUpTo
    <3> QED BY <1>1, <1>3, <3>1 DEF RunTask, ResultsOfWorker, InHand
  <2> QED BY <1>3, <2>1 DEF RunTask, OneResult, InHand
<1>4. CASE WriteMemory
  BY <1>1, <1>4 DEF WriteMemory, OneResult, InHand
<1>5. CASE ReadTasks
  BY <1>1, <1>5 DEF ReadTasks, OneResult
<1>6. CASE PublishFailure \/ AckTask \/ AgentCrash
  BY <1>6 DEF PublishFailure, AckTask, AgentCrash, Idle, OneResult
<1> QED BY <1>2, <1>3, <1>4, <1>5, <1>6 DEF Worker

(* The executor leaves the results alone, and adds one task at most.       *)
LEMMA ExecutorEnqueues ==
  ASSUME Attribution, NEW e \in Executions,
         CreateExecution(e) \/ Execute(e) \/ EnqueueRaises(e) \/ DatabaseRaises(e)
  PROVE  /\ UNCHANGED <<results, worker, taskGroup>>
         /\ Len(tasks') \in {Len(tasks), Len(tasks) + 1}
<1>1. tasks \in Seq(Tasks)
  BY DEF Attribution, TypeInv, TypeOK
<1>2. CASE EnqueueTask(e) \/ EnqueueRaises(e)
  <2>1. UNCHANGED <<results, worker, taskGroup>> /\ tasks' \in {tasks, NewTask(e)}
    BY <1>2 DEF EnqueueTask, EnqueueRaises, agentVars
  <2> QED BY <1>1, <2>1 DEF NewTask
<1>3. CASE Ordinary(e)
  BY <1>3 DEF Ordinary, CreateExecution, StartWorkflow, CommitRunning, PublishRunning, CommitStep,
     EvaluateCondition, ApplyTransform, SkipStub, RegisterPending, ReceiveOutput, ReceiveError,
     StepTimesOut, CommitNext, CommitCompleted, CommitFailed, PublishEnd, DatabaseRaises,
     BuildTaskRaises, agentVars
<1> QED BY <1>2, <1>3 DEF Ordinary, Execute

(* The steps of the platform that have nothing to do with the worker.      *)
ConsumerStep == ReadResults \/ HandleResult \/ PlatformCrash \/ UNCHANGED vars

LEMMA ConsumerAside ==
  ConsumerStep => UNCHANGED <<results, worker, taskGroup, tasks>>
BY DEF ConsumerStep, ReadResults, HandleResult, PlatformCrash, executorVars, agentVars, vars

LEMMA NextCases ==
  ASSUME [Next]_vars
  PROVE  \/ \E e \in Executions :
              CreateExecution(e) \/ Execute(e) \/ EnqueueRaises(e) \/ DatabaseRaises(e)
         \/ ConsumerStep
         \/ Worker \/ AgentCrash
BY DEF Next, ConsumerStep, AtRest

LEMMA NextReplying == Replying /\ [Next]_vars => Replying'
<1> SUFFICES ASSUME Replying, [Next]_vars PROVE Replying'
  OBVIOUS
<1>1. Attribution /\ Attribution'
  BY NextAttribution DEF Replying
<1>2. CASE UNCHANGED <<results, worker, taskGroup>>
  BY <1>1, <1>2 DEF Replying, OneResult, InHand
<1> QED BY <1>1, <1>2, NextCases, WorkerReplying, ExecutorEnqueues, ConsumerAside DEF Replying

LEMMA ReplyingInvariant == Spec => []Replying
<1>1. Init => Replying
  BY InitAttribution DEF Replying, OneResult, Init, Idle
<1> QED BY <1>1, NextReplying, PTL DEF Spec

LEMMA FirstAnswer ==
  ASSUME Replying, worker.pc # "idle", NEW status \in ResultStatuses,
         results' = Published(status), UNCHANGED tasks,
         \A i \in DOMAIN results : results[i].task < InHand(taskGroup)
  PROVE  Service!Next
<1>1. Service!Respond(InHand(taskGroup), status)
  BY DEF Service!Respond, Published
<1> QED BY <1>1, ReplyingFacts DEF Service!Answer, Service!Next

LEMMA SecondAnswer ==
  ASSUME Replying, worker.pc = "publishFailed", results' = Published("failed"), UNCHANGED tasks,
         NEW k \in DOMAIN results, results[k].task = InHand(taskGroup)
  PROVE  Service!Next
<1>1. Service!Respond(InHand(taskGroup), "failed")
  BY DEF Service!Respond, Published
<1>2. Service!AnswersOf(InHand(taskGroup)) = {k}
  BY DEF Service!AnswersOf, Replying, OneResult
<1> QED BY <1>1, <1>2, ReplyingFacts DEF Service!ReportFailure, Service!Next

LEMMA NextServes == Replying /\ [Next]_vars => [Service!Next]_(Service!vars)
<1> SUFFICES ASSUME Replying, [Next]_vars PROVE [Service!Next]_(Service!vars)
  OBVIOUS
<1>1. Attribution
  BY DEF Replying
<1>2. ASSUME UNCHANGED results, Len(tasks') \in {Len(tasks), Len(tasks) + 1}
      PROVE  [Service!Next]_(Service!vars)
  BY <1>2 DEF Service!Next, Service!Enqueue, Service!vars
<1>3. ASSUME UNCHANGED <<results, tasks>> PROVE [Service!Next]_(Service!vars)
  BY <1>3 DEF Service!vars
<1>4. CASE PublishResult \/ PublishResultRaises
  <2>1. /\ worker.pc = "publish" /\ UNCHANGED tasks
        /\ results' \in {results, Published(worker.status)}
    BY <1>4 DEF PublishResult, PublishResultRaises, platformVars
  <2>2. /\ \A i \in DOMAIN results : results[i].task < InHand(taskGroup)
        /\ worker.status \in ResultStatuses
    BY <2>1, ReplyingFacts
  <2> QED BY <1>3, <2>1, <2>2, FirstAnswer
<1>5. CASE PublishFailure
  <2>1. /\ worker.pc = "publishFailed" /\ UNCHANGED tasks
        /\ results' \in {results, Published("failed")}
    BY <1>5 DEF PublishFailure, platformVars
  <2>2. "failed" \in ResultStatuses
    BY DEF ResultStatuses
  <2>3. CASE \E k \in DOMAIN results : results[k].task = InHand(taskGroup)
    BY <1>3, <2>1, <2>3, SecondAnswer
  <2>4. CASE \A k \in DOMAIN results : results[k].task # InHand(taskGroup)
    <3>1. /\ \A i \in DOMAIN results : results[i].task < InHand(taskGroup)
      BY <2>1, <2>4, ReplyingFacts
    <3> QED BY <1>3, <2>1, <2>2, <3>1, FirstAnswer
  <2> QED BY <2>3, <2>4
<1>6. CASE ReadTasks \/ RunTask \/ WriteMemory \/ AckTask \/ AgentCrash
  BY <1>3, <1>6 DEF ReadTasks, RunTask, WriteMemory, AckTask, AgentCrash, platformVars
<1> QED BY <1>1, <1>2, <1>3, <1>4, <1>5, <1>6, NextCases, ExecutorEnqueues, ConsumerAside DEF Worker

(* In the composition too the worker answers in the order of the tasks,    *)
(* with one success at most and a single failure at most after it, however *)
(* executions, timers and restarts of the platform interleave with it.     *)
THEOREM WorkerServes == Spec => ServiceSpec
<1>1. Init => Service!Init
  BY DEF Init, Service!Init
<1> QED BY <1>1, NextServes, ReplyingInvariant, PTL DEF Spec, ServiceSpec, Service!Spec

----
(***************************************************************************)
(* What the validation of a definition is worth to the executor, for lists *)
(* of steps of any length.                                                 *)
(***************************************************************************)
CONSTANT Object   \* as in WorkflowDefinition
INSTANCE WorkflowDefinition

(* A step as the schema has parsed it; no string is None, Object or        *)
(* Unknown.                                                                *)
Parsed(steps) ==
  /\ \E S : steps \in Seq(S)
  /\ \A i \in DOMAIN steps : steps[i].timeout_seconds \in Int
  /\ Object \notin StepIdsOf(steps) /\ Unknown \notin StepIdsOf(steps)
  /\ Unknown # None

LEMMA Positions ==
  ASSUME NEW steps, Parsed(steps)
  PROVE  /\ Len(steps) \in Nat /\ DOMAIN steps = 1..Len(steps)
         /\ steps # <<>> <=> Len(steps) >= 1
<1>1. PICK S : steps \in Seq(S)
  BY DEF Parsed
<1> QED BY <1>1

LEMMA NoStepErrors ==
  ASSUME NEW steps, Parsed(steps), NEW i \in DOMAIN steps
  PROVE  StepErrors(steps, i) = {} <=>
           /\ steps[i].type \in ValidStepTypes /\ steps[i].id # None
           /\ steps[i].id \notin SeenIds(steps, i - 1)
           /\ steps[i].timeout_seconds > 0
<1>1. steps[i].timeout_seconds \in Int
  BY DEF Parsed
<1> DEFINE Wrong(error) ==
     CASE error = "type"      -> steps[i].type \notin ValidStepTypes
       [] error = "id"        -> steps[i].id = None
       [] error = "duplicate" -> steps[i].id \in SeenIds(steps, i - 1)
       [] error = "timeout"   -> steps[i].timeout_seconds <= 0
<1>2. StepErrors(steps, i) = {error \in {"type", "id", "duplicate", "timeout"} : Wrong(error)}
  BY DEF StepErrors
<1>3. /\ Wrong("type") <=> steps[i].type \notin ValidStepTypes
      /\ Wrong("id") <=> steps[i].id = None
      /\ Wrong("duplicate") <=> steps[i].id \in SeenIds(steps, i - 1)
      /\ Wrong("timeout") <=> steps[i].timeout_seconds <= 0
  OBVIOUS
<1>4. StepErrors(steps, i) = {} <=>
        ~ Wrong("type") /\ ~ Wrong("id") /\ ~ Wrong("duplicate") /\ ~ Wrong("timeout")
  <2> HIDE DEF Wrong
  <2> QED BY <1>2
<1> QED
  <2> HIDE DEF Wrong
  <2> QED BY <1>1, <1>3, <1>4

(* The list has no errors exactly when no step has any.                    *)
LEMMA NoErrors ==
  ASSUME NEW steps, Parsed(steps)
  PROVE  ValidateSteps(steps) = {} <=>
           /\ steps # <<>>
           /\ \A i \in DOMAIN steps : StepErrors(steps, i) = {} /\ ~ Dangles(steps, i)
<1> DEFINE own == UNION {{<<i, error>> : error \in StepErrors(steps, i)} : i \in DOMAIN steps}
           dangling == {<<i, "next">> : i \in {j \in DOMAIN steps : Dangles(steps, j)}}
<1>1. own = {} <=> \A i \in DOMAIN steps : StepErrors(steps, i) = {}
  <2> DEFINE located(i) == {<<i, error>> : error \in StepErrors(steps, i)}
  <2>1. \A i : located(i) = {} <=> StepErrors(steps, i) = {}
    OBVIOUS
  <2>2. own = UNION {located(i) : i \in DOMAIN steps}
    OBVIOUS
  <2> HIDE DEF own, located
  <2>3. own = {} <=> \A i \in DOMAIN steps : located(i) = {}
    BY <2>2
  <2> QED BY <2>1, <2>3
<1>2. dangling = {} <=> \A i \in DOMAIN steps : ~ Dangles(steps, i)
  OBVIOUS
<1>3. ValidateSteps(steps) = IF steps = <<>> THEN {<<0, "empty">>}
                             ELSE IF own # {} THEN own ELSE dangling
  BY DEF ValidateSteps
<1> HIDE DEF own, dangling
<1> QED BY <1>1, <1>2, <1>3

(* No id is seen twice exactly when the ids tell the steps apart.          *)
LEMMA IdsApart ==
  ASSUME NEW steps, Parsed(steps), \A i \in DOMAIN steps : steps[i].id # None
  PROVE  (\A i \in DOMAIN steps : steps[i].id \notin SeenIds(steps, i - 1))
         <=> \A i, j \in DOMAIN steps : steps[i].id = steps[j].id => i = j
<1>1. Len(steps) \in Nat /\ DOMAIN steps = 1..Len(steps)
  BY Positions
<1>2. \A i \in DOMAIN steps :
        steps[i].id \in SeenIds(steps, i - 1) <=> \E j \in DOMAIN steps : j < i /\ steps[j].id = steps[i].id
  BY <1>1 DEF SeenIds
<1> QED BY <1>1, <1>2

LEMMA LastIsOnly ==
  ASSUME NEW steps, Parsed(steps), NEW i \in DOMAIN steps,
         \A j \in DOMAIN steps : steps[j].id = steps[i].id => j = i
  PROVE  StepOf(steps, steps[i].id) = steps[i]
<1>1. DOMAIN steps \subseteq Nat
  BY Positions
<1>2. \A k : (/\ k \in DOMAIN steps /\ steps[k].id = steps[i].id
              /\ \A j \in DOMAIN steps : steps[j].id = steps[i].id => j <= k) <=> k = i
  BY <1>1
<1> QED BY <1>2 DEF StepOf

LEMMA IdsOfSteps ==
  ASSUME NEW steps, Parsed(steps)
  PROVE  StepIdsOf(steps) = {steps[i].id : i \in DOMAIN steps} \ {None}
BY Positions DEF StepIdsOf, SeenIds

(* A list of steps is accepted exactly when the executor can rely on it:   *)
(* validate_steps refuses nothing that would run, and what it accepts is   *)
(* looked up unambiguously, each "next" but an object leading to a step or *)
(* to the end.                                                             *)
THEOREM AcceptsExecutable ==
  ASSUME NEW steps, Parsed(steps)
  PROVE  ValidateSteps(steps) = {} <=> Executable(steps)
<1>1. Len(steps) \in Nat /\ DOMAIN steps = 1..Len(steps) /\ (steps # <<>> <=> Len(steps) >= 1)
  BY Positions
<1>2. ASSUME ValidateSteps(steps) = {} PROVE Executable(steps)
  <2>1. /\ steps # <<>>
        /\ \A i \in DOMAIN steps : StepErrors(steps, i) = {} /\ ~ Dangles(steps, i)
    BY <1>2, NoErrors
  <2>2. \A i \in DOMAIN steps :
          /\ steps[i].type \in ValidStepTypes /\ steps[i].id # None
          /\ steps[i].id \notin SeenIds(steps, i - 1) /\ steps[i].timeout_seconds > 0
    BY <2>1, NoStepErrors
  <2>3. \A i, j \in DOMAIN steps : steps[i].id = steps[j].id => i = j
    BY <2>2, IdsApart
  <2>4. \A i \in DOMAIN steps : StepOf(steps, steps[i].id) = steps[i]
    BY <2>3, LastIsOnly
  <2>5. \A i \in DOMAIN steps : LookUp(steps, steps[i].next) = Unknown => steps[i].next = Object
    BY <2>1 DEF LookUp, Dangles, Parsed
  <2>6. FirstOf(steps) # None
    BY <1>1, <2>1, <2>2 DEF FirstOf
  <2> QED BY <2>2, <2>3, <2>4, <2>5, <2>6 DEF Executable
<1>3. ASSUME Executable(steps) PROVE ValidateSteps(steps) = {}
  <2>1. steps # <<>>
    BY <1>3 DEF Executable, FirstOf
  <2>2. \A i \in DOMAIN steps : steps[i].id \notin SeenIds(steps, i - 1)
    BY <1>3, IdsApart DEF Executable
  <2>3. \A i \in DOMAIN steps : StepErrors(steps, i) = {}
    BY <1>3, <2>2, NoStepErrors DEF Executable
  <2>4. \A i \in DOMAIN steps : ~ Dangles(steps, i)
    BY <1>3 DEF Executable, LookUp, Dangles
  <2> QED BY <2>1, <2>3, <2>4, NoErrors
<1> QED BY <1>2, <1>3

(* An accepted list of steps, as the executor reads it, meets what the     *)
(* model of the executor assumes of its definition.                        *)
THEOREM DefinitionsAsAssumed ==
  ASSUME NEW steps, Parsed(steps), ValidateSteps(steps) = {},
         NEW Refs, Refs = StepIdsOf(steps) \union {None, Unknown}
  PROVE  /\ None \notin StepIdsOf(steps) /\ Unknown \notin StepIdsOf(steps) /\ None # Unknown
         /\ FirstOf(steps) \in StepIdsOf(steps)
         /\ TypesOf(steps) \in [StepIdsOf(steps) -> {"agent", "condition", "transform", "stub"}]
         /\ NextsOf(steps) \in [StepIdsOf(steps) -> Refs]
         /\ BranchOf(steps) \in [StepIdsOf(steps) -> SUBSET Refs]
<1>1. None \notin StepIdsOf(steps) /\ Unknown \notin StepIdsOf(steps) /\ None # Unknown
  BY DEF Parsed, StepIdsOf, SeenIds
<1>2. FirstOf(steps) \in StepIdsOf(steps)
  <2>1. Executable(steps)
    BY AcceptsExecutable
  <2>2. 1 \in DOMAIN steps /\ steps[1].id # None /\ FirstOf(steps) = steps[1].id
    BY <2>1, Positions DEF Executable, FirstOf
  <2> QED BY <2>2, IdsOfSteps
<1>3. \A ref : LookUp(steps, ref) \in Refs
  BY DEF LookUp
<1>4. \A type : CaseOf(type) \in {"agent", "condition", "transform", "stub"}
  BY DEF CaseOf
<1>5. TypesOf(steps) \in [StepIdsOf(steps) -> {"agent", "condition", "transform", "stub"}]
  BY <1>4 DEF TypesOf
<1>6. NextsOf(steps) \in [StepIdsOf(steps) -> Refs]
  BY <1>3 DEF NextsOf
<1>7. BranchOf(steps) \in [StepIdsOf(steps) -> SUBSET Refs]
  BY <1>3 DEF BranchOf
<1> QED BY <1>1, <1>2, <1>5, <1>6, <1>7

====
