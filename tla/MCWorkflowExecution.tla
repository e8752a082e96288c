---- MODULE MCWorkflowExecution ----
(* Small definitions for TLC, as the API accepts and the executor reads    *)
(* them.                                                                   *)
EXTENDS WorkflowExecution, TLC

CONSTANTS e1, e2, s1, s2, s3, s4, s5, Object

Definition == INSTANCE WorkflowDefinition
Step(id, type, next, branches) ==
  [id |-> id, type |-> type, timeout_seconds |-> 60, next |-> next, branches |-> branches]

(* Two agent steps in a row. *)
Chain == <<Step(s1, "agent", s2, {}), Step(s2, "agent", None, {})>>

(* A single agent step. *)
Single == <<Step(s1, "agent", None, {})>>

(* Every step type; the condition may go on or back, end the run, or name  *)
(* no step.                                                                *)
Mixed ==
  << Step(s1, "agent", s2, {}), Step(s2, "condition", None, {s1, s3, s4, None, "missing"}),
     Step(s3, "transform", s5, {}), Step(s4, "notify", Object, {}), Step(s5, "agent", None, {}) >>

ChainSteps     == Definition!StepIdsOf(Chain)
ChainType      == Definition!TypesOf(Chain)
ChainNext      == Definition!NextsOf(Chain)
ChainBranches  == Definition!BranchOf(Chain)
SingleSteps    == Definition!StepIdsOf(Single)
SingleType     == Definition!TypesOf(Single)
SingleNext     == Definition!NextsOf(Single)
SingleBranches == Definition!BranchOf(Single)
MixedSteps     == Definition!StepIdsOf(Mixed)
MixedType      == Definition!TypesOf(Mixed)
MixedNext      == Definition!NextsOf(Mixed)
MixedBranches  == Definition!BranchOf(Mixed)

(* The transform writes over the output of the first step and under the id *)
(* of the last one, before that has an output.                             *)
NoWrites    == [s \in ChainSteps |-> {}]
MixedWrites == [s \in MixedSteps |-> IF s = s3 THEN {s1, s5} ELSE {}]

(* The validator accepts them, and of all short lists of steps exactly     *)
(* those the executor can rely on.                                         *)
ASSUME \A steps \in {Chain, Single, Mixed} : Definition!ValidateSteps(steps) = {}

AnyStep ==
  [id : {s1, s2, None}, type : {"agent", "other"}, timeout_seconds : {0, 1},
   next : {s1, s2, s3, None, Object}, branches : {{}}]
ASSUME \A n \in 0..2 : \A steps \in [1..n -> AnyStep] :
  (Definition!ValidateSteps(steps) = {}) <=> Definition!Executable(steps)

Symmetry == Permutations(Executions)

====
