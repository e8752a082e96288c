---- MODULE WorkflowDefinition ----
(***************************************************************************)
(* The steps of a process definition: what validate_steps accepts, and     *)
(* what execute_workflow makes of the steps once they are stored.  A step  *)
(* keeps its id, type, timeout, next and the values of its branches.       *)
(***************************************************************************)
EXTENDS Integers, Sequences

CONSTANTS
  None,     \* an id that is missing or empty; a "next" that is null
  Object,   \* a "next" that is a JSON object
  Unknown   \* what is looked up and names no step

ValidStepTypes == {"agent", "condition", "transform", "notify", "wait", "human_approval"}

(* seen_ids after the first n steps. *)
SeenIds(steps, n) == {steps[i].id : i \in 1..n} \ {None}
StepIdsOf(steps)  == SeenIds(steps, Len(steps))

StepErrors(steps, i) ==
  {error \in {"type", "id", "duplicate", "timeout"} :
     CASE error = "type"      -> steps[i].type \notin ValidStepTypes
       [] error = "id"        -> steps[i].id = None
       [] error = "duplicate" -> steps[i].id \in SeenIds(steps, i - 1)
       [] error = "timeout"   -> steps[i].timeout_seconds <= 0}

(* A "next" that is a string is that of a step; an object is not looked at. *)
Dangles(steps, i) == steps[i].next \notin StepIdsOf(steps) \union {None, Object}

(* The errors, with the index of the step: nothing else is looked at if     *)
(* there are no steps, nor "next" if a step is wrong by itself.             *)
ValidateSteps(steps) ==
  LET own == UNION {{<<i, error>> : error \in StepErrors(steps, i)} : i \in DOMAIN steps} IN
    IF steps = <<>> THEN {<<0, "empty">>}
    ELSE IF own # {} THEN own
    ELSE {<<i, "next">> : i \in {j \in DOMAIN steps : Dangles(steps, j)}}

----
(* steps_map: of the steps with an id, the last. *)
StepOf(steps, s) ==
  steps[CHOOSE i \in DOMAIN steps :
          /\ steps[i].id = s
          /\ \A j \in DOMAIN steps : steps[j].id = s => j <= i]

FirstOf(steps) == IF steps = <<>> THEN None ELSE steps[1].id

(* The cases of the match on a step's type. *)
CaseOf(type) == IF type \in {"agent", "condition", "transform"} THEN type ELSE "stub"

(* What the loop meets when current_step_id is set to ref: an object that   *)
(* is not empty cannot be looked up, as a name that no step has.            *)
LookUp(steps, ref) == IF ref \in StepIdsOf(steps) \union {None} THEN ref ELSE Unknown

TypesOf(steps)  == [s \in StepIdsOf(steps) |-> CaseOf(StepOf(steps, s).type)]
NextsOf(steps)  == [s \in StepIdsOf(steps) |-> LookUp(steps, StepOf(steps, s).next)]
BranchOf(steps) ==
  [s \in StepIdsOf(steps) |->
     IF StepOf(steps, s).type = "condition"
     THEN {LookUp(steps, b) : b \in StepOf(steps, s).branches} ELSE {}]

----
(* What the executor relies on, in terms of positions: it starts, every id  *)
(* leads to the step that has it, and only an object leads a step nowhere.  *)
Executable(steps) ==
  /\ FirstOf(steps) # None
  /\ \A i \in DOMAIN steps :
       /\ StepOf(steps, steps[i].id) = steps[i]
       /\ steps[i].id # None /\ steps[i].type \in ValidStepTypes
       /\ steps[i].timeout_seconds > 0
       /\ LookUp(steps, steps[i].next) = Unknown => steps[i].next = Object
  /\ \A i, j \in DOMAIN steps : steps[i].id = steps[j].id => i = j

====
