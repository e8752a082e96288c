---- MODULE ExecutionLifecycle ----
(***************************************************************************)
(* What a reader of the process_executions table may rely on, whatever the *)
(* executor, the broker and the agents do: a row is inserted as "pending"  *)
(* with the context it is given, may become "running" once, collects step  *)
(* outputs only while it runs and loses none, and ends as "completed" or   *)
(* "failed", after which it never changes.                                 *)
(***************************************************************************)
CONSTANTS Executions, StepIds

VARIABLES status,    \* the status column, "absent" when there is no row
          recorded   \* the steps under whose ids the context column holds a value

vars == <<status, recorded>>

Init ==
  /\ status = [e \in Executions |-> "absent"]
  /\ recorded = [e \in Executions |-> {}]

Move(e, from, to) ==
  /\ status[e] = from
  /\ status' = [status EXCEPT ![e] = to]
  /\ UNCHANGED recorded

Insert(e) ==
  /\ status[e] = "absent"
  /\ status' = [status EXCEPT ![e] = "pending"]
  /\ \E given \in SUBSET StepIds : recorded' = [recorded EXCEPT ![e] = given]

Start(e)    == Move(e, "pending", "running")
Complete(e) == Move(e, "running", "completed")
Fail(e)     == Move(e, "running", "failed")

Record(e) ==
  /\ status[e] = "running"
  /\ \E written \in SUBSET StepIds : recorded' = [recorded EXCEPT ![e] = @ \union written]
  /\ UNCHANGED status

Next ==
  \E e \in Executions :
    Insert(e) \/ Start(e) \/ Record(e) \/ Complete(e) \/ Fail(e)

Spec == Init /\ [][Next]_vars

====
