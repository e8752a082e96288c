---- MODULE TaskService ----
(***************************************************************************)
(* What the agent worker promises whoever enqueues tasks: tasks are        *)
(* answered in the order they were enqueued in, at most one answer of a    *)
(* task is a success, and only the first one can be: any answer after the  *)
(* first is the single failure that reports what went wrong after it.      *)
(* Which tasks are answered is not promised here.                          *)
(***************************************************************************)
EXTENDS Integers, Sequences

CONSTANT Statuses  \* what a result may report, with "failed" and "completed"

VARIABLES enqueued,  \* the number of tasks
          answers    \* the results, [task, status]

vars == <<enqueued, answers>>

AnswersOf(t) == {i \in DOMAIN answers : answers[i].task = t}

Init == enqueued = 0 /\ answers = <<>>

Enqueue == enqueued' = enqueued + 1 /\ UNCHANGED answers

Respond(t, status) ==
  /\ answers' = Append(answers, [task |-> t, status |-> status])
  /\ UNCHANGED enqueued

(* The first answer of a task, none of a later one having been given. *)
Answer(t) ==
  /\ \A i \in DOMAIN answers : answers[i].task < t
  /\ \E status \in Statuses : Respond(t, status)

(* The second and last: it reports a failure. *)
ReportFailure(t) ==
  /\ \A i \in DOMAIN answers : answers[i].task <= t
  /\ \E i \in DOMAIN answers : AnswersOf(t) = {i}
  /\ Respond(t, "failed")

Next == Enqueue \/ \E t \in 1..enqueued : Answer(t) \/ ReportFailure(t)

Spec == Init /\ [][Next]_vars

====
