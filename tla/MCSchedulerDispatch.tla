---- MODULE MCSchedulerDispatch ----
(* One unit of time is five seconds.                                       *)
EXTENDS SchedulerDispatch, TLC

MCBackoff == <<1, 1>>    \* 2 s and 4 s, rounded up
Symmetry == Permutations(Instances)

====
