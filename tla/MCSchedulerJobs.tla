---- MODULE MCSchedulerJobs ----
(* One schedule that fires at every poll and one with a longer period.     *)
EXTENDS SchedulerJobs, TLC

MCPeriod == ("often" :> 1) @@ ("rarely" :> 3)

====
