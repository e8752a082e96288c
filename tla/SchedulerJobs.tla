---- MODULE SchedulerJobs ----
(***************************************************************************)
(* How the scheduler service keeps APScheduler's jobs in step with the     *)
(* schedules of process_definitions: load_jobs at the start and at every   *)
(* poll reads the rows, removes the jobs without a row and adds those that *)
(* are missing; a job that exists is left alone, its timer included.  Time *)
(* is counted in polls; what a job that fires runs is SchedulerDispatch.   *)
(***************************************************************************)
EXTENDS Integers

CONSTANTS
  Workflows,    \* workflows that may have a schedule
  Triggers,     \* schedules a trigger can be built from
  Period,       \* trigger -> polls between two times it fires
  Skipped,      \* a cron expression that does not parse, or no schedule at all
  BadInterval,  \* an interval_minutes that int() rejects
  NoRow, NoJob, \* no such row in the table; no such job
  MaxChanges,   \* bound: changes of the table
  Faults,       \* the kinds of failure that may happen
  MaxFaults     \* bound: failures that happen in a behaviour

Configs == Triggers \union {Skipped, BadInterval}
FaultKinds == {"database", "restart"}

ASSUME JobsAssumption ==
  /\ Period \in [Triggers -> Nat \ {0}]
  /\ Skipped \notin Triggers /\ BadInterval \notin Triggers /\ Skipped # BadInterval
  /\ NoRow \notin Configs /\ MaxChanges \in Nat
  /\ Faults \subseteq FaultKinds /\ MaxFaults \in Nat

VARIABLES
  table,    \* workflow -> its schedule in process_definitions
  rows,     \* workflow -> its schedule in the rows load_jobs read last
  jobs,     \* workflow -> its job, with its trigger and the polls till it fires
  fired,    \* the workflows whose jobs fired in the last poll interval
  pc,       \* the worker: about to read, with rows in hand, or asleep
  changes,
  faults

vars == <<table, rows, jobs, fired, pc, changes, faults>>

NoRows == [w \in Workflows |-> NoRow]
NoJobs == [w \in Workflows |-> NoJob]
Scheduled(t) == {w \in Workflows : t[w] # NoRow}
JobIds == {w \in Workflows : jobs[w] # NoJob}

Init ==
  /\ table \in [Workflows -> Configs \union {NoRow}]
  /\ rows = NoRows /\ jobs = NoJobs
  /\ fired = {}
  /\ pc = "read"
  /\ changes = 0 /\ faults = 0

FailBy(kind) ==
  /\ kind \in Faults /\ faults < MaxFaults
  /\ faults' = faults + 1

----
(* A schedule is created, edited or removed. *)
ChangeTable(w) ==
  /\ changes < MaxChanges
  /\ \E config \in (Configs \union {NoRow}) \ {table[w]} : table' = [table EXCEPT ![w] = config]
  /\ changes' = changes + 1
  /\ UNCHANGED <<rows, jobs, fired, pc, faults>>

(* The query of load_jobs returns. *)
ReadRows ==
  /\ pc = "read"
  /\ rows' = table
  /\ pc' = "sync"
  /\ UNCHANGED <<table, jobs, fired, changes, faults>>

(* The query raises: logged, and tried again at the next poll. *)
ReadRaises ==
  /\ pc = "read"
  /\ FailBy("database")
  /\ pc' = "asleep"
  /\ UNCHANGED <<table, rows, jobs, fired, changes>>

(* The rows in whose place add_job makes a job before the loop ends, or is *)
(* left because int() raises on a row before them: rows come in any order. *)
Missing == Scheduled(rows) \ JobIds
Raises == \E w \in Missing : rows[w] = BadInterval
Added ==
  LET good == {w \in Missing : rows[w] \in Triggers} IN
    IF Raises THEN SUBSET good ELSE {good}

NewJob(w) == [trigger |-> rows[w], due |-> Period[rows[w]]]

SyncAddsFirst ==  \* mutant: the removals come after the additions
  /\ pc = "sync"
  /\ \E added \in Added :
       jobs' = [w \in Workflows |->
         IF w \in added THEN NewJob(w)
         ELSE IF rows[w] = NoRow /\ ~ Raises THEN NoJob
         ELSE jobs[w]]
  /\ pc' = "asleep"
  /\ UNCHANGED <<table, rows, fired, changes, faults>>

SyncReplaces ==  \* mutant: existing jobs are replaced
  /\ pc = "sync"
  /\ jobs' = [w \in Workflows |->
       IF rows[w] \in Triggers THEN NewJob(w) ELSE NoJob]
  /\ pc' = "asleep"
  /\ UNCHANGED <<table, rows, fired, changes, faults>>

(* The rest of load_jobs, which awaits nothing. *)
Sync ==
  /\ pc = "sync"
  /\ \E added \in Added :
       jobs' = [w \in Workflows |->
         IF rows[w] = NoRow THEN NoJob
         ELSE IF w \in added THEN NewJob(w)
         ELSE jobs[w]]
  /\ pc' = "asleep"
  /\ UNCHANGED <<table, rows, fired, changes, faults>>

(* poll_interval_seconds pass; the jobs that are due fire, and start over. *)
Sleep ==
  /\ pc = "asleep"
  /\ fired' = {w \in JobIds : jobs[w].due = 1}
  /\ jobs' = [w \in Workflows |->
       IF w \notin JobIds THEN NoJob
       ELSE [jobs[w] EXCEPT !.due = IF @ = 1 THEN Period[jobs[w].trigger] ELSE @ - 1]]
  /\ pc' = "read"
  /\ UNCHANGED <<table, rows, changes, faults>>

(* The process is restarted: jobs live in its memory only. *)
Restart ==
  /\ FailBy("restart")
  /\ jobs' = NoJobs /\ rows' = NoRows /\ fired' = {}
  /\ pc' = "read"
  /\ UNCHANGED <<table, changes>>

----
Worker == ReadRows \/ ReadRaises \/ Sync \/ Sleep

Next ==
  \/ \E w \in Workflows : ChangeTable(w)
  \/ Worker
  \/ Restart

(* asyncio.sleep returns and the event loop runs the worker. *)
Spec == Init /\ [][Next]_vars /\ WF_vars(Worker)

----
(* Between two loads a workflow has a job only if the rows read last have  *)
(* its schedule, even if that load was abandoned half-way.                 *)
JobsHaveRows ==
  pc # "sync" => JobIds \subseteq Scheduled(rows)

(* Polling does not reset the "interval/cron timers" of schedules that are *)
(* as before: the job of a schedule that is in the rows with the trigger   *)
(* the job has counts down a poll at a time, through loads that succeed,   *)
(* raise or are abandoned, and starts over only when it has fired.  It     *)
(* says nothing of an edited schedule (see EditTakesEffect).               *)
Unedited(w) == w \in JobIds /\ rows[w] = jobs[w].trigger
TimersRunOn ==
  [][\A w \in Workflows : Unedited(w) /\ jobs'[w] \notin {NoJob, jobs[w]} =>
       /\ jobs'[w].trigger = jobs[w].trigger
       /\ IF w \in fired' THEN jobs[w].due = 1 /\ jobs'[w].due = Period[jobs[w].trigger]
          ELSE jobs'[w].due = jobs[w].due - 1]_vars

(* A schedule that stays in the table fires again and again: polling more  *)
(* often than its period does not keep it from firing, nor do changes,     *)
(* failures or restarts, provided that no bad interval stays too.          *)
ScheduleFires ==
  \A w \in Workflows :
    (/\ <>[](table[w] \in Triggers)
     /\ <>[](\A v \in Workflows : table[v] # BadInterval))
    => []<>(w \in fired)

(* A schedule removed for good stops firing, whatever else is in the table *)
(* ("workflows removed from DB -> job removed").                           *)
RemovedStops ==
  \A w \in Workflows : <>[](table[w] = NoRow) => <>[](w \notin fired)

(* "New workflows in DB -> job added" (load_jobs): a schedule a trigger    *)
(* can be built from has a job in the end, whatever the other rows hold.   *)
NewWorkflowGetsJob ==
  \A w \in Workflows : <>[](table[w] \in Triggers) => <>(w \in JobIds)

(* "When a schedule is created or modified ... the scheduler reloads that  *)
(* job" (the design of the triggers): in the end a workflow runs by the    *)
(* schedule that stays in the table, not by one it had before.             *)
EditTakesEffect ==
  \A w \in Workflows : \A t \in Triggers :
    <>[](table[w] = t) => <>[](w \in JobIds => jobs[w].trigger = t)

====
