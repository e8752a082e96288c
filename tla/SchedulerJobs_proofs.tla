---- MODULE SchedulerJobs_proofs ----
(***************************************************************************)
(* Proofs about SchedulerJobs, for any workflows, triggers and periods,    *)
(* any changes of the table and any failures.                              *)
(***************************************************************************)
EXTENDS SchedulerJobs, TLAPS

(* A job is due within the period of its trigger.                          *)
Jobs == UNION {[trigger : {t}, due : 1..Period[t]] : t \in Triggers}

TypeInv ==
  /\ pc \in {"read", "sync", "asleep"}
  /\ table \in [Workflows -> Configs \union {NoRow}]
  /\ rows \in [Workflows -> Configs \union {NoRow}]
  /\ jobs \in [Workflows -> Jobs \union {NoJob}]
  /\ fired \subseteq Workflows

IInv == TypeInv /\ JobsHaveRows

LEMMA JobFacts ==
  ASSUME NEW t \in Triggers
  PROVE  /\ [trigger |-> t, due |-> Period[t]] \in Jobs
         /\ \A j \in Jobs : /\ j.trigger \in Triggers /\ j.due \in 1..Period[j.trigger]
                            /\ j = [trigger |-> j.trigger, due |-> j.due]
                            /\ Period[j.trigger] \in Nat \ {0}
BY JobsAssumption DEF Jobs

LEMMA InitInv == Init => IInv
<1> SUFFICES ASSUME Init PROVE IInv
  OBVIOUS
<1>1. TypeInv
  BY DEF Init, TypeInv, NoRows, NoJobs
<1> QED BY <1>1 DEF IInv, Init, JobsHaveRows, JobIds, NoJobs

(* Counting a job down leaves it a job of its trigger.                     *)
Counted(j) == [j EXCEPT !.due = IF @ = 1 THEN Period[j.trigger] ELSE @ - 1]

LEMMA CountedJob ==
  ASSUME NEW j \in Jobs
  PROVE  /\ Counted(j) \in Jobs /\ Counted(j).trigger = j.trigger
         /\ Counted(j).due = IF j.due = 1 THEN Period[j.trigger] ELSE j.due - 1
<1>1. PICK t \in Triggers : j \in [trigger : {t}, due : 1..Period[t]]
  BY DEF Jobs
<1>2. Period[t] \in Nat \ {0}
  BY JobsAssumption
<1>3. PICK d \in 1..Period[t] : d = j.due /\ j = [trigger |-> t, due |-> d]
  BY <1>1
<1>4. Counted(j) = [trigger |-> t, due |-> IF d = 1 THEN Period[t] ELSE d - 1]
  BY <1>3 DEF Counted
<1>5. (IF d = 1 THEN Period[t] ELSE d - 1) \in 1..Period[t]
  BY <1>2
<1> QED BY <1>3, <1>4, <1>5 DEF Jobs

(* What a load does to a job: nothing, unless its row is gone.             *)
LEMMA SyncJobs ==
  ASSUME TypeInv, Sync
  PROVE  /\ jobs' \in [Workflows -> Jobs \union {NoJob}]
         /\ \A w \in Workflows : rows[w] = NoRow => jobs'[w] = NoJob
         /\ \A w \in JobIds : jobs'[w] \in {NoJob, jobs[w]}
<1>1. PICK added \in Added :
        jobs' = [w \in Workflows |->
          IF rows[w] = NoRow THEN NoJob ELSE IF w \in added THEN NewJob(w) ELSE jobs[w]]
  BY DEF Sync
<1>2. \A w \in added : w \in Missing /\ rows[w] \in Triggers
  BY <1>1 DEF Added
<1>3. \A w \in added : w \notin JobIds /\ NewJob(w) \in Jobs
  BY <1>2, JobFacts DEF Missing, NewJob
<1>4. jobs' \in [Workflows -> Jobs \union {NoJob}]
  BY <1>1, <1>3 DEF TypeInv
<1> QED BY <1>1, <1>3, <1>4 DEF JobIds

LEMMA SleepJobs ==
  ASSUME TypeInv, Sleep
  PROVE  /\ jobs' \in [Workflows -> Jobs \union {NoJob}]
         /\ \A w \in Workflows \ JobIds : jobs'[w] = NoJob
         /\ \A w \in JobIds : jobs[w] \in Jobs /\ jobs'[w] = Counted(jobs[w])
         /\ \A w \in JobIds : w \in fired' <=> jobs[w].due = 1
<1>1. \A w \in JobIds : w \in Workflows /\ jobs[w] \in Jobs
  BY DEF TypeInv, JobIds
<1>2. jobs' = [w \in Workflows |-> IF w \notin JobIds THEN NoJob ELSE Counted(jobs[w])]
  BY DEF Sleep, Counted
<1>3. jobs' \in [Workflows -> Jobs \union {NoJob}]
  BY <1>1, <1>2, CountedJob
<1>4. \A w \in JobIds : w \in fired' <=> jobs[w].due = 1
  BY DEF Sleep
<1> QED BY <1>1, <1>2, <1>3, <1>4

LEMMA NextInv == IInv /\ [Next]_vars => IInv'
<1> SUFFICES ASSUME IInv, [Next]_vars PROVE IInv'
  OBVIOUS
<1>0. TypeInv /\ JobsHaveRows
  BY DEF IInv
<1>1. ASSUME NEW w \in Workflows, ChangeTable(w) PROVE IInv'
  <2>1. TypeInv'
    BY <1>0, <1>1 DEF ChangeTable, TypeInv
  <2> QED BY <1>0, <1>1, <2>1 DEF ChangeTable, IInv, JobsHaveRows, JobIds, Scheduled
<1>2. CASE ReadRows
  <2>1. TypeInv'
    BY <1>0, <1>2 DEF ReadRows, TypeInv
  <2> QED BY <1>2, <2>1 DEF ReadRows, IInv, JobsHaveRows
<1>3. CASE ReadRaises
  <2>1. TypeInv'
    BY <1>0, <1>3 DEF ReadRaises, TypeInv
  <2> QED BY <1>0, <1>3, <2>1 DEF ReadRaises, IInv, JobsHaveRows, JobIds, Scheduled
<1>4. CASE Sync
  <2>1. TypeInv'
    BY <1>0, <1>4, SyncJobs DEF Sync, TypeInv
  <2>2. JobsHaveRows'
    BY <1>0, <1>4, SyncJobs DEF Sync, JobsHaveRows, JobIds, Scheduled
  <2> QED BY <2>1, <2>2 DEF IInv
<1>5. CASE Sleep
  <2>1. TypeInv'
    BY <1>0, <1>5, SleepJobs DEF Sleep, TypeInv, JobIds
  <2>2. JobIds' \subseteq JobIds /\ UNCHANGED rows /\ pc = "asleep"
    BY <1>0, <1>5, SleepJobs DEF Sleep, JobIds
  <2> QED BY <1>0, <2>1, <2>2 DEF IInv, JobsHaveRows, Scheduled
<1>6. CASE Restart
  <2>1. TypeInv'
    BY <1>0, <1>6 DEF Restart, TypeInv, NoRows, NoJobs
  <2>2. JobIds' = {}
    BY <1>6 DEF Restart, JobIds, NoJobs
  <2> QED BY <2>1, <2>2 DEF IInv, JobsHaveRows
<1>7. CASE UNCHANGED vars
  <2>1. TypeInv'
    BY <1>0, <1>7 DEF vars, TypeInv
  <2> QED BY <1>0, <1>7, <2>1 DEF vars, IInv, JobsHaveRows, JobIds, Scheduled
<1> QED BY <1>1, <1>2, <1>3, <1>4, <1>5, <1>6, <1>7 DEF Next, Worker

LEMMA Invariant == Spec => []IInv
BY InitInv, NextInv, PTL DEF Spec

(* No job outlives the load that finds its row gone, nor is one made       *)
(* without a row, even by a load that was abandoned half-way.              *)
THEOREM JobsOfRows == Spec => []JobsHaveRows
<1>1. IInv => JobsHaveRows
  BY DEF IInv
<1> QED BY <1>1, Invariant, PTL

(* No load, change or failure moves the timer of a schedule that is as     *)
(* before: only its countdown does.                                        *)
THEOREM TimersAreKept == Spec => TimersRunOn
<1>1. ASSUME IInv, [Next]_vars, NEW w \in JobIds, jobs'[w] \notin {NoJob, jobs[w]}
      PROVE  /\ jobs'[w].trigger = jobs[w].trigger
             /\ IF w \in fired' THEN jobs[w].due = 1 /\ jobs'[w].due = Period[jobs[w].trigger]
                ELSE jobs'[w].due = jobs[w].due - 1
  <2>1. TypeInv /\ w \in Workflows
    BY <1>1 DEF IInv, JobIds
  <2>2. jobs' # jobs
    BY <1>1
  <2>3. ~ Sync
    BY <1>1, <2>1, SyncJobs
  <2>4. ~ Restart
    BY <1>1, <2>1 DEF Restart, NoJobs
  <2>5. Sleep
    BY <1>1, <2>2, <2>3, <2>4 DEF Next, Worker, ChangeTable, ReadRows, ReadRaises, vars
  <2>6. /\ jobs[w] \in Jobs /\ jobs'[w] = Counted(jobs[w]) /\ (w \in fired' <=> jobs[w].due = 1)
    BY <1>1, <2>1, <2>5, SleepJobs
  <2> QED BY <2>6, CountedJob
<1>2. IInv /\ [Next]_vars =>
        [\A w \in Workflows : Unedited(w) /\ jobs'[w] \notin {NoJob, jobs[w]} =>
           /\ jobs'[w].trigger = jobs[w].trigger
           /\ IF w \in fired' THEN jobs[w].due = 1 /\ jobs'[w].due = Period[jobs[w].trigger]
              ELSE jobs'[w].due = jobs[w].due - 1]_vars
  BY <1>1 DEF Unedited
<1> QED BY <1>2, Invariant, PTL DEF Spec, TimersRunOn

(* The next time a job fires is never further off than its period, however *)
(* often the table is polled, changed or out of reach.                     *)
DueWithinPeriod == \A w \in JobIds : jobs[w].due \in 1..Period[jobs[w].trigger]
THEOREM FiresWithinPeriod == Spec => []DueWithinPeriod
<1>1. ASSUME IInv PROVE DueWithinPeriod
  BY <1>1, JobFacts DEF IInv, TypeInv, JobIds, DueWithinPeriod, Jobs
<1> QED BY <1>1, Invariant, PTL

====
