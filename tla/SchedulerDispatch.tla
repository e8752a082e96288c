---- MODULE SchedulerDispatch ----
(***************************************************************************)
(* Instances of the scheduler service that serve the same cron job.  Tick  *)
(* k of the job is due at time k * Period on every instance; each instance *)
(* runs dispatch() for it: take the workflow's Redis lock (SET NX EX),     *)
(* POST to the Platform API with up to MaxRetries attempts, delete the     *)
(* lock.  Time is counted in units of a few seconds; instances handle a    *)
(* tick within the unit it is due in, in any order.                        *)
(***************************************************************************)
EXTENDS Integers, FiniteSets

CONSTANTS
  Instances,   \* scheduler processes
  Period,      \* time between two ticks of the job
  LockTTL,     \* _LOCK_TTL
  MaxRetries,  \* _MAX_RETRIES
  PostTime,    \* the longest an attempt takes, answered or not: its timeout
               \* bounds connecting, writing and each read, but not their sum
  Backoff,     \* attempt -> the sleep after it failed
  LastTick,    \* bound: ticks of the job
  NoOwner,     \* the lock is free
  Faults,      \* the kinds of failure that may happen
  MaxFaults    \* bound: failures that happen in a behaviour

FaultKinds == {"post", "response", "redis", "crash", "misfire"}

ASSUME SchedulerAssumption ==
  /\ Period \in Nat \ {0} /\ LockTTL \in Nat \ {0} /\ PostTime \in Nat
  /\ MaxRetries \in Nat \ {0} /\ LastTick \in Nat /\ MaxFaults \in Nat
  /\ Backoff \in [1..MaxRetries - 1 -> Nat \ {0}]
  /\ NoOwner \notin Instances /\ Faults \subseteq FaultKinds

(* The time to live is "less than the minimum 1-minute interval".  That a  *)
(* run is over within it is not assumed.                                   *)
ASSUME TimingAssumption == LockTTL <= Period

Ticks == 1..LastTick
MaxTime == (LastTick + 1) * Period

VARIABLES
  now,        \* the clock
  handled,    \* instance -> the last tick its scheduler fired or skipped
  pc,         \* instance -> the await dispatch() is in, "idle" when it is not running
  tick,       \* instance -> the tick dispatch() was last fired for
  attempt,    \* instance -> the attempt under way
  timer,      \* instance -> time left to the attempt or the sleep
  lock,       \* the key scheduler:lock:<workflow_id>
  created,    \* <<instance, tick>> -> executions the platform created for it
  lost,       \* <<instance, tick>> -> created executions it got no answer about
  late,       \* <<instance, tick>> -> requests it gave up that may still be served
  skipped,    \* <<instance, tick>> for which dispatch() was not run
  disrupted,  \* ticks of which a crash, a Redis error or giving up cost a run
  faults

vars == <<now, handled, pc, tick, attempt, timer, lock, created, lost, late, skipped, disrupted,
          faults>>

Free == [owner |-> NoOwner, ttl |-> 0]
Lock(i) == [owner |-> i, ttl |-> LockTTL]

Init ==
  /\ now = 0
  /\ handled = [i \in Instances |-> 0]
  /\ pc = [i \in Instances |-> "idle"]
  /\ tick = [i \in Instances |-> 0]
  /\ attempt = [i \in Instances |-> 0]
  /\ timer = [i \in Instances |-> 0]
  /\ lock = Free
  /\ created = [c \in Instances \X Ticks |-> 0]
  /\ lost = created /\ late = created
  /\ skipped = {} /\ disrupted = {}
  /\ faults = 0

FailBy(kind) ==
  /\ kind \in Faults /\ faults < MaxFaults
  /\ faults' = faults + 1

Goto(i, l) == pc' = [pc EXCEPT ![i] = l]

(* The job's next tick is due at i. *)
Due(i) == handled[i] < LastTick /\ (handled[i] + 1) * Period <= now

Handle(i) == handled' = [handled EXCEPT ![i] = @ + 1]

StartAttempt(i, n) ==
  /\ attempt' = [attempt EXCEPT ![i] = n]
  /\ timer' = [timer EXCEPT ![i] = PostTime]
  /\ Goto(i, "post")

AcquireIgnoresHolder(i) ==  \* mutant: SET without NX
  /\ Due(i) /\ pc[i] = "idle"
  /\ Handle(i)
  /\ lock' = Lock(i)
  /\ tick' = [tick EXCEPT ![i] = handled[i] + 1]
  /\ StartAttempt(i, 1)
  /\ UNCHANGED <<now, created, lost, late, skipped, disrupted, faults>>

AcquireForever(i) ==  \* mutant: SET without EX
  /\ Due(i) /\ pc[i] = "idle"
  /\ lock = Free
  /\ Handle(i)
  /\ lock' = [owner |-> i, ttl |-> MaxTime]
  /\ tick' = [tick EXCEPT ![i] = handled[i] + 1]
  /\ StartAttempt(i, 1)
  /\ UNCHANGED <<now, created, lost, late, skipped, disrupted, faults>>

(* The scheduler fires dispatch() and SET NX succeeds. *)
Acquire(i) ==
  /\ Due(i) /\ pc[i] = "idle"
  /\ lock = Free
  /\ Handle(i)
  /\ lock' = Lock(i)
  /\ tick' = [tick EXCEPT ![i] = handled[i] + 1]
  /\ StartAttempt(i, 1)
  /\ UNCHANGED <<now, created, lost, late, skipped, disrupted, faults>>

(* SET NX finds the key: "another instance is handling it". *)
LockNotAcquired(i) ==
  /\ Due(i) /\ pc[i] = "idle"
  /\ lock # Free
  /\ Handle(i)
  /\ UNCHANGED <<now, pc, tick, attempt, timer, lock, created, lost, late, skipped, disrupted, faults>>

(* SET raises, having reached Redis or not; the job run ends. *)
AcquireRaises(i) ==
  /\ Due(i) /\ pc[i] = "idle"
  /\ FailBy("redis")
  /\ Handle(i)
  /\ lock' \in {lock, IF lock = Free THEN Lock(i) ELSE lock}
  /\ disrupted' = disrupted \union {handled[i] + 1}
  /\ UNCHANGED <<now, pc, tick, attempt, timer, created, lost, late, skipped>>

(* APScheduler does not start the run: the previous one of this job is     *)
(* still going (max_instances is 1), or the loop was too busy to fire it   *)
(* in time.                                                                *)
SkipRun(i) ==
  /\ Due(i)
  /\ \/ pc[i] # "idle" /\ UNCHANGED faults
     \/ pc[i] = "idle" /\ FailBy("misfire")
  /\ Handle(i)
  /\ skipped' = skipped \union {<<i, handled[i] + 1>>}
  /\ UNCHANGED <<now, pc, tick, attempt, timer, lock, created, lost, late, disrupted>>

(* POST /internal/executions reaches the platform, which commits a row. *)
PostCreates(i) ==
  /\ pc[i] = "post"
  /\ created' = [created EXCEPT ![<<i, tick[i]>>] = @ + 1]
  /\ Goto(i, "response")
  /\ UNCHANGED <<now, handled, tick, attempt, timer, lock, lost, late, skipped, disrupted, faults>>

(* The except clause of the retry loop: sleep, or give up after the last.  *)
AttemptFailed(i) ==
  \/ /\ attempt[i] < MaxRetries
     /\ Goto(i, "sleep")
     /\ timer' = [timer EXCEPT ![i] = Backoff[attempt[i]]]
     /\ UNCHANGED disrupted
  \/ /\ attempt[i] = MaxRetries
     /\ Goto(i, "release")
     /\ disrupted' = disrupted \union {tick[i]}
     /\ UNCHANGED timer

PostReturnsAndLoops(i) ==  \* mutant: no return after a successful attempt
  /\ pc[i] = "response"
  /\ AttemptFailed(i)
  /\ UNCHANGED <<now, handled, tick, attempt, lock, created, lost, late, skipped, faults>>

(* A 2xx answer ends the loop. *)
PostReturns(i) ==
  /\ pc[i] = "response"
  /\ Goto(i, "release")
  /\ UNCHANGED <<now, handled, tick, attempt, timer, lock, created, lost, late, skipped, disrupted, faults>>

(* The request is on its way or waiting when nobody waits for it any more. *)
Unanswered(i) == late' = [late EXCEPT ![<<i, tick[i]>>] = @ + 1]

(* Refused, answered with an error before the row was committed, or timed  *)
(* out, in which case it may still be served.                              *)
PostFails(i) ==
  /\ pc[i] = "post" /\ FailBy("post")
  /\ late' = late \/ Unanswered(i)
  /\ AttemptFailed(i)
  /\ UNCHANGED <<now, handled, tick, attempt, lock, created, lost, skipped>>

(* The row was committed, but the answer is late, lost or an error.        *)
ResponseLost(i) ==
  /\ pc[i] = "response" /\ FailBy("response")
  /\ lost' = [lost EXCEPT ![<<i, tick[i]>>] = @ + 1]
  /\ AttemptFailed(i)
  /\ UNCHANGED <<now, handled, tick, attempt, lock, created, late, skipped>>

(* The platform serves a request that nobody waits for any more, in later  *)
(* attempts of the run or long after it.                                   *)
ServeLate(c) ==
  /\ late[c] > 0
  /\ late' = [late EXCEPT ![c] = @ - 1]
  /\ created' = [created EXCEPT ![c] = @ + 1]
  /\ lost' = [lost EXCEPT ![c] = @ + 1]
  /\ UNCHANGED <<now, handled, pc, tick, attempt, timer, lock, skipped, disrupted, faults>>

RetryRenews(i) ==  \* mutant: the lock is renewed for the next attempt
  /\ pc[i] = "sleep" /\ timer[i] = 0
  /\ lock' = Lock(i)
  /\ StartAttempt(i, attempt[i] + 1)
  /\ UNCHANGED <<now, handled, tick, created, lost, late, skipped, disrupted, faults>>

Retry(i) ==
  /\ pc[i] = "sleep" /\ timer[i] = 0
  /\ StartAttempt(i, attempt[i] + 1)
  /\ UNCHANGED <<now, handled, tick, lock, created, lost, late, skipped, disrupted, faults>>

(* DEL in the finally clause deletes the key, whoever set it; it may raise *)
(* without effect.                                                         *)
Release(i) ==
  /\ pc[i] = "release"
  /\ \/ lock' = Free /\ UNCHANGED faults
     \/ UNCHANGED lock /\ FailBy("redis")
  /\ Goto(i, "idle")
  /\ UNCHANGED <<now, handled, tick, attempt, timer, created, lost, late, skipped, disrupted>>

(* The process dies in dispatch(); it is restarted with no run under way.  *)
Crash(i) ==
  /\ pc[i] # "idle" /\ FailBy("crash")
  /\ Goto(i, "idle")
  /\ late' = late \/ (pc[i] = "post" /\ Unanswered(i))
  /\ disrupted' = disrupted \union {tick[i]}
  /\ UNCHANGED <<now, handled, tick, attempt, timer, lock, created, lost, skipped>>

(* A unit of time passes: not while a tick is due, a sleep is over, an     *)
(* attempt has used up its time or the lock is about to be deleted.  Redis *)
(* expires the lock at the end of its time to live.                        *)
Pass ==
  /\ now < MaxTime
  /\ \A i \in Instances :
       ~ Due(i) /\ pc[i] # "release" /\ (pc[i] \in {"post", "response", "sleep"} => timer[i] > 0)
  /\ now' = now + 1
  /\ timer' = [i \in Instances |-> IF pc[i] \in {"post", "response", "sleep"}
                                   THEN timer[i] - 1 ELSE timer[i]]
  /\ lock' = IF lock.ttl > 1 THEN [lock EXCEPT !.ttl = @ - 1] ELSE Free
  /\ UNCHANGED <<handled, pc, tick, attempt, created, lost, late, skipped, disrupted, faults>>

(* The bound on time is reached. *)
Over == now = MaxTime /\ UNCHANGED vars

Next ==
  \/ \E i \in Instances :
       \/ Acquire(i) \/ LockNotAcquired(i) \/ AcquireRaises(i) \/ SkipRun(i)
       \/ PostCreates(i) \/ PostReturns(i) \/ PostFails(i) \/ ResponseLost(i)
       \/ Retry(i) \/ Release(i) \/ Crash(i)
  \/ \E c \in Instances \X Ticks : ServeLate(c)
  \/ Pass
  \/ Over

Spec == Init /\ [][Next]_vars

----
TypeOK ==
  /\ now \in 0..MaxTime
  /\ handled \in [Instances -> 0..LastTick]
  /\ pc \in [Instances -> {"idle", "post", "response", "sleep", "release"}]
  /\ tick \in [Instances -> 0..LastTick]
  /\ attempt \in [Instances -> 0..MaxRetries]
  /\ timer \in [Instances -> Nat]
  /\ lock \in [owner : Instances \union {NoOwner}, ttl : 0..LockTTL]
  /\ created \in [Instances \X Ticks -> 0..MaxRetries]
  /\ lost \in [Instances \X Ticks -> 0..MaxRetries]
  /\ late \in [Instances \X Ticks -> 0..MaxRetries]
  /\ skipped \subseteq Instances \X Ticks
  /\ disrupted \subseteq Ticks
  /\ faults \in 0..MaxFaults

(* "the TTL guarantees that the next cycle can acquire the lock": an       *)
(* instance that fires never finds the key of an earlier tick, though its  *)
(* run hangs or has died, the DEL failed, or a lock was set for a run that *)
(* never began.                                                            *)
NextCycleCanAcquire ==
  \A i \in Instances : Due(i) /\ lock # Free => lock.ttl = LockTTL /\ handled[lock.owner] > handled[i]

(* A tick that an instance fired for and no failure disrupted leads to an  *)
(* execution, whatever happened at the ticks before it: from the next tick *)
(* on there is one, or a run that is still on the way to one.              *)
TickServed ==
  \A k \in Ticks :
    now >= (k + 1) * Period /\ k \notin disrupted /\ (\E i \in Instances : <<i, k>> \notin skipped) =>
      \E i \in Instances : created[<<i, k>>] > 0 \/ (pc[i] # "idle" /\ tick[i] = k)

(* Retries of dispatch() duplicate an execution only when the answer about *)
(* an earlier one was lost: a run creates at most one execution that it    *)
(* got, or could still get, an answer for.                                 *)
OncePerFiring ==
  \A c \in Instances \X Ticks : created[c] <= lost[c] + 1

(* "the Redis distributed lock in dispatcher.py prevents duplicate         *)
(* executions": a tick does not lead to executions from two instances.     *)
NoDuplicateAcrossInstances ==
  \A k \in Ticks : Cardinality({i \in Instances : created[<<i, k>>] > 0}) <= 1

(* The runs of dispatch() are what the lock promises, although a run may   *)
(* outlive its lock and then delete another's: runs only overlap where one *)
(* of an earlier tick is over its time or has just deleted the key.        *)
Outlived(i) == pc[i] # "idle" /\ now >= tick[i] * Period + LockTTL
Runs == INSTANCE ScheduledRuns WITH
  running <- {i \in Instances : pc[i] # "idle"},
  spent   <- {i \in Instances : Outlived(i)},
  exposed <- {i \in Instances : pc[i] # "idle" /\ ~ Outlived(i) /\ lock.owner # i},
  last    <- tick,
  made    <- created
RunsSpec == Runs!Spec

====
