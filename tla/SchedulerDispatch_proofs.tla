---- MODULE SchedulerDispatch_proofs ----
(***************************************************************************)
(* Proofs about SchedulerDispatch, for any instances, ticks, retries,      *)
(* backoff and failures, however long the attempts take, and any time to   *)
(* live of the lock that is no longer than the period.                     *)
(***************************************************************************)
EXTENDS SchedulerDispatch, TLAPS

DueTime(k) == k * Period

Posting(i) == pc[i] \in {"post", "response"}
Running(i) == pc[i] # "idle"

(* A tick is handled in the very unit it is due in.                        *)
Punctual(i) ==
  /\ tick[i] <= handled[i] /\ DueTime(handled[i]) <= now
  /\ handled[i] < LastTick => now <= DueTime(handled[i] + 1)
  /\ Running(i) => tick[i] \in Ticks /\ attempt[i] \in 1..MaxRetries
  /\ \A k \in Ticks : <<i, k>> \in skipped => k <= handled[i]

(* A run that holds the lock has held it since its tick was due.           *)
Held(i) == Running(i) /\ lock.owner = i => lock.ttl + now = LockTTL + DueTime(tick[i])

(* A lock was set when some tick was due, by an instance that handled it   *)
(* and did not skip it.                                                    *)
LockOf(k) ==
  /\ lock.ttl + now = LockTTL + DueTime(k)
  /\ handled[lock.owner] >= k /\ <<lock.owner, k>> \notin skipped
Origin ==
  /\ lock.owner = NoOwner <=> lock.ttl = 0
  /\ lock # Free => \E k \in Ticks : LockOf(k)

(* What a run has created, lost the answers of, and given up.              *)
Counted(i) ==
  /\ \A k \in Ticks :
       /\ created[<<i, k>>] <= lost[<<i, k>>] + 1 /\ lost[<<i, k>>] <= created[<<i, k>>]
       /\ created[<<i, k>>] + late[<<i, k>>] <= MaxRetries
       /\ k > tick[i] => created[<<i, k>>] = 0 /\ lost[<<i, k>>] = 0 /\ late[<<i, k>>] = 0
  /\ pc[i] \in {"post", "sleep"} => created[<<i, tick[i]>>] = lost[<<i, tick[i]>>]
  /\ pc[i] = "post" => created[<<i, tick[i]>>] + late[<<i, tick[i]>>] < attempt[i]
  /\ pc[i] = "response" => created[<<i, tick[i]>>] = lost[<<i, tick[i]>>] + 1
  /\ pc[i] \in {"response", "sleep"} =>
       created[<<i, tick[i]>>] + late[<<i, tick[i]>>] <= attempt[i]
  /\ pc[i] = "sleep" => attempt[i] < MaxRetries
  /\ pc[i] = "release" => created[<<i, tick[i]>>] > 0 \/ tick[i] \in disrupted

(* A tick that an instance fired for without disruption has its execution, *)
(* or a run on the way to it.                                              *)
Fired(k) == \E i \in Instances : handled[i] >= k /\ <<i, k>> \notin skipped
Served(k) ==
  k \notin disrupted /\ Fired(k) =>
    \E i \in Instances : created[<<i, k>>] > 0 \/ (Running(i) /\ tick[i] = k)

IInv ==
  /\ TypeOK
  /\ \A i \in Instances : Punctual(i) /\ Held(i) /\ Counted(i)
  /\ Origin
  /\ \A k \in Ticks : Served(k)

InstanceStep(i) ==
  \/ Acquire(i) \/ LockNotAcquired(i) \/ AcquireRaises(i) \/ SkipRun(i)
  \/ PostCreates(i) \/ PostReturns(i) \/ PostFails(i) \/ ResponseLost(i)
  \/ Retry(i) \/ Release(i) \/ Crash(i)

----
(* Arithmetic of ticks. *)
LEMMA Times ==
  ASSUME NEW k \in Nat
  PROVE  /\ DueTime(k) \in Nat /\ DueTime(k + 1) \in Nat /\ DueTime(0) = 0
         /\ DueTime(k + 1) = DueTime(k) + Period
BY SchedulerAssumption DEF DueTime

LEMMA TimesOrdered ==
  ASSUME NEW j \in Nat, NEW k \in Nat
  PROVE  /\ j <= k => DueTime(j) <= DueTime(k)
         /\ j < k => DueTime(j) + Period <= DueTime(k)
<1>1. Period \in Nat
  BY SchedulerAssumption
<1>2. ASSUME j <= k PROVE DueTime(j) <= DueTime(k)
  <2>1. PICK d \in Nat : k = j + d
    BY <1>2
  <2>2. DueTime(k) = DueTime(j) + d * Period /\ d * Period \in Nat
    BY <1>1, <2>1 DEF DueTime
  <2> QED BY <2>2, Times
<1>3. ASSUME j < k PROVE DueTime(j) + Period <= DueTime(k)
  <2>1. PICK d \in Nat : k = j + 1 + d
    BY <1>3
  <2>2. DueTime(k) = DueTime(j) + Period + d * Period /\ d * Period \in Nat
    BY <1>1, <2>1 DEF DueTime
  <2> QED BY <1>1, <2>2, Times
<1> QED BY <1>2, <1>3

LEMMA Constants ==
  /\ Period \in Nat \ {0} /\ LockTTL \in Nat \ {0} /\ PostTime \in Nat
  /\ MaxRetries \in Nat \ {0} /\ LastTick \in Nat /\ MaxFaults \in Nat
  /\ LockTTL <= Period /\ MaxTime \in Nat /\ NoOwner \notin Instances
<1>1. DueTime(LastTick + 1) \in Nat
  BY SchedulerAssumption, Times
<1> QED BY <1>1, SchedulerAssumption, TimingAssumption DEF MaxTime, DueTime

(* What holds of an instance at any time. *)
LEMMA Facts ==
  ASSUME IInv, NEW i \in Instances
  PROVE  /\ handled[i] \in Nat /\ handled[i] <= LastTick /\ now \in Nat
         /\ tick[i] \in Nat /\ tick[i] <= handled[i]
         /\ attempt[i] \in 0..MaxRetries /\ timer[i] \in Nat
         /\ Running(i) => tick[i] \in Ticks /\ attempt[i] \in 1..MaxRetries
                          /\ <<i, tick[i]>> \in Instances \X Ticks
         /\ \A k \in Ticks : /\ created[<<i, k>>] \in Nat /\ lost[<<i, k>>] \in Nat
                             /\ late[<<i, k>>] \in Nat
         /\ lock \in [owner : Instances \union {NoOwner}, ttl : 0..LockTTL]
         /\ lock.ttl \in Nat /\ lock.ttl <= LockTTL
         /\ Punctual(i) /\ Held(i) /\ Counted(i)
<1>1. TypeOK /\ Punctual(i) /\ Held(i) /\ Counted(i)
  BY DEF IInv
<1>2. Running(i) => tick[i] \in Ticks /\ attempt[i] \in 1..MaxRetries
  BY <1>1 DEF Punctual
<1>3. \A k \in Ticks : created[<<i, k>>] \in Nat /\ lost[<<i, k>>] \in Nat /\ late[<<i, k>>] \in Nat
  <2> TAKE k \in Ticks
  <2>1. <<i, k>> \in Instances \X Ticks
    OBVIOUS
  <2> QED BY <1>1, <2>1, Constants DEF TypeOK
<1>4. /\ handled[i] \in 0..LastTick /\ now \in 0..MaxTime /\ tick[i] \in 0..LastTick
      /\ attempt[i] \in 0..MaxRetries /\ timer[i] \in Nat
      /\ lock \in [owner : Instances \union {NoOwner}, ttl : 0..LockTTL]
      /\ lock.ttl \in 0..LockTTL
  BY <1>1 DEF TypeOK
<1>5. tick[i] <= handled[i]
  BY <1>1 DEF Punctual
<1> QED BY <1>1, <1>2, <1>3, <1>4, <1>5, Constants

(* An instance that is due is so since now. *)
LEMMA DueNow ==
  ASSUME IInv, NEW i \in Instances, Due(i)
  PROVE  /\ handled[i] + 1 \in Ticks /\ DueTime(handled[i] + 1) = now
<1>1. /\ handled[i] \in Nat /\ handled[i] < LastTick /\ LastTick \in Nat /\ now \in Nat
      /\ (handled[i] + 1) * Period <= now
  BY Facts, Constants DEF Due
<1>2. DueTime(handled[i] + 1) \in Nat /\ now <= DueTime(handled[i] + 1)
  BY <1>1, Facts, Times DEF Punctual
<1> QED BY <1>1, <1>2 DEF Ticks, DueTime

(* Another instance's step touches nothing of j's, but it may take j's     *)
(* lock away.                                                              *)
LEMMA Aside ==
  ASSUME IInv, NEW i \in Instances, NEW j \in Instances, i # j, InstanceStep(i)
  PROVE  /\ now' = now /\ pc'[j] = pc[j] /\ tick'[j] = tick[j] /\ attempt'[j] = attempt[j]
         /\ timer'[j] = timer[j] /\ handled'[j] = handled[j] /\ disrupted \subseteq disrupted'
         /\ \A k \in Ticks : /\ created'[<<j, k>>] = created[<<j, k>>]
                             /\ lost'[<<j, k>>] = lost[<<j, k>>]
                             /\ late'[<<j, k>>] = late[<<j, k>>]
                             /\ <<j, k>> \in skipped' => <<j, k>> \in skipped
         /\ lock' = lock \/ lock'.owner # j
<1>1. TypeOK
  BY DEF IInv
<1>2. /\ now' = now /\ disrupted \subseteq disrupted'
  BY DEF InstanceStep, Acquire, LockNotAcquired, AcquireRaises, SkipRun, PostCreates, PostReturns,
         PostFails, ResponseLost, Retry, Release, Crash, AttemptFailed
<1>3. /\ pc'[j] = pc[j] /\ tick'[j] = tick[j] /\ attempt'[j] = attempt[j]
      /\ timer'[j] = timer[j] /\ handled'[j] = handled[j]
  BY <1>1 DEF TypeOK, InstanceStep, Acquire, LockNotAcquired, AcquireRaises, SkipRun, PostCreates,
     PostReturns, PostFails, ResponseLost, Retry, Release, Crash, AttemptFailed, Handle, Goto,
     StartAttempt
<1>4. ASSUME NEW k \in Ticks
      PROVE  /\ created'[<<j, k>>] = created[<<j, k>>] /\ lost'[<<j, k>>] = lost[<<j, k>>]
             /\ late'[<<j, k>>] = late[<<j, k>>]
             /\ <<j, k>> \in skipped' => <<j, k>> \in skipped
  <2>1. /\ created' = created \/ created' = [created EXCEPT ![<<i, tick[i]>>] = @ + 1]
        /\ lost' = lost \/ lost' = [lost EXCEPT ![<<i, tick[i]>>] = @ + 1]
    BY DEF InstanceStep, Acquire, LockNotAcquired, AcquireRaises, SkipRun, PostCreates, PostReturns,
           PostFails, ResponseLost, Retry, Release, Crash
  <2>2. late' = late \/ late' = [late EXCEPT ![<<i, tick[i]>>] = @ + 1]
    BY DEF InstanceStep, Acquire, LockNotAcquired, AcquireRaises, SkipRun, PostCreates, PostReturns,
           PostFails, ResponseLost, Retry, Release, Crash, Unanswered
  <2>3. skipped' = skipped \/ skipped' = skipped \union {<<i, handled[i] + 1>>}
    BY DEF InstanceStep, Acquire, LockNotAcquired, AcquireRaises, SkipRun, PostCreates, PostReturns,
           PostFails, ResponseLost, Retry, Release, Crash
  <2>4. <<j, k>> \in Instances \X Ticks /\ <<j, k>> # <<i, tick[i]>> /\ <<j, k>> # <<i, handled[i] + 1>>
    OBVIOUS
  <2> QED BY <1>1, <2>1, <2>2, <2>3, <2>4 DEF TypeOK
<1>5. lock' = lock \/ lock'.owner # j
  <2>1. lock' = lock \/ lock' = Free \/ lock' = Lock(i)
    BY DEF InstanceStep, Acquire, LockNotAcquired, AcquireRaises, SkipRun, PostCreates, PostReturns,
           PostFails, ResponseLost, Retry, Release, Crash
  <2> QED BY <2>1, Constants DEF Free, Lock
<1> QED BY <1>2, <1>3, <1>4, <1>5

----
(* Types. *)
LEMMA FailByType ==
  ASSUME TypeOK, NEW kind, FailBy(kind)
  PROVE  faults' \in 0..MaxFaults
BY Constants DEF TypeOK, FailBy

(* The ways out of a failed attempt. *)
LEMMA Failed ==
  ASSUME IInv, NEW i \in Instances, Posting(i), AttemptFailed(i)
  PROVE  \/ /\ attempt[i] \in 1..MaxRetries - 1 /\ Backoff[attempt[i]] \in Nat
            /\ pc' = [pc EXCEPT ![i] = "sleep"]
            /\ timer' = [timer EXCEPT ![i] = Backoff[attempt[i]]]
            /\ disrupted' = disrupted
         \/ /\ pc' = [pc EXCEPT ![i] = "release"]
            /\ timer' = timer /\ disrupted' = disrupted \union {tick[i]}
<1>1. attempt[i] \in 1..MaxRetries /\ MaxRetries \in Nat
  BY Facts, Constants DEF Posting, Running
<1>2. attempt[i] < MaxRetries => attempt[i] \in 1..MaxRetries - 1 /\ Backoff[attempt[i]] \in Nat
  BY <1>1, SchedulerAssumption
<1> QED BY <1>1, <1>2 DEF AttemptFailed, Goto

LEMMA Retried ==
  ASSUME IInv, NEW i \in Instances, Retry(i)
  PROVE  attempt[i] + 1 \in 1..MaxRetries /\ attempt[i] \in Nat
<1>1. Running(i) /\ pc[i] = "sleep"
  BY DEF Retry, Running
<1>2. attempt[i] \in 1..MaxRetries /\ attempt[i] < MaxRetries
  BY <1>1, Facts DEF Counted
<1> QED BY <1>2, Constants

LEMMA StepType ==
  ASSUME IInv, NEW i \in Instances, InstanceStep(i)
  PROVE  TypeOK'
<1>1. TypeOK
  BY DEF IInv
<1> DEFINE Counter == [Instances \X Ticks -> 0..MaxRetries]
<1>2. /\ now' = now
      /\ faults' = faults \/ \E kind : FailBy(kind)
  BY DEF InstanceStep, Acquire, LockNotAcquired, AcquireRaises, SkipRun, PostCreates, PostReturns,
         PostFails, ResponseLost, Retry, Release, Crash
<1>3. now' \in 0..MaxTime /\ faults' \in 0..MaxFaults
  BY <1>1, <1>2, FailByType DEF TypeOK
<1>4. ASSUME Due(i), Handle(i)
      PROVE  handled' \in [Instances -> 0..LastTick] /\ handled[i] + 1 \in Ticks
  BY <1>1, <1>4, DueNow, Facts DEF TypeOK, Handle, Ticks
<1>5. Lock(i) \in [owner : Instances \union {NoOwner}, ttl : 0..LockTTL]
      /\ Free \in [owner : Instances \union {NoOwner}, ttl : 0..LockTTL]
  BY Constants DEF Lock, Free
<1>6. CASE Acquire(i)
  <2>1. tick' \in [Instances -> 0..LastTick]
    BY <1>1, <1>4, <1>6 DEF TypeOK, Acquire, Ticks
  <2>2. attempt' \in [Instances -> 0..MaxRetries] /\ timer' \in [Instances -> Nat]
    BY <1>1, <1>6, Constants DEF TypeOK, Acquire, StartAttempt
  <2> QED BY <1>1, <1>3, <1>4, <1>5, <1>6, <2>1, <2>2 DEF TypeOK, Acquire, StartAttempt, Goto
<1>7. CASE LockNotAcquired(i)
  BY <1>1, <1>3, <1>4, <1>7 DEF TypeOK, LockNotAcquired
<1>8. CASE AcquireRaises(i)
  BY <1>1, <1>3, <1>4, <1>5, <1>8 DEF TypeOK, AcquireRaises
<1>9. CASE SkipRun(i)
  <2>1. skipped' \subseteq Instances \X Ticks
    BY <1>1, <1>4, <1>9 DEF TypeOK, SkipRun
  <2> QED BY <1>1, <1>3, <1>4, <1>9, <2>1 DEF TypeOK, SkipRun
<1>10. CASE PostCreates(i)
  <2>1. /\ <<i, tick[i]>> \in Instances \X Ticks
        /\ created[<<i, tick[i]>>] \in Nat /\ created[<<i, tick[i]>>] + 1 <= MaxRetries
    <3>1. /\ Running(i) /\ created[<<i, tick[i]>>] + late[<<i, tick[i]>>] < attempt[i]
      BY <1>10, Facts DEF PostCreates, Running, Counted
    <3> QED BY <3>1, Facts, Constants
  <2>2. created' \in [Instances \X Ticks -> 0..MaxRetries]
    BY <1>1, <1>10, <2>1, Constants DEF TypeOK, PostCreates
  <2> QED BY <1>1, <1>3, <1>10, <2>2 DEF TypeOK, PostCreates, Goto
<1>11. CASE PostReturns(i)
  BY <1>1, <1>3, <1>11 DEF TypeOK, PostReturns, Goto
<1>18. ASSUME pc[i] = "post", Unanswered(i) PROVE late' \in Counter
  <2>1. /\ <<i, tick[i]>> \in Instances \X Ticks
        /\ late[<<i, tick[i]>>] \in Nat /\ late[<<i, tick[i]>>] + 1 <= MaxRetries
    <3>1. /\ Running(i) /\ created[<<i, tick[i]>>] + late[<<i, tick[i]>>] < attempt[i]
      BY <1>18, Facts DEF Running, Counted
    <3> QED BY <3>1, Facts, Constants
  <2> QED BY <1>1, <1>18, <2>1, Constants DEF TypeOK, Unanswered
<1>12. ASSUME Posting(i), AttemptFailed(i)
       PROVE  /\ pc' \in [Instances -> {"idle", "post", "response", "sleep", "release"}]
              /\ timer' \in [Instances -> Nat] /\ disrupted' \subseteq Ticks
  <2>1. tick[i] \in Ticks
    BY <1>12, Facts DEF Posting, Running
  <2>2. CASE /\ attempt[i] \in 1..MaxRetries - 1 /\ Backoff[attempt[i]] \in Nat
             /\ pc' = [pc EXCEPT ![i] = "sleep"]
             /\ timer' = [timer EXCEPT ![i] = Backoff[attempt[i]]] /\ disrupted' = disrupted
    BY <1>1, <2>2 DEF TypeOK
  <2>3. CASE /\ pc' = [pc EXCEPT ![i] = "release"] /\ timer' = timer
             /\ disrupted' = disrupted \union {tick[i]}
    BY <1>1, <2>1, <2>3 DEF TypeOK
  <2> QED BY <1>12, <2>2, <2>3, Failed
<1>13. CASE PostFails(i)
  <2>1. Posting(i) /\ AttemptFailed(i) /\ (late' = late \/ Unanswered(i)) /\ pc[i] = "post"
    BY <1>13 DEF PostFails, Posting
  <2>2. late' \in Counter
    BY <1>1, <1>18, <2>1 DEF TypeOK
  <2> QED BY <1>1, <1>3, <1>12, <1>13, <2>1, <2>2 DEF TypeOK, PostFails
<1>14. CASE ResponseLost(i)
  <2>1. /\ <<i, tick[i]>> \in Instances \X Ticks
        /\ lost[<<i, tick[i]>>] \in Nat /\ lost[<<i, tick[i]>>] + 1 <= MaxRetries
    <3>1. /\ Running(i) /\ created[<<i, tick[i]>>] = lost[<<i, tick[i]>>] + 1
          /\ created[<<i, tick[i]>>] + late[<<i, tick[i]>>] <= attempt[i]
      BY <1>14, Facts DEF ResponseLost, Running, Counted
    <3> QED BY <3>1, Facts, Constants
  <2>2. lost' \in [Instances \X Ticks -> 0..MaxRetries]
    BY <1>1, <1>14, <2>1, Constants DEF TypeOK, ResponseLost
  <2> QED BY <1>1, <1>3, <1>12, <1>14, <2>2 DEF TypeOK, ResponseLost, Posting
<1>15. CASE Retry(i)
  <2>1. attempt[i] + 1 \in 0..MaxRetries
    BY <1>15, Retried
  <2> QED BY <1>1, <1>3, <1>15, <2>1, Constants DEF TypeOK, Retry, StartAttempt, Goto
<1>16. CASE Release(i)
  BY <1>1, <1>3, <1>5, <1>16 DEF TypeOK, Release, Goto
<1>17. CASE Crash(i)
  <2>1. tick[i] \in Ticks
    BY <1>17, Facts DEF Crash, Running
  <2>2. late' \in Counter
    BY <1>1, <1>17, <1>18 DEF TypeOK, Crash
  <2> QED BY <1>1, <1>3, <1>17, <2>1, <2>2 DEF TypeOK, Crash, Goto
<1> QED BY <1>6, <1>7, <1>8, <1>9, <1>10, <1>11, <1>13, <1>14, <1>15, <1>16, <1>17 DEF InstanceStep

----
(* An instance's own step. *)
LEMMA StepPunctual ==
  ASSUME IInv, NEW i \in Instances, InstanceStep(i)
  PROVE  Punctual(i)'
<1>1. TypeOK /\ Punctual(i)
  BY DEF IInv
<1>2. ASSUME Due(i), Handle(i), now' = now, skipped' \subseteq skipped \union {<<i, handled[i] + 1>>},
             \/ UNCHANGED <<pc, tick, attempt>>
             \/ /\ tick' = [tick EXCEPT ![i] = handled[i] + 1]
                /\ attempt' = [attempt EXCEPT ![i] = 1]
      PROVE  Punctual(i)'
  <2>0. \A k \in Ticks : <<i, k>> \in skipped' => k <= handled'[i]
    <3> SUFFICES ASSUME NEW k \in Ticks, <<i, k>> \in skipped' PROVE k <= handled'[i]
      OBVIOUS
    <3>1. handled[i] \in Nat /\ k \in Nat /\ handled'[i] = handled[i] + 1
      BY <1>1, <1>2, Facts DEF TypeOK, Handle, Ticks
    <3>2. <<i, k>> \in skipped \/ k = handled[i] + 1
      BY <1>2
    <3> QED BY <1>1, <3>1, <3>2 DEF Punctual
  <2>1. /\ handled[i] \in Nat /\ now \in Nat /\ handled[i] + 1 \in Ticks
        /\ now = DueTime(handled[i] + 1) /\ tick[i] <= handled[i] /\ tick[i] \in Nat
    BY <1>2, Facts, DueNow
  <2>2. DueTime(handled[i] + 2) \in Nat /\ now <= DueTime(handled[i] + 2)
    <3>1. DueTime(handled[i] + 1) <= DueTime(handled[i] + 2) /\ handled[i] + 2 \in Nat
      BY <2>1, TimesOrdered
    <3> QED BY <2>1, <3>1, Times
  <2>3. handled'[i] = handled[i] + 1 /\ handled'[i] + 1 = handled[i] + 2
    BY <1>1, <1>2, <2>1 DEF TypeOK, Handle
  <2>4. /\ tick'[i] = tick[i] \/ tick'[i] = handled[i] + 1
        /\ (Running(i) => tick[i] \in Ticks /\ attempt[i] \in 1..MaxRetries)
        /\ Running(i)' => tick'[i] \in Ticks /\ attempt'[i] \in 1..MaxRetries
    BY <1>1, <1>2, <2>1, Constants DEF TypeOK, Punctual, Running
  <2>5. tick'[i] <= handled'[i]
    BY <2>1, <2>3, <2>4
  <2>6. DueTime(handled'[i]) <= now' /\ now' <= DueTime(handled'[i] + 1)
    BY <1>2, <2>1, <2>2, <2>3
  <2> QED BY <2>0, <2>4, <2>5, <2>6 DEF Punctual, DueTime
<1>3. CASE Acquire(i)
  BY <1>2, <1>3 DEF Acquire, StartAttempt
<1>4. CASE LockNotAcquired(i) \/ AcquireRaises(i) \/ SkipRun(i)
  BY <1>2, <1>4 DEF LockNotAcquired, AcquireRaises, SkipRun
<1>5. ASSUME UNCHANGED <<now, handled, tick, skipped>>, attempt' = attempt \/ attempt'[i] \in 1..MaxRetries, Running(i)
      PROVE  Punctual(i)'
  BY <1>1, <1>5 DEF Punctual, DueTime, Running
<1>6. CASE PostCreates(i) \/ PostReturns(i) \/ PostFails(i) \/ ResponseLost(i) \/ Release(i) \/ Crash(i)
  BY <1>5, <1>6 DEF PostCreates, PostReturns, PostFails, ResponseLost, Release, Crash, Running
<1>7. CASE Retry(i)
  <2>1. attempt'[i] \in 1..MaxRetries /\ Running(i)
    BY <1>1, <1>7, Retried DEF TypeOK, Retry, StartAttempt, Running
  <2> QED BY <1>5, <1>7, <2>1 DEF Retry
<1> QED BY <1>3, <1>4, <1>6, <1>7 DEF InstanceStep

LEMMA StepHeld ==
  ASSUME IInv, NEW i \in Instances, InstanceStep(i)
  PROVE  Held(i)'
<1>1. TypeOK /\ Held(i)
  BY DEF IInv
<1>2. CASE Acquire(i)
  <2>1. DueTime(handled[i] + 1) = now /\ now' = now
    BY <1>2, DueNow DEF Acquire
  <2>2. tick'[i] = handled[i] + 1 /\ lock'.ttl = LockTTL
    BY <1>1, <1>2 DEF TypeOK, Acquire, Lock
  <2> QED BY <2>1, <2>2, Facts, Constants DEF Held, DueTime
<1>3. CASE ~ Running(i)'
  BY <1>3 DEF Held
<1>4. CASE Running(i) /\ lock' = lock /\ UNCHANGED <<now, tick>>
  BY <1>1, <1>4 DEF Held, DueTime
<1>5. CASE ~ Acquire(i)
  <2>1. now' = now /\ tick' = tick
    BY <1>5 DEF InstanceStep, LockNotAcquired, AcquireRaises, SkipRun, PostCreates, PostReturns,
       PostFails, ResponseLost, Retry, Release, Crash
  <2>2. (Running(i) /\ lock' = lock) \/ ~ Running(i)'
    BY <1>1, <1>5 DEF TypeOK, Running, InstanceStep, LockNotAcquired, AcquireRaises, SkipRun,
       PostCreates, PostReturns, PostFails, ResponseLost, Retry, Release, Crash, Goto
  <2> QED BY <1>3, <1>4, <2>1, <2>2
<1> QED BY <1>2, <1>5

(* What a run creates and loses, one entry of a counter at a time.         *)
LEMMA CounterMoves ==
  ASSUME IInv, NEW i \in Instances, Running(i), NEW counter, NEW next,
         counter \in [Instances \X Ticks -> Nat],
         next = [counter EXCEPT ![<<i, tick[i]>>] = @ + 1]
  PROVE  /\ next[<<i, tick[i]>>] = counter[<<i, tick[i]>>] + 1
         /\ \A k \in Ticks : k # tick[i] => next[<<i, k>>] = counter[<<i, k>>]
<1>1. <<i, tick[i]>> \in Instances \X Ticks /\ tick[i] \in Ticks
  BY Facts
<1>2. \A k \in Ticks : <<i, k>> \in Instances \X Ticks
  OBVIOUS
<1> QED BY <1>1, <1>2

LEMMA Counters ==
  ASSUME IInv
  PROVE  /\ created \in [Instances \X Ticks -> Nat] /\ lost \in [Instances \X Ticks -> Nat]
         /\ late \in [Instances \X Ticks -> Nat]
<1>1. 0..MaxRetries \subseteq Nat
  BY Constants
<1> QED BY <1>1 DEF IInv, TypeOK

(* The bounds of Counted that do not depend on where the run is.           *)
Bounded(i, k) ==
  /\ created[<<i, k>>] <= lost[<<i, k>>] + 1 /\ lost[<<i, k>>] <= created[<<i, k>>]
  /\ created[<<i, k>>] + late[<<i, k>>] <= MaxRetries
  /\ k > tick[i] => created[<<i, k>>] = 0 /\ lost[<<i, k>>] = 0 /\ late[<<i, k>>] = 0

(* A request given up takes the place of one that was served.              *)
LEMMA UnansweredMoves ==
  ASSUME IInv, NEW i \in Instances, pc[i] = "post", late' = late \/ Unanswered(i),
         UNCHANGED <<tick, created, lost>>
  PROVE  /\ \A k \in Ticks : Bounded(i, k)'
         /\ created[<<i, tick[i]>>] + late'[<<i, tick[i]>>] <= attempt[i]
<1>1. Running(i) /\ Counted(i)
  BY Facts DEF Running
<1>2. /\ created[<<i, tick[i]>>] + late[<<i, tick[i]>>] < attempt[i]
      /\ attempt[i] \in Nat /\ attempt[i] <= MaxRetries /\ tick[i] \in Ticks
      /\ created[<<i, tick[i]>>] \in Nat /\ late[<<i, tick[i]>>] \in Nat
  BY <1>1, Facts, Constants DEF Counted
<1>3. /\ \A k \in Ticks : k # tick[i] => late'[<<i, k>>] = late[<<i, k>>]
      /\ late'[<<i, tick[i]>>] \in {late[<<i, tick[i]>>], late[<<i, tick[i]>>] + 1}
  BY <1>1, Counters, CounterMoves DEF Unanswered
<1>4. ASSUME NEW k \in Ticks PROVE Bounded(i, k)'
  <2>1. CASE k = tick[i]
    BY <1>1, <1>2, <1>3, <2>1, Constants DEF Counted, Bounded, Ticks
  <2>2. CASE k # tick[i]
    BY <1>1, <1>3, <2>2 DEF Counted, Bounded
  <2> QED BY <2>1, <2>2
<1> QED BY <1>2, <1>3, <1>4

LEMMA StepCounted ==
  ASSUME IInv, NEW i \in Instances, InstanceStep(i)
  PROVE  Counted(i)'
<1>1. TypeOK /\ Counted(i) /\ \A k \in Ticks : Bounded(i, k)
  BY DEF IInv, Counted, Bounded
<1>2. CASE Acquire(i)
  <2>1. /\ handled[i] + 1 \in Ticks /\ tick[i] < handled[i] + 1 /\ tick[i] \in Nat
    <3>1. Due(i)
      BY <1>2 DEF Acquire
    <3>2. handled[i] \in Nat /\ tick[i] \in Nat /\ tick[i] <= handled[i]
      BY Facts
    <3> QED BY <3>1, <3>2, DueNow
  <2>2. /\ pc'[i] = "post" /\ tick'[i] = handled[i] + 1 /\ attempt'[i] = 1
        /\ created' = created /\ lost' = lost /\ late' = late
    BY <1>1, <1>2 DEF TypeOK, Acquire, StartAttempt, Goto
  <2>3. \A k \in Ticks : k > tick'[i] => k > tick[i]
    BY <2>1, <2>2 DEF Ticks
  <2>4. created[<<i, tick'[i]>>] = 0 /\ lost[<<i, tick'[i]>>] = 0 /\ late[<<i, tick'[i]>>] = 0
    BY <1>1, <2>1, <2>2 DEF Bounded
  <2>5. \A k \in Ticks : Bounded(i, k)'
    BY <1>1, <2>2, <2>3 DEF Bounded
  <2> QED BY <2>2, <2>4, <2>5 DEF Counted, Bounded
<1>3. ASSUME UNCHANGED <<pc, tick, attempt, created, lost, late>>, disrupted \subseteq disrupted'
      PROVE  Counted(i)'
  BY <1>1, <1>3 DEF Counted
<1>4. CASE LockNotAcquired(i) \/ AcquireRaises(i) \/ SkipRun(i)
  BY <1>3, <1>4 DEF LockNotAcquired, AcquireRaises, SkipRun
<1>5. CASE PostCreates(i)
  <2>1. /\ Running(i) /\ pc'[i] = "response" /\ UNCHANGED <<tick, attempt, lost, late>>
        /\ created' = [created EXCEPT ![<<i, tick[i]>>] = @ + 1]
    BY <1>1, <1>5 DEF TypeOK, PostCreates, Goto, Running
  <2>2. /\ created'[<<i, tick[i]>>] = created[<<i, tick[i]>>] + 1
        /\ \A k \in Ticks : k # tick[i] => created'[<<i, k>>] = created[<<i, k>>]
    BY <2>1, Counters, CounterMoves
  <2>3. /\ created[<<i, tick[i]>>] = lost[<<i, tick[i]>>]
        /\ created[<<i, tick[i]>>] + late[<<i, tick[i]>>] < attempt[i]
    BY <1>1, <1>5 DEF Counted, PostCreates
  <2>4. /\ tick[i] \in Ticks /\ attempt[i] \in Nat /\ attempt[i] <= MaxRetries /\ tick[i] \in Nat
        /\ created[<<i, tick[i]>>] \in Nat /\ late[<<i, tick[i]>>] \in Nat
    BY <2>1, Facts, Constants
  <2>5. ASSUME NEW k \in Ticks PROVE Bounded(i, k)'
    BY <1>1, <2>1, <2>2, <2>3, <2>4, Constants DEF Bounded
  <2>6. created'[<<i, tick[i]>>] = lost[<<i, tick[i]>>] + 1
    BY <2>2, <2>3
  <2>7. created'[<<i, tick[i]>>] + late[<<i, tick[i]>>] <= attempt[i]
    BY <2>2, <2>3, <2>4
  <2> QED BY <2>1, <2>5, <2>6, <2>7 DEF Counted, Bounded
<1>6. CASE PostReturns(i)
  <2>1. pc'[i] = "release" /\ UNCHANGED <<tick, attempt, created, lost, late, disrupted>>
    BY <1>1, <1>6 DEF TypeOK, PostReturns, Goto
  <2>2. created[<<i, tick[i]>>] > 0
    BY <1>1, <1>6, Facts DEF PostReturns, Counted, Running
  <2> QED BY <1>1, <2>1, <2>2 DEF Counted, Bounded
<1>7. ASSUME Posting(i), AttemptFailed(i), UNCHANGED <<tick, attempt, created>>,
             \A k \in Ticks : Bounded(i, k)',
             lost'[<<i, tick[i]>>] = created[<<i, tick[i]>>],
             created[<<i, tick[i]>>] + late'[<<i, tick[i]>>] <= attempt[i]
      PROVE  Counted(i)'
  <2>1. \/ pc'[i] = "sleep" /\ attempt[i] < MaxRetries
        \/ pc'[i] = "release" /\ tick[i] \in disrupted'
    BY <1>1, <1>7, Failed, Constants DEF TypeOK
  <2> QED BY <1>7, <2>1 DEF Counted, Bounded
<1>8. CASE PostFails(i)
  <2>1. /\ Posting(i) /\ pc[i] = "post" /\ AttemptFailed(i) /\ (late' = late \/ Unanswered(i))
        /\ UNCHANGED <<tick, attempt, created, lost>>
        /\ lost[<<i, tick[i]>>] = created[<<i, tick[i]>>]
    BY <1>1, <1>8 DEF PostFails, Posting, Counted
  <2> QED BY <1>7, <2>1, UnansweredMoves
<1>9. CASE ResponseLost(i)
  <2>1. /\ Running(i) /\ Posting(i) /\ AttemptFailed(i)
        /\ created[<<i, tick[i]>>] + late[<<i, tick[i]>>] <= attempt[i]
        /\ created[<<i, tick[i]>>] = lost[<<i, tick[i]>>] + 1
        /\ UNCHANGED <<tick, attempt, created, late>>
    BY <1>1, <1>9 DEF ResponseLost, Posting, Running, Counted
  <2>2. /\ lost'[<<i, tick[i]>>] = lost[<<i, tick[i]>>] + 1
        /\ \A k \in Ticks : k # tick[i] => lost'[<<i, k>>] = lost[<<i, k>>]
    BY <1>9, <2>1, Counters, CounterMoves DEF ResponseLost
  <2>3. tick[i] \in Ticks /\ tick[i] \in Nat /\ lost[<<i, tick[i]>>] \in Nat
    BY <2>1, Facts
  <2>4. ASSUME NEW k \in Ticks PROVE Bounded(i, k)'
    BY <1>1, <2>1, <2>2, <2>3 DEF Bounded
  <2> QED BY <1>7, <2>1, <2>2, <2>4
<1>10. CASE Retry(i)
  <2>1. /\ pc'[i] = "post" /\ attempt'[i] = attempt[i] + 1
        /\ UNCHANGED <<tick, created, lost, late, disrupted>>
    BY <1>1, <1>10 DEF TypeOK, Retry, StartAttempt, Goto
  <2>2. created[<<i, tick[i]>>] = lost[<<i, tick[i]>>]
    BY <1>1, <1>10 DEF Retry, Counted
  <2>3. created[<<i, tick[i]>>] + late[<<i, tick[i]>>] < attempt[i] + 1
    <3>1. Running(i) /\ created[<<i, tick[i]>>] + late[<<i, tick[i]>>] <= attempt[i]
      BY <1>1, <1>10 DEF Retry, Running, Counted
    <3> QED BY <1>10, <3>1, Facts, Retried
  <2> QED BY <1>1, <2>1, <2>2, <2>3 DEF Counted, Bounded
<1>11. CASE Release(i)
  <2>1. pc'[i] = "idle" /\ UNCHANGED <<tick, created, lost, late>>
    BY <1>1, <1>11 DEF TypeOK, Release, Goto
  <2> QED BY <1>1, <2>1 DEF Counted, Bounded
<1>12. CASE Crash(i)
  <2>1. pc'[i] = "idle" /\ UNCHANGED <<tick, created, lost>>
    BY <1>1, <1>12 DEF TypeOK, Crash, Goto
  <2>2. \A k \in Ticks : Bounded(i, k)'
    <3>1. CASE late' = late
      BY <1>1, <2>1, <3>1 DEF Bounded
    <3>2. CASE late' # late
      BY <1>12, <2>1, <3>2, UnansweredMoves DEF Crash
    <3> QED BY <3>1, <3>2
  <2> QED BY <2>1, <2>2 DEF Counted, Bounded
<1> QED BY <1>2, <1>4, <1>5, <1>6, <1>8, <1>9, <1>10, <1>11, <1>12 DEF InstanceStep

----
(* The lock, and the ticks. *)
LEMMA Numbers ==
  ASSUME IInv
  PROVE  /\ handled \in [Instances -> Nat]
         /\ \A j \in Instances : handled[j] \in Nat
         /\ \A k \in Ticks : k \in Nat /\ DueTime(k) \in Nat
         /\ now \in Nat /\ lock.ttl \in Nat
<1>1. TypeOK
  BY DEF IInv
<1>2. handled \in [Instances -> Nat] /\ now \in Nat
  BY <1>1, Constants DEF TypeOK
<1>3. \A k \in Ticks : k \in Nat
  BY Constants DEF Ticks
<1>4. lock.ttl \in Nat
  BY <1>1, Constants DEF TypeOK
<1> QED BY <1>2, <1>3, <1>4, Times

LEMMA LockIsSet ==
  ASSUME IInv, lock # Free
  PROVE  lock.owner \in Instances /\ lock.ttl \in Nat /\ lock.ttl > 0
<1>1. /\ lock = [owner |-> lock.owner, ttl |-> lock.ttl] /\ lock.ttl \in Nat
      /\ lock.owner \in Instances \union {NoOwner}
  <2>1. lock \in [owner : Instances \union {NoOwner}, ttl : 0..LockTTL]
    BY DEF IInv, TypeOK
  <2> QED BY <2>1, Numbers
<1>2. lock.owner = NoOwner <=> lock.ttl = 0
  BY DEF IInv, Origin
<1> QED BY <1>1, <1>2 DEF Free

LEMMA HandledGrows ==
  ASSUME IInv, NEW i \in Instances, InstanceStep(i)
  PROVE  /\ \A j \in Instances : handled'[j] \in Nat /\ handled'[j] >= handled[j]
         /\ \/ handled' = handled /\ skipped' = skipped
            \/ /\ Due(i) /\ Handle(i) /\ handled'[i] = handled[i] + 1
               /\ skipped' \subseteq skipped \union {<<i, handled[i] + 1>>}
<1>1. TypeOK
  BY DEF IInv
<1>2. \/ handled' = handled /\ skipped' = skipped
      \/ /\ Due(i) /\ Handle(i)
         /\ skipped' \subseteq skipped \union {<<i, handled[i] + 1>>}
  BY DEF InstanceStep, Acquire, LockNotAcquired, AcquireRaises, SkipRun, PostCreates, PostReturns,
         PostFails, ResponseLost, Retry, Release, Crash
<1>3. ASSUME NEW j \in Instances PROVE handled'[j] \in Nat /\ handled'[j] >= handled[j]
  <2>1. handled[j] \in Nat
    BY Facts
  <2> QED BY <1>1, <1>2, <2>1 DEF TypeOK, Handle
<1>4. Handle(i) => handled'[i] = handled[i] + 1
  BY <1>1 DEF TypeOK, Handle
<1> QED BY <1>2, <1>3, <1>4

(* What an instance handled without skipping it stays so.                  *)
LEMMA StaysFired ==
  ASSUME IInv, NEW i \in Instances, InstanceStep(i), NEW j \in Instances, NEW k \in Ticks,
         handled[j] >= k, <<j, k>> \notin skipped
  PROVE  handled'[j] >= k /\ <<j, k>> \notin skipped'
<1>1. handled[j] \in Nat /\ handled[i] \in Nat /\ k \in Nat
  BY Numbers
<1>2. <<j, k>> # <<i, handled[i] + 1>>
  BY <1>1
<1> QED BY <1>1, <1>2, HandledGrows

LEMMA StepOrigin ==
  ASSUME IInv, NEW i \in Instances, InstanceStep(i)
  PROVE  Origin'
<1>1. Origin /\ TypeOK
  BY DEF IInv
<1>2. now' = now
  BY DEF InstanceStep, Acquire, LockNotAcquired, AcquireRaises, SkipRun, PostCreates, PostReturns,
         PostFails, ResponseLost, Retry, Release, Crash
<1>3. \/ lock' = lock \/ lock' = Free
      \/ lock' = Lock(i) /\ Due(i) /\ Handle(i) /\ skipped' = skipped
  BY DEF InstanceStep, Acquire, LockNotAcquired, AcquireRaises, SkipRun, PostCreates, PostReturns,
         PostFails, ResponseLost, Retry, Release, Crash
<1>4. CASE lock' = lock
  <2>1. ASSUME lock # Free PROVE \E k \in Ticks : LockOf(k)'
    <3>1. PICK k \in Ticks : LockOf(k)
      BY <1>1, <2>1 DEF Origin
    <3>2. lock.owner \in Instances
      BY <1>1, <2>1, LockIsSet
    <3>3. LockOf(k)'
      BY <1>2, <1>4, <3>1, <3>2, StaysFired DEF LockOf, DueTime
    <3> QED BY <3>3
  <2> QED BY <1>1, <1>4, <2>1 DEF Origin, Free
<1>5. CASE lock' = Free
  BY <1>5 DEF Origin, Free
<1>6. CASE lock' = Lock(i) /\ Due(i) /\ Handle(i) /\ skipped' = skipped
  <2>1. PICK k \in Ticks : k = handled[i] + 1 /\ DueTime(k) = now
    BY <1>6, DueNow
  <2>2. lock'.owner = i /\ lock'.ttl = LockTTL /\ lock'.owner # NoOwner /\ lock'.ttl # 0
    BY <1>6, Constants DEF Lock
  <2>3. handled'[i] >= k
    <3>1. handled'[i] = k /\ k \in Nat
      BY <1>6, <2>1, Numbers DEF Handle
    <3> QED BY <3>1
  <2>4. <<i, k>> \notin skipped'
    <3>1. handled[i] \in Nat /\ \A n \in Ticks : <<i, n>> \in skipped => n <= handled[i]
      BY Facts DEF Punctual
    <3> QED BY <1>6, <2>1, <3>1
  <2>5. LockOf(k)'
    BY <1>2, <2>1, <2>2, <2>3, <2>4 DEF LockOf, DueTime
  <2> QED BY <2>2, <2>5 DEF Origin
<1> QED BY <1>3, <1>4, <1>5, <1>6

(* A lock that is found when a tick is due was set for this very tick.     *)
LEMMA LockOfTick ==
  ASSUME IInv, NEW i \in Instances, Due(i), lock # Free
  PROVE  /\ lock.owner \in Instances /\ lock.ttl = LockTTL
         /\ handled[lock.owner] >= handled[i] + 1 /\ <<lock.owner, handled[i] + 1>> \notin skipped
<1>1. PICK k \in Ticks : LockOf(k)
  BY DEF IInv, Origin
<1>2. /\ handled[i] + 1 \in Ticks /\ handled[i] + 1 \in Nat /\ k \in Nat
      /\ DueTime(handled[i] + 1) = now
  BY DueNow, Facts DEF Ticks
<1>3. lock.owner \in Instances /\ lock.ttl \in Nat /\ lock.ttl > 0
  BY LockIsSet
<1>4. lock.ttl + now = LockTTL + DueTime(k) /\ handled[lock.owner] >= k
  BY <1>1 DEF LockOf
<1>5. DueTime(k) \in Nat /\ now \in Nat /\ handled[lock.owner] \in Nat /\ DueTime(handled[lock.owner]) \in Nat
  BY <1>3, Numbers, Times
<1>6. ~ k < handled[i] + 1
  <2>1. ASSUME k < handled[i] + 1 PROVE DueTime(k) + Period <= now
    BY <1>2, <2>1, TimesOrdered
  <2> QED BY <1>3, <1>4, <1>5, <2>1, Constants
<1>7. ~ handled[i] + 1 < k
  <2>1. ASSUME handled[i] + 1 < k PROVE now + Period <= DueTime(k)
    BY <1>2, <2>1, TimesOrdered
  <2>2. DueTime(k) <= DueTime(handled[lock.owner])
    BY <1>2, <1>4, <1>5, TimesOrdered
  <2>3. DueTime(handled[lock.owner]) <= now
    BY <1>3, Facts DEF Punctual
  <2> QED BY <1>5, <2>1, <2>2, <2>3, Constants
<1>8. k = handled[i] + 1
  BY <1>2, <1>6, <1>7
<1>9. lock.ttl = LockTTL
  BY <1>2, <1>3, <1>4, <1>5, <1>8, Constants
<1> QED BY <1>1, <1>3, <1>8, <1>9 DEF LockOf

LEMMA StepServed ==
  ASSUME IInv, NEW i \in Instances, InstanceStep(i), NEW k \in Ticks
  PROVE  Served(k)'
<1> SUFFICES ASSUME k \notin disrupted', Fired(k)'
             PROVE  \E j \in Instances : created'[<<j, k>>] > 0 \/ (Running(j)' /\ tick'[j] = k)
  BY DEF Served
<1>1. TypeOK /\ Served(k) /\ k \in Nat
  BY DEF IInv, Ticks
<1>2. disrupted \subseteq disrupted'
  BY DEF InstanceStep, Acquire, LockNotAcquired, AcquireRaises, SkipRun, PostCreates, PostReturns,
         PostFails, ResponseLost, Retry, Release, Crash, AttemptFailed
<1>3. ASSUME Fired(k)
      PROVE  \E j \in Instances : created'[<<j, k>>] > 0 \/ (Running(j)' /\ tick'[j] = k)
  <2>1. PICK j \in Instances : created[<<j, k>>] > 0 \/ (Running(j) /\ tick[j] = k)
    BY <1>1, <1>2, <1>3 DEF Served
  <2>2. CASE j # i
    <3>1. pc'[j] = pc[j] /\ tick'[j] = tick[j] /\ created'[<<j, k>>] = created[<<j, k>>]
      BY <2>2, Aside
    <3> QED BY <2>1, <3>1 DEF Running
  <2>3. ASSUME j = i, created[<<i, k>>] > 0 PROVE created'[<<i, k>>] > 0
    <3>1. CASE PostCreates(i)
      <4>1. Running(i) /\ created' = [created EXCEPT ![<<i, tick[i]>>] = @ + 1]
        BY <3>1 DEF PostCreates, Running
      <4>2. created[<<i, k>>] \in Nat
        BY Facts
      <4> QED BY <2>3, <4>1, <4>2, Counters, CounterMoves
    <3>2. CASE ~ PostCreates(i)
      <4>1. created' = created
        BY <3>2 DEF InstanceStep, Acquire, LockNotAcquired, AcquireRaises, SkipRun, PostReturns,
           PostFails, ResponseLost, Retry, Release, Crash
      <4> QED BY <2>3, <4>1
    <3> QED BY <3>1, <3>2
  <2>4. ASSUME j = i, Running(i), tick[i] = k
        PROVE  (Running(i)' /\ tick'[i] = k) \/ created'[<<i, k>>] > 0
    <3>1. CASE Release(i)
      BY <1>2, <2>4, <3>1, Facts DEF Release, Counted
    <3>2. CASE Crash(i)
      BY <2>4, <3>2 DEF Crash
    <3>3. CASE SkipRun(i)
      BY <2>4, <3>3 DEF SkipRun, Running
    <3>4. CASE PostCreates(i) \/ PostReturns(i) \/ Retry(i)
      BY <1>1, <2>4, <3>4 DEF TypeOK, PostCreates, PostReturns, Retry, StartAttempt, Goto, Running
    <3>5. CASE PostFails(i) \/ ResponseLost(i)
      <4>1. Posting(i) /\ AttemptFailed(i) /\ tick' = tick
        BY <3>5 DEF PostFails, ResponseLost, Posting
      <4> QED BY <1>1, <2>4, <4>1, Failed DEF TypeOK, Running
    <3> QED BY <2>4, <3>1, <3>2, <3>3, <3>4, <3>5 DEF InstanceStep, Running, Acquire, LockNotAcquired,
               AcquireRaises
  <2> QED BY <2>1, <2>2, <2>3, <2>4
<1>4. CASE ~ Fired(k)
  <2>1. Due(i) /\ Handle(i) /\ k = handled[i] + 1 /\ <<i, k>> \notin skipped'
    <3>1. PICK j \in Instances : handled'[j] >= k /\ <<j, k>> \notin skipped'
      BY DEF Fired
    <3>2. <<j, k>> \notin skipped
      BY <3>1 DEF InstanceStep, Acquire, LockNotAcquired, AcquireRaises, SkipRun, PostCreates,
         PostReturns, PostFails, ResponseLost, Retry, Release, Crash
    <3>3. handled[j] \in Nat /\ handled[j] < k
      BY <1>1, <1>4, <3>2, Numbers DEF Fired
    <3>4. Due(i) /\ Handle(i)
      <4>1. handled' # handled
        BY <1>1, <3>1, <3>3
      <4> QED BY <4>1, HandledGrows
    <3>5. j = i /\ handled'[i] = handled[i] + 1
      BY <1>1, <3>1, <3>3, <3>4 DEF TypeOK, Handle
    <3> QED BY <1>1, <3>1, <3>3, <3>4, <3>5
  <2>2. CASE Acquire(i)
    <3>1. Running(i)' /\ tick'[i] = k
      BY <1>1, <2>1, <2>2 DEF TypeOK, Acquire, StartAttempt, Goto, Running
    <3> QED BY <3>1
  <2>3. CASE LockNotAcquired(i)
    <3>1. Fired(k)
      BY <2>1, <2>3, LockOfTick DEF LockNotAcquired, Fired
    <3> QED BY <1>4, <3>1
  <2>4. CASE AcquireRaises(i) \/ SkipRun(i)
    BY <2>1, <2>4 DEF AcquireRaises, SkipRun
  <2>5. handled'[i] # handled[i]
    BY <1>1, <2>1, Facts DEF TypeOK, Handle
  <2> QED BY <2>2, <2>3, <2>4, <2>5 DEF InstanceStep, PostCreates, PostReturns, PostFails, ResponseLost,
             Retry, Release, Crash
<1> QED BY <1>3, <1>4

----
(* Time passes, and the lock's time to live with it. *)
LEMMA PassRun ==
  ASSUME IInv, Pass, NEW i \in Instances
  PROVE  Punctual(i)' /\ Held(i)' /\ Counted(i)' /\ timer'[i] \in Nat
<1>1. TypeOK /\ Punctual(i) /\ Held(i) /\ Counted(i)
  BY DEF IInv
<1>2. /\ UNCHANGED <<handled, pc, tick, attempt, created, lost, late, skipped, disrupted>>
      /\ now' = now + 1
  BY DEF Pass
<1>3. Counted(i)'
  BY <1>1, <1>2 DEF Counted
<1>4. handled[i] \in Nat /\ now \in Nat /\ timer[i] \in Nat /\ lock.ttl \in Nat
  BY Facts, Numbers
<1>5. Punctual(i)'
  <2>1. ASSUME handled[i] < LastTick PROVE now + 1 <= DueTime(handled[i] + 1)
    <3>1. ~ DueTime(handled[i] + 1) <= now /\ DueTime(handled[i] + 1) \in Nat
      BY <1>4, <2>1, Times DEF Pass, Due, DueTime
    <3> QED BY <1>4, <3>1
  <2>2. DueTime(handled[i]) <= now + 1
    BY <1>1, <1>4, Times DEF Punctual
  <2> QED BY <1>1, <1>2, <2>1, <2>2 DEF Punctual, Running, DueTime
<1>6. Held(i)'
  <2> SUFFICES ASSUME Running(i), lock'.owner = i PROVE lock'.ttl + now' = LockTTL + DueTime(tick[i])
    BY <1>2 DEF Held, Running, DueTime
  <2>1. lock = [owner |-> lock.owner, ttl |-> lock.ttl]
    BY Facts
  <2>2. lock'.owner = lock.owner /\ lock'.ttl = lock.ttl - 1
    BY <2>1, Constants DEF Pass, Free
  <2>3. lock.ttl + now = LockTTL + DueTime(tick[i])
    BY <1>1, <2>2 DEF Held
  <2>4. DueTime(tick[i]) \in Nat
    BY Facts, Times
  <2> QED BY <1>2, <1>4, <2>2, <2>3, <2>4, Constants
<1>7. timer'[i] \in Nat
  <2>1. timer'[i] = timer[i] \/ (timer[i] > 0 /\ timer'[i] = timer[i] - 1)
    BY DEF Pass
  <2> QED BY <1>4, <2>1
<1> QED BY <1>3, <1>5, <1>6, <1>7

LEMMA PassInv == IInv /\ Pass => IInv'
<1> SUFFICES ASSUME IInv, Pass PROVE IInv'
  OBVIOUS
<1>1. TypeOK /\ Origin
  BY DEF IInv
<1>2. /\ UNCHANGED <<handled, pc, tick, attempt, created, lost, late, skipped, disrupted, faults>>
      /\ now' = now + 1 /\ now < MaxTime
      /\ lock' = IF lock.ttl > 1 THEN [lock EXCEPT !.ttl = @ - 1] ELSE Free
  BY DEF Pass
<1>3. /\ lock = [owner |-> lock.owner, ttl |-> lock.ttl] /\ lock.ttl \in Nat /\ lock.ttl <= LockTTL
      /\ lock.owner \in Instances \union {NoOwner} /\ now \in Nat
  <2>1. lock \in [owner : Instances \union {NoOwner}, ttl : 0..LockTTL]
    BY <1>1 DEF TypeOK
  <2> QED BY <2>1, Numbers, Constants
<1>4. \/ lock' = Free
      \/ lock.ttl > 1 /\ lock' = [owner |-> lock.owner, ttl |-> lock.ttl - 1]
  BY <1>2, <1>3
<1>5. TypeOK'
  <2>1. now' \in 0..MaxTime
    BY <1>2, <1>3, Constants
  <2>2. lock' \in [owner : Instances \union {NoOwner}, ttl : 0..LockTTL]
    BY <1>3, <1>4, Constants DEF Free
  <2>3. timer' \in [Instances -> Nat]
    <3>1. \A i \in Instances : timer'[i] \in Nat
      BY PassRun
    <3> QED BY <3>1 DEF Pass
  <2> QED BY <1>1, <1>2, <2>1, <2>2, <2>3 DEF TypeOK
<1>6. Origin'
  <2>1. CASE lock' = Free
    BY <2>1 DEF Origin, Free
  <2>2. CASE lock.ttl > 1 /\ lock' = [owner |-> lock.owner, ttl |-> lock.ttl - 1]
    <3>1. lock # Free /\ lock.owner # NoOwner
      BY <1>1, <1>3, <2>2 DEF Origin, Free
    <3>2. PICK k \in Ticks : LockOf(k)
      BY <1>1, <3>1 DEF Origin
    <3>3. LockOf(k)'
      BY <1>2, <1>3, <2>2, <3>2, Times, Constants DEF LockOf, DueTime
    <3>4. lock'.owner # NoOwner /\ lock'.ttl # 0
      BY <1>3, <2>2, <3>1
    <3> QED BY <3>3, <3>4 DEF Origin
  <2> QED BY <1>4, <2>1, <2>2
<1>7. ASSUME NEW k \in Ticks PROVE Served(k)'
  BY <1>2 DEF IInv, Served, Fired, Running
<1> QED BY <1>5, <1>6, <1>7, PassRun DEF IInv

----
(* The platform serves a request that was given up.                        *)
LEMMA LateMoves ==
  ASSUME IInv, NEW j \in Instances, NEW k \in Ticks, ServeLate(<<j, k>>)
  PROVE  /\ created'[<<j, k>>] = created[<<j, k>>] + 1 /\ lost'[<<j, k>>] = lost[<<j, k>>] + 1
         /\ late'[<<j, k>>] = late[<<j, k>>] - 1 /\ late[<<j, k>>] > 0 /\ k <= tick[j]
         /\ \A d \in Instances \X Ticks : d # <<j, k>> =>
              created'[d] = created[d] /\ lost'[d] = lost[d] /\ late'[d] = late[d]
<1>1. k <= tick[j]
  <2>1. Counted(j) /\ tick[j] \in Nat /\ k \in Nat
    BY Facts, Numbers
  <2>2. k > tick[j] => late[<<j, k>>] = 0
    BY <2>1 DEF Counted
  <2> QED BY <2>1, <2>2, Facts DEF ServeLate
<1> QED BY <1>1, Counters DEF ServeLate

LEMMA LateInv ==
  ASSUME IInv, NEW c \in Instances \X Ticks, ServeLate(c)
  PROVE  IInv'
<1>1. PICK j \in Instances, k \in Ticks : c = <<j, k>>
  OBVIOUS
<1>2. /\ UNCHANGED <<now, handled, pc, tick, attempt, timer, lock, skipped, disrupted, faults>>
      /\ ServeLate(<<j, k>>)
  BY <1>1 DEF ServeLate
<1>3. ASSUME NEW i \in Instances, NEW n \in Ticks
      PROVE  /\ created[<<i, n>>] \in Nat /\ late[<<i, n>>] \in Nat
             /\ created'[<<i, n>>] + late'[<<i, n>>] = created[<<i, n>>] + late[<<i, n>>]
             /\ \/ /\ created'[<<i, n>>] = created[<<i, n>>] /\ lost'[<<i, n>>] = lost[<<i, n>>]
                   /\ late'[<<i, n>>] = late[<<i, n>>]
                \/ /\ created'[<<i, n>>] = created[<<i, n>>] + 1 /\ lost'[<<i, n>>] = lost[<<i, n>>] + 1
                   /\ late'[<<i, n>>] = late[<<i, n>>] - 1 /\ late[<<i, n>>] > 0 /\ n <= tick[i]
  <2>1. created[<<i, n>>] \in Nat /\ late[<<i, n>>] \in Nat
    BY Facts
  <2>2. CASE <<i, n>> = <<j, k>>
    BY <1>2, <2>1, <2>2, LateMoves
  <2>3. CASE <<i, n>> # <<j, k>>
    <3>1. <<i, n>> \in Instances \X Ticks
      OBVIOUS
    <3> QED BY <1>2, <2>1, <2>3, <3>1, LateMoves
  <2> QED BY <2>2, <2>3
<1>4. ASSUME NEW i \in Instances PROVE Counted(i)'
  <2>1. ASSUME NEW n \in Ticks
        PROVE  /\ created'[<<i, n>>] \in Nat /\ lost'[<<i, n>>] \in Nat /\ late'[<<i, n>>] \in Nat
               /\ Bounded(i, n)'
    <3>1. Bounded(i, n) /\ n \in Nat /\ tick[i] \in Nat
      BY Facts, Numbers DEF Counted, Bounded
    <3>2. created[<<i, n>>] \in Nat /\ lost[<<i, n>>] \in Nat /\ late[<<i, n>>] \in Nat
      BY Facts
    <3> QED BY <1>2, <1>3, <3>1, <3>2 DEF Bounded
  <2>2. CASE ~ Running(i)
    BY <1>2, <2>1, <2>2 DEF Counted, Bounded, Running
  <2>3. CASE Running(i)
    <3>1. tick[i] \in Ticks /\ Counted(i)
      BY <2>3, Facts
    <3>2. /\ created[<<i, tick[i]>>] \in Nat /\ lost[<<i, tick[i]>>] \in Nat
          /\ created'[<<i, tick[i]>>] + late'[<<i, tick[i]>>] = created[<<i, tick[i]>>] + late[<<i, tick[i]>>]
          /\ \/ created'[<<i, tick[i]>>] = created[<<i, tick[i]>>] /\ lost'[<<i, tick[i]>>] = lost[<<i, tick[i]>>]
             \/ /\ created'[<<i, tick[i]>>] = created[<<i, tick[i]>>] + 1
                /\ lost'[<<i, tick[i]>>] = lost[<<i, tick[i]>>] + 1
      BY <1>3, <3>1, Facts
    <3> QED BY <1>2, <2>1, <3>1, <3>2 DEF Counted, Bounded
  <2> QED BY <2>2, <2>3
<1>5. TypeOK'
  <2>1. ASSUME NEW d \in Instances \X Ticks
        PROVE  created'[d] \in 0..MaxRetries /\ lost'[d] \in 0..MaxRetries /\ late'[d] \in 0..MaxRetries
    <3>1. PICK i \in Instances, n \in Ticks : d = <<i, n>>
      OBVIOUS
    <3>2. /\ created[<<i, n>>] \in Nat /\ lost[<<i, n>>] \in Nat /\ late[<<i, n>>] \in Nat
      BY Facts
    <3>3. Bounded(i, n)'
      BY <1>4 DEF Counted, Bounded
    <3> QED BY <1>3, <3>1, <3>2, <3>3, Constants DEF Bounded
  <2>2. /\ created' \in [Instances \X Ticks -> 0..MaxRetries]
        /\ lost' \in [Instances \X Ticks -> 0..MaxRetries]
        /\ late' \in [Instances \X Ticks -> 0..MaxRetries]
    BY <1>1, <2>1 DEF IInv, TypeOK, ServeLate
  <2> QED BY <1>2, <2>2 DEF IInv, TypeOK
<1>6. ASSUME NEW n \in Ticks PROVE Served(n)'
  <2>1. \A i \in Instances : created[<<i, n>>] > 0 => created'[<<i, n>>] > 0
    <3> TAKE i \in Instances
    <3> QED BY <1>3
  <2> QED BY <1>2, <2>1 DEF IInv, Served, Fired, Running
<1>7. Origin' /\ \A i \in Instances : Punctual(i)' /\ Held(i)'
  BY <1>2 DEF IInv, Origin, LockOf, Punctual, Held, Running, DueTime
<1> QED BY <1>4, <1>5, <1>6, <1>7 DEF IInv

----
LEMMA InitInv == Init => IInv
<1> SUFFICES ASSUME Init PROVE IInv
  OBVIOUS
<1>1. TypeOK
  BY Constants DEF Init, TypeOK, Free
<1>2. ASSUME NEW i \in Instances PROVE Punctual(i) /\ Held(i) /\ Counted(i)
  <2>1. pc[i] = "idle" /\ tick[i] = 0 /\ handled[i] = 0 /\ now = 0 /\ skipped = {}
    BY DEF Init
  <2>2. Punctual(i)
    <3>1. DueTime(0) = 0 /\ DueTime(0 + 1) \in Nat
      BY Times
    <3> QED BY <2>1, <3>1 DEF Punctual, Running
  <2>3. \A k \in Ticks : created[<<i, k>>] = 0 /\ lost[<<i, k>>] = 0 /\ late[<<i, k>>] = 0
    BY DEF Init
  <2> QED BY <2>1, <2>2, <2>3, Constants DEF Held, Counted, Running
<1>3. Origin
  BY DEF Init, Origin, Free
<1>4. ASSUME NEW k \in Ticks PROVE Served(k)
  BY Constants DEF Init, Served, Fired, Ticks
<1> QED BY <1>1, <1>2, <1>3, <1>4 DEF IInv

LEMMA NextInv == IInv /\ [Next]_vars => IInv'
<1> SUFFICES ASSUME IInv, [Next]_vars PROVE IInv'
  OBVIOUS
<1>1. ASSUME NEW i \in Instances, InstanceStep(i) PROVE IInv'
  <2>1. ASSUME NEW j \in Instances PROVE Punctual(j)' /\ Held(j)' /\ Counted(j)'
    <3>1. CASE j = i
      BY <1>1, <3>1, StepPunctual, StepHeld, StepCounted
    <3>2. CASE j # i
      <4>1. /\ now' = now /\ pc'[j] = pc[j] /\ tick'[j] = tick[j] /\ attempt'[j] = attempt[j]
            /\ timer'[j] = timer[j] /\ handled'[j] = handled[j] /\ disrupted \subseteq disrupted'
            /\ \A k \in Ticks : /\ created'[<<j, k>>] = created[<<j, k>>]
                                /\ lost'[<<j, k>>] = lost[<<j, k>>]
                                /\ late'[<<j, k>>] = late[<<j, k>>]
                                /\ <<j, k>> \in skipped' => <<j, k>> \in skipped
            /\ lock' = lock \/ lock'.owner # j
        BY <1>1, <3>2, Aside
      <4>2. /\ Punctual(j) /\ Held(j) /\ Counted(j)
            /\ Running(j) => tick[j] \in Ticks
        BY Facts
      <4>3. Punctual(j)'
        <5>1. \A k \in Ticks : <<j, k>> \in skipped' => k <= handled'[j]
          BY <4>1, <4>2 DEF Punctual
        <5> QED BY <4>1, <4>2, <5>1 DEF Punctual, Running, DueTime
      <4>4. Held(j)'
        BY <4>1, <4>2 DEF Held, Running, DueTime
      <4>5. Counted(j)'
        <5>1. \A k \in Ticks : Bounded(j, k)'
          BY <4>1, <4>2 DEF Counted, Bounded
        <5>2. CASE ~ Running(j)
          BY <4>1, <5>1, <5>2 DEF Counted, Bounded, Running
        <5>3. CASE Running(j)
          <6>1. /\ created'[<<j, tick[j]>>] = created[<<j, tick[j]>>]
                /\ lost'[<<j, tick[j]>>] = lost[<<j, tick[j]>>]
                /\ late'[<<j, tick[j]>>] = late[<<j, tick[j]>>]
            BY <4>1, <4>2, <5>3
          <6> QED BY <4>1, <4>2, <5>1, <6>1 DEF Counted, Bounded
        <5> QED BY <5>2, <5>3
      <4> QED BY <4>3, <4>4, <4>5
    <3> QED BY <3>1, <3>2
  <2>2. \A k \in Ticks : Served(k)'
    BY <1>1, StepServed
  <2> QED BY <1>1, <2>1, <2>2, StepType, StepOrigin DEF IInv
<1>2. CASE UNCHANGED vars
  <2>1. TypeOK'
    BY <1>2 DEF IInv, TypeOK, vars
  <2>2. \A i \in Instances : Punctual(i)' /\ Held(i)' /\ Counted(i)'
    BY <1>2 DEF IInv, Punctual, Held, Counted, Running, DueTime, vars
  <2>3. Origin'
    BY <1>2 DEF IInv, Origin, LockOf, DueTime, vars
  <2>4. \A k \in Ticks : Served(k)'
    BY <1>2 DEF IInv, Served, Fired, Running, vars
  <2> QED BY <2>1, <2>2, <2>3, <2>4 DEF IInv
<1> QED BY <1>1, <1>2, LateInv, PassInv DEF Next, InstanceStep, Over

LEMMA Invariant == Spec => []IInv
BY InitInv, NextInv, PTL DEF Spec

(* The clock, the timers, the lock and the counters keep their types.      *)
THEOREM TypeCorrect == Spec => []TypeOK
<1>1. IInv => TypeOK
  BY DEF IInv
<1> QED BY <1>1, Invariant, PTL

(* An instance that fires never finds a lock of an earlier tick, however   *)
(* long the run that set it takes, and whatever became of that run.        *)
THEOREM NextCycleAcquires == Spec => []NextCycleCanAcquire
<1>1. ASSUME IInv PROVE NextCycleCanAcquire
  <2> SUFFICES ASSUME NEW i \in Instances, Due(i), lock # Free
               PROVE  lock.ttl = LockTTL /\ handled[lock.owner] > handled[i]
    BY DEF NextCycleCanAcquire
  <2>1. lock.ttl = LockTTL /\ handled[lock.owner] >= handled[i] + 1 /\ lock.owner \in Instances
    BY <1>1, LockOfTick
  <2> QED BY <1>1, <2>1, Numbers
<1> QED BY <1>1, Invariant, PTL

(* No lock that a crash, a failed DEL or a run that outlives it leaves, and*)
(* no DEL of a run that outlived its own, costs a tick its execution.      *)
THEOREM TicksServed == Spec => []TickServed
<1>1. ASSUME IInv PROVE TickServed
  <2> SUFFICES ASSUME NEW k \in Ticks, now >= (k + 1) * Period, k \notin disrupted,
                      NEW i \in Instances, <<i, k>> \notin skipped
               PROVE  \E j \in Instances : created[<<j, k>>] > 0 \/ (pc[j] # "idle" /\ tick[j] = k)
    BY DEF TickServed
  <2>1. k \in Nat /\ DueTime(k) \in Nat /\ now \in Nat /\ k <= LastTick /\ DueTime(k) + Period <= now
    BY <1>1, Numbers, Times, Constants DEF Ticks, DueTime
  <2>2. handled[i] >= k
    <3>1. handled[i] \in Nat /\ handled[i] + 1 \in Nat
      BY <1>1, Numbers
    <3>2. ASSUME handled[i] < k PROVE now <= DueTime(handled[i] + 1) /\ DueTime(handled[i] + 1) <= DueTime(k)
      <4>1. handled[i] < LastTick /\ handled[i] + 1 <= k
        BY <2>1, <3>1, <3>2, Constants
      <4>2. Punctual(i)
        BY <1>1 DEF IInv
      <4> QED BY <2>1, <3>1, <4>1, <4>2, TimesOrdered DEF Punctual
    <3>3. DueTime(handled[i] + 1) \in Nat
      BY <3>1, Times
    <3> QED BY <2>1, <3>1, <3>2, <3>3, Constants
  <2> QED BY <1>1, <2>2 DEF IInv, Served, Fired, Running
<1> QED BY <1>1, Invariant, PTL

(* A retry duplicates an execution only when the answer was lost.          *)
THEOREM OncePerRun == Spec => []OncePerFiring
<1>1. ASSUME IInv PROVE OncePerFiring
  <2>1. \A i \in Instances : \A k \in Ticks : created[<<i, k>>] <= lost[<<i, k>>] + 1
    BY <1>1 DEF IInv, Counted
  <2> QED BY <2>1 DEF OncePerFiring
<1> QED BY <1>1, Invariant, PTL

----
(* The runs are what the lock promises. *)
RunningSet == {i \in Instances : pc[i] # "idle"}
SpentSet == {i \in Instances : Outlived(i)}
ExposedSet == {i \in Instances : pc[i] # "idle" /\ ~ Outlived(i) /\ lock.owner # i}

(* No run has begun for a tick that is not due, and a run that is spent    *)
(* when a tick is due is of an earlier one.                                *)
LEMMA NoLaterRun ==
  ASSUME IInv, NEW i \in Instances, NEW j \in Instances, Due(i)
  PROVE  tick[j] <= handled[i] + 1 /\ (Outlived(j) => tick[j] < handled[i] + 1)
<1>1. /\ tick[j] \in Nat /\ tick[j] <= handled[j] /\ DueTime(handled[j]) <= now
      /\ handled[j] \in Nat /\ handled[i] \in Nat /\ now \in Nat
  BY Facts DEF Punctual
<1>2. DueTime(handled[i] + 1) = now
  BY DueNow
<1>3. ASSUME handled[i] + 1 < handled[j] PROVE FALSE
  <2>1. DueTime(handled[i] + 1) + Period <= DueTime(handled[j])
    BY <1>1, <1>3, TimesOrdered
  <2>2. DueTime(handled[j]) \in Nat
    BY <1>1, Times
  <2> QED BY <1>1, <1>2, <2>1, <2>2, Constants
<1>4. ASSUME Outlived(j), tick[j] = handled[i] + 1 PROVE FALSE
  BY <1>1, <1>2, <1>4, Constants DEF Outlived, DueTime
<1> QED BY <1>1, <1>3, <1>4

(* What leaves the run, the lock and the clock alone.                      *)
LEMMA SetsStay ==
  ASSUME IInv, NEW i \in Instances, now' = now, tick' = tick, lock' = lock,
         \/ pc' = pc
         \/ \E l : l # "idle" /\ pc[i] # "idle" /\ pc' = [pc EXCEPT ![i] = l]
  PROVE  RunningSet' = RunningSet /\ SpentSet' = SpentSet /\ ExposedSet' = ExposedSet
<1>1. \A j \in Instances : Running(j)' <=> Running(j)
  BY DEF IInv, TypeOK, Running
<1> QED BY <1>1 DEF Running, RunningSet, SpentSet, ExposedSet, Outlived

LEMMA StepBegins ==
  ASSUME IInv, NEW i \in Instances, Acquire(i)
  PROVE  Runs!Next
<1>1. TypeOK
  BY DEF IInv
<1>2. PICK k \in Ticks : k = handled[i] + 1 /\ DueTime(k) = now
  BY DueNow DEF Acquire
<1>3. /\ Due(i) /\ lock = Free /\ lock' = Lock(i) /\ now' = now /\ pc[i] = "idle"
      /\ tick' = [tick EXCEPT ![i] = k] /\ pc' = [pc EXCEPT ![i] = "post"]
      /\ UNCHANGED <<created, lost, late>>
  BY <1>2 DEF Acquire, StartAttempt, Goto
<1>4. i \notin RunningSet /\ RunningSet' = RunningSet \union {i}
  BY <1>1, <1>3 DEF TypeOK, RunningSet
<1>5. RunningSet \subseteq SpentSet \union ExposedSet
  BY <1>3, Constants DEF RunningSet, SpentSet, ExposedSet, Outlived, Free
<1>6. /\ tick[i] < k /\ \A j \in Instances : tick[j] <= k
      /\ \A j \in SpentSet : tick[j] < k
  <2>1. tick[i] \in Nat /\ handled[i] \in Nat /\ tick[i] <= handled[i]
    BY Facts
  <2> QED BY <1>2, <1>3, <2>1, NoLaterRun DEF SpentSet
<1>7. SpentSet' = SpentSet /\ ExposedSet' = ExposedSet
  <2>1. ASSUME NEW j \in Instances, j # i
        PROVE  /\ Outlived(j)' <=> Outlived(j)
               /\ pc'[j] = pc[j] /\ lock.owner # j /\ lock'.owner # j
    <3>1. pc'[j] = pc[j] /\ tick'[j] = tick[j]
      BY <1>1, <1>3, <2>1 DEF TypeOK
    <3> QED BY <1>3, <2>1, <3>1, Constants DEF Outlived, Free, Lock
  <2>2. ~ Outlived(i) /\ pc[i] = "idle" /\ ~ Outlived(i)'
    <3>1. tick'[i] = k
      BY <1>1, <1>3 DEF TypeOK
    <3>2. ~ now >= DueTime(k) + LockTTL
      BY <1>2, Numbers, Constants
    <3> QED BY <1>3, <3>1, <3>2 DEF Outlived, DueTime
  <2>3. lock'.owner = i
    BY <1>3 DEF Lock
  <2> QED BY <2>1, <2>2, <2>3 DEF SpentSet, ExposedSet, Outlived
<1>8. Runs!Begin(i, k)
  BY <1>3, <1>4, <1>5, <1>6, <1>7 DEF Runs!Begin, RunningSet, SpentSet, ExposedSet, Outlived
<1> QED BY <1>8 DEF Runs!Next

LEMMA StepEnds ==
  ASSUME IInv, NEW i \in Instances, Release(i) \/ Crash(i)
  PROVE  Runs!Next
<1>1. TypeOK
  BY DEF IInv
<1>2. /\ pc[i] # "idle" /\ pc' = [pc EXCEPT ![i] = "idle"] /\ now' = now
      /\ UNCHANGED <<tick, created, lost>>
      /\ late' = late \/ Unanswered(i)
      /\ lock' = lock \/ lock' = Free
  BY DEF Release, Crash, Goto
<1>3. i \in RunningSet /\ RunningSet' = RunningSet \ {i} /\ SpentSet' = SpentSet \ {i}
  BY <1>1, <1>2 DEF TypeOK, RunningSet, SpentSet, Outlived
<1>4. \/ ExposedSet' = ExposedSet \ {i}
      \/ i \in SpentSet \union ExposedSet /\ ExposedSet' = (RunningSet \ SpentSet) \ {i}
  <2>1. CASE lock' = lock
    BY <1>1, <1>2, <2>1 DEF TypeOK, ExposedSet, Outlived
  <2>2. CASE lock' = Free
    <3>1. ExposedSet' = (RunningSet \ SpentSet) \ {i}
      BY <1>1, <1>2, <2>2, Constants DEF TypeOK, ExposedSet, RunningSet, SpentSet, Outlived, Free
    <3>2. CASE i \in SpentSet \union ExposedSet
      BY <3>1, <3>2
    <3>3. CASE i \notin SpentSet \union ExposedSet
      <4>1. lock.owner = i
        BY <1>2, <3>3 DEF SpentSet, ExposedSet
      <4>2. (RunningSet \ SpentSet) \ {i} = ExposedSet \ {i}
        BY <4>1 DEF RunningSet, SpentSet, ExposedSet, Outlived
      <4> QED BY <3>1, <4>2
    <3> QED BY <3>2, <3>3
  <2> QED BY <1>2, <2>1, <2>2
<1>5. Runs!End(i)
  BY <1>2, <1>3, <1>4 DEF Runs!End, Runs!Current, Unanswered, RunningSet, SpentSet, ExposedSet, Outlived
<1> QED BY <1>5 DEF Runs!Next

LEMMA StepRuns ==
  ASSUME IInv, NEW i \in Instances, InstanceStep(i)
  PROVE  [Runs!Next]_(Runs!vars)
<1>1. TypeOK
  BY DEF IInv
<1>2. ASSUME RunningSet' = RunningSet, SpentSet' = SpentSet, ExposedSet' = ExposedSet,
             UNCHANGED <<tick, created, lost, late>>
      PROVE  UNCHANGED Runs!vars
  BY <1>2 DEF Runs!vars, RunningSet, SpentSet, ExposedSet, Outlived
<1>3. CASE LockNotAcquired(i) \/ SkipRun(i)
  <2>1. now' = now /\ lock' = lock /\ pc' = pc /\ UNCHANGED <<tick, created, lost, late>>
    BY <1>3 DEF LockNotAcquired, SkipRun
  <2> QED BY <1>2, <2>1, SetsStay
<1>4. CASE AcquireRaises(i)
  <2>1. /\ now' = now /\ pc' = pc /\ UNCHANGED <<tick, created, lost, late>> /\ pc[i] = "idle"
        /\ lock' = lock \/ (lock = Free /\ lock' = Lock(i))
    BY <1>4 DEF AcquireRaises
  <2>2. CASE lock' = lock
    BY <1>2, <2>1, <2>2, SetsStay
  <2>3. CASE lock = Free /\ lock' = Lock(i)
    <3>1. lock.owner = NoOwner /\ lock'.owner = i
      BY <2>3 DEF Free, Lock
    <3>2. RunningSet' = RunningSet /\ SpentSet' = SpentSet
      BY <2>1 DEF RunningSet, SpentSet, Outlived
    <3>3. ExposedSet' = ExposedSet
      BY <2>1, <3>1, Constants DEF ExposedSet, Outlived
    <3> QED BY <1>2, <2>1, <3>2, <3>3
  <2> QED BY <2>1, <2>2, <2>3
<1>5. CASE PostCreates(i)
  <2>1. /\ RunningSet' = RunningSet /\ SpentSet' = SpentSet /\ ExposedSet' = ExposedSet
        /\ i \in RunningSet /\ UNCHANGED <<tick, lost, late>>
    BY <1>5, SetsStay DEF PostCreates, Goto, RunningSet
  <2>2. created[<<i, tick[i]>>] = lost[<<i, tick[i]>>]
    BY <1>5, Facts DEF PostCreates, Counted
  <2>3. Runs!Create(i)
    BY <1>5, <2>1, <2>2 DEF PostCreates, Runs!Create, Runs!Current, RunningSet, SpentSet, ExposedSet, Outlived
  <2> QED BY <2>3 DEF Runs!Next
<1>6. CASE PostReturns(i) \/ Retry(i)
  <2>1. /\ RunningSet' = RunningSet /\ SpentSet' = SpentSet /\ ExposedSet' = ExposedSet
        /\ UNCHANGED <<tick, created, lost, late>>
    BY <1>6, SetsStay DEF PostReturns, Retry, StartAttempt, Goto
  <2> QED BY <1>2, <2>1
<1>7. ASSUME Posting(i), AttemptFailed(i), UNCHANGED <<now, tick, lock>>
      PROVE  /\ RunningSet' = RunningSet /\ SpentSet' = SpentSet /\ ExposedSet' = ExposedSet
             /\ i \in RunningSet
  <2>1. \E l : l # "idle" /\ pc[i] # "idle" /\ pc' = [pc EXCEPT ![i] = l]
    BY <1>7, Failed DEF Posting
  <2> QED BY <1>7, <2>1, SetsStay DEF RunningSet
<1>8. CASE PostFails(i)
  <2>1. /\ RunningSet' = RunningSet /\ SpentSet' = SpentSet /\ ExposedSet' = ExposedSet
        /\ i \in RunningSet /\ UNCHANGED <<tick, created, lost>>
    BY <1>7, <1>8 DEF PostFails, Posting
  <2>2. CASE late' = late
    BY <1>2, <2>1, <2>2
  <2>3. CASE Unanswered(i)
    <3>1. Runs!GiveUp(i)
      BY <2>1, <2>3 DEF Unanswered, Runs!GiveUp, Runs!Current, RunningSet, SpentSet, ExposedSet, Outlived
    <3> QED BY <3>1 DEF Runs!Next
  <2> QED BY <1>8, <2>2, <2>3 DEF PostFails
<1>9. CASE ResponseLost(i)
  <2>1. /\ RunningSet' = RunningSet /\ SpentSet' = SpentSet /\ ExposedSet' = ExposedSet
        /\ i \in RunningSet /\ UNCHANGED <<tick, created, late>>
    BY <1>7, <1>9 DEF ResponseLost, Posting
  <2>2. lost[<<i, tick[i]>>] < created[<<i, tick[i]>>]
    <3>1. Running(i) /\ created[<<i, tick[i]>>] = lost[<<i, tick[i]>>] + 1
      BY <1>9, Facts DEF ResponseLost, Running, Counted
    <3> QED BY <3>1, Facts
  <2>3. Runs!Lose(i)
    BY <1>9, <2>1, <2>2 DEF ResponseLost, Runs!Lose, Runs!Current, RunningSet, SpentSet, ExposedSet, Outlived
  <2> QED BY <2>3 DEF Runs!Next
<1> QED BY <1>3, <1>4, <1>5, <1>6, <1>8, <1>9, StepBegins, StepEnds DEF InstanceStep

(* Time passes: the runs whose lock is over are spent.                     *)
LEMMA PassRuns ==
  ASSUME IInv, Pass
  PROVE  Runs!Next
<1> DEFINE S == SpentSet' \ SpentSet
<1>1. UNCHANGED <<pc, tick, created, lost, late>> /\ now' = now + 1 /\ now \in Nat
  BY Numbers DEF Pass
<1>2. ASSUME NEW i \in Instances
      PROVE  /\ i \in SpentSet => i \in SpentSet'
             /\ Running(i) /\ i \notin SpentSet' => (lock'.owner = i <=> lock.owner = i)
  <2>1. tick[i] \in Nat /\ DueTime(tick[i]) \in Nat /\ lock.ttl \in Nat
    BY Facts, Times
  <2>2. i \in SpentSet => i \in SpentSet'
    BY <1>1, <2>1, Constants DEF SpentSet, Outlived, DueTime
  <2>3. ASSUME Running(i), i \notin SpentSet', lock.owner = i PROVE lock'.owner = i
    <3>1. lock.ttl + now = LockTTL + DueTime(tick[i])
      BY <2>3, Facts DEF Held
    <3>2. ~ now + 1 >= DueTime(tick[i]) + LockTTL
      BY <1>1, <2>3 DEF SpentSet, Outlived, Running, DueTime
    <3>3. lock.ttl > 1
      BY <1>1, <2>1, <3>1, <3>2, Constants
    <3>4. lock = [owner |-> lock.owner, ttl |-> lock.ttl]
      BY Facts
    <3> QED BY <2>3, <3>3, <3>4 DEF Pass
  <2>4. lock'.owner = i => lock.owner = i
    <3>1. lock = [owner |-> lock.owner, ttl |-> lock.ttl]
      BY Facts
    <3> QED BY <3>1, Constants DEF Pass, Free
  <2> QED BY <2>2, <2>3, <2>4
<1>3. RunningSet' = RunningSet /\ SpentSet' = SpentSet \union S /\ S \subseteq RunningSet \ SpentSet
  <2>1. SpentSet \subseteq SpentSet'
    BY <1>2 DEF SpentSet, Outlived
  <2>2. RunningSet' = RunningSet /\ SpentSet' \subseteq RunningSet
    BY <1>1 DEF RunningSet, SpentSet, Outlived
  <2> QED BY <2>1, <2>2
<1>4. ExposedSet' = ExposedSet \ S
  <2>1. \A i \in Instances : i \in ExposedSet' <=> i \in ExposedSet /\ i \notin SpentSet'
    <3> TAKE i \in Instances
    <3>1. pc'[i] = pc[i]
      BY <1>1
    <3> QED BY <1>2, <3>1 DEF ExposedSet, SpentSet, Running, Outlived
  <2>2. ExposedSet \subseteq Instances /\ ExposedSet' \subseteq Instances /\ ExposedSet \cap SpentSet = {}
    BY DEF ExposedSet, SpentSet, Outlived
  <2> QED BY <2>1, <2>2
<1>5. Runs!Outlive(S) /\ S \in SUBSET (RunningSet \ SpentSet)
  BY <1>1, <1>3, <1>4 DEF Runs!Outlive, RunningSet, SpentSet, ExposedSet, Outlived
<1> HIDE DEF S
<1> QED BY <1>5 DEF Runs!Next, Runs!Outlive, RunningSet, SpentSet, Outlived

LEMMA NextRuns == IInv /\ [Next]_vars => [Runs!Next]_(Runs!vars)
<1> SUFFICES ASSUME IInv, [Next]_vars PROVE [Runs!Next]_(Runs!vars)
  OBVIOUS
<1>1. CASE UNCHANGED vars
  BY <1>1 DEF vars, Runs!vars, Outlived
<1>2. ASSUME NEW c \in Instances \X Ticks, ServeLate(c) PROVE Runs!Next
  <2>1. Runs!ServeLate(c)
    BY <1>2 DEF ServeLate, Runs!ServeLate, Outlived
  <2> QED BY <2>1 DEF Runs!Next
<1> QED BY <1>1, <1>2, StepRuns, PassRuns DEF Next, InstanceStep, Over

(* Under any interleaving and any failures, and however long the attempts  *)
(* take: the instances' runs of a job never go back to an earlier tick,    *)
(* overlap only through a run that outlived its lock, and create a second  *)
(* execution only after losing the answer about the first.                 *)
THEOREM RunsKeepToLock == Spec => RunsSpec
<1>1. Init => Runs!Init
  BY DEF Init, Runs!Init, Outlived
<1> QED BY <1>1, NextRuns, Invariant, PTL DEF Spec, RunsSpec, Runs!Spec

====
