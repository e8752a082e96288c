---- MODULE ScheduledRuns ----
(***************************************************************************)
(* What a lock with a time to live promises those who serve a schedule.    *)
(* A run begins for a tick no earlier than any before it, and only when    *)
(* every run under way is spent, having outlived its lock, or exposed, its *)
(* lock having been deleted by a run that was spent or exposed itself: if  *)
(* no run is ever spent, runs take turns.  A run creates an execution for  *)
(* its tick, and another only if it got no answer about the last; requests *)
(* it gave up may still be served, at any time.  Which ticks are run is    *)
(* not promised here, nor that two instances do not run the same one.      *)
(***************************************************************************)
EXTENDS Integers

CONSTANTS Instances, Ticks

VARIABLES running,  \* the instances in a run
          spent,    \* those of them whose run has outlived its lock
          exposed,  \* the others of them whose lock is gone
          last,     \* instance -> the tick it ran last
          made,     \* <<instance, tick>> -> executions created
          lost,     \* <<instance, tick>> -> answers lost
          late      \* <<instance, tick>> -> requests given up, still to be served

vars == <<running, spent, exposed, last, made, lost, late>>

Init ==
  /\ running = {} /\ spent = {} /\ exposed = {}
  /\ last = [i \in Instances |-> 0]
  /\ made = [c \in Instances \X Ticks |-> 0]
  /\ lost = made /\ late = made

Begin(i, k) ==
  /\ i \notin running /\ running \subseteq spent \union exposed
  /\ last[i] < k /\ \A j \in Instances : last[j] <= k
  /\ \A j \in spent : last[j] < k
  /\ running' = running \union {i} /\ last' = [last EXCEPT ![i] = k]
  /\ UNCHANGED <<spent, exposed, made, lost, late>>

Current(i) == <<i, last[i]>>

Create(i) ==
  /\ i \in running /\ made[Current(i)] = lost[Current(i)]
  /\ made' = [made EXCEPT ![Current(i)] = @ + 1]
  /\ UNCHANGED <<running, spent, exposed, last, lost, late>>

Lose(i) ==
  /\ i \in running /\ lost[Current(i)] < made[Current(i)]
  /\ lost' = [lost EXCEPT ![Current(i)] = @ + 1]
  /\ UNCHANGED <<running, spent, exposed, last, made, late>>

GiveUp(i) ==
  /\ i \in running
  /\ late' = [late EXCEPT ![Current(i)] = @ + 1]
  /\ UNCHANGED <<running, spent, exposed, last, made, lost>>

ServeLate(c) ==
  /\ late[c] > 0
  /\ late' = [late EXCEPT ![c] = @ - 1]
  /\ made' = [made EXCEPT ![c] = @ + 1] /\ lost' = [lost EXCEPT ![c] = @ + 1]
  /\ UNCHANGED <<running, spent, exposed, last>>

(* The time to live of some locks is over. *)
Outlive(S) ==
  /\ spent' = spent \union S /\ exposed' = exposed \ S
  /\ UNCHANGED <<running, last, made, lost, late>>

(* A run deletes the lock, its own or another's, or dies without doing so. *)
End(i) ==
  /\ i \in running
  /\ running' = running \ {i} /\ spent' = spent \ {i}
  /\ \/ exposed' = exposed \ {i}
     \/ i \in spent \union exposed /\ exposed' = (running \ spent) \ {i}
  /\ late' = late \/ late' = [late EXCEPT ![Current(i)] = @ + 1]
  /\ UNCHANGED <<last, made, lost>>

Next ==
  \/ \E i \in Instances :
       \/ \E k \in Ticks : Begin(i, k)
       \/ Create(i) \/ Lose(i) \/ GiveUp(i) \/ End(i)
  \/ \E c \in Instances \X Ticks : ServeLate(c)
  \/ \E S \in SUBSET (running \ spent) : Outlive(S)

Spec == Init /\ [][Next]_vars

====
