---- MODULE RoomBroadcast ----
(***************************************************************************)
(* What the websocket service promises to clients.  Events are passed one  *)
(* by one in the order they were published and none a second time; the     *)
(* one that is passed is seen by the members its room has at that moment,  *)
(* and by nobody else.  An event that fails to reach all of them, or       *)
(* nobody at all, is missed for good.  A room admits clients of the        *)
(* execution's tenant only.  Which events are missed is not promised here. *)
(***************************************************************************)
EXTENDS Integers, Sequences

CONSTANTS Executions, Clients, TenantOf

VARIABLES
  published,  \* the executions of the events
  passed,     \* the number of events that were passed
  members,    \* execution -> the clients in its room
  seen,       \* client -> the events it saw, in order
  missed      \* events that members of their room may not have seen

vars == <<published, passed, members, seen, missed>>

Empty == [e \in Executions |-> {}]

Init ==
  /\ published = <<>> /\ passed = 0
  /\ members = Empty
  /\ seen = [c \in Clients |-> <<>>]
  /\ missed = {}

Publish(e) ==
  /\ published' = Append(published, e)
  /\ UNCHANGED <<passed, members, seen, missed>>

ShowTo(some) ==
  seen' = [c \in Clients |-> IF c \in some THEN Append(seen[c], passed + 1) ELSE seen[c]]

Room == members[published[passed + 1]]

(* The next event reaches its room, or only a part of it. *)
Deliver ==
  /\ passed < Len(published)
  /\ passed' = passed + 1
  /\ \/ ShowTo(Room) /\ UNCHANGED missed
     \/ /\ \E some \in SUBSET Room : ShowTo(some)
        /\ missed' = missed \union {passed + 1}
  /\ UNCHANGED <<published, members>>

(* Some events reach nobody; the rooms may be closed with them. *)
PassOver ==
  /\ \E n \in passed..Len(published) :
       passed' = n /\ missed' = missed \union passed + 1..n
  /\ members' \in {members, Empty}
  /\ UNCHANGED <<published, seen>>

Admit(c, e) ==
  /\ TenantOf[e] = TenantOf[c]
  /\ members' = [members EXCEPT ![e] = @ \union {c}]
  /\ UNCHANGED <<published, passed, seen, missed>>

(* A client leaves some rooms. *)
Depart(c, rooms) ==
  /\ members' = [e \in Executions |-> IF e \in rooms THEN members[e] \ {c} ELSE members[e]]
  /\ UNCHANGED <<published, passed, seen, missed>>

Next ==
  \/ \E e \in Executions : Publish(e)
  \/ Deliver \/ PassOver
  \/ \E c \in Clients : \/ \E e \in Executions : Admit(c, e)
                        \/ \E rooms \in SUBSET Executions : Depart(c, rooms)

Spec == Init /\ [][Next]_vars

====
