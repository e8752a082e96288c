---- MODULE StatusDelivery ----
(***************************************************************************)
(* The websocket service: status events of executions travel from the      *)
(* stream execution.status.changed to the clients in the room of the       *)
(* execution.  One process runs, on one event loop,                        *)
(*   - StatusConsumer: create the group, then read a batch, and emit and   *)
(*     acknowledge its entries one by one;                                 *)
(*   - the Socket.IO handlers connect, disconnect, join_execution and      *)
(*     leave_execution; a join awaits the database before it enters the    *)
(*     room, and other handlers, leave_execution of the same client        *)
(*     included, run in the meantime.                                      *)
(* Entries are known by their place in the stream.                         *)
(***************************************************************************)
EXTENDS Integers, Sequences, FiniteSets, RedisStream

CONSTANTS
  Executions,  \* executions whose status is published
  Clients,     \* users, who may connect again and again
  TenantOf,    \* of executions and, by their token, of clients
  ReadCount,   \* COUNT of XREADGROUP (10 in the code)
  MaxEvents,   \* bound: events ever published
  Faults,      \* the kinds of failure that may happen
  MaxFaults    \* bound: failures that happen in a behaviour

FaultKinds == {"createGroup", "read", "emit", "ack", "database", "crash"}

ASSUME DeliveryAssumption ==
  /\ Executions \union Clients \subseteq DOMAIN TenantOf
  /\ ReadCount \in Nat \ {0} /\ MaxEvents \in Nat /\ MaxFaults \in Nat
  /\ Faults \subseteq FaultKinds

VARIABLES
  stream,   \* the executions of the entries of execution.status.changed
  group,    \* its consumer group "websocket-service"
  created,  \* whether the group exists
  pc,       \* the consumer: in xgroup_create, in its loop, or in XACK
  online,   \* clients with a connection
  joining,  \* <<client, execution>> whose join awaits the database
  rooms,    \* execution -> the clients in its room
  since,    \* execution -> the clients it admitted -> the entries passed then
  shown,    \* client -> the entries emitted to it, in order
  missed,   \* entries the consumer passed over or lost
  faults

vars == <<stream, group, created, pc, online, joining, rooms, since, shown, missed, faults>>
consumerVars == <<group, created, pc, shown, missed>>
clientVars   == <<online, joining, rooms, since>>

Entries == 1..MaxEvents

Init ==
  /\ stream = <<>> /\ group = NewGroup /\ created = FALSE
  /\ pc = "create"
  /\ online = {} /\ joining = {}
  /\ rooms = [e \in Executions |-> {}] /\ since = [e \in Executions |-> <<>>]
  /\ shown = [c \in Clients |-> <<>>]
  /\ missed = {}
  /\ faults = 0

FailBy(kind) ==
  /\ kind \in Faults /\ faults < MaxFaults
  /\ faults' = faults + 1

(* The entries whose emission is over, and those of the batch in hand      *)
(* whose emission is not.                                                  *)
Passed == IF pc = "ack" THEN InHand(group) ELSE group.pos
Unemitted(g) == (Passed + 1)..g.last

Without(room, c) == [m \in DOMAIN room \ {c} |-> room[m]]

----
(* The platform publishes a status change of an execution. *)
Publish(e) ==
  /\ Len(stream) < MaxEvents
  /\ stream' = Append(stream, e)
  /\ UNCHANGED <<consumerVars, clientVars, faults>>

(* XGROUP CREATE id="$": the group starts at the end of the stream; an     *)
(* existing one stays as it is.                                            *)
CreateGroup ==
  /\ pc = "create"
  /\ created' = TRUE
  /\ IF created
     THEN UNCHANGED <<group, missed>>
     ELSE /\ group' = [last |-> Len(stream), pos |-> Len(stream)]
          /\ missed' = missed \union 1..Len(stream)
  /\ pc' = "loop"
  /\ UNCHANGED <<stream, shown, clientVars, faults>>

(* "except Exception: pass", whatever the exception was. *)
CreateGroupRaises ==
  /\ pc = "create"
  /\ FailBy("createGroup")
  /\ pc' = "loop"
  /\ UNCHANGED <<stream, group, created, shown, missed, clientVars>>

(* A batch.  Without a group XREADGROUP raises and the loop comes back.    *)
Read ==
  /\ pc = "loop" /\ created /\ CanRead(group, stream)
  /\ group' = XReadGroup(group, stream, ReadCount)
  /\ UNCHANGED <<stream, created, pc, shown, missed, clientVars, faults>>

(* The reply is lost: Redis has delivered a batch that nobody holds.       *)
ReadRaises ==
  /\ pc = "loop" /\ created /\ CanRead(group, stream)
  /\ FailBy("read")
  /\ LET g == XReadGroup(group, stream, ReadCount) IN
       group' = DropBatch(g) /\ missed' = missed \union Unemitted(g)
  /\ UNCHANGED <<stream, created, pc, shown, clientVars>>

Show(i, members) ==
  shown' = [c \in Clients |-> IF c \in members THEN Append(shown[c], i) ELSE shown[c]]

(* sio.emit to the room of the entry's execution. *)
Emit ==
  /\ pc = "loop" /\ ~ Drained(group)
  /\ Show(InHand(group), rooms[stream[InHand(group)]])
  /\ pc' = "ack"
  /\ UNCHANGED <<stream, group, created, missed, clientVars, faults>>

(* A bad entry, or an emission that reached some of the room: logged.      *)
EmitRaises ==
  /\ pc = "loop" /\ ~ Drained(group)
  /\ FailBy("emit")
  /\ \E members \in SUBSET rooms[stream[InHand(group)]] : Show(InHand(group), members)
  /\ missed' = missed \union {InHand(group)}
  /\ pc' = "ack"
  /\ UNCHANGED <<stream, group, created, clientVars>>

Ack ==
  /\ pc = "ack"
  /\ group' = Advance(group) /\ pc' = "loop"
  /\ UNCHANGED <<stream, created, shown, missed, clientVars, faults>>

AckRaisesRetries ==  \* mutant: the entry in hand is processed again
  /\ pc = "ack"
  /\ FailBy("ack")
  /\ pc' = "loop"
  /\ UNCHANGED <<stream, group, created, shown, missed, clientVars>>

AckRaisesStops ==  \* mutant: the loop ends on any exception
  /\ pc = "ack"
  /\ FailBy("ack")
  /\ group' = DropBatch(group) /\ missed' = missed \union Unemitted(group)
  /\ pc' = "stopped"
  /\ UNCHANGED <<stream, created, shown, clientVars>>

(* XACK raises out of the finally clause: the rest of the batch is lost.   *)
AckRaises ==
  /\ pc = "ack"
  /\ FailBy("ack")
  /\ group' = DropBatch(group) /\ missed' = missed \union Unemitted(group)
  /\ pc' = "loop"
  /\ UNCHANGED <<stream, created, shown, clientVars>>

----
(* connect with a valid token. *)
Connect(c) ==
  /\ c \notin online
  /\ online' = online \union {c}
  /\ UNCHANGED <<stream, consumerVars, joining, rooms, since, faults>>

DisconnectKeepsJoins(c) ==  \* mutant: a join outlives its connection
  /\ c \in online
  /\ online' = online \ {c}
  /\ rooms' = [e \in Executions |-> rooms[e] \ {c}]
  /\ since' = [e \in Executions |-> Without(since[e], c)]
  /\ UNCHANGED <<stream, consumerVars, joining, faults>>

(* Socket.IO takes a closed connection out of its rooms; its joins that    *)
(* come back later find no connection to enter a room with.                *)
Disconnect(c) ==
  /\ c \in online
  /\ online' = online \ {c}
  /\ rooms' = [e \in Executions |-> rooms[e] \ {c}]
  /\ since' = [e \in Executions |-> Without(since[e], c)]
  /\ joining' = {j \in joining : j[1] # c}
  /\ UNCHANGED <<stream, consumerVars, faults>>

(* join_execution up to the query.  Bound: one join of a client and room   *)
(* at a time.                                                              *)
RequestJoin(c, e) ==
  /\ c \in online /\ <<c, e>> \notin joining
  /\ joining' = joining \union {<<c, e>>}
  /\ UNCHANGED <<stream, consumerVars, online, rooms, since, faults>>

EnterRoom(c, e) ==
  /\ rooms' = [rooms EXCEPT ![e] = @ \union {c}]
  /\ since' = [since EXCEPT ![e] =
                 [m \in DOMAIN @ \union {c} |-> IF m \in DOMAIN @ THEN @[m] ELSE Passed]]

(* The query returns the client's own tenant: sio.enter_room. *)
JoinReturns(c, e) ==
  /\ <<c, e>> \in joining
  /\ TenantOf[e] = TenantOf[c]
  /\ joining' = joining \ {<<c, e>>}
  /\ EnterRoom(c, e)
  /\ UNCHANGED <<stream, consumerVars, online, faults>>

(* Another tenant's execution, or the query raises. *)
JoinRefused(c, e) ==
  /\ <<c, e>> \in joining
  /\ \/ TenantOf[e] # TenantOf[c] /\ UNCHANGED faults
     \/ FailBy("database")
  /\ joining' = joining \ {<<c, e>>}
  /\ UNCHANGED <<stream, consumerVars, online, rooms, since>>

LeaveClosesRoom(c, e) ==  \* mutant: close_room instead of leave_room
  /\ c \in online
  /\ rooms' = [rooms EXCEPT ![e] = {}]
  /\ since' = [since EXCEPT ![e] = Without(@, c)]
  /\ UNCHANGED <<stream, consumerVars, online, joining, faults>>

(* leave_execution; a join of the room under way is not affected. *)
Leave(c, e) ==
  /\ c \in online
  /\ rooms' = [rooms EXCEPT ![e] = @ \ {c}]
  /\ since' = [since EXCEPT ![e] = Without(@, c)]
  /\ UNCHANGED <<stream, consumerVars, online, joining, faults>>

(* The process dies: connections and the batch in hand are gone. *)
Crash ==
  /\ FailBy("crash")
  /\ group' = DropBatch(group) /\ missed' = missed \union Unemitted(group)
  /\ pc' = "create"
  /\ online' = {} /\ joining' = {}
  /\ rooms' = [e \in Executions |-> {}] /\ since' = [e \in Executions |-> <<>>]
  /\ UNCHANGED <<stream, created, shown>>

----
Consumer ==
  \/ CreateGroup \/ CreateGroupRaises \/ Read \/ ReadRaises
  \/ Emit \/ EmitRaises \/ Ack \/ AckRaises

Next ==
  \/ \E e \in Executions : Publish(e)
  \/ Consumer
  \/ \E c \in Clients : Connect(c) \/ Disconnect(c)
  \/ \E c \in Clients, e \in Executions :
       RequestJoin(c, e) \/ JoinReturns(c, e) \/ JoinRefused(c, e) \/ Leave(c, e)
  \/ Crash

(* The event loop keeps serving the consumer; nothing is assumed of the    *)
(* clients, nor of what is published.                                      *)
Spec == Init /\ [][Next]_vars /\ WF_vars(Consumer)

----
TypeOK ==
  /\ stream \in Seq(Executions) /\ Len(stream) <= MaxEvents
  /\ group \in GroupsUpTo(Len(stream))
  /\ created \in BOOLEAN
  /\ pc \in {"create", "loop", "ack"}
  /\ online \subseteq Clients
  /\ joining \subseteq Clients \X Executions
  /\ rooms \in [Executions -> SUBSET Clients]
  /\ DOMAIN since = Executions
  /\ \A e \in Executions : DOMAIN since[e] \subseteq Clients /\ since[e] \in [DOMAIN since[e] -> Nat]
  /\ shown \in [Clients -> Seq(Nat \ {0})]
  /\ missed \subseteq Nat
  /\ faults \in 0..MaxFaults

(* A client sees an event at most once, and events in the order they were  *)
(* published, over all its connections, restarts of the service included:  *)
(* "at-most-once delivery" (_process).                                     *)
ShownOnceInOrder ==
  \A c \in Clients : \A i, j \in DOMAIN shown[c] : i < j => shown[c][i] < shown[c][j]

(* The members of a room are connected and of the execution's tenant,      *)
(* however long the joins waited for the database, and only such members   *)
(* were shown its events.                                                  *)
RoomsAreTenants ==
  /\ \A e \in Executions : \A c \in rooms[e] : c \in online /\ TenantOf[e] = TenantOf[c]
  /\ \A c \in Clients : \A i \in DOMAIN shown[c] : TenantOf[stream[shown[c][i]]] = TenantOf[c]

(* A client that has been in a room since some point has seen every event  *)
(* of the execution emitted from that point on, but those that a failure   *)
(* made the consumer pass over: no leave, join or restart of others costs  *)
(* it one.                                                                 *)
MemberSeesAll ==
  \A e \in Executions : \A c \in DOMAIN since[e] : \A i \in since[e][c] + 1..Passed :
    stream[i] = e /\ i \notin missed => \E k \in DOMAIN shown[c] : shown[c][k] = i

(* Once the group exists every event is emitted, or passed over because of *)
(* a failure, in the end: no failure ends the loop.  With MemberSeesAll,   *)
(* an event reaches each client that stays in the room, or is in missed.   *)
EveryEventPassed ==
  \A i \in Entries : (created /\ i \in DOMAIN stream) ~> (Passed >= i)

(* The service implements the broadcast its clients see.                   *)
Broadcast == INSTANCE RoomBroadcast WITH
  published <- stream,
  passed    <- Passed,
  members   <- rooms,
  seen      <- shown
BroadcastSpec == Broadcast!Spec

====
