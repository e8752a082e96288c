---- MODULE StatusDelivery_proofs ----
(***************************************************************************)
(* Proofs about StatusDelivery, for any clients, executions and tenants,   *)
(* any batch size, and any number of events and failures.                  *)
(***************************************************************************)
EXTENDS StatusDelivery, RedisStream_proofs, TLAPS

TypeInv == TypeOK /\ (pc = "ack" => ~ Drained(group))

(* The consumer passes over entries and shows none: what a step that does  *)
(* not emit may do.                                                        *)
PassesOver ==
  /\ UNCHANGED <<stream, shown>> /\ Passed' >= Passed
  /\ missed \subseteq missed' /\ Passed + 1..Passed' \subseteq missed'

(* The entry in hand is shown to members, to all of them or it is missed. *)
Emits ==
  /\ UNCHANGED <<stream, clientVars>> /\ Passed' = Passed + 1 /\ missed \subseteq missed'
  /\ InHand(group) = Passed + 1
  /\ \E members \in SUBSET rooms[stream[InHand(group)]] :
       /\ Show(InHand(group), members)
       /\ members = rooms[stream[InHand(group)]] \/ InHand(group) \in missed'

LEMMA GroupFacts ==
  ASSUME TypeInv
  PROVE  /\ group \in GroupsUpTo(Len(stream)) /\ Len(stream) \in Nat /\ stream \in Seq(Executions)
         /\ group.pos \in Nat /\ group.last \in Nat /\ group.pos <= group.last
         /\ group.last <= Len(stream)
         /\ Passed \in Nat /\ Passed <= group.last
         /\ InHand(group) \in Nat \ {0} /\ InHand(group) = group.pos + 1
BY DEF TypeInv, TypeOK, GroupsUpTo, Passed, InHand, Drained

----
(* Types. *)
LEMMA NobodyIn == DOMAIN <<>> = {} /\ <<>> \in [{} -> Nat]
OBVIOUS

LEMMA InitType == Init => TypeInv
<1> SUFFICES ASSUME Init PROVE TypeInv
  OBVIOUS
<1>1. MaxEvents \in Nat /\ MaxFaults \in Nat
  BY DeliveryAssumption
<1>2. stream \in Seq(Executions) /\ Len(stream) = 0 /\ shown \in [Clients -> Seq(Nat \ {0})]
  BY DEF Init
<1>3. group \in GroupsUpTo(Len(stream))
  BY <1>2 DEF Init, NewGroup, GroupsUpTo
<1>4. \A e \in Executions : DOMAIN since[e] = {} /\ since[e] \in [{} -> Nat]
  BY NobodyIn DEF Init
<1>5. \A e \in Executions : DOMAIN since[e] \subseteq Clients /\ since[e] \in [DOMAIN since[e] -> Nat]
  BY <1>4
<1>6. /\ pc = "create" /\ created \in BOOLEAN /\ online \subseteq Clients /\ missed \subseteq Nat
      /\ joining \subseteq Clients \X Executions /\ DOMAIN since = Executions
      /\ rooms \in [Executions -> SUBSET Clients]
  BY DEF Init
<1>7. Len(stream) <= MaxEvents /\ faults \in 0..MaxFaults
  BY <1>1, <1>2 DEF Init
<1> QED
  BY <1>2, <1>3, <1>5, <1>6, <1>7 DEF TypeInv, TypeOK

LEMMA FailByType ==
  ASSUME TypeOK, NEW kind, FailBy(kind)
  PROVE  faults' \in 0..MaxFaults
BY DeliveryAssumption DEF TypeOK, FailBy

LEMMA ReadGroups ==
  ASSUME TypeInv, CanRead(group, stream), NEW g, g = XReadGroup(group, stream, ReadCount)
  PROVE  /\ g \in GroupsUpTo(Len(stream)) /\ g.pos = group.pos /\ ~ Drained(g)
         /\ DropBatch(g) \in GroupsUpTo(Len(stream))
         /\ DropBatch(g).pos = g.last /\ g.last \in Nat /\ g.last > group.pos
<1>0. ReadCount \in Nat \ {0}
  BY DeliveryAssumption
<1>1. g \in GroupsUpTo(Len(stream)) /\ g.pos = group.pos /\ ~ Drained(g)
  BY <1>0, GroupFacts, GroupReads
<1>2. /\ DropBatch(g) \in GroupsUpTo(Len(stream))
  BY <1>1, GroupFacts, GroupMoves
<1> QED BY <1>1, <1>2 DEF GroupsUpTo, Drained, DropBatch

(* A client's step keeps what is known of members, or admits at Passed.    *)
ClientStep(c, e) ==
  \/ Connect(c) \/ Disconnect(c)
  \/ e \in Executions /\ (RequestJoin(c, e) \/ JoinReturns(c, e) \/ JoinRefused(c, e) \/ Leave(c, e))

SinceKept(e) ==
  /\ DOMAIN since'[e] \subseteq Clients /\ since'[e] \in [DOMAIN since'[e] -> Nat]
  /\ \A m \in DOMAIN since'[e] :
       (m \in DOMAIN since[e] /\ since'[e][m] = since[e][m]) \/ since'[e][m] = Passed

LEMMA WithoutOne ==
  ASSUME TypeInv, NEW e \in Executions, NEW c, since'[e] = Without(since[e], c)
  PROVE  SinceKept(e) /\ DOMAIN since'[e] = DOMAIN since[e] \ {c}
<1>1. DOMAIN since[e] \subseteq Clients /\ \A m \in DOMAIN since[e] : since[e][m] \in Nat
  BY DEF TypeInv, TypeOK
<1>2. /\ DOMAIN since'[e] = DOMAIN since[e] \ {c}
      /\ \A m \in DOMAIN since'[e] : since'[e][m] = since[e][m]
      /\ since'[e] = [m \in DOMAIN since'[e] |-> since[e][m]]
  BY DEF Without
<1>3. since'[e] \in [DOMAIN since'[e] -> Nat]
  BY <1>1, <1>2
<1> QED BY <1>1, <1>2, <1>3 DEF SinceKept

LEMMA SinceSame ==
  ASSUME TypeInv, NEW e \in Executions, since'[e] = since[e]
  PROVE  SinceKept(e)
BY DEF TypeInv, TypeOK, SinceKept

LEMMA Admitted ==
  ASSUME TypeInv, NEW c \in Clients, NEW e \in Executions, EnterRoom(c, e)
  PROVE  /\ DOMAIN since' = Executions /\ \A x \in Executions : SinceKept(x)
         /\ DOMAIN since'[e] = DOMAIN since[e] \union {c}
         /\ \A x \in Executions \ {e} : since'[x] = since[x]
<1>0. DOMAIN since = Executions /\ Passed \in Nat
  BY GroupFacts DEF TypeInv, TypeOK
<1>1. DOMAIN since[e] \subseteq Clients /\ \A m \in DOMAIN since[e] : since[e][m] \in Nat
  BY DEF TypeInv, TypeOK
<1> DEFINE room == [m \in DOMAIN since[e] \union {c} |->
                     IF m \in DOMAIN since[e] THEN since[e][m] ELSE Passed]
<1>2. since' = [since EXCEPT ![e] = room]
  BY DEF EnterRoom
<1>3. room \in [DOMAIN room -> Nat] /\ DOMAIN room = DOMAIN since[e] \union {c}
  BY <1>0, <1>1
<1>4. \A m \in DOMAIN room : (m \in DOMAIN since[e] /\ room[m] = since[e][m]) \/ room[m] = Passed
  OBVIOUS
<1> HIDE DEF room
<1>5. DOMAIN since' = Executions /\ since'[e] = room /\ \A x \in Executions \ {e} : since'[x] = since[x]
  BY <1>0, <1>2
<1>6. SinceKept(e)
  BY <1>1, <1>3, <1>4, <1>5 DEF SinceKept
<1> QED BY <1>3, <1>5, <1>6, SinceSame

LEMMA ClientSince ==
  ASSUME TypeInv, NEW c \in Clients, NEW e, ClientStep(c, e)
  PROVE  DOMAIN since' = Executions /\ \A x \in Executions : SinceKept(x)
<1>0. DOMAIN since = Executions
  BY DEF TypeInv, TypeOK
<1>1. CASE UNCHANGED since
  BY <1>0, <1>1, SinceSame
<1>2. CASE Disconnect(c)
  <2>1. DOMAIN since' = Executions /\ \A x \in Executions : since'[x] = Without(since[x], c)
    BY <1>2 DEF Disconnect
  <2> QED BY <2>1, WithoutOne
<1>3. CASE e \in Executions /\ JoinReturns(c, e)
  BY <1>3, Admitted DEF JoinReturns
<1>4. CASE e \in Executions /\ Leave(c, e)
  <2>1. /\ DOMAIN since' = Executions /\ since'[e] = Without(since[e], c)
        /\ \A x \in Executions \ {e} : since'[x] = since[x]
    BY <1>0, <1>4 DEF Leave
  <2> QED BY <2>1, WithoutOne, SinceSame
<1> QED BY <1>1, <1>2, <1>3, <1>4 DEF ClientStep, Connect, RequestJoin, JoinRefused

LEMMA ClientStepType ==
  ASSUME TypeInv, NEW c \in Clients, NEW e, ClientStep(c, e)
  PROVE  TypeInv'
<1>1. UNCHANGED <<stream, group, created, pc, shown, missed>>
  BY DEF ClientStep, Connect, Disconnect, RequestJoin, JoinReturns, JoinRefused, Leave, consumerVars
<1>2. online' \subseteq Clients
  BY DEF ClientStep, Connect, Disconnect, RequestJoin, JoinReturns, JoinRefused, Leave, TypeInv, TypeOK
<1>3. joining' \subseteq Clients \X Executions
  BY DEF ClientStep, Connect, Disconnect, RequestJoin, JoinReturns, JoinRefused, Leave, TypeInv, TypeOK
<1>4. rooms' \in [Executions -> SUBSET Clients]
  <2>0. rooms \in [Executions -> SUBSET Clients] /\ (e \in Executions => rooms[e] \subseteq Clients)
    BY DEF TypeInv, TypeOK
  <2>1. CASE Disconnect(c)
    BY <2>0, <2>1 DEF Disconnect
  <2>2. CASE /\ e \in Executions
             /\ rooms' = [rooms EXCEPT ![e] = @ \union {c}] \/ rooms' = [rooms EXCEPT ![e] = @ \ {c}]
    <3>1. rooms[e] \union {c} \in SUBSET Clients /\ rooms[e] \ {c} \in SUBSET Clients
      BY <2>0, <2>2
    <3> QED BY <2>0, <2>2, <3>1
  <2> QED
    BY <2>0, <2>1, <2>2
       DEF ClientStep, Connect, RequestJoin, JoinReturns, JoinRefused, Leave, EnterRoom
<1>5. faults' \in 0..MaxFaults
  BY FailByType
     DEF ClientStep, Connect, Disconnect, RequestJoin, JoinReturns, JoinRefused, Leave, TypeInv, TypeOK
<1>6. DOMAIN since' = Executions /\ \A x \in Executions : SinceKept(x)
  BY ClientSince
<1>7. TypeOK'
  <2>1. /\ stream' \in Seq(Executions) /\ Len(stream') <= MaxEvents /\ group' \in GroupsUpTo(Len(stream'))
        /\ created' \in BOOLEAN /\ pc' \in {"create", "loop", "ack"}
        /\ shown' \in [Clients -> Seq(Nat \ {0})] /\ missed' \subseteq Nat
    BY <1>1 DEF TypeInv, TypeOK
  <2>2. \A x \in Executions : DOMAIN since'[x] \subseteq Clients /\ since'[x] \in [DOMAIN since'[x] -> Nat]
    BY <1>6 DEF SinceKept
  <2> QED BY <2>1, <2>2, <1>2, <1>3, <1>4, <1>5, <1>6 DEF TypeOK
<1> QED BY <1>1, <1>7 DEF TypeInv, Drained

----
(* The consumer and the crash. *)
Silent == CreateGroup \/ CreateGroupRaises \/ Read \/ ReadRaises \/ Ack \/ AckRaises \/ Crash

GroupMoved ==
  /\ group' \in GroupsUpTo(Len(stream)) /\ pc' \in {"create", "loop", "ack"}
  /\ pc' = "ack" => ~ Drained(group')
  /\ missed' \subseteq Nat

LEMMA SilentMoves ==
  ASSUME TypeInv, Silent
  PROVE  PassesOver /\ GroupMoved
<1>0. /\ group \in GroupsUpTo(Len(stream)) /\ Len(stream) \in Nat /\ stream \in Seq(Executions)
      /\ group.pos \in Nat /\ group.last \in Nat /\ group.pos <= group.last
      /\ Passed \in Nat /\ Passed <= group.last /\ missed \subseteq Nat
  BY GroupFacts DEF TypeInv, TypeOK
<1>a. \A n \in Nat : 1..n \subseteq Nat /\ Passed + 1..n \subseteq 1..n /\ Passed + 1..n \subseteq Nat
  BY <1>0
<1>1. CASE CreateGroup
  <2>1. Passed = group.pos /\ Passed' = group'.pos /\ stream' = stream /\ shown' = shown
    BY <1>1 DEF CreateGroup, Passed
  <2>2. CASE created
    <3>1. group' = group /\ missed' = missed
      BY <1>1, <2>2 DEF CreateGroup
    <3>2. Passed' = Passed
      BY <2>1, <3>1
    <3>3. Passed + 1..Passed' = {}
      BY <1>0, <3>2
    <3> QED BY <1>0, <1>1, <2>1, <3>1, <3>2, <3>3 DEF CreateGroup, PassesOver, GroupMoved
  <2>3. CASE ~ created
    <3>1. /\ group' = [last |-> Len(stream), pos |-> Len(stream)]
          /\ missed' = missed \union 1..Len(stream)
      BY <1>1, <2>3 DEF CreateGroup
    <3>2. group' \in GroupsUpTo(Len(stream)) /\ group'.pos = Len(stream)
      BY <1>0, <3>1 DEF GroupsUpTo
    <3>3. Passed' = Len(stream) /\ Passed' >= Passed
      BY <1>0, <2>1, <3>2, GroupFacts
    <3>4. missed \subseteq missed' /\ Passed + 1..Passed' \subseteq missed' /\ missed' \subseteq Nat
      BY <1>0, <1>a, <3>1, <3>3
    <3> QED BY <1>1, <2>1, <3>2, <3>3, <3>4 DEF CreateGroup, PassesOver, GroupMoved
  <2> QED BY <2>2, <2>3
<1>2. CASE CreateGroupRaises \/ Ack
  <2>1. /\ group' \in GroupsUpTo(Len(stream)) /\ pc' = "loop" /\ Passed' = Passed
        /\ UNCHANGED <<stream, shown, missed>>
    <3>1. CASE CreateGroupRaises
      BY <1>0, <3>1 DEF CreateGroupRaises, Passed
    <3>2. CASE Ack
      <4>1. ~ Drained(group) /\ group' = Advance(group) /\ pc = "ack" /\ pc' = "loop"
        BY <3>2 DEF Ack, TypeInv
      <4>2. group' \in GroupsUpTo(Len(stream)) /\ group'.pos = group.pos + 1
        BY <1>0, <4>1, GroupMoves DEF Advance, GroupsUpTo
      <4> QED BY <3>2, <4>1, <4>2 DEF Ack, Passed, InHand
    <3> QED BY <1>2, <3>1, <3>2
  <2>2. Passed + 1..Passed' = {}
    BY <1>0, <2>1
  <2> QED BY <1>0, <2>1, <2>2 DEF PassesOver, GroupMoved
<1>3. CASE Read
  <2>1. /\ group' \in GroupsUpTo(Len(stream)) /\ group'.pos = group.pos /\ pc = "loop" /\ pc' = "loop"
        /\ UNCHANGED <<stream, shown, missed>>
    BY <1>3, ReadGroups DEF Read
  <2>2. Passed' = Passed
    BY <2>1 DEF Passed
  <2>3. Passed + 1..Passed' = {}
    BY <1>0, <2>2
  <2> QED BY <1>0, <2>1, <2>2, <2>3 DEF PassesOver, GroupMoved
<1>4. CASE ReadRaises
  <2> DEFINE g == XReadGroup(group, stream, ReadCount)
  <2>1. /\ g.last \in Nat /\ g.last > group.pos /\ group' \in GroupsUpTo(Len(stream))
        /\ group'.pos = g.last
    BY <1>4, ReadGroups DEF ReadRaises
  <2>2. /\ pc = "loop" /\ pc' = "loop" /\ UNCHANGED <<stream, shown>>
        /\ missed' = missed \union Passed + 1..g.last
    BY <1>4 DEF ReadRaises, Unemitted
  <2> HIDE DEF g
  <2>3. Passed = group.pos /\ Passed' = g.last
    BY <2>1, <2>2 DEF Passed
  <2>4. missed \subseteq missed' /\ Passed + 1..Passed' \subseteq missed' /\ missed' \subseteq Nat
    BY <1>0, <1>a, <2>1, <2>2, <2>3
  <2> QED BY <1>0, <2>1, <2>2, <2>3, <2>4 DEF PassesOver, GroupMoved
<1>5. CASE AckRaises \/ Crash
  <2>1. /\ group' = DropBatch(group) /\ missed' = missed \union Passed + 1..group.last
        /\ pc' \in {"create", "loop"} /\ UNCHANGED <<stream, shown>>
    BY <1>5 DEF AckRaises, Crash, Unemitted
  <2>2. group' \in GroupsUpTo(Len(stream)) /\ group'.pos = group.last
    BY <1>0, <2>1, GroupMoves DEF DropBatch, GroupsUpTo
  <2>3. Passed' = group.last
    BY <2>1, <2>2 DEF Passed
  <2>4. missed \subseteq missed' /\ Passed + 1..Passed' \subseteq missed' /\ missed' \subseteq Nat
    BY <1>0, <1>a, <2>1, <2>3
  <2> QED BY <1>0, <2>1, <2>2, <2>3, <2>4 DEF PassesOver, GroupMoved
<1> QED BY <1>1, <1>2, <1>3, <1>4, <1>5 DEF Silent

LEMMA EmitMoves ==
  ASSUME TypeInv, Emit \/ EmitRaises
  PROVE  Emits /\ GroupMoved
<1>0. /\ pc = "loop" /\ pc' = "ack" /\ ~ Drained(group) /\ UNCHANGED <<stream, group, clientVars>>
      /\ InHand(group) \in Nat /\ group \in GroupsUpTo(Len(stream)) /\ missed \subseteq Nat
  BY GroupFacts DEF Emit, EmitRaises, TypeInv, TypeOK
<1>1. Passed' = InHand(group) /\ InHand(group) = Passed + 1
  BY <1>0, GroupFacts DEF Passed, InHand
<1>2. missed' \in {missed, missed \union {InHand(group)}}
  BY DEF Emit, EmitRaises
<1>3. CASE Emit
  <2>1. Show(InHand(group), rooms[stream[InHand(group)]])
    BY <1>3 DEF Emit
  <2> QED BY <1>0, <1>1, <1>2, <2>1 DEF Emits, GroupMoved, Drained
<1>4. CASE EmitRaises
  <2>1. /\ \E members \in SUBSET rooms[stream[InHand(group)]] : Show(InHand(group), members)
        /\ InHand(group) \in missed'
    BY <1>4 DEF EmitRaises
  <2> QED BY <1>0, <1>1, <1>2, <2>1 DEF Emits, GroupMoved, Drained
<1> QED BY <1>3, <1>4

LEMMA SilentType ==
  ASSUME TypeInv, Silent
  PROVE  TypeInv'
<1>1. /\ group' \in GroupsUpTo(Len(stream')) /\ pc' \in {"create", "loop", "ack"}
      /\ pc' = "ack" => ~ Drained(group')
      /\ missed' \subseteq Nat /\ UNCHANGED <<stream, shown>>
  BY SilentMoves DEF GroupMoved, PassesOver
<1>2. /\ online' \in {online, {}} /\ joining' \in {joining, {}}
      /\ rooms' \in {rooms, [e \in Executions |-> {}]}
      /\ since' \in {since, [e \in Executions |-> <<>>]}
      /\ created' \in BOOLEAN
  BY DEF Silent, CreateGroup, CreateGroupRaises, Read, ReadRaises, Ack, AckRaises, Crash, clientVars,
         TypeInv, TypeOK
<1>3. faults' \in 0..MaxFaults
  BY FailByType
     DEF Silent, CreateGroup, CreateGroupRaises, Read, ReadRaises, Ack, AckRaises, Crash, TypeInv, TypeOK
<1>4. /\ DOMAIN since' = Executions
      /\ \A e \in Executions : DOMAIN since'[e] \subseteq Clients /\ since'[e] \in [DOMAIN since'[e] -> Nat]
  <2>1. CASE since' = since
    BY <2>1 DEF TypeInv, TypeOK
  <2>2. CASE since' = [e \in Executions |-> <<>>]
    BY <2>2, NobodyIn
  <2> QED BY <1>2, <2>1, <2>2
<1>5. /\ stream' \in Seq(Executions) /\ Len(stream') <= MaxEvents /\ shown' \in [Clients -> Seq(Nat \ {0})]
      /\ online' \subseteq Clients /\ joining' \subseteq Clients \X Executions
      /\ rooms' \in [Executions -> SUBSET Clients]
  BY <1>1, <1>2 DEF TypeInv, TypeOK
<1> QED BY <1>1, <1>2, <1>3, <1>4, <1>5 DEF TypeInv, TypeOK

LEMMA ShowEntries ==
  ASSUME TypeInv, NEW i \in Nat \ {0}, NEW members, Show(i, members)
  PROVE  /\ shown' \in [Clients -> Seq(Nat \ {0})]
         /\ \A c \in Clients :
              /\ DOMAIN shown[c] = 1..Len(shown[c]) /\ Len(shown[c]) \in Nat
              /\ \A k \in DOMAIN shown[c] : k \in DOMAIN shown'[c] /\ shown'[c][k] = shown[c][k]
              /\ \A k \in DOMAIN shown'[c] :
                   k \in DOMAIN shown[c] \/ (c \in members /\ k = Len(shown[c]) + 1 /\ shown'[c][k] = i)
              /\ c \in members => \E k \in DOMAIN shown'[c] : shown'[c][k] = i
<1> SUFFICES ASSUME NEW c \in Clients
             PROVE  /\ shown'[c] \in Seq(Nat \ {0})
                    /\ DOMAIN shown[c] = 1..Len(shown[c]) /\ Len(shown[c]) \in Nat
                    /\ \A k \in DOMAIN shown[c] : k \in DOMAIN shown'[c] /\ shown'[c][k] = shown[c][k]
                    /\ \A k \in DOMAIN shown'[c] :
                         k \in DOMAIN shown[c] \/ (c \in members /\ k = Len(shown[c]) + 1 /\ shown'[c][k] = i)
                    /\ c \in members => \E k \in DOMAIN shown'[c] : shown'[c][k] = i
  BY DEF Show
<1>1. shown[c] \in Seq(Nat \ {0})
  BY DEF TypeInv, TypeOK
<1>2. CASE c \notin members
  BY <1>1, <1>2 DEF Show
<1>3. CASE c \in members
  <2>1. shown'[c] = Append(shown[c], i)
    BY <1>3 DEF Show
  <2>2. /\ DOMAIN shown'[c] = 1..Len(shown[c]) + 1 /\ shown'[c][Len(shown[c]) + 1] = i
        /\ \A k \in 1..Len(shown[c]) : shown'[c][k] = shown[c][k]
        /\ shown'[c] \in Seq(Nat \ {0})
    BY <1>1, <2>1
  <2>3. DOMAIN shown[c] = 1..Len(shown[c]) /\ Len(shown[c]) \in Nat
    BY <1>1
  <2>4. Len(shown[c]) + 1 \in DOMAIN shown'[c]
    BY <2>2, <2>3
  <2> QED BY <1>3, <2>2, <2>3, <2>4
<1> QED BY <1>2, <1>3

LEMMA EmitType ==
  ASSUME TypeInv, Emit \/ EmitRaises
  PROVE  TypeInv'
<1>1. /\ group' \in GroupsUpTo(Len(stream')) /\ pc' \in {"create", "loop", "ack"}
      /\ pc' = "ack" => ~ Drained(group')
      /\ missed' \subseteq Nat /\ UNCHANGED <<stream, online, joining, rooms, since>>
  BY EmitMoves DEF GroupMoved, Emits, clientVars
<1>2. shown' \in [Clients -> Seq(Nat \ {0})]
  BY EmitMoves, ShowEntries, GroupFacts DEF Emits
<1>3. faults' \in 0..MaxFaults /\ created' = created
  BY FailByType DEF Emit, EmitRaises, TypeInv, TypeOK
<1>4. /\ stream' \in Seq(Executions) /\ Len(stream') <= MaxEvents /\ created' \in BOOLEAN
      /\ online' \subseteq Clients /\ joining' \subseteq Clients \X Executions
      /\ rooms' \in [Executions -> SUBSET Clients] /\ DOMAIN since' = Executions
      /\ \A e \in Executions : DOMAIN since'[e] \subseteq Clients /\ since'[e] \in [DOMAIN since'[e] -> Nat]
  BY <1>1, <1>3 DEF TypeInv, TypeOK
<1> QED BY <1>1, <1>2, <1>3, <1>4 DEF TypeInv, TypeOK

LEMMA PublishedEntries ==
  ASSUME TypeInv, NEW e \in Executions, Publish(e)
  PROVE  /\ stream' \in Seq(Executions) /\ Len(stream') = Len(stream) + 1 /\ Len(stream') <= MaxEvents
         /\ \A i \in 1..Len(stream) : stream'[i] = stream[i]
         /\ UNCHANGED <<group, created, pc, shown, missed, online, joining, rooms, since, faults>>
<1>1. /\ stream \in Seq(Executions) /\ MaxEvents \in Nat /\ Len(stream) < MaxEvents
      /\ stream' = Append(stream, e)
  BY GroupFacts, DeliveryAssumption DEF Publish
<1> QED BY <1>1 DEF Publish, consumerVars, clientVars

LEMMA PublishType ==
  ASSUME TypeInv, NEW e \in Executions, Publish(e)
  PROVE  TypeInv'
<1>1. group' \in GroupsUpTo(Len(stream'))
  <2>1. Len(stream) \in Nat /\ Len(stream) + 1 \in Nat /\ Len(stream) <= Len(stream) + 1
    BY GroupFacts
  <2>2. group \in GroupsUpTo(Len(stream) + 1)
    BY <2>1, GroupFacts, GroupMoves
  <2> QED BY <2>2, PublishedEntries
<1>2. TypeOK'
  BY <1>1, PublishedEntries DEF TypeInv, TypeOK
<1> QED BY <1>2, PublishedEntries DEF TypeInv, Drained

LEMMA NextType == TypeInv /\ [Next]_vars => TypeInv'
<1> SUFFICES ASSUME TypeInv, [Next]_vars PROVE TypeInv'
  OBVIOUS
<1>1. CASE UNCHANGED vars
  BY <1>1 DEF vars, TypeInv, TypeOK, Drained
<1>2. CASE Silent
  BY <1>2, SilentType
<1>3. CASE Emit \/ EmitRaises
  BY <1>3, EmitType
<1>4. ASSUME NEW e \in Executions, Publish(e)
      PROVE  TypeInv'
  BY <1>4, PublishType
<1>5. ASSUME NEW c \in Clients, NEW e, ClientStep(c, e)
      PROVE  TypeInv'
  BY <1>5, ClientStepType
<1> QED BY <1>1, <1>2, <1>3, <1>4, <1>5 DEF Next, Consumer, Silent, ClientStep

(* Type correctness. *)
THEOREM TypeCorrect == Spec => []TypeOK
<1>1. TypeInv => TypeOK
  BY DEF TypeInv
<1> QED BY <1>1, InitType, NextType, PTL DEF Spec

----
(* What clients were shown.  Entries are shown up to Passed; the members   *)
(* of a room are those it admitted, at some earlier value of Passed; only  *)
(* connected clients wait to join.                                         *)
ShownPassed == \A c \in Clients : \A k \in DOMAIN shown[c] : shown[c][k] <= Passed
Admissions  == \A e \in Executions : DOMAIN since[e] = rooms[e]
Joins       == \A j \in joining : j[1] \in online

IInv ==
  /\ TypeInv
  /\ ShownPassed /\ Admissions /\ Joins
  /\ ShownOnceInOrder /\ RoomsAreTenants /\ MemberSeesAll

LEMMA InitInv == Init => IInv
<1> SUFFICES ASSUME Init PROVE IInv
  OBVIOUS
<1>1. /\ TypeInv /\ \A c \in Clients : DOMAIN shown[c] = {}
      /\ \A e \in Executions : DOMAIN since[e] = {} /\ rooms[e] = {}
      /\ joining = {}
  BY InitType, NobodyIn DEF Init
<1> QED
  BY <1>1 DEF IInv, ShownPassed, Admissions, Joins, ShownOnceInOrder, RoomsAreTenants, MemberSeesAll

LEMMA ShownFacts ==
  ASSUME IInv, NEW c \in Clients, NEW k \in DOMAIN shown[c]
  PROVE  shown[c][k] \in 1..Len(stream) /\ shown[c][k] <= Passed
<1>1. shown[c] \in Seq(Nat \ {0}) /\ shown[c][k] <= Passed /\ TypeInv
  BY DEF IInv, TypeInv, TypeOK, ShownPassed
<1>2. shown[c][k] \in Nat \ {0}
  BY <1>1
<1> QED BY <1>1, <1>2, GroupFacts

LEMMA SilentInv ==
  ASSUME IInv, Silent
  PROVE  IInv'
<1>0. TypeInv /\ TypeInv' /\ PassesOver /\ Passed \in Nat /\ Passed' \in Nat
  <2>1. TypeInv /\ TypeInv'
    BY SilentType DEF IInv
  <2>2. Passed \in Nat
    BY <2>1, GroupFacts
  <2>3. Passed' \in Nat
    BY <2>1 DEF TypeInv, TypeOK, GroupsUpTo, Passed, InHand
  <2> QED BY <2>1, <2>2, <2>3, SilentMoves
<1>1. UNCHANGED <<stream, shown>> /\ Passed' >= Passed
  BY <1>0 DEF PassesOver
<1>2. ShownPassed'
  BY <1>0, <1>1, ShownFacts DEF ShownPassed
<1>3. ShownOnceInOrder'
  BY <1>1 DEF IInv, ShownOnceInOrder
<1>4. \/ UNCHANGED <<online, joining, rooms, since>>
      \/ /\ \A e \in Executions : rooms'[e] = {} /\ since'[e] = <<>>
         /\ joining' = {}
  BY DEF Silent, CreateGroup, CreateGroupRaises, Read, ReadRaises, Ack, AckRaises, Crash, clientVars
<1>5. Admissions' /\ Joins'
  BY <1>4, NobodyIn DEF IInv, Admissions, Joins
<1>6. RoomsAreTenants'
  BY <1>1, <1>4 DEF IInv, RoomsAreTenants
<1>7. MemberSeesAll'
  <2> SUFFICES ASSUME NEW e \in Executions, NEW c \in DOMAIN since'[e],
                      NEW i \in since'[e][c] + 1..Passed', stream'[i] = e, i \notin missed'
               PROVE  \E k \in DOMAIN shown'[c] : shown'[c][k] = i
    BY DEF MemberSeesAll
  <2>1. since'[e] = since[e]
    BY <1>4, NobodyIn
  <2>2. since[e][c] \in Nat
    BY <1>0, <2>1 DEF TypeInv, TypeOK
  <2>3. i \notin Passed + 1..Passed' /\ i \notin missed
    BY <1>0 DEF PassesOver
  <2>4. i \in since[e][c] + 1..Passed
    BY <1>0, <2>1, <2>2, <2>3
  <2> QED BY <1>1, <2>1, <2>3, <2>4 DEF IInv, MemberSeesAll
<1> QED BY <1>0, <1>2, <1>3, <1>5, <1>6, <1>7 DEF IInv

LEMMA EmitInv ==
  ASSUME IInv, Emit \/ EmitRaises
  PROVE  IInv'
<1> DEFINE n == InHand(group)
           e == stream[InHand(group)]
<1>0. /\ TypeInv /\ TypeInv' /\ Emits /\ Passed \in Nat /\ n \in Nat \ {0} /\ n = Passed + 1
      /\ Passed' = n /\ UNCHANGED <<stream, online, joining, rooms, since>> /\ missed \subseteq missed'
      /\ e \in Executions
  <2>1. TypeInv /\ TypeInv' /\ Emits /\ Passed \in Nat /\ n \in Nat \ {0}
    BY EmitType, EmitMoves, GroupFacts DEF IInv
  <2>2. n \in 1..Len(stream) /\ stream \in Seq(Executions)
    BY <2>1, GroupFacts, GroupMoves DEF Emit, EmitRaises
  <2> QED BY <2>1, <2>2 DEF Emits, clientVars
<1>1. PICK members \in SUBSET rooms[e] :
        Show(n, members) /\ (members = rooms[e] \/ n \in missed')
  BY <1>0 DEF Emits
<1> HIDE DEF n, e
<1>2. \A c \in Clients :
        /\ DOMAIN shown[c] = 1..Len(shown[c]) /\ Len(shown[c]) \in Nat
        /\ \A k \in DOMAIN shown[c] : k \in DOMAIN shown'[c] /\ shown'[c][k] = shown[c][k]
        /\ \A k \in DOMAIN shown'[c] :
             k \in DOMAIN shown[c] \/ (c \in members /\ k = Len(shown[c]) + 1 /\ shown'[c][k] = n)
        /\ c \in members => \E k \in DOMAIN shown'[c] : shown'[c][k] = n
  BY <1>0, <1>1, ShowEntries
<1>3. \A c \in Clients : \A k \in DOMAIN shown[c] : shown[c][k] \in Nat /\ shown[c][k] < n
  BY <1>0, ShownFacts
<1>4. ShownPassed'
  BY <1>0, <1>2, <1>3 DEF ShownPassed
<1>5. ShownOnceInOrder'
  BY <1>2, <1>3 DEF IInv, ShownOnceInOrder
<1>6. Admissions' /\ Joins'
  BY <1>0 DEF IInv, Admissions, Joins
<1>7. RoomsAreTenants'
  <2>1. \A c \in members : TenantOf[stream[n]] = TenantOf[c]
    BY <1>0 DEF IInv, RoomsAreTenants, e, n
  <2> QED BY <1>0, <1>2, <2>1 DEF IInv, RoomsAreTenants
<1>8. MemberSeesAll'
  <2> SUFFICES ASSUME NEW f \in Executions, NEW c \in DOMAIN since[f],
                      NEW i \in since[f][c] + 1..n, stream[i] = f, i \notin missed'
               PROVE  \E k \in DOMAIN shown'[c] : shown'[c][k] = i
    BY <1>0 DEF MemberSeesAll
  <2>1. since[f][c] \in Nat /\ c \in Clients /\ c \in rooms[f]
    BY <1>0 DEF IInv, Admissions, TypeInv, TypeOK
  <2>2. CASE i = n
    <3>1. f = e
      BY <2>2 DEF e, n
    <3> QED BY <1>1, <1>2, <2>1, <2>2, <3>1
  <2>3. CASE i # n
    <3>1. i \in since[f][c] + 1..Passed /\ i \notin missed
      BY <1>0, <2>1, <2>3
    <3>2. \E k \in DOMAIN shown[c] : shown[c][k] = i
      BY <3>1 DEF IInv, MemberSeesAll
    <3> QED BY <1>2, <2>1, <3>2
  <2> QED BY <2>2, <2>3
<1> QED BY <1>0, <1>4, <1>5, <1>6, <1>7, <1>8 DEF IInv

LEMMA PublishInv ==
  ASSUME IInv, NEW e \in Executions, Publish(e)
  PROVE  IInv'
<1>0. /\ TypeInv /\ TypeInv' /\ Passed \in Nat /\ Passed <= Len(stream) /\ Len(stream) \in Nat
      /\ Passed' = Passed
      /\ UNCHANGED <<shown, missed, online, joining, rooms, since>>
      /\ \A i \in 1..Len(stream) : stream'[i] = stream[i]
  BY PublishType, PublishedEntries, GroupFacts DEF IInv, Passed, InHand
<1>1. \A c \in Clients : \A k \in DOMAIN shown[c] : stream'[shown[c][k]] = stream[shown[c][k]]
  BY <1>0, ShownFacts
<1>2. RoomsAreTenants'
  BY <1>0, <1>1 DEF IInv, RoomsAreTenants
<1>3. MemberSeesAll'
  <2> SUFFICES ASSUME NEW f \in Executions, NEW c \in DOMAIN since[f],
                      NEW i \in since[f][c] + 1..Passed, stream'[i] = f, i \notin missed
               PROVE  \E k \in DOMAIN shown[c] : shown[c][k] = i
    BY <1>0 DEF MemberSeesAll
  <2>1. since[f][c] \in Nat
    BY <1>0 DEF TypeInv, TypeOK
  <2>2. stream[i] = f
    BY <1>0, <2>1
  <2> QED BY <2>2 DEF IInv, MemberSeesAll
<1> QED
  BY <1>0, <1>2, <1>3 DEF IInv, ShownPassed, Admissions, Joins, ShownOnceInOrder

LEMMA ClientInv ==
  ASSUME IInv, NEW c \in Clients, NEW e, ClientStep(c, e)
  PROVE  IInv'
<1>0. /\ TypeInv /\ TypeInv' /\ Passed \in Nat /\ Passed' = Passed
      /\ UNCHANGED <<stream, shown, missed>>
      /\ \A x \in Executions : SinceKept(x)
  <2>1. TypeInv /\ TypeInv' /\ Passed \in Nat /\ \A x \in Executions : SinceKept(x)
    BY ClientStepType, ClientSince, GroupFacts DEF IInv
  <2>2. UNCHANGED <<stream, shown, missed, pc, group>>
    BY DEF ClientStep, Connect, Disconnect, RequestJoin, JoinReturns, JoinRefused, Leave, consumerVars
  <2> QED BY <2>1, <2>2 DEF Passed, InHand
<1>1. ShownPassed' /\ ShownOnceInOrder'
  BY <1>0 DEF IInv, ShownPassed, ShownOnceInOrder
<1>2. Joins'
  BY DEF IInv, Joins, ClientStep, Connect, Disconnect, RequestJoin, JoinReturns, JoinRefused, Leave
<1>3. /\ rooms \in [Executions -> SUBSET Clients] /\ DOMAIN since = Executions
      /\ \A x \in Executions : DOMAIN since[x] = rooms[x]
  BY DEF IInv, Admissions, TypeInv, TypeOK
<1>4. Admissions'
  <2>1. CASE Connect(c) \/ RequestJoin(c, e) \/ JoinRefused(c, e)
    BY <1>3, <2>1 DEF Connect, RequestJoin, JoinRefused, Admissions
  <2>2. CASE Disconnect(c)
    <3>1. \A x \in Executions : since'[x] = Without(since[x], c) /\ rooms'[x] = rooms[x] \ {c}
      BY <2>2 DEF Disconnect
    <3>2. \A x \in Executions : DOMAIN since'[x] = DOMAIN since[x] \ {c}
      BY <1>0, <3>1, WithoutOne
    <3> QED BY <1>3, <3>1, <3>2 DEF Admissions
  <2>3. CASE e \in Executions /\ JoinReturns(c, e)
    <3>1. rooms'[e] = rooms[e] \union {c} /\ \A x \in Executions \ {e} : rooms'[x] = rooms[x]
      BY <1>3, <2>3 DEF JoinReturns, EnterRoom
    <3>2. EnterRoom(c, e)
      BY <2>3 DEF JoinReturns
    <3>3. DOMAIN since'[e] = DOMAIN since[e] \union {c} /\ \A x \in Executions \ {e} : since'[x] = since[x]
      BY <1>0, <2>3, <3>2, Admitted
    <3> QED BY <1>3, <3>1, <3>3 DEF Admissions
  <2>4. CASE e \in Executions /\ Leave(c, e)
    <3>1. /\ rooms'[e] = rooms[e] \ {c} /\ since'[e] = Without(since[e], c)
          /\ \A x \in Executions \ {e} : rooms'[x] = rooms[x] /\ since'[x] = since[x]
      BY <1>3, <2>4 DEF Leave
    <3>2. DOMAIN since'[e] = DOMAIN since[e] \ {c}
      BY <1>0, <2>4, <3>1, WithoutOne
    <3> QED BY <1>3, <3>1, <3>2 DEF Admissions
  <2> QED BY <2>1, <2>2, <2>3, <2>4 DEF ClientStep
<1>5. RoomsAreTenants'
  <2>1. \A x \in Executions : \A m \in rooms'[x] :
          \/ m \in rooms[x] /\ m \in online'
          \/ x = e /\ m = c /\ c \in online' /\ TenantOf[e] = TenantOf[c]
    <3>1. CASE Connect(c) \/ RequestJoin(c, e) \/ JoinRefused(c, e)
      BY <3>1 DEF Connect, RequestJoin, JoinRefused, IInv, RoomsAreTenants
    <3>2. CASE Disconnect(c)
      BY <3>2 DEF Disconnect, IInv, RoomsAreTenants
    <3>3. CASE e \in Executions /\ JoinReturns(c, e)
      <4>1. c \in online /\ online' = online /\ TenantOf[e] = TenantOf[c]
        BY <3>3 DEF JoinReturns, IInv, Joins
      <4>2. rooms'[e] = rooms[e] \union {c} /\ \A x \in Executions \ {e} : rooms'[x] = rooms[x]
        BY <1>3, <3>3 DEF JoinReturns, EnterRoom
      <4> QED BY <4>1, <4>2 DEF IInv, RoomsAreTenants
    <3>4. CASE e \in Executions /\ Leave(c, e)
      <4>1. /\ rooms'[e] = rooms[e] \ {c} /\ online' = online
            /\ \A x \in Executions \ {e} : rooms'[x] = rooms[x]
        BY <1>3, <3>4 DEF Leave
      <4> QED BY <4>1 DEF IInv, RoomsAreTenants
    <3> QED BY <3>1, <3>2, <3>3, <3>4 DEF ClientStep
  <2> QED BY <1>0, <2>1 DEF IInv, RoomsAreTenants
<1>6. MemberSeesAll'
  <2> SUFFICES ASSUME NEW x \in Executions, NEW m \in DOMAIN since'[x],
                      NEW i \in since'[x][m] + 1..Passed, stream[i] = x, i \notin missed
               PROVE  \E k \in DOMAIN shown[m] : shown[m][k] = i
    BY <1>0 DEF MemberSeesAll
  <2>1. since'[x][m] # Passed
    BY <1>0
  <2>2. m \in DOMAIN since[x] /\ since'[x][m] = since[x][m]
    BY <1>0, <2>1 DEF SinceKept
  <2> QED BY <2>2 DEF IInv, MemberSeesAll
<1> QED BY <1>0, <1>1, <1>2, <1>4, <1>5, <1>6 DEF IInv

LEMMA NextInv == IInv /\ [Next]_vars => IInv'
<1> SUFFICES ASSUME IInv, [Next]_vars PROVE IInv'
  OBVIOUS
<1>1. CASE UNCHANGED vars
  BY <1>1, NextType
     DEF vars, IInv, ShownPassed, Admissions, Joins, ShownOnceInOrder, RoomsAreTenants,
         MemberSeesAll, Passed, InHand
<1>2. CASE Silent \/ Emit \/ EmitRaises
  BY <1>2, SilentInv, EmitInv
<1>3. ASSUME NEW e \in Executions, Publish(e)
      PROVE  IInv'
  BY <1>3, PublishInv
<1>4. ASSUME NEW c \in Clients, NEW e, ClientStep(c, e)
      PROVE  IInv'
  BY <1>4, ClientInv
<1> QED BY <1>1, <1>2, <1>3, <1>4 DEF Next, Consumer, Silent, ClientStep

LEMMA Invariant == Spec => []IInv
BY InitInv, NextInv, PTL DEF Spec

(* A client is shown an event at most once, and events in the order they   *)
(* were published, however often it reconnects or the service restarts.    *)
THEOREM ShownOnce == Spec => []ShownOnceInOrder
<1>1. IInv => ShownOnceInOrder
  BY DEF IInv
<1> QED BY <1>1, Invariant, PTL

(* Rooms hold connected clients of the execution's tenant, and only such   *)
(* clients were ever shown its events.                                     *)
THEOREM RoomsKeepToTenants == Spec => []RoomsAreTenants
<1>1. IInv => RoomsAreTenants
  BY DEF IInv
<1> QED BY <1>1, Invariant, PTL

(* A client that stays in a room misses no event of its execution but      *)
(* those that a failure made the consumer pass over.                       *)
THEOREM MembersSeeAll == Spec => []MemberSeesAll
<1>1. IInv => MemberSeesAll
  BY DEF IInv
<1> QED BY <1>1, Invariant, PTL

----
(* The refinement of RoomBroadcast.                                        *)

(* Until the group exists nothing was read.                                *)
Uncreated == ~ created => group.pos = 0 /\ group.last = 0
Delivering == IInv /\ Uncreated

LEMMA NextDelivering == Delivering /\ [Next]_vars => Delivering'
<1> SUFFICES ASSUME Delivering, [Next]_vars PROVE Delivering'
  OBVIOUS
<1>1. IInv' /\ Uncreated /\ TypeInv
  BY NextInv DEF Delivering, IInv
<1>2. CASE ~ created /\ ~ created'
  <2>1. Drained(group) /\ pc # "ack"
    BY <1>1, <1>2 DEF Uncreated, Drained, TypeInv
  <2>2. group' = group \/ group' = DropBatch(group)
    BY <1>2, <2>1 DEF Next, Consumer, Publish, CreateGroup, CreateGroupRaises, Read, ReadRaises, Emit,
       EmitRaises, Ack, AckRaises, Connect, Disconnect, RequestJoin, JoinReturns, JoinRefused, Leave,
       Crash, consumerVars, vars
  <2>3. DropBatch(group).pos = 0 /\ DropBatch(group).last = 0
    BY <1>1, <1>2, GroupFacts DEF Uncreated, DropBatch, GroupsUpTo
  <2> QED BY <1>1, <1>2, <2>2, <2>3 DEF Delivering, Uncreated
<1>3. CASE created \/ created'
  <2>1. created => created'
    BY DEF Next, Consumer, Publish, CreateGroup, CreateGroupRaises, Read, ReadRaises, Emit, EmitRaises,
       Ack, AckRaises, Connect, Disconnect, RequestJoin, JoinReturns, JoinRefused, Leave, Crash,
       consumerVars, vars
  <2> QED BY <1>1, <1>3, <2>1 DEF Delivering, Uncreated
<1> QED BY <1>2, <1>3

LEMMA DeliveringInvariant == Spec => []Delivering
<1>1. Init => Delivering
  BY InitInv DEF Delivering, Uncreated, Init, NewGroup
<1> QED BY <1>1, NextDelivering, PTL DEF Spec

(* A step that emits nothing passes over what it makes missed.             *)
LEMMA SilentBroadcasts ==
  ASSUME Delivering, Silent
  PROVE  Broadcast!PassOver
<1>1. /\ TypeInv /\ PassesOver /\ GroupMoved /\ Passed \in Nat /\ Passed <= group.last
      /\ Len(stream) \in Nat /\ group.pos \in Nat /\ group.last \in Nat /\ group.last <= Len(stream)
      /\ missed \subseteq Nat /\ group \in GroupsUpTo(Len(stream))
  BY SilentMoves, GroupFacts DEF Delivering, IInv, TypeInv, TypeOK
<1>2. rooms' \in {rooms, Broadcast!Empty} /\ UNCHANGED <<stream, shown>>
  BY DEF Silent, CreateGroup, CreateGroupRaises, Read, ReadRaises, Ack, AckRaises, Crash, clientVars,
         Broadcast!Empty
<1>3. Passed' \in Passed..Len(stream)
  <2>1. Passed' \in Nat /\ Passed' <= Len(stream)
    <3>1. group' \in GroupsUpTo(Len(stream)) /\ (pc' = "ack" => group'.pos # group'.last)
      BY <1>1 DEF GroupMoved, Drained
    <3> QED BY <1>1, <3>1 DEF GroupsUpTo, Passed, InHand
  <2> QED BY <1>1, <2>1 DEF PassesOver
<1>4. missed' = missed \union Passed + 1..Passed'
  <2>1. ASSUME UNCHANGED <<missed, Passed>> PROVE missed' = missed \union Passed + 1..Passed'
    BY <1>1, <2>1
  <2>2. CASE CreateGroup
    <3>1. CASE created
      BY <2>1, <2>2, <3>1 DEF CreateGroup, Passed
    <3>2. CASE ~ created
      <4>1. Passed = 0 /\ Passed' = Len(stream) /\ missed' = missed \union 1..Len(stream)
        BY <2>2, <3>2 DEF CreateGroup, Passed, Delivering, Uncreated
      <4> QED BY <1>1, <4>1
    <3> QED BY <3>1, <3>2
  <2>3. CASE CreateGroupRaises \/ Ack
    <3>1. group'.pos = IF pc = "ack" THEN InHand(group) ELSE group.pos
      BY <1>1, <2>3 DEF CreateGroupRaises, Ack, InHand, Advance, GroupsUpTo
    <3>2. pc' = "loop" /\ missed' = missed
      BY <2>3 DEF CreateGroupRaises, Ack
    <3> QED BY <2>1, <3>1, <3>2 DEF Passed
  <2>4. CASE Read
    BY <1>1, <2>1, <2>4, ReadGroups DEF Read, Passed
  <2>5. CASE ReadRaises
    <3> DEFINE g == XReadGroup(group, stream, ReadCount)
    <3>1. group'.pos = g.last
      BY <1>1, <2>5, ReadGroups DEF ReadRaises
    <3>2. pc' = "loop" /\ missed' = missed \union Passed + 1..g.last
      BY <2>5 DEF ReadRaises, Unemitted
    <3> HIDE DEF g
    <3> QED BY <3>1, <3>2 DEF Passed
  <2>6. CASE AckRaises \/ Crash
    <3>1. /\ group' = DropBatch(group) /\ missed' = missed \union Passed + 1..group.last
          /\ pc' # "ack"
      BY <2>6 DEF AckRaises, Crash, Unemitted
    <3>2. group'.pos = group.last
      BY <1>1, <3>1 DEF DropBatch, GroupsUpTo
    <3> QED BY <3>1, <3>2 DEF Passed
  <2> QED BY <2>2, <2>3, <2>4, <2>5, <2>6 DEF Silent
<1> QED BY <1>2, <1>3, <1>4 DEF Broadcast!PassOver

LEMMA EmitBroadcasts ==
  ASSUME Delivering, Emit \/ EmitRaises
  PROVE  Broadcast!Deliver
<1>1. /\ TypeInv /\ Passed \in Nat /\ InHand(group) = Passed + 1 /\ Passed' = Passed + 1
      /\ UNCHANGED <<stream, rooms>>
  BY EmitMoves, GroupFacts DEF Delivering, IInv, Emits, clientVars
<1>2. Passed < Len(stream)
  <2>1. pc = "loop" /\ group.pos # group.last
    BY DEF Emit, EmitRaises, Drained
  <2> QED BY <1>1, <2>1, GroupFacts DEF Passed
<1>3. CASE Emit
  <2>1. Show(Passed + 1, rooms[stream[Passed + 1]]) /\ missed' = missed
    BY <1>1, <1>3 DEF Emit
  <2> QED BY <1>1, <1>2, <2>1 DEF Broadcast!Deliver, Broadcast!ShowTo, Broadcast!Room, Show
<1>4. CASE EmitRaises
  <2>1. PICK some \in SUBSET rooms[stream[Passed + 1]] :
          Show(Passed + 1, some) /\ missed' = missed \union {Passed + 1}
    BY <1>1, <1>4 DEF EmitRaises
  <2> QED BY <1>1, <1>2, <2>1 DEF Broadcast!Deliver, Broadcast!ShowTo, Broadcast!Room, Show
<1> QED BY <1>3, <1>4

LEMMA ClientBroadcasts ==
  ASSUME Delivering, NEW c \in Clients, NEW e, ClientStep(c, e)
  PROVE  [Broadcast!Next]_(Broadcast!vars)
<1>1. UNCHANGED <<stream, Passed, shown, missed>>
  BY DEF ClientStep, Connect, Disconnect, RequestJoin, JoinReturns, JoinRefused, Leave, consumerVars,
         Passed, InHand
<1>2. rooms \in [Executions -> SUBSET Clients]
  BY DEF Delivering, IInv, TypeInv, TypeOK
<1>3. CASE Connect(c) \/ RequestJoin(c, e) \/ JoinRefused(c, e)
  BY <1>1, <1>3 DEF Connect, RequestJoin, JoinRefused, Broadcast!vars
<1>4. CASE e \in Executions /\ JoinReturns(c, e)
  <2>1. Broadcast!Admit(c, e)
    BY <1>1, <1>4 DEF JoinReturns, EnterRoom, Broadcast!Admit
  <2> QED BY <1>4, <2>1 DEF Broadcast!Next
<1>5. CASE Disconnect(c)
  <2>1. Broadcast!Depart(c, Executions)
    BY <1>1, <1>5 DEF Disconnect, Broadcast!Depart
  <2> QED BY <2>1 DEF Broadcast!Next
<1>6. CASE e \in Executions /\ Leave(c, e)
  <2>1. rooms' = [x \in Executions |-> IF x \in {e} THEN rooms[x] \ {c} ELSE rooms[x]]
    BY <1>2, <1>6 DEF Leave
  <2>2. Broadcast!Depart(c, {e})
    BY <1>1, <2>1 DEF Broadcast!Depart
  <2> QED BY <1>6, <2>2 DEF Broadcast!Next
<1> QED BY <1>3, <1>4, <1>5, <1>6 DEF ClientStep

LEMMA NextBroadcasts == Delivering /\ [Next]_vars => [Broadcast!Next]_(Broadcast!vars)
<1> SUFFICES ASSUME Delivering, [Next]_vars PROVE [Broadcast!Next]_(Broadcast!vars)
  OBVIOUS
<1>1. CASE UNCHANGED vars
  BY <1>1 DEF vars, Broadcast!vars, Passed, InHand
<1>2. CASE Silent \/ Emit \/ EmitRaises
  BY <1>2, SilentBroadcasts, EmitBroadcasts DEF Broadcast!Next
<1>3. ASSUME NEW e \in Executions, Publish(e)
      PROVE  Broadcast!Next
  <2>1. Broadcast!Publish(e)
    BY <1>3 DEF Publish, Broadcast!Publish, consumerVars, clientVars, Passed, InHand
  <2> QED BY <2>1 DEF Broadcast!Next
<1>4. ASSUME NEW c \in Clients, NEW e, ClientStep(c, e)
      PROVE  [Broadcast!Next]_(Broadcast!vars)
  BY <1>4, ClientBroadcasts
<1> QED BY <1>1, <1>2, <1>3, <1>4 DEF Next, Consumer, Silent, ClientStep

(* Whatever clients, batches, failures and restarts do, an event is shown  *)
(* once, in its turn, to those in its room at that time and nobody else,   *)
(* or is among the missed.                                                 *)
THEOREM ServiceBroadcasts == Spec => BroadcastSpec
<1>1. Init => Broadcast!Init
  BY DEF Init, Broadcast!Init, Broadcast!Empty, Passed, NewGroup
<1> QED BY <1>1, NextBroadcasts, DeliveringInvariant, PTL DEF Spec, BroadcastSpec, Broadcast!Spec

====
