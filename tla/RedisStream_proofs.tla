---- MODULE RedisStream_proofs ----
(* What reading, advancing and dropping do to the group of a stream. *)
EXTENDS RedisStream, TLAPS

LEMMA GroupMoves ==
  ASSUME NEW n \in Nat, NEW g \in GroupsUpTo(n)
  PROVE  /\ DropBatch(g) \in GroupsUpTo(n)
         /\ ~ Drained(g) => Advance(g) \in GroupsUpTo(n) /\ InHand(g) \in 1..n
         /\ \A m \in Nat : n <= m => g \in GroupsUpTo(m)
BY DEF GroupsUpTo, DropBatch, Drained, Advance, InHand

LEMMA GroupReads ==
  ASSUME NEW S, NEW stream \in Seq(S), NEW g \in GroupsUpTo(Len(stream)),
         NEW count \in Nat \ {0}, CanRead(g, stream)
  PROVE  /\ XReadGroup(g, stream, count) \in GroupsUpTo(Len(stream))
         /\ XReadGroup(g, stream, count).pos = g.pos
         /\ ~ Drained(XReadGroup(g, stream, count))
BY DEF GroupsUpTo, XReadGroup, CanRead, Drained

(* A read whose reply is lost passes over entries and goes back to none.   *)
LEMMA GroupLoses ==
  ASSUME NEW S, NEW stream \in Seq(S), NEW g \in GroupsUpTo(Len(stream)),
         NEW count \in Nat \ {0}, CanRead(g, stream)
  PROVE  LET lost == DropBatch(XReadGroup(g, stream, count)) IN
           /\ lost \in GroupsUpTo(Len(stream))
           /\ g.pos \in Nat /\ lost.pos \in Nat /\ lost.pos >= g.pos
<1> DEFINE read == XReadGroup(g, stream, count)
<1>1. read \in GroupsUpTo(Len(stream)) /\ read.pos = g.pos
  BY GroupReads
<1>2. /\ g.pos \in Nat /\ read.pos \in Nat /\ read.last \in 0..Len(stream) /\ read.pos <= read.last
  BY <1>1 DEF GroupsUpTo
<1>3. DropBatch(read) = [last |-> read.last, pos |-> read.last]
  BY <1>1 DEF DropBatch, GroupsUpTo
<1> QED BY <1>1, <1>2, <1>3 DEF GroupsUpTo

====
