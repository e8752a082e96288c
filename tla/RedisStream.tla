---- MODULE RedisStream ----
(***************************************************************************)
(* A Redis stream and one consumer group with one consumer, as the three   *)
(* services of the repository use them.  The stream is a sequence that     *)
(* only XADD extends.  A group is a record:                                *)
(*   last - the group's last-delivered entry: XREADGROUP ">" moves it;     *)
(*   pos  - the consumer's own place in the batch it holds, in memory.     *)
(* The batch in hand is entries pos+1 .. last.  No consumer of the         *)
(* repository reads its pending entries list (every read asks for ">", no  *)
(* XCLAIM or XAUTOCLAIM), so an entry at or below pos is never seen again, *)
(* acknowledged or not, and XACK has no effect the services can observe    *)
(* beyond its own failure.                                                 *)
(***************************************************************************)
EXTENDS Integers, Sequences

(* A group created with id="0": every entry of the stream will be read. *)
NewGroup == [last |-> 0, pos |-> 0]

(* The groups of a stream of n entries. *)
GroupsUpTo(n) == {g \in [last : 0..n, pos : 0..n] : g.pos <= g.last}

(* The consumer has handled, or dropped, all it was delivered. *)
Drained(g) == g.pos = g.last

(* XREADGROUP ">" COUNT count, called with no batch in hand. *)
XReadGroup(g, stream, count) ==
  [g EXCEPT !.last = IF Len(stream) - g.last <= count
                     THEN Len(stream) ELSE g.last + count]

CanRead(g, stream) == Drained(g) /\ g.last < Len(stream)

(* The entry in hand. *)
InHand(g) == g.pos + 1

(* Done with the entry in hand. *)
Advance(g) == [g EXCEPT !.pos = @ + 1]

DropBatchPastEnd(g) == [g EXCEPT !.pos = g.last + 1]  \* mutant: off by one

(* The batch is lost: its consumer restarted, or left the batch loop. *)
DropBatch(g) == [g EXCEPT !.pos = g.last]

====
