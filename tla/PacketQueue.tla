----------------------------- MODULE PacketQueue -----------------------------
(***************************************************************************)
(* AbstractPacketQueue (src/src/packet/abstract_packet_queue.hh): what the *)
(* link may rely on of any queue discipline.  The link sees a discipline   *)
(* only through enqueue, dequeue, empty and the two size counters, so the  *)
(* contract is about the queue and the packet handed back:                 *)
(*   - an enqueue puts the packet at the tail and may discard any packets, *)
(*     the new one included;                                               *)
(*   - a dequeue of a non-empty queue always hands back one packet that    *)
(*     was queued; it may discard packets in front of it (Octopus) and     *)
(*     right behind it (CoDel), and leaves the rest untouched.             *)
(* Both keep the packets that stay in their order of arrival.              *)
(***************************************************************************)
EXTENDS Integers, Sequences

CONSTANTS Packets,      \* the packets that may be offered to the queue
          NoPacket      \* what dequeue has handed back before the first call

VARIABLES queue,        \* the queued packets, oldest first
          returned      \* the packet handed back by the last dequeue

\* How many of m elements have been discarded before each of n that stay.
Discards(n, m) ==
  {d \in [1..n -> 0..(m - n)] : \A i, j \in 1..n : i < j => d[i] <= d[j]}

\* The sequences left when some elements of s are discarded.
Thinnings(s) ==
  UNION {{[i \in 1..n |-> s[i + d[i]]] : d \in Discards(n, Len(s))} :
            n \in 0..Len(s)}

\* Is q what is left of s when some elements are discarded?
IsThinning(q, s) ==
  /\ Len(q) <= Len(s)
  /\ \E d \in Discards(Len(q), Len(s)) :
       \A i \in 1..Len(q) : q[i] = s[i + d[i]]

Init == queue = <<>> /\ returned = NoPacket

\* The packet offered is discarded, or it is the last of those that stay.
Enqueue ==
  /\ \/ IsThinning(queue', queue)
     \/ /\ queue' # <<>> /\ queue'[Len(queue')] \in Packets
        /\ IsThinning(SubSeq(queue', 1, Len(queue') - 1), queue)
  /\ UNCHANGED returned

\* Hand back position i and discard everything up to position k.
Dequeue ==
  \E k \in 1..Len(queue) : \E i \in 1..k :
    /\ returned' = queue[i]
    /\ queue' = SubSeq(queue, k + 1, Len(queue))

Next == Dequeue \/ Enqueue

Spec == Init /\ [][Next]_<<queue, returned>>
==============================================================================
