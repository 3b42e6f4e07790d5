---------------------------- MODULE DroppingQueue ----------------------------
(***************************************************************************)
(* The disciplines that only bound the queue: InfinitePacketQueue,         *)
(* DropTailPacketQueue and DropHeadPacketQueue, the last two on top of     *)
(* DroppingPacketQueue (src/src/packet/dropping_packet_queue.cc).          *)
(*                                                                         *)
(* A discipline is a passive object of one ferry process, so every call is *)
(* one action.  An assert that fails ends the process: failed is set and   *)
(* nothing happens any more.                                               *)
(***************************************************************************)
EXTENDS Integers, SequencesExt, Totals

CONSTANTS
  Configs,         \* the disciplines and limits the queue may be made with
  Sizes,           \* sizes of the packets
  MaxPackets       \* bound: packets offered to the queue

\* packet_limit_ and byte_limit_ are 0 for none.
Config == [policy : {"infinite", "droptail", "drophead", "pie", "activenet"},
           packet_limit : Nat, byte_limit : Nat]

ASSUME DroppingAssumption ==
  /\ Configs \subseteq Config
  /\ \A c \in Configs :
       (c.policy = "infinite") <=> (c.packet_limit = 0 /\ c.byte_limit = 0)
  /\ Sizes \subseteq Nat \ {0}
  /\ MaxPackets \in Nat

VARIABLES
  config,          \* the discipline and its limits, which never change
  internal_queue,
  queue_size_in_bytes, queue_size_in_packets,
  returned,        \* history: what the last dequeue handed back
  offered,         \* history: number of packets offered so far
  failed           \* an assert of the code has failed

vars == <<config, internal_queue, queue_size_in_bytes, queue_size_in_packets,
          returned, offered, failed>>

Packet == [id : 1..MaxPackets, size : Sizes]
NoPacket == [id |-> 0, size |-> 0]

Init ==
  /\ config \in Configs
  /\ internal_queue = <<>>
  /\ queue_size_in_bytes = 0 /\ queue_size_in_packets = 0
  /\ returned = NoPacket /\ offered = 0 /\ failed = FALSE

good_with(bytes, packets) ==
  /\ config.byte_limit # 0 => bytes <= config.byte_limit
  /\ config.packet_limit # 0 => packets <= config.packet_limit

good == good_with(queue_size_in_bytes, queue_size_in_packets)

\* Put p on the back of the queue.
accept(p) ==
  /\ internal_queue' = Append(internal_queue, p)
  /\ queue_size_in_bytes' = queue_size_in_bytes + p.size
  /\ queue_size_in_packets' = queue_size_in_packets + 1

\* mutant: the limits are looked at without the packet that arrives
FitsBefore(p) == good_with(queue_size_in_bytes, queue_size_in_packets)
Fits(p) == good_with(queue_size_in_bytes + p.size, queue_size_in_packets + 1)

EnqueueTail(p) ==
  /\ IF Fits(p) THEN accept(p)
     ELSE UNCHANGED <<internal_queue, queue_size_in_bytes,
                      queue_size_in_packets>>
  /\ failed' = ~good'
------------------------------------------------------------------------------
(* Drop head: accept the packet, then dequeue until the limits are met.     *)

\* The bytes of a sequence of packets.
Bytes(s) == Total([i \in 1..Len(s) |-> s[i].size])

\* Are the limits met once the first k packets of s have been dequeued?
GoodWithout(s, bytes, k) ==
  good_with(bytes - Bytes(SubSeq(s, 1, k)), Len(s) - k)

\* The number of times the loop runs.
HeadDrops(s, bytes) ==
  CHOOSE k \in 0..Len(s) :
    /\ GoodWithout(s, bytes, k)
    /\ \A j \in 0..(k - 1) : ~GoodWithout(s, bytes, j)

\* mutant: the counters are not told of the packets dropped from the head
UncountedDrops(s, k) == 0
\* What the dequeues in the loop take off queue_size_in_bytes_.
BytesDropped(s, k) == Bytes(SubSeq(s, 1, k))

\* Each dequeue in the loop ends with assert( good() ).
EnqueueHead(p) ==
  LET s == Append(internal_queue, p)
      bytes == queue_size_in_bytes + p.size
      k == HeadDrops(s, bytes)
  IN /\ internal_queue' = SubSeq(s, k + 1, Len(s))
     /\ queue_size_in_bytes' = bytes - BytesDropped(s, k)
     /\ queue_size_in_packets' = queue_size_in_packets + 1 - k
     /\ failed' = \E j \in 1..k : ~GoodWithout(s, bytes, j)
------------------------------------------------------------------------------
Enqueue(p) ==
  \/ config.policy = "drophead" /\ EnqueueHead(p)
  \/ config.policy = "droptail" /\ EnqueueTail(p)
  \/ config.policy = "infinite" /\ accept(p) /\ UNCHANGED failed

enqueue ==
  /\ ~failed /\ offered < MaxPackets
  /\ UNCHANGED <<config, returned>>
  /\ \E s \in Sizes : Enqueue([id |-> offered + 1, size |-> s])
  /\ offered' = offered + 1

\* mutant: a dequeue takes the newest packet
DequeuedLast == Len(internal_queue)
\* The position dequeue takes its packet from.
Dequeued == 1

dequeue ==
  /\ ~failed /\ internal_queue # <<>>
  /\ UNCHANGED <<config, offered>>
  /\ returned' = internal_queue[Dequeued]
  /\ internal_queue' = RemoveAt(internal_queue, Dequeued)
  /\ queue_size_in_bytes' = queue_size_in_bytes - returned'.size
  /\ queue_size_in_packets' = queue_size_in_packets - 1
  /\ failed' = (config.policy # "infinite" /\ ~good')

Next == enqueue \/ dequeue

Spec == Init /\ [][Next]_vars
------------------------------------------------------------------------------
(* Properties.                                                              *)

\* Every variable has its type; the counters, which the code asserts to be
\* at least 0 before it reads them as unsigned, never go below.
TypeOK ==
  /\ config \in Configs
  /\ internal_queue \in Seq(Packet)
  /\ queue_size_in_bytes \in Nat /\ queue_size_in_packets \in Nat
  /\ returned \in Packet \cup {NoPacket}
  /\ offered \in 0..MaxPackets /\ failed \in BOOLEAN

\* The two counters, which the link's log and its drop count rely on, agree
\* with the queue after any mix of calls and drops.
CountersExact ==
  /\ queue_size_in_packets = Len(internal_queue)
  /\ queue_size_in_bytes = Bytes(internal_queue)

\* Both limits are met between any two calls, whatever mix of sizes and
\* drops has led there.
WithinLimits ==
  /\ config.packet_limit # 0 => Len(internal_queue) <= config.packet_limit
  /\ config.byte_limit # 0 => Bytes(internal_queue) <= config.byte_limit

\* A drop-head queue always gives way to newer packets: what is queued is
\* the unbroken run of the packets offered last.
NewestSurvives ==
  config.policy = "drophead" =>
    \A i \in 1..Len(internal_queue) :
      internal_queue[i].id = offered - Len(internal_queue) + i

\* No assert of the three disciplines fails: in particular assert( good() )
\* at the end of DroppingPacketQueue::dequeue, which drop head calls until the
\* limits are met.
NoAssertFails == ~failed

Contract == INSTANCE PacketQueue WITH
  Packets <- Packet, queue <- internal_queue

\* Whatever they drop, the disciplines keep the contract the link relies on.
KeepsContract == Contract!Spec
==============================================================================
