----------------------------- MODULE CodelQueue -----------------------------
(***************************************************************************)
(* CODELPacketQueue (src/src/packet/codel_packet_queue.cc): tail drop on   *)
(* arrival, and the CoDel control law when the link dequeues.              *)
(*                                                                         *)
(* dequeue takes one packet, the one it hands back, and then, while the    *)
(* control law says so, takes further packets and discards them (their     *)
(* dodequeue_result shadows the one that is handed back).  The clock is    *)
(* read once per call; only the loop is split into steps.                  *)
(***************************************************************************)
EXTENDS Integers, SequencesExt

CONSTANTS
  target, interval,        \* target_ and interval_, in ms
  PACKET_SIZE,
  packet_limit, byte_limit,
  Sizes,
  MaxPackets,              \* bound: packets offered
  MaxTime,                 \* bound: the clock
  WORD                     \* 2^w for the w-bit unsigned arithmetic of the code

ASSUME CodelAssumption ==
  /\ target \in Nat \ {0} /\ interval \in Nat \ {0}
  /\ PACKET_SIZE \in Nat \ {0}
  /\ packet_limit \in Nat /\ byte_limit \in Nat
  /\ packet_limit # 0 \/ byte_limit # 0
  /\ Sizes \subseteq 1..PACKET_SIZE
  /\ MaxPackets \in Nat /\ MaxTime \in Nat
  /\ WORD \in Nat /\ 2 * (MaxTime + interval + 16 * interval) < WORD

VARIABLES
  clock,
  internal_queue, queue_size_in_bytes, queue_size_in_packets,
  first_above_time, drop_next, count, lastcount, dropping,
  pc, now, pkt,            \* dequeue: in the loop or not, its clock, r.p
  at_call,                 \* history: the queue when dequeue was called
  discarded,               \* history: packets discarded by this call
  last_good,               \* history: when a packet last left a short queue
  returned,                \* history: what the last dequeue handed back
  offered,                 \* history: packets offered so far
  failed                   \* an assert has failed, or an empty queue been read

sizeVars == <<internal_queue, queue_size_in_bytes, queue_size_in_packets>>
lawVars == <<first_above_time, drop_next, count, lastcount, dropping>>
callVars == <<pc, now, pkt, at_call, discarded, last_good, returned>>
vars == <<clock, sizeVars, lawVars, callVars, offered, failed>>

Packet == [id : 1..MaxPackets, size : Sizes, arrival_time : 0..MaxTime]
NoPacket == [id |-> 0, size |-> 0, arrival_time |-> 0]

Init ==
  /\ clock = 0 /\ internal_queue = <<>>
  /\ queue_size_in_bytes = 0 /\ queue_size_in_packets = 0
  /\ first_above_time = 0 /\ drop_next = 0 /\ count = 0 /\ lastcount = 0
  /\ dropping = FALSE
  /\ pc = "idle" /\ now = 0 /\ pkt = NoPacket /\ at_call = <<>>
  /\ discarded = <<>> /\ last_good = 0 /\ returned = NoPacket
  /\ offered = 0 /\ failed = FALSE

good_with(bytes, packets) ==
  /\ byte_limit # 0 => bytes <= byte_limit
  /\ packet_limit # 0 => packets <= packet_limit

Fits(s) == good_with(queue_size_in_bytes + s, queue_size_in_packets + 1)

accept(p) ==
  /\ internal_queue' = Append(internal_queue, p)
  /\ queue_size_in_packets' = queue_size_in_packets + 1
  /\ queue_size_in_bytes' = queue_size_in_bytes + p.size

enqueue ==
  /\ pc = "idle" /\ ~failed /\ offered < MaxPackets
  /\ offered' = offered + 1
  /\ \E s \in Sizes :
       IF Fits(s)
       THEN accept([id |-> offered', size |-> s, arrival_time |-> clock])
       ELSE UNCHANGED sizeVars
  /\ failed' = ~good_with(queue_size_in_bytes', queue_size_in_packets')
  /\ UNCHANGED <<clock, lawVars, callVars>>
------------------------------------------------------------------------------
(* dodequeue and the control law.                                           *)

\* mutant: a short queue is not exempt
StandingQueueAlways(t) == t - Head(internal_queue).arrival_time >= target
\* Has the front packet waited too long, with more than a packet behind it?
StandingQueue(t) ==
  /\ t - Head(internal_queue).arrival_time >= target
  /\ queue_size_in_bytes - Head(internal_queue).size > PACKET_SIZE

\* Take the front packet at time t.
Pop ==
  /\ internal_queue' = Tail(internal_queue)
  /\ queue_size_in_bytes' = queue_size_in_bytes - Head(internal_queue).size
  /\ queue_size_in_packets' = queue_size_in_packets - 1
  /\ failed' = ~good_with(queue_size_in_bytes', queue_size_in_packets')

\* mutant: first_above_time_ is not reset by a packet that waited little
AboveNotReset(t) ==
  IF first_above_time = 0 /\ StandingQueue(t) THEN t + interval
  ELSE first_above_time
AboveTime(t) ==
  IF Len(internal_queue) = 1 \/ ~StandingQueue(t) THEN 0
  ELSE IF first_above_time = 0 THEN t + interval ELSE first_above_time

ok_to_drop(t) ==
  /\ Len(internal_queue) > 1 /\ StandingQueue(t)
  /\ first_above_time # 0 /\ t >= first_above_time

dodequeue(t) ==
  /\ Pop /\ first_above_time' = AboveTime(t)
  /\ last_good' = IF Len(internal_queue) > 1 /\ StandingQueue(t)
                  THEN last_good ELSE t

\* t plus interval_ / sqrt( count ), rounded down.  A count of 0 would make
\* the quotient infinite and its conversion to an integer undefined.
control_law(t, n) ==
  IF n = 0 THEN 0..(WORD - 1)
  ELSE {t + d : d \in {d \in 0..interval :
                        /\ d * d * n <= interval * interval
                        /\ (d + 1) * (d + 1) * n > interval * interval}}

\* mutant: a new dropping state starts with the drops since the last one
CountDelta(t) == count - lastcount
\* The count a new dropping state starts with; now - drop_next_ is unsigned.
StartCount(t) ==
  IF count - lastcount > 1 /\ (t - drop_next) % WORD < 16 * interval
  THEN count - lastcount ELSE 1
------------------------------------------------------------------------------
(* dequeue.                                                                 *)

dequeue ==
  /\ pc = "idle" /\ ~failed /\ internal_queue # <<>>
  /\ dodequeue(clock)
  /\ now' = clock /\ pkt' = Head(internal_queue)
  /\ at_call' = internal_queue /\ discarded' = <<>>
  /\ \/ /\ dropping
        /\ dropping' = ok_to_drop(clock) /\ pc' = "loop"
     \/ /\ ~dropping
        /\ pc' = IF ok_to_drop(clock) THEN "start" ELSE "return"
        /\ UNCHANGED dropping
  /\ UNCHANGED <<clock, drop_next, count, lastcount, returned, offered>>

\* Entering the dropping state: one more packet goes, whatever its own
\* dodequeue says.
start_dropping ==
  /\ pc = "start" /\ ~failed
  /\ IF internal_queue = <<>>
     THEN failed' = TRUE /\ UNCHANGED <<sizeVars, first_above_time, discarded, last_good>>
     ELSE dodequeue(now) /\ discarded' = Append(discarded, Head(internal_queue))
  /\ dropping' = TRUE
  /\ count' = StartCount(now) /\ lastcount' = count'
  /\ drop_next' \in control_law(now, count')
  /\ pc' = "return"
  /\ UNCHANGED <<clock, now, pkt, at_call, returned, offered>>

\* One round of the loop of the dropping state.
drop_another ==
  /\ pc = "loop" /\ ~failed /\ now >= drop_next /\ dropping
  /\ count' = count + 1
  /\ IF internal_queue = <<>>
     THEN /\ failed' = TRUE
          /\ UNCHANGED <<sizeVars, first_above_time, dropping, drop_next,
                         discarded, last_good>>
     ELSE /\ dodequeue(now)
          /\ discarded' = Append(discarded, Head(internal_queue))
          /\ dropping' = ok_to_drop(now)
          /\ drop_next' \in IF dropping' THEN control_law(drop_next, count')
                            ELSE {drop_next}
  /\ UNCHANGED <<clock, lastcount, pc, now, pkt, at_call, returned, offered>>

\* mutant: the newest packet is handed back
NewestOfCall == Last(at_call)
HandedBack == pkt

dequeue_returns ==
  /\ ~failed
  /\ pc = "return" \/ (pc = "loop" /\ (now < drop_next \/ ~dropping))
  /\ pc' = "idle" /\ returned' = HandedBack
  /\ now' = 0 /\ pkt' = NoPacket /\ at_call' = <<>> /\ discarded' = <<>>
  /\ UNCHANGED <<clock, sizeVars, lawVars, last_good, offered, failed>>

Tick ==
  /\ pc = "idle" /\ clock < MaxTime /\ ~failed
  /\ clock' = clock + 1
  /\ UNCHANGED <<sizeVars, lawVars, callVars, offered, failed>>

Next ==
  \/ enqueue \/ dequeue \/ start_dropping \/ drop_another \/ dequeue_returns
  \/ Tick

Spec == Init /\ [][Next]_vars
------------------------------------------------------------------------------
(* Properties.                                                              *)

\* Every variable has the type the code gives it; the counters that the code
\* keeps unsigned never go below zero.
TypeOK ==
  /\ clock \in 0..MaxTime /\ now \in 0..MaxTime
  /\ internal_queue \in Seq(Packet)
  /\ queue_size_in_bytes \in Nat /\ queue_size_in_packets \in Nat
  /\ first_above_time \in Nat /\ drop_next \in Nat
  /\ count \in Nat /\ lastcount \in Nat /\ dropping \in BOOLEAN
  /\ pc \in {"idle", "start", "loop", "return"}
  /\ pkt \in Packet \cup {NoPacket} /\ returned \in Packet \cup {NoPacket}
  /\ offered \in 0..MaxPackets /\ failed \in BOOLEAN
  /\ last_good \in 0..MaxTime

\* dodequeue never meets an empty queue and no assert fails: every further
\* packet is taken only after a verdict that a packet is left, and the limits
\* that enqueue lets packets in under still hold whenever one is taken.
NoAssertFails == ~failed

\* "We ignore the drop decision if the current packet is the only one in the
\* queue": a call that discards packets leaves at least one behind, so that
\* the next opportunity finds one, and no assert of it fails.
DropsLeaveOne ==
  /\ NoAssertFails
  /\ pc # "idle" /\ discarded # <<>> => internal_queue # <<>>

\* CoDel tolerates a standing queue for an interval: dequeue goes on to discard
\* a packet only when no packet was taken from a short queue, or after less
\* than the target, for a full interval, over any number of calls.
DropsAfterInterval ==
  pc = "start" \/ (pc = "loop" /\ dropping) => now >= last_good + interval

\* The count that control_law divides by is never 0 in the dropping state,
\* however dropping states follow each other, and it does not fall behind the
\* one the state was entered with (their difference is taken unsigned).
CountsOrdered == /\ TypeOK
                 /\ dropping => count >= 1
                 /\ count >= lastcount

\* The contract sees a call of dequeue as one step.
Contract == INSTANCE PacketQueue WITH
  Packets <- Packet,
  queue <- IF pc = "idle" THEN internal_queue ELSE at_call

\* CoDel keeps the contract that the link relies on.
KeepsContract == Contract!Spec
==============================================================================
