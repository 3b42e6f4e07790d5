--------------------------- MODULE LinkQueueProofs ---------------------------
(***************************************************************************)
(* Proofs about LinkQueue, for every trace, packet size and discipline.    *)
(***************************************************************************)
EXTENDS LinkQueue, RecursionTheorems, SequenceTheorems, TLAPS

\* What a discipline leaves in the queue comes from what was in it.
LEMMA ThinningsElements ==
  ASSUME NEW S, NEW s \in Seq(S), NEW q \in Contract!Thinnings(s)
  PROVE  /\ q \in Seq(S)
         /\ Len(q) <= Len(s)
         /\ \A i \in 1..Len(q) : \E j \in 1..Len(s) : q[i] = s[j]
         /\ \E f \in [1..Len(q) -> 1..Len(s)] :
              /\ \A i \in 1..Len(q) : q[i] = s[f[i]]
              /\ \A i, j \in 1..Len(q) : i < j => f[i] < f[j]
<1>1. PICK n \in 0..Len(s) : \E d \in Contract!Discards(n, Len(s)) :
               q = [i \in 1..n |-> s[i + d[i]]]
  BY DEF Contract!Thinnings
<1>2. PICK d \in Contract!Discards(n, Len(s)) :
             q = [i \in 1..n |-> s[i + d[i]]]
  BY <1>1
<1>3. /\ d \in [1..n -> 0..(Len(s) - n)]
      /\ \A i, j \in 1..n : i < j => d[i] <= d[j]
  BY <1>2 DEF Contract!Discards
<1> DEFINE f == [i \in 1..n |-> i + d[i]]
<1>4. /\ f \in [1..n -> 1..Len(s)]
      /\ \A i, j \in 1..n : i < j => f[i] < f[j]
  BY <1>3, SMTT(30)
<1>5. q \in Seq(S) /\ Len(q) = n
  BY <1>2, <1>3
<1>6. \A i \in 1..n : q[i] = s[f[i]]
  BY <1>2
<1> HIDE DEF f
<1>7. \A i \in 1..Len(q) : \E j \in 1..Len(s) : q[i] = s[j]
  BY <1>4, <1>5, <1>6
<1>8. \E g \in [1..Len(q) -> 1..Len(s)] :
        /\ \A i \in 1..Len(q) : q[i] = s[g[i]]
        /\ \A i, j \in 1..Len(q) : i < j => g[i] < g[j]
  <2>1. f \in [1..Len(q) -> 1..Len(s)]
    BY <1>4, <1>5
  <2> WITNESS f \in [1..Len(q) -> 1..Len(s)]
  <2> QED
    BY <1>4, <1>5, <1>6
<1>9. Len(q) <= Len(s)
  BY <1>5
<1> QED
  BY <1>5, <1>7, <1>8, <1>9, Zenon

\* What is left when the first k elements have been taken off a sequence.
LEMMA WithoutFront ==
  ASSUME NEW S, NEW s \in Seq(S), NEW k \in 0..Len(s)
  PROVE  /\ SubSeq(s, k + 1, Len(s)) \in Seq(S)
         /\ Len(SubSeq(s, k + 1, Len(s))) = Len(s) - k
         /\ \A i \in 1..(Len(s) - k) :
              SubSeq(s, k + 1, Len(s))[i] = s[k + i]
<1>1. /\ Len(s) \in Int /\ k \in Int /\ k + 1 \in Int /\ k <= Len(s)
      /\ \A i \in (k + 1)..Len(s) : s[i] \in S
  OBVIOUS
<1> QED
  BY <1>1, SubSeqProperties

\* The constants, in the form the proofs use them.
LEMMA Constants ==
  /\ PACKET_SIZE \in Nat /\ PACKET_SIZE > 0
  /\ Len(Schedule) \in Nat /\ Len(Schedule) > 0
  /\ \A i \in 1..Len(Schedule) : Schedule[i] \in Nat
  /\ \A s \in Sizes : s \in 1..PACKET_SIZE
<1>1. Schedule \in Seq(Nat) /\ Len(Schedule) > 0
  BY LinkAssumption
<1>2. /\ Len(Schedule) \in Nat
      /\ \A i \in 1..Len(Schedule) : Schedule[i] \in Nat
  BY <1>1
<1> QED
  BY <1>1, <1>2, LinkAssumption

\* Moving on in the trace: to the next entry, or round to the first one.
LEMMA NextDelivery ==
  ASSUME NEW n \in Nat, NEW k \in 0..(n - 1)
  PROVE  /\ k < n - 1 => (k + 1) % n = k + 1
         /\ k = n - 1 => (k + 1) % n = 0
         /\ (k + 1) % n \in 0..(n - 1)
OBVIOUS

\* The trace never steps back: the opportunity after this one is not earlier.
LEMMA NextOpportunityIsLater ==
  ASSUME TypeOK, use_a_delivery_opportunity
  PROVE  /\ next_delivery_time \in Nat
         /\ TraceTypeOK'
         /\ ~finished' => next_delivery_time <= next_delivery_time'
<1> DEFINE n == Len(Schedule)
<1>1. /\ n \in Nat /\ n > 0 /\ next_delivery \in 0..(n - 1)
      /\ base_timestamp \in Nat /\ finished \in BOOLEAN
      /\ repeat \in BOOLEAN /\ opportunities \in Seq(Nat)
      /\ \A i \in 1..n : Schedule[i] \in Nat
  BY Constants DEF TypeOK, TraceTypeOK
<1>2. /\ next_delivery' = (next_delivery + 1) % n
      /\ base_timestamp' = IF next_delivery' = 0 /\ repeat THEN NextBase
                           ELSE base_timestamp
      /\ finished' = (finished \/ (next_delivery' = 0 /\ ~repeat))
      /\ opportunities' = Append(opportunities, next_delivery_time)
      /\ repeat' = repeat
  BY DEF use_a_delivery_opportunity
<1>3. next_delivery_time \in Nat
  BY <1>1 DEF next_delivery_time
<1>4. NextBase \in Nat
  BY <1>1 DEF NextBase
<1>5. TraceTypeOK'
  <2>1. next_delivery' \in 0..(n - 1)
    BY <1>1, <1>2, NextDelivery
  <2>2. base_timestamp' \in Nat
    BY <1>1, <1>2, <1>4
  <2>3. finished' \in BOOLEAN /\ repeat' \in BOOLEAN
    BY <1>1, <1>2
  <2>4. opportunities' \in Seq(Nat)
    BY <1>1, <1>2, <1>3
  <2> QED
    BY <2>1, <2>2, <2>3, <2>4 DEF TraceTypeOK
<1>6. ASSUME ~finished' PROVE next_delivery_time <= next_delivery_time'
  <2>1. CASE next_delivery = n - 1
    <3>1. next_delivery' = 0
      BY <1>1, <1>2, <2>1, NextDelivery
    <3>2. base_timestamp' = base_timestamp + Schedule[n]
      BY <1>2, <1>6, <3>1 DEF NextBase
    <3> QED
      BY <1>1, <2>1, <3>1, <3>2 DEF next_delivery_time
  <2>2. CASE next_delivery < n - 1
    <3>1. next_delivery' = next_delivery + 1
      BY <1>1, <1>2, <2>2, NextDelivery
    <3>2. base_timestamp' = base_timestamp
      BY <1>1, <1>2, <3>1
    <3>3. Schedule[next_delivery + 1] <= Schedule[next_delivery + 2]
      BY <1>1, <2>2, LinkAssumption
    <3> QED
      BY <1>1, <2>2, <3>1, <3>2, <3>3, SMTT(30) DEF next_delivery_time
  <2> QED
    BY <1>1, <2>1, <2>2
<1> QED
  BY <1>3, <1>5, <1>6
------------------------------------------------------------------------------
(* The inductive invariant.                                                 *)

\* The handler of an arriving packet carries it with the handler's own time.
IncomingInv ==
  pc \in {"rationalize", "send"} /\ caller = "read_packet" =>
    incoming \in Packet /\ incoming.arrival_time = now

\* A packet in transit is a real one, with at most its own bytes left.
TransitInv ==
  bytes_left > 0 => in_transit \in Packet /\ bytes_left <= in_transit.size

\* While an opportunity is being used, everything the link holds arrived
\* before it, and the next one is not earlier; between opportunities,
\* everything arrived before the next one.
TimelyInv ==
  /\ pc = "send" =>
       /\ \A i \in 1..Len(packet_queue) :
            packet_queue[i].arrival_time < this_delivery_time
       /\ bytes_left > 0 => in_transit.arrival_time < this_delivery_time
       /\ ~finished => this_delivery_time <= next_delivery_time
  /\ pc # "send" /\ ~finished =>
       /\ \A i \in 1..Len(packet_queue) :
            packet_queue[i].arrival_time < next_delivery_time
       /\ bytes_left > 0 => in_transit.arrival_time < next_delivery_time

IInv ==
  TypeOK /\ IncomingInv /\ TransitInv /\ TimelyInv /\ NoTimeTravel

\* The process starts with an empty link.
LEMMA InitIInv == Init => IInv
<1> SUFFICES ASSUME Init PROVE IInv
  OBVIOUS
<1>1. TypeOK
  <2>1. ProcTypeOK
    BY DEF Init, ProcTypeOK
  <2>2. TraceTypeOK
    <3>1. next_delivery \in 0..(Len(Schedule) - 1)
      BY Constants DEF Init
    <3>2. repeat \in BOOLEAN /\ finished \in BOOLEAN /\ base_timestamp \in Nat
      BY DEF Init
    <3>3. opportunities \in Seq(Nat)
      BY DEF Init
    <3> QED
      BY <3>1, <3>2, <3>3 DEF TraceTypeOK
  <2>3. SendTypeOK
    BY Constants DEF Init, SendTypeOK
  <2>4. QueueTypeOK
    BY DEF Init, QueueTypeOK
  <2> QED
    BY <2>1, <2>2, <2>3, <2>4 DEF TypeOK
<1> QED
  BY <1>1 DEF Init, IInv, IncomingInv, TransitInv, TimelyInv, NoTimeTravel

\* Sending bytes of a packet that arrived before the opportunity.
LEMMA TransmitIInv ==
  ASSUME IInv, pc = "send", opportunity > 0,
         NEW p \in Packet, NEW left \in 1..p.size,
         p.arrival_time < this_delivery_time, Transmit(p, left)
  PROVE  /\ in_transit' = p /\ bytes_left' \in Nat /\ bytes_left' <= p.size
         /\ bytes_left' <= PACKET_SIZE
         /\ opportunity' \in 0..PACKET_SIZE
         /\ output_queue' \in Seq(Departure) /\ departed' \in Seq(Departure)
         /\ NoTimeTravel'
<1> DEFINE amount == IF opportunity < left THEN opportunity ELSE left
           gone == [id |-> p.id, size |-> p.size,
                    arrival_time |-> p.arrival_time,
                    time |-> this_delivery_time]
<1>1. /\ p.size \in 1..PACKET_SIZE /\ left \in Nat /\ left <= p.size
      /\ p.arrival_time \in Nat /\ this_delivery_time \in Nat
      /\ opportunity \in 0..PACKET_SIZE /\ PACKET_SIZE \in Nat
      /\ departed \in Seq(Departure) /\ output_queue \in Seq(Departure)
  BY Constants DEF IInv, TypeOK, SendTypeOK, Packet
<1>2. amount \in Nat /\ amount <= left /\ amount <= opportunity
  BY <1>1
<1>3. /\ in_transit' = p /\ bytes_left' = left - amount
      /\ opportunity' = opportunity - amount
  BY DEF Transmit, Amount
<1>4. gone \in Departure
  BY <1>1 DEF Packet, Departure
<1>5. \/ departed' = Append(departed, gone)
         /\ output_queue' = Append(output_queue, gone)
      \/ UNCHANGED <<departed, output_queue>>
  BY DEF Transmit, Amount
<1>6. output_queue' \in Seq(Departure) /\ departed' \in Seq(Departure)
  <2>1. Append(departed, gone) \in Seq(Departure)
    BY <1>1, <1>4
  <2>2. Append(output_queue, gone) \in Seq(Departure)
    BY <1>1, <1>4
  <2> HIDE DEF gone
  <2> QED
    BY <1>1, <1>5, <2>1, <2>2
<1>7. NoTimeTravel'
  <2>1. CASE departed' = Append(departed, gone)
    BY <1>1, <1>4, <2>1 DEF IInv, NoTimeTravel
  <2>2. CASE UNCHANGED departed
    BY <2>2 DEF IInv, NoTimeTravel
  <2> QED
    BY <1>5, <2>1, <2>2
<1> QED
  BY <1>1, <1>2, <1>3, <1>6, <1>7

\* The use of an opportunity: what was held before the next one is now held
\* before this one.
LEMMA UseIInv == ASSUME IInv, use_a_delivery_opportunity PROVE IInv'
<1>1. /\ next_delivery_time \in Nat /\ TraceTypeOK'
      /\ ~finished' => next_delivery_time <= next_delivery_time'
  BY NextOpportunityIsLater DEF IInv
<1>2. /\ pc = "rationalize" /\ ~finished /\ pc' = "send"
      /\ this_delivery_time' = next_delivery_time
      /\ opportunity' = PACKET_SIZE
      /\ UNCHANGED <<clock, caller, now, ready, deadline, incoming,
                     in_transit, bytes_left, output_queue, departed,
                     packet_queue, arrivals, drops, unlogged>>
  BY DEF use_a_delivery_opportunity, Due, queueVars
<1>3. TypeOK'
  <2>1. ProcTypeOK'
    BY <1>2 DEF IInv, TypeOK, ProcTypeOK
  <2>2. SendTypeOK'
    BY <1>1, <1>2, Constants DEF IInv, TypeOK, SendTypeOK
  <2>3. QueueTypeOK'
    BY <1>2 DEF IInv, TypeOK, QueueTypeOK
  <2> QED
    BY <1>1, <2>1, <2>2, <2>3 DEF TypeOK
<1>4. IncomingInv' /\ TransitInv' /\ NoTimeTravel'
  BY <1>2 DEF IInv, IncomingInv, TransitInv, NoTimeTravel
<1>5. TimelyInv'
  BY <1>1, <1>2 DEF IInv, TimelyInv
<1> QED
  BY <1>3, <1>4, <1>5 DEF IInv

\* Sending: the packet in transit, or the one the discipline hands out.
LEMMA SendIInv ==
  ASSUME IInv, ContinuePacket \/ dequeue_packet PROVE IInv'
<1>1. /\ pc = "send" /\ opportunity > 0
      /\ UNCHANGED <<clock, procVars, traceVars, this_delivery_time,
                     arrivals, drops>>
  BY DEF ContinuePacket, dequeue_packet, queueVars
<1>2. /\ UNCHANGED <<clock, pc, caller, now, ready, deadline, incoming>>
      /\ UNCHANGED <<repeat, next_delivery, base_timestamp, finished,
                     opportunities>>
      /\ UNCHANGED <<this_delivery_time, arrivals, drops>>
  BY <1>1 DEF procVars, traceVars
<1>3. \E p \in Packet : \E left \in 1..p.size :
        p.arrival_time < this_delivery_time /\ Transmit(p, left)
  <2>1. CASE ContinuePacket
    <3>1. bytes_left > 0 /\ Transmit(in_transit, bytes_left)
      BY <2>1 DEF ContinuePacket
    <3>2. /\ in_transit \in Packet /\ bytes_left \in Nat
          /\ bytes_left <= in_transit.size
          /\ in_transit.arrival_time < this_delivery_time
      BY <1>1, <3>1, Constants
      DEF IInv, TypeOK, SendTypeOK, TransitInv, TimelyInv
    <3>3. bytes_left \in 1..in_transit.size
      BY <3>1, <3>2, Constants DEF Packet
    <3> QED
      BY <3>1, <3>2, <3>3
  <2>2. CASE dequeue_packet
    <3>1. PICK c \in DequeueChoices :
                 Transmit(packet_queue[c[1]], packet_queue[c[1]].size)
      BY <2>2 DEF dequeue_packet
    <3> DEFINE p == packet_queue[c[1]]
    <3>2. c[1] \in 1..Len(packet_queue)
      BY DEF DequeueChoices
    <3>3. p \in Packet /\ p.arrival_time < this_delivery_time
      BY <1>1, <3>2 DEF IInv, TypeOK, QueueTypeOK, TimelyInv
    <3>4. p.size \in 1..p.size
      BY <3>3, Constants DEF Packet
    <3> QED
      BY <3>1, <3>3, <3>4
  <2> QED
    BY <2>1, <2>2
<1>p. PICK p \in Packet : \E left \in 1..p.size :
             p.arrival_time < this_delivery_time /\ Transmit(p, left)
  BY <1>3
<1>4. PICK left \in 1..p.size :
             p.arrival_time < this_delivery_time /\ Transmit(p, left)
  BY <1>p
<1>5. /\ in_transit' = p /\ bytes_left' \in Nat /\ bytes_left' <= p.size
      /\ bytes_left' <= PACKET_SIZE
      /\ opportunity' \in 0..PACKET_SIZE
      /\ output_queue' \in Seq(Departure) /\ departed' \in Seq(Departure)
      /\ NoTimeTravel'
  BY <1>1, <1>4, TransmitIInv
<1>6. /\ packet_queue' \in Seq(Packet)
      /\ \A i \in 1..Len(packet_queue') :
           packet_queue'[i].arrival_time < this_delivery_time
  <2>1. CASE ContinuePacket
    BY <1>1, <2>1
    DEF ContinuePacket, queueVars, IInv, TypeOK, QueueTypeOK, TimelyInv
  <2>2. CASE dequeue_packet
    <3>1. PICK c \in DequeueChoices :
            packet_queue' = SubSeq(packet_queue, c[2] + 1, Len(packet_queue))
      BY <2>2 DEF dequeue_packet
    <3>2. c[2] \in 1..Len(packet_queue) /\ c[2] \in 0..Len(packet_queue)
      BY DEF DequeueChoices
    <3>3. /\ packet_queue \in Seq(Packet) /\ Len(packet_queue) \in Nat
          /\ \A i \in 1..Len(packet_queue) :
               packet_queue[i].arrival_time < this_delivery_time
      BY <1>1 DEF IInv, TypeOK, QueueTypeOK, TimelyInv
    <3> DEFINE q == SubSeq(packet_queue, c[2] + 1, Len(packet_queue))
    <3>q. /\ q \in Seq(Packet)
          /\ Len(q) = Len(packet_queue) - c[2]
          /\ \A i \in 1..(Len(packet_queue) - c[2]) :
               q[i] = packet_queue[c[2] + i]
      BY <3>2, <3>3, WithoutFront
    <3> HIDE DEF q
    <3>4. /\ packet_queue' \in Seq(Packet)
          /\ Len(packet_queue') = Len(packet_queue) - c[2]
          /\ \A i \in 1..Len(packet_queue') :
               packet_queue'[i] = packet_queue[c[2] + i]
      BY <3>1, <3>q DEF q
    <3>5. \A i \in 1..Len(packet_queue') :
            c[2] + i \in 1..Len(packet_queue)
      BY <3>2, <3>3, <3>4
    <3> QED
      BY <3>3, <3>4, <3>5
  <2> QED
    BY <2>1, <2>2
<1>u. unlogged' \in Nat
  <2>1. CASE ContinuePacket
    BY <2>1 DEF ContinuePacket, queueVars, IInv, TypeOK, QueueTypeOK
  <2>2. CASE dequeue_packet
    <3>1. PICK c \in DequeueChoices : unlogged' = unlogged + c[2] - 1
      BY <2>2 DEF dequeue_packet
    <3>2. c[2] \in Nat /\ c[2] >= 1
      BY DEF DequeueChoices
    <3> QED
      BY <3>1, <3>2 DEF IInv, TypeOK, QueueTypeOK
  <2> QED
    BY <2>1, <2>2
<1>7. TypeOK'
  <2>1. ProcTypeOK' /\ TraceTypeOK'
    BY <1>2 DEF IInv, TypeOK, ProcTypeOK, TraceTypeOK
  <2>2. SendTypeOK'
    BY <1>2, <1>5, Constants DEF IInv, TypeOK, SendTypeOK
  <2>3. QueueTypeOK'
    BY <1>2, <1>6, <1>u DEF IInv, TypeOK, QueueTypeOK
  <2> QED
    BY <2>1, <2>2, <2>3 DEF TypeOK
<1>8. IncomingInv' /\ TransitInv'
  BY <1>2, <1>5 DEF IInv, IncomingInv, TransitInv
<1>9. TimelyInv'
  BY <1>1, <1>2, <1>4, <1>5, <1>6
  DEF IInv, TimelyInv, next_delivery_time
<1> QED
  BY <1>5, <1>7, <1>8, <1>9 DEF IInv

\* The steps that leave the link itself alone, the clock's included.
LEMMA OutsideIInv ==
  ASSUME IInv,
         UNCHANGED <<traceVars, queueVars>>,
         UNCHANGED <<this_delivery_time, opportunity, in_transit, bytes_left,
                     departed>>,
         output_queue' \in Seq(Departure), ProcTypeOK', IncomingInv',
         pc # "send" \/ EndOpportunity \/ pc' = pc,
         pc' = "send" => pc = "send"
  PROVE  IInv'
<1>1. UNCHANGED <<repeat, next_delivery, base_timestamp, finished,
                  opportunities, packet_queue, arrivals, drops, unlogged>>
  BY DEF traceVars, queueVars
<1>2. TypeOK'
  <2>1. TraceTypeOK' /\ QueueTypeOK'
    BY <1>1 DEF IInv, TypeOK, TraceTypeOK, QueueTypeOK
  <2>2. SendTypeOK'
    BY DEF IInv, TypeOK, SendTypeOK
  <2> QED
    BY <2>1, <2>2 DEF TypeOK
<1>3. TransitInv' /\ NoTimeTravel'
  BY DEF IInv, TransitInv, NoTimeTravel
<1>4. next_delivery_time' = next_delivery_time
  BY <1>1 DEF next_delivery_time
<1>5. /\ next_delivery_time \in Nat /\ this_delivery_time \in Nat
      /\ in_transit.arrival_time \in Nat
      /\ \A i \in 1..Len(packet_queue) : packet_queue[i].arrival_time \in Nat
  <2>1. next_delivery_time \in Nat
    BY Constants DEF IInv, TypeOK, TraceTypeOK, next_delivery_time
  <2>2. this_delivery_time \in Nat /\ in_transit.arrival_time \in Nat
    BY DEF IInv, TypeOK, SendTypeOK, Packet, Empty
  <2>3. packet_queue \in Seq(Packet)
    BY DEF IInv, TypeOK, QueueTypeOK
  <2>4. \A x \in Packet : x.arrival_time \in Nat
    BY DEF Packet
  <2>5. \A i \in 1..Len(packet_queue) : packet_queue[i].arrival_time \in Nat
    BY <2>3, <2>4
  <2> QED
    BY <2>1, <2>2, <2>5
<1>6. TimelyInv'
  BY <1>1, <1>4, <1>5 DEF IInv, TimelyInv
<1> QED
  BY <1>2, <1>3, <1>6 DEF IInv

\* An arriving packet is queued only once everything due has been sent.
LEMMA EnqueueIInv == ASSUME IInv, read_packet_enqueues PROVE IInv'
<1>1. /\ pc = "rationalize" /\ caller = "read_packet" /\ ~Due(now)
      /\ pc' = "callbacks" /\ arrivals' = arrivals + 1
      /\ UNCHANGED <<clock, caller, now, ready, deadline, incoming>>
  BY DEF read_packet_enqueues, EnqueueAllowed
<1>2. /\ UNCHANGED <<repeat, next_delivery, base_timestamp, finished,
                     opportunities>>
      /\ UNCHANGED <<this_delivery_time, opportunity, in_transit, bytes_left,
                     output_queue, departed, unlogged>>
  BY DEF read_packet_enqueues, traceVars, sendVars
<1>3. incoming \in Packet /\ incoming.arrival_time = now
  BY <1>1 DEF IInv, IncomingInv
<1>4. packet_queue \in Seq(Packet)
  BY DEF IInv, TypeOK, QueueTypeOK
<1> DEFINE s == Append(packet_queue, incoming)
<1>5. /\ s \in Seq(Packet) /\ Len(s) = Len(packet_queue) + 1
      /\ \A i \in 1..Len(packet_queue) : s[i] = packet_queue[i]
      /\ s[Len(packet_queue) + 1] = incoming
  BY <1>3, <1>4
<1>6. PICK q \in Contract!Thinnings(s) :
             packet_queue' = q /\ drops' = drops + Missing(q)
  BY DEF read_packet_enqueues
<1> HIDE DEF s
<1>7. /\ q \in Seq(Packet) /\ Len(q) <= Len(s)
      /\ \A i \in 1..Len(q) : \E j \in 1..Len(s) : q[i] = s[j]
  BY <1>5, ThinningsElements
<1>8. TypeOK'
  <2>1. ProcTypeOK' /\ TraceTypeOK' /\ SendTypeOK'
    BY <1>1, <1>2 DEF IInv, TypeOK, ProcTypeOK, TraceTypeOK, SendTypeOK
  <2>2. Missing(q) \in Nat
    BY <1>4, <1>5, <1>7 DEF Missing
  <2>3. QueueTypeOK'
    BY <1>1, <1>2, <1>6, <1>7, <2>2 DEF IInv, TypeOK, QueueTypeOK
  <2> QED
    BY <2>1, <2>3 DEF TypeOK
<1>9. IncomingInv' /\ TransitInv' /\ NoTimeTravel'
  BY <1>1, <1>2 DEF IInv, IncomingInv, TransitInv, NoTimeTravel
<1>10. TimelyInv'
  <2>1. next_delivery_time' = next_delivery_time
    BY <1>2 DEF next_delivery_time
  <2>2. next_delivery_time \in Nat /\ now \in Nat
    BY Constants
    DEF IInv, TypeOK, TraceTypeOK, ProcTypeOK, next_delivery_time
  <2>3. ASSUME ~finished
        PROVE  \A j \in 1..Len(s) : s[j].arrival_time < next_delivery_time
    <3>1. now < next_delivery_time
      BY <1>1, <2>2, <2>3 DEF Due
    <3>2. \A j \in 1..Len(packet_queue) :
            packet_queue[j].arrival_time < next_delivery_time
      BY <1>1, <2>3 DEF IInv, TimelyInv
    <3> QED
      BY <1>3, <1>4, <1>5, <3>1, <3>2
  <2>4. ~finished => \A i \in 1..Len(q) :
                       q[i].arrival_time < next_delivery_time
    BY <1>7, <2>3
  <2> QED
    BY <1>1, <1>2, <1>6, <2>1, <2>4 DEF IInv, TimelyInv
<1> QED
  BY <1>8, <1>9, <1>10 DEF IInv

\* Every step of the process and of the clock keeps the invariant.
LEMMA NextIInv == IInv /\ [Next]_vars => IInv'
<1> SUFFICES ASSUME IInv, [Next]_vars PROVE IInv'
  OBVIOUS
<1> USE DEF procVars, sendVars
<1>t. /\ ProcTypeOK /\ output_queue \in Seq(Departure)
      /\ arrivals \in Nat /\ IncomingInv
  BY DEF IInv, TypeOK, SendTypeOK, QueueTypeOK
<1>1. CASE use_a_delivery_opportunity
  BY <1>1, UseIInv
<1>2. CASE ContinuePacket \/ dequeue_packet
  BY <1>2, SendIInv
<1>3. CASE EndOpportunity
  <2>1. ProcTypeOK' /\ IncomingInv'
    BY <1>t, <1>3 DEF EndOpportunity, ProcTypeOK, IncomingInv
  <2> QED
    BY <1>t, <1>3, <2>1, OutsideIInv DEF EndOpportunity
<1>4. CASE wait_time
  <2>1. ProcTypeOK' /\ IncomingInv'
    BY <1>t, <1>4 DEF wait_time, ProcTypeOK, IncomingInv
  <2> QED
    BY <1>t, <1>4, <2>1, OutsideIInv DEF wait_time
<1>5. CASE wait_time_returns
  <2>1. next_delivery_time \in Nat
    BY Constants DEF IInv, TypeOK, TraceTypeOK, next_delivery_time
  <2>2. ProcTypeOK' /\ IncomingInv'
    BY <1>t, <1>5, <2>1 DEF wait_time_returns, PollUntil, ProcTypeOK, IncomingInv
  <2> QED
    BY <1>t, <1>5, <2>2, OutsideIInv DEF wait_time_returns
<1>6. CASE read_packet_enqueues
  BY <1>6, EnqueueIInv
<1>7. CASE read_packet
  <2>1. PICK size \in Sizes : incoming' =
          [id |-> arrivals + 1, size |-> size, arrival_time |-> clock]
    BY <1>7 DEF read_packet
  <2>2. incoming' \in Packet /\ incoming'.arrival_time = clock
    BY <1>t, <2>1 DEF Packet, ProcTypeOK
  <2>3. ProcTypeOK' /\ IncomingInv'
    BY <1>t, <1>7, <2>2 DEF read_packet, ProcTypeOK, IncomingInv
  <2> QED
    BY <1>t, <1>7, <2>3, OutsideIInv DEF read_packet
<1>8. CASE write_packets
  <2>1. ProcTypeOK' /\ IncomingInv'
    BY <1>t, <1>8 DEF write_packets, ProcTypeOK, IncomingInv
  <2>2. output_queue' \in Seq(Departure)
    BY <1>8 DEF write_packets, WrittenOut
  <2> QED
    BY <1>8, <2>1, <2>2, OutsideIInv DEF write_packets
<1>9. CASE callbacks_done
  <2>1. ProcTypeOK' /\ IncomingInv'
    BY <1>t, <1>9 DEF callbacks_done, ProcTypeOK, IncomingInv
  <2> QED
    BY <1>t, <1>9, <2>1, OutsideIInv DEF callbacks_done
<1>10. CASE poll_timeout
  <2>1. ProcTypeOK' /\ IncomingInv'
    BY <1>t, <1>10 DEF poll_timeout, ProcTypeOK, IncomingInv
  <2> QED
    BY <1>t, <1>10, <2>1, OutsideIInv DEF poll_timeout
<1>11. ASSUME NEW readable \in BOOLEAN, NEW writable \in BOOLEAN,
              poll(readable, writable)
       PROVE  IInv'
  <2>1. ProcTypeOK' /\ IncomingInv'
    BY <1>t, <1>11 DEF poll, SiblingEvents, ProcTypeOK, IncomingInv
  <2> QED
    BY <1>t, <1>11, <2>1, OutsideIInv DEF poll
<1>12. CASE Tick
  <2>1. ProcTypeOK' /\ IncomingInv'
    BY <1>t, <1>12 DEF Tick, ProcTypeOK, IncomingInv
  <2> QED
    BY <1>t, <1>12, <2>1, OutsideIInv DEF Tick
<1>13. CASE UNCHANGED vars
  <2>1. ProcTypeOK' /\ IncomingInv'
    BY <1>t, <1>13 DEF vars, ProcTypeOK, IncomingInv
  <2> QED
    BY <1>t, <1>13, <2>1, OutsideIInv DEF vars
<1> QED
  BY <1>1, <1>2, <1>3, <1>4, <1>5, <1>6, <1>7, <1>8, <1>9, <1>10, <1>11,
     <1>12, <1>13 DEF Next, Step
------------------------------------------------------------------------------
\* The inductive invariant holds in every reachable state.
THEOREM Invariance == Spec => []IInv
<1> QED
  BY InitIInv, NextIInv, PTL DEF Spec

\* Every variable of the link and its ferry keeps its type, whatever the
\* trace, the packet sizes and the discipline.
THEOREM TypeCorrect == Spec => []TypeOK
<1>1. IInv => TypeOK
  BY DEF IInv
<1> QED
  BY <1>1, Invariance, PTL

\* A packet always leaves at an opportunity after its arrival: emulating the
\* link lazily, with a handler that is arbitrarily late, never delivers a
\* packet in the past (rationalize's assertion on arrival_time).
THEOREM LinkNoTimeTravel == Spec => []NoTimeTravel
<1>1. IInv => NoTimeTravel
  BY DEF IInv
<1> QED
  BY <1>1, Invariance, PTL

\* The assertions rationalize makes before it sends bytes never fail.
THEOREM LinkSendAsserts == Spec => []SendAsserts
<1>1. ASSUME IInv PROVE SendAsserts
  <2>1. /\ bytes_left \in 0..PACKET_SIZE /\ this_delivery_time \in Nat
        /\ in_transit \in Packet \cup {Empty}
    BY <1>1 DEF IInv, TypeOK, SendTypeOK
  <2>2. in_transit.arrival_time \in Nat
    BY <2>1 DEF Packet, Empty
  <2>3. /\ bytes_left > 0 => bytes_left <= in_transit.size
        /\ bytes_left > 0 /\ pc = "send" =>
             in_transit.arrival_time < this_delivery_time
    BY <1>1 DEF IInv, TransitInv, TimelyInv
  <2> QED
    BY <2>1, <2>2, <2>3, Constants DEF SendAsserts
<1> QED
  BY <1>1, Invariance, PTL
------------------------------------------------------------------------------
(* The log.                                                                 *)

\* A packet is in transit or has left, never both or neither.
LEMMA TransmitBalances ==
  ASSUME IInv, NEW p \in Packet, NEW left \in 1..p.size, Transmit(p, left)
  PROVE  Len(departed') + (IF bytes_left' > 0 THEN 1 ELSE 0)
           = Len(departed) + 1
<1> DEFINE amount == Amount(left)
<1>1. /\ left \in Nat /\ opportunity \in Nat /\ departed \in Seq(Departure)
      /\ Len(departed) \in Nat
  BY Constants DEF IInv, TypeOK, SendTypeOK, Packet
<1>2. amount \in Nat /\ amount <= left
  BY <1>1 DEF Amount
<1>3. bytes_left' = left - amount
  BY DEF Transmit
<1>4. CASE left - amount = 0
  <2>1. PICK gone : departed' = Append(departed, gone)
    BY <1>4 DEF Transmit, Done
  <2> QED
    BY <1>1, <1>3, <1>4, <2>1
<1>5. CASE left - amount # 0
  <2>1. departed' = departed
    BY <1>5 DEF Transmit, Done
  <2> QED
    BY <1>1, <1>2, <1>3, <1>5, <2>1
<1> QED
  BY <1>4, <1>5

\* Every step keeps the log in balance.
LEMMA BalanceStep == ASSUME IInv, LogBalances, [Next]_vars PROVE LogBalances'
<1>1. /\ packet_queue \in Seq(Packet) /\ Len(packet_queue) \in Nat
      /\ Len(departed) \in Nat /\ bytes_left \in Nat
      /\ arrivals \in Nat /\ drops \in Nat /\ unlogged \in Nat
  BY Constants DEF IInv, TypeOK, QueueTypeOK, SendTypeOK
<1>2. CASE UNCHANGED <<departed, bytes_left, packet_queue, arrivals, drops,
                       unlogged>>
  BY <1>2 DEF LogBalances
<1>3. CASE ContinuePacket
  <2>1. /\ bytes_left > 0 /\ pc = "send" /\ Transmit(in_transit, bytes_left)
        /\ UNCHANGED <<packet_queue, arrivals, drops, unlogged>>
    BY <1>3 DEF ContinuePacket, queueVars
  <2>2. in_transit \in Packet /\ bytes_left \in 1..in_transit.size
    BY <1>1, <2>1, Constants DEF IInv, TransitInv, Packet
  <2>3. Len(departed') + (IF bytes_left' > 0 THEN 1 ELSE 0)
          = Len(departed) + 1
    BY <2>1, <2>2, TransmitBalances
  <2> QED
    BY <1>1, <2>1, <2>3 DEF LogBalances
<1>4. CASE dequeue_packet
  <2>1. PICK c \in DequeueChoices :
          /\ packet_queue' = SubSeq(packet_queue, c[2] + 1, Len(packet_queue))
          /\ Transmit(packet_queue[c[1]], packet_queue[c[1]].size)
          /\ unlogged' = unlogged + c[2] - 1
    BY <1>4 DEF dequeue_packet
  <2>2. bytes_left = 0 /\ UNCHANGED <<arrivals, drops>>
    BY <1>4 DEF dequeue_packet
  <2>3. c[1] \in 1..Len(packet_queue) /\ c[2] \in 0..Len(packet_queue)
    BY DEF DequeueChoices
  <2>s. Len(SubSeq(packet_queue, c[2] + 1, Len(packet_queue)))
          = Len(packet_queue) - c[2]
    BY <1>1, <2>3, WithoutFront
  <2>4. Len(packet_queue') = Len(packet_queue) - c[2]
    BY <2>1, <2>s, Zenon
  <2>5. packet_queue[c[1]] \in Packet
    BY <1>1, <2>3
  <2>6. packet_queue[c[1]].size \in 1..packet_queue[c[1]].size
    BY <2>5, Constants DEF Packet
  <2>7. Len(departed') + (IF bytes_left' > 0 THEN 1 ELSE 0)
          = Len(departed) + 1
    BY <2>1, <2>5, <2>6, TransmitBalances
  <2>8. /\ Len(departed') \in Nat /\ Len(packet_queue') \in Nat
        /\ unlogged' \in Nat /\ bytes_left' \in Nat
    <3>1. IInv'
      BY NextIInv
    <3> QED
      BY <3>1, Constants, SMTT(30) DEF IInv, TypeOK, SendTypeOK, QueueTypeOK
  <2>9. arrivals = Len(departed) + drops + unlogged + Len(packet_queue)
    BY <1>1, <2>2 DEF LogBalances
  <2>10. unlogged' + Len(packet_queue') = unlogged + Len(packet_queue) - 1
    <3>1. unlogged' = unlogged + c[2] - 1 /\ c[2] \in Nat
      BY <2>1, <2>3
    <3> DEFINE k == c[2]  u2 == unlogged'  q2 == Len(packet_queue')
    <3>2. u2 = unlogged + k - 1 /\ k \in Nat /\ q2 = Len(packet_queue) - k
      BY <2>4, <3>1
    <3> HIDE DEF k, u2, q2
    <3>3. u2 + q2 = unlogged + Len(packet_queue) - 1
      BY <1>1, <3>2
    <3> QED
      BY <3>3 DEF u2, q2
  <2> DEFINE d2 == Len(departed')   q2 == Len(packet_queue')
             u2 == unlogged'        one == IF bytes_left' > 0 THEN 1 ELSE 0
  <2>11. /\ d2 \in Nat /\ q2 \in Nat /\ u2 \in Nat /\ one \in Nat
         /\ d2 + one = Len(departed) + 1
         /\ u2 + q2 = unlogged + Len(packet_queue) - 1
    BY <2>7, <2>8, <2>10
  <2> HIDE DEF d2, q2, u2, one
  <2>12. arrivals = d2 + drops + u2 + q2 + one
    BY <1>1, <2>9, <2>11
  <2> QED
    BY <2>2, <2>12 DEF LogBalances, d2, q2, u2, one
<1>5. CASE read_packet_enqueues
  <2>1. PICK q \in Contract!Thinnings(Append(packet_queue, incoming)) :
          packet_queue' = q /\ drops' = drops + Missing(q)
    BY <1>5 DEF read_packet_enqueues
  <2>2. /\ arrivals' = arrivals + 1
        /\ UNCHANGED <<departed, bytes_left, unlogged>>
    BY <1>5 DEF read_packet_enqueues, sendVars
  <2>3. Append(packet_queue, incoming) \in Seq(Packet)
    BY <1>1, <1>5 DEF read_packet_enqueues, IInv, IncomingInv
  <2>4. Len(q) \in Nat
    BY <2>3, ThinningsElements
  <2> QED
    BY <1>1, <2>1, <2>2, <2>4 DEF LogBalances, Missing
<1>6. CASE use_a_delivery_opportunity \/ EndOpportunity \/ wait_time
           \/ wait_time_returns \/ read_packet \/ callbacks_done
  BY <1>2, <1>6 DEF use_a_delivery_opportunity, EndOpportunity, wait_time,
     wait_time_returns, read_packet, callbacks_done, sendVars, queueVars
<1>7. CASE write_packets \/ poll_timeout \/ Tick
  BY <1>2, <1>7 DEF write_packets, poll_timeout, Tick, sendVars, queueVars
<1>8. ASSUME NEW readable \in BOOLEAN, NEW writable \in BOOLEAN,
             poll(readable, writable)
      PROVE  LogBalances'
  BY <1>2, <1>8 DEF poll, sendVars, queueVars
<1>9. CASE UNCHANGED vars
  BY <1>2, <1>9 DEF vars, sendVars, queueVars
<1> QED
  BY <1>3, <1>4, <1>5, <1>6, <1>7, <1>8, <1>9 DEF Next, Step

\* The log accounts for every packet, for every trace and any discipline
\* that meets the contract: '+' lines = '-' lines + packets in 'd' lines +
\* packets discarded in dequeue + packets held (read_packet, rationalize).
THEOREM LogAccountsForAll == Spec => []LogBalances
<1>1. Init => LogBalances
  BY DEF Init, LogBalances
<1> QED
  BY <1>1, BalanceStep, Invariance, PTL DEF Spec
------------------------------------------------------------------------------
(* The ideal link: the times of its opportunities.                          *)

\* Opportunity k + 1 of the trace, in round r.
LEMMA OpportunityAt ==
  ASSUME NEW r \in Nat, NEW k \in 0..(Len(Schedule) - 1)
  PROVE  /\ r * Len(Schedule) + k + 1 \in Nat \ {0}
         /\ OpportunityTime(r * Len(Schedule) + k + 1)
              = Schedule[k + 1] + r * Schedule[Len(Schedule)]
<1> DEFINE n == Len(Schedule)
<1>1. n \in Nat \ {0} /\ r \in Int
  BY Constants
<1>2. r * n \in Nat /\ (r * n + k + 1) - 1 = r * n + k /\ r * n + k + 1 \in Nat \ {0}
  BY <1>1
<1>3. (r * n + k) \div n = r /\ (r * n + k) % n = k
  BY <1>1, Division
<1> HIDE DEF n
<1> QED
  BY <1>2, <1>3 DEF OpportunityTime, n

\* Every opportunity is one of some round.
LEMMA OpportunityIn ==
  ASSUME NEW o \in Nat \ {0}
  PROVE  \E r \in Nat : \E k \in 0..(Len(Schedule) - 1) :
           o = r * Len(Schedule) + k + 1
<1> DEFINE n == Len(Schedule)
           r == (o - 1) \div n
           k == (o - 1) - r * n
<1>1. n \in Nat \ {0} /\ o - 1 \in Int
  BY Constants
<1>2. r \in Int /\ r * n <= o - 1 /\ o - 1 < r * n + n
  BY <1>1, Quotient
<1> HIDE DEF n, r
<1>3. ~(r < 0)
  <2> SUFFICES ASSUME r < 0 PROVE FALSE
    OBVIOUS
  <2>1. r * n + n <= 0 * n
    BY <1>1, <1>2, ProductMonotonic
  <2>2. 0 * n = 0 /\ r * n \in Int
    BY <1>1, <1>2
  <2> QED
    BY <1>1, <1>2, <2>1, <2>2
<1>4. r * n \in Int /\ k \in 0..(n - 1) /\ o = r * n + k + 1
  BY <1>1, <1>2
<1> HIDE DEF k
<1>5. r \in Nat /\ k \in 0..(n - 1) /\ o = r * n + k + 1
  BY <1>2, <1>3, <1>4
<1> QED
  BY <1>5 DEF n

\* The times of the opportunities are those of the trace, and never go back.
LEMMA OpportunityNext ==
  ASSUME NEW o \in Nat \ {0}
  PROVE  /\ OpportunityTime(o) \in Nat
         /\ OpportunityTime(o) <= OpportunityTime(o + 1)
<1> DEFINE n == Len(Schedule)
           L == Schedule[n]
<1>1. PICK r \in Nat : \E k \in 0..(n - 1) : o = r * n + k + 1
  BY OpportunityIn
<1>2. PICK k \in 0..(n - 1) : o = r * n + k + 1
  BY <1>1
<1>3. OpportunityTime(o) = Schedule[k + 1] + r * L
  BY <1>2, OpportunityAt
<1>4. /\ n \in Nat /\ n > 0 /\ L \in Nat /\ \A i \in 1..n : Schedule[i] \in Nat
      /\ \A i, j \in 1..n : i <= j => Schedule[i] <= Schedule[j]
  BY Constants, LinkAssumption
<1>5. r * L \in Nat /\ r * n \in Nat
  BY <1>4
<1>6. OpportunityTime(o) <= OpportunityTime(o + 1)
  <2>1. CASE k < n - 1
    <3>1. k + 1 \in 0..(n - 1) /\ o + 1 = r * n + (k + 1) + 1
      BY <1>2, <1>4, <1>5, <2>1
    <3>2. OpportunityTime(o + 1) = Schedule[(k + 1) + 1] + r * L
      BY <3>1, OpportunityAt
    <3>3. k + 1 \in 1..n /\ (k + 1) + 1 \in 1..n /\ k + 1 <= (k + 1) + 1
      BY <1>4, <2>1
    <3>4. Schedule[k + 1] <= Schedule[(k + 1) + 1]
      BY <1>4, <3>3
    <3> DEFINE a == Schedule[k + 1]
               b == Schedule[(k + 1) + 1]
               c == r * L
    <3>5. a \in Nat /\ b \in Nat /\ a <= b /\ c \in Nat
      BY <1>4, <1>5, <3>3, <3>4
    <3> HIDE DEF a, b, c
    <3>6. a + c <= b + c
      BY <3>5
    <3> QED
      BY <1>3, <3>2, <3>6 DEF a, b, c
  <2>2. CASE k = n - 1
    <3>0. \A x \in Nat : (r + 1) * x = r * x + x
      OBVIOUS
    <3>1. (r + 1) * n = r * n + n /\ (r + 1) * L = r * L + L
      BY <1>4, <3>0
    <3>2. 0 \in 0..(n - 1) /\ r + 1 \in Nat /\ o + 1 = (r + 1) * n + 0 + 1
      BY <1>2, <1>4, <1>5, <2>2, <3>1
    <3>3. OpportunityTime(o + 1) = Schedule[0 + 1] + (r + 1) * L
      BY <3>2, OpportunityAt
    <3>4. k + 1 = n /\ Schedule[1] \in Nat
      BY <1>4, <2>2
    <3> DEFINE a == Schedule[1]
               b == L
               c == r * L
    <3>5. a \in Nat /\ b \in Nat /\ c \in Nat
      BY <1>4, <1>5, <3>4
    <3>6. OpportunityTime(o) = b + c /\ OpportunityTime(o + 1) = a + (c + b)
      BY <1>3, <3>1, <3>3, <3>4
    <3> HIDE DEF a, b, c
    <3> QED
      BY <3>5, <3>6
  <2> QED
    BY <1>4, <2>1, <2>2
<1>7. Schedule[k + 1] \in Nat
  BY <1>4
<1> QED
  BY <1>3, <1>5, <1>6, <1>7

\* A later opportunity is not earlier.
LEMMA OpportunityMonotonic ==
  ASSUME NEW o \in Nat \ {0}, NEW p \in Nat, o <= p
  PROVE  OpportunityTime(o) <= OpportunityTime(p)
<1> DEFINE T == {d \in Nat : OpportunityTime(o) <= OpportunityTime(o + d)}
<1>1. 0 \in T
  BY OpportunityNext
<1>2. ASSUME NEW d \in Nat, d \in T PROVE d + 1 \in T
  <2>1. o + d \in Nat \ {0} /\ (o + d) + 1 = o + (d + 1) /\ (o + d) + 1 \in Nat \ {0}
    OBVIOUS
  <2>2. OpportunityTime(o + d) <= OpportunityTime(o + (d + 1))
    BY <2>1, OpportunityNext
  <2>3. /\ OpportunityTime(o) \in Nat /\ OpportunityTime(o + d) \in Nat
        /\ OpportunityTime(o + (d + 1)) \in Nat
    BY <2>1, OpportunityNext
  <2>4. OpportunityTime(o) <= OpportunityTime(o + d)
    BY <1>2
  <2>5. OpportunityTime(o) <= OpportunityTime(o + (d + 1))
    BY <2>2, <2>3, <2>4
  <2> QED
    BY <2>5
<1>3. p - o \in Nat /\ o + (p - o) = p
  OBVIOUS
<1>4. p - o \in T
  <2> HIDE DEF T
  <2> QED
    BY <1>1, <1>2, <1>3, SetInduction
<1> QED
  BY <1>3, <1>4

\* The trace goes on for ever: some opportunity comes after any given time.
LEMMA OpportunityComes ==
  ASSUME NEW o \in Nat \ {0}, NEW t \in Nat
  PROVE  /\ o + (t + 1) * Len(Schedule) \in Nat
         /\ OpportunityTime(o + (t + 1) * Len(Schedule)) > t
<1> DEFINE n == Len(Schedule)
           L == Schedule[n]
<1>1. PICK r \in Nat : \E k \in 0..(n - 1) : o = r * n + k + 1
  BY OpportunityIn
<1>2. PICK k \in 0..(n - 1) : o = r * n + k + 1
  BY <1>1
<1>4. n \in Nat /\ n > 0 /\ L \in Nat /\ L > 0 /\ Schedule[k + 1] \in Nat
  BY Constants, LinkAssumption
<1> HIDE DEF n, L
<1> DEFINE q == r + (t + 1)
<1>5. q \in Nat /\ q > t
  OBVIOUS
<1>6. \A x \in Nat : /\ q * x = r * x + (t + 1) * x
                     /\ r * x \in Nat /\ (t + 1) * x \in Nat /\ q * x \in Nat
  OBVIOUS
<1>7. o + (t + 1) * n = q * n + k + 1 /\ o + (t + 1) * n \in Nat
  <2>1. /\ q * n = r * n + (t + 1) * n /\ r * n \in Nat /\ (t + 1) * n \in Nat
    BY <1>4, <1>6
  <2> HIDE DEF q
  <2> QED
    BY <1>2, <2>1
<1> HIDE DEF q
<1>8. OpportunityTime(o + (t + 1) * n) = Schedule[k + 1] + q * L
  BY <1>5, <1>7, OpportunityAt DEF n, L
<1>9. q * L >= q
  <2>1. PICK m \in Nat : L = m + 1
    <3>1. L - 1 \in Nat /\ L = (L - 1) + 1
      BY <1>4
    <3> QED
      BY <3>1
  <2>2. q * (m + 1) = q * m + q /\ q * m \in Nat
    BY <1>5
  <2> QED
    BY <1>5, <2>1, <2>2
<1>10. q * L \in Nat
  BY <1>4, <1>5
<1>11. Schedule[k + 1] + q * L > t
  <2> DEFINE a == Schedule[k + 1]
             b == q * L
  <2>1. a \in Nat /\ b \in Nat /\ b >= q
    BY <1>4, <1>9, <1>10
  <2> HIDE DEF a, b
  <2>2. a + b > t
    BY <1>5, <2>1
  <2> QED
    BY <2>2 DEF a, b
<1> QED
  BY <1>7, <1>8, <1>11 DEF n

\* The first opportunity from o on that comes after time t.
LEMMA FirstAfterFacts ==
  ASSUME NEW o \in Nat \ {0}, NEW t \in Nat
  PROVE  /\ FirstAfter(o, t) \in Nat \ {0} /\ o <= FirstAfter(o, t)
         /\ OpportunityTime(FirstAfter(o, t)) > t
         /\ o < FirstAfter(o, t) => OpportunityTime(FirstAfter(o, t) - 1) <= t
<1>1. CASE OpportunityTime(o) > t
  BY <1>1 DEF FirstAfter
<1>2. CASE ~(OpportunityTime(o) > t)
  <2> DEFINE N == (t + 1) * Len(Schedule)
             M == (t + 2) * Len(Schedule)
             T == {p \in Nat : o < p /\ OpportunityTime(p) > t}
  <2>n. N \in Nat /\ M \in Nat /\ N <= M /\ N > 0
    <3> DEFINE n == Len(Schedule)
    <3>1. n \in Nat /\ n > 0
      BY Constants
    <3> HIDE DEF n
    <3>2. (t + 2) * n = (t + 1) * n + n /\ (t + 1) * n = t * n + n /\ t * n \in Nat
      BY <3>1
    <3> QED
      BY <3>1, <3>2 DEF n
  <2>1. o + N \in T
    <3>1. OpportunityTime(o + N) > t
      BY OpportunityComes
    <3> HIDE DEF N
    <3>2. o + N \in Nat /\ o < o + N
      BY <2>n
    <3> QED
      BY <3>1, <3>2
  <2> HIDE DEF N, M
  <2>2. PICK p \in T : \A y \in T : p <= y
    <3>1. T \in SUBSET Nat
      OBVIOUS
    <3> HIDE DEF T
    <3> QED
      BY <2>1, <3>1, LeastElement
  <2>3. p \in Nat /\ o < p /\ OpportunityTime(p) > t /\ p <= o + N
    BY <2>1, <2>2
  <2>4. p \in (o + 1)..(o + M)
    BY <2>n, <2>3
  <2>5. OpportunityTime(p - 1) <= t
    <3>1. p - 1 \in Nat \ {0} /\ ~(p <= p - 1)
      BY <2>3
    <3>2. OpportunityTime(p - 1) \in Nat
      BY <3>1, OpportunityNext
    <3>3. CASE p - 1 = o
      BY <1>2, <3>2, <3>3
    <3>4. CASE p - 1 # o
      <4>1. o < p - 1 /\ p - 1 \notin T
        BY <2>2, <2>3, <3>1, <3>4
      <4>2. ~(OpportunityTime(p - 1) > t)
        BY <3>1, <4>1
      <4> QED
        BY <3>2, <4>2
    <3> QED
      BY <3>3, <3>4
  <2> DEFINE First(x) == OpportunityTime(x) > t /\ OpportunityTime(x - 1) <= t
             f == CHOOSE x \in (o + 1)..(o + M) : First(x)
  <2>6. FirstAfter(o, t) = f
    BY <1>2 DEF FirstAfter, M
  <2>7. First(p)
    BY <2>3, <2>5
  <2> HIDE DEF First
  <2>8. f \in (o + 1)..(o + M) /\ First(f)
    BY <2>4, <2>7
  <2> HIDE DEF f
  <2>9. f \in Nat \ {0} /\ o <= f
    BY <2>n, <2>8
  <2> QED
    BY <2>6, <2>8, <2>9 DEF First
<1> QED
  BY <1>1, <1>2

\* There is only one such opportunity.
LEMMA FirstAfterIs ==
  ASSUME NEW o \in Nat \ {0}, NEW t \in Nat, NEW n \in Nat, o <= n,
         OpportunityTime(n) > t, o = n \/ OpportunityTime(n - 1) <= t
  PROVE  FirstAfter(o, t) = n
<1> DEFINE f == FirstAfter(o, t)
<1>1. /\ f \in Nat \ {0} /\ o <= f /\ OpportunityTime(f) > t
      /\ o < f => OpportunityTime(f - 1) <= t
  BY FirstAfterFacts
<1> HIDE DEF f
<1>2. ~(f < n)
  <2> SUFFICES ASSUME f < n PROVE FALSE
    OBVIOUS
  <2>1. f <= n - 1 /\ n - 1 \in Nat \ {0} /\ o # n
    BY <1>1
  <2>2. OpportunityTime(f) <= OpportunityTime(n - 1)
    BY <1>1, <2>1, OpportunityMonotonic
  <2>3. OpportunityTime(f) \in Nat /\ OpportunityTime(n - 1) \in Nat
    BY <1>1, <2>1, OpportunityNext
  <2> QED
    BY <1>1, <2>1, <2>2, <2>3
<1>3. ~(n < f)
  <2> SUFFICES ASSUME n < f PROVE FALSE
    OBVIOUS
  <2>1. n <= f - 1 /\ f - 1 \in Nat \ {0} /\ o < f /\ n \in Nat \ {0}
    BY <1>1
  <2>2. OpportunityTime(n) <= OpportunityTime(f - 1)
    BY <2>1, OpportunityMonotonic
  <2>3. OpportunityTime(n) \in Nat /\ OpportunityTime(f - 1) \in Nat
    BY <2>1, OpportunityNext
  <2> QED
    BY <1>1, <2>1, <2>2, <2>3
<1> QED
  BY <1>1, <1>2, <1>3 DEF f

(* The ideal link: the room packets leave over.                             *)

\* Where a packet ends; what a packet the link can carry is.
End == [opp : Nat \ {0}, room : 0..PACKET_SIZE]
Start == [opp |-> 1, room |-> PACKET_SIZE]
Carried(p) == p.size \in 1..PACKET_SIZE /\ p.arrival_time \in Nat

\* A packet ends at an opportunity of the trace, and leaves room for the next.
LEMMA ServeType ==
  ASSUME NEW last \in End, NEW p, Carried(p) PROVE Serve(last, p) \in End
<1> DEFINE opp == FirstAfter(last.opp, p.arrival_time)
           room == (IF opp = last.opp THEN last.room ELSE PACKET_SIZE) - p.size
<1>1. last.opp \in Nat \ {0} /\ last.room \in 0..PACKET_SIZE
  BY DEF End
<1>2. opp \in Nat \ {0}
  BY <1>1, FirstAfterFacts DEF Carried
<1>3. p.size \in 1..PACKET_SIZE /\ PACKET_SIZE \in Nat
  BY Constants DEF Carried
<1> HIDE DEF opp
<1>4. /\ room \in Int /\ 0 - PACKET_SIZE <= room /\ room <= PACKET_SIZE
  BY <1>1, <1>3
<1>5. Serve(last, p) = IF room >= 0 THEN [opp |-> opp, room |-> room]
                       ELSE [opp |-> opp + 1, room |-> PACKET_SIZE + room]
  BY DEF Serve, opp
<1> HIDE DEF room
<1>6. CASE room >= 0
  BY <1>2, <1>3, <1>4, <1>5, <1>6 DEF End
<1>7. CASE ~(room >= 0)
  BY <1>2, <1>3, <1>4, <1>5, <1>7 DEF End
<1> QED
  BY <1>6, <1>7

\* The packets are served one after the other.
LEMMA ServiceSteps ==
  ASSUME NEW ps, Len(ps) \in Nat, \A i \in 1..Len(ps) : Carried(ps[i])
  PROVE  /\ Service(ps) \in [0..Len(ps) -> End] /\ Service(ps)[0] = Start
         /\ \A k \in 1..Len(ps) : Service(ps)[k] = Serve(Service(ps)[k - 1], ps[k])
<1> DEFINE N == Len(ps)
           step == [n \in 1..N |-> [e \in End |-> Serve(e, ps[n])]]
           Def(f) == f = [k \in 0..Len(ps) |->
                            IF k = 0 THEN [opp |-> 1, room |-> PACKET_SIZE]
                            ELSE Serve(f[k - 1], ps[k])]
<1>n. N \in Nat /\ Start \in End
  BY Constants DEF Start, End
<1>1. \A n \in 1..N : \A e \in End : Serve(e, ps[n]) \in End
  BY ServeType
<1>2. step \in Steps(N, End)
  BY <1>1 DEF Steps
<1>3. \A n \in 1..N : \A e \in End : step[n][e] = Serve(e, ps[n])
  OBVIOUS
<1> HIDE DEF step, Def
<1>4. PICK f \in [0..N -> End] :
        f[0] = Start /\ \A n \in 1..N : f[n] = step[n][f[n - 1]]
  <2>1. \E f \in [0..N -> End] : Follows(f, Start, step, N)
    BY <1>n, <1>2, RecursionExists
  <2> QED
    BY <2>1 DEF Follows
<1>5. ASSUME NEW n \in 1..N
      PROVE  f[n] = Serve(f[n - 1], ps[n])
  <2>1. n - 1 \in 0..N
    BY <1>n
  <2>2. f[n - 1] \in End
    BY <2>1
  <2> QED
    BY <1>3, <1>4, <2>2
<1>6. Def(f)
  <2>1. \A n \in 0..N : f[n] = IF n = 0 THEN Start ELSE Serve(f[n - 1], ps[n])
    <3> TAKE n \in 0..N
    <3>1. CASE n = 0
      BY <1>4, <3>1
    <3>2. CASE n \in 1..N
      <4>1. n # 0
        BY <3>2
      <4> QED
        BY <1>5, <3>2, <4>1
    <3> QED
      BY <1>n, <3>1, <3>2
  <2> QED
    BY <2>1 DEF Def, Start
<1>7. Service(ps) = CHOOSE g : Def(g)
  BY DEF Service, Def
<1>8. Def(Service(ps))
  BY <1>6, <1>7
<1> DEFINE g == Service(ps)
<1>9. /\ DOMAIN g = 0..N
      /\ \A n \in 0..N : g[n] = IF n = 0 THEN Start ELSE Serve(g[n - 1], ps[n])
  BY <1>8 DEF Def, Start
<1> HIDE DEF g, N
<1>10. g[0] = Start /\ \A n \in 1..N : g[n] = Serve(g[n - 1], ps[n])
  <2>1. 0 \in 0..N /\ \A n \in 1..N : n \in 0..N /\ n # 0
    BY <1>n
  <2> QED
    BY <1>9, <2>1
<1>11. \A n \in 0..N : g[n] \in End
  <2>1. ASSUME NEW n \in 1..N, g[n - 1] \in End PROVE g[n] \in End
    BY <1>1, <1>10, <2>1
  <2> QED
    BY <1>n, <1>10, <2>1, RecursionType
<1>12. g = [n \in 0..N |-> g[n]]
  BY <1>8, <1>9 DEF Def, g
<1>13. g \in [0..N -> End]
  BY <1>11, <1>12
<1> QED
  BY <1>10, <1>13 DEF g, N

\* Where a packet ends depends on its size and arrival, and on those before it.
LEMMA ServicePrefix ==
  ASSUME NEW ps, Len(ps) \in Nat, \A i \in 1..Len(ps) : Carried(ps[i]),
         NEW qs, Len(qs) \in Nat, \A i \in 1..Len(qs) : Carried(qs[i]),
         Len(ps) <= Len(qs),
         \A i \in 1..Len(ps) : /\ qs[i].size = ps[i].size
                               /\ qs[i].arrival_time = ps[i].arrival_time
  PROVE  \A k \in 0..Len(ps) : Service(qs)[k] = Service(ps)[k]
<1> DEFINE f == Service(ps)
           g == Service(qs)
           N == Len(ps)
           M == Len(qs)
           T == {n \in Nat : n <= N => g[n] = f[n]}
<1>1. f[0] = Start /\ \A n \in 1..N : f[n] = Serve(f[n - 1], ps[n])
  BY ServiceSteps
<1>2. g[0] = Start /\ \A n \in 1..M : g[n] = Serve(g[n - 1], qs[n])
  BY ServiceSteps
<1>n. /\ N \in Nat /\ M \in Nat /\ N <= M
      /\ \A i \in 1..N : /\ qs[i].size = ps[i].size
                         /\ qs[i].arrival_time = ps[i].arrival_time
  OBVIOUS
<1> HIDE DEF f, g, N, M
<1>3. 0 \in T
  BY <1>1, <1>2
<1>4. \A n \in Nat : n \in T => n + 1 \in T
  <2> SUFFICES ASSUME NEW n \in Nat, n \in T, n + 1 <= N PROVE g[n + 1] = f[n + 1]
    OBVIOUS
  <2>1. n + 1 \in 1..N /\ n + 1 \in 1..M /\ (n + 1) - 1 = n /\ g[n] = f[n]
    BY <1>n
  <2>2. f[n + 1] = Serve(f[n], ps[n + 1])
    BY <1>1, <2>1
  <2>3. g[n + 1] = Serve(f[n], qs[n + 1])
    BY <1>2, <2>1
  <2>4. Serve(f[n], qs[n + 1]) = Serve(f[n], ps[n + 1])
    BY <1>n, <2>1 DEF Serve
  <2> QED
    BY <2>2, <2>3, <2>4
<1>5. \A n \in Nat : n \in T
  <2> HIDE DEF T
  <2> QED
    BY <1>3, <1>4, SetInduction
<1>6. \A k \in 0..N : k \in Nat /\ k <= N
  BY <1>n
<1>7. \A k \in 0..N : g[k] = f[k]
  BY <1>5, <1>6
<1> QED
  BY <1>7 DEF f, g, N
------------------------------------------------------------------------------
(* The inductive invariant of IdealLink.                                    *)

\* The number of opportunities used; where the last packet that has left
\* ended, and where the one in transit will, on the ideal link.
Used == Len(opportunities)
LastEnd == Service(departed)[Len(departed)]
Ended == IF bytes_left > 0 THEN Serve(LastEnd, in_transit) ELSE LastEnd

\* A packet that arrived at time a has nothing to gain from opportunity n: it
\* came later, or the opportunity is full.
Missed(e, n, a) == OpportunityTime(n) <= a \/ (e.opp = n /\ e.room = 0)

\* The opportunities used are those of the trace, up to the time of the
\* handler; the next one is where the trace stands.
TraceInv ==
  /\ \A o \in 1..Used : opportunities[o] = OpportunityTime(o)
  /\ Used > 0 => OpportunityTime(Used) <= now
  /\ now <= clock
  /\ pc = "send" => Used > 0 /\ this_delivery_time = OpportunityTime(Used)
  /\ ~finished =>
       \E r \in Nat : /\ Used = r * Len(Schedule) + next_delivery
                      /\ base_timestamp = r * Schedule[Len(Schedule)]
  /\ pc = "poll" /\ ~finished => now < next_delivery_time

\* The room that is left over is what the process keeps track of.
RoomInv ==
  /\ bytes_left > 0 =>
       /\ Ended = [opp |-> IF pc = "send" /\ opportunity > 0 THEN Used ELSE Used + 1,
                   room |-> PACKET_SIZE - bytes_left]
       /\ pc = "send" => opportunity \in {0, PACKET_SIZE}
  /\ bytes_left = 0 /\ pc = "send" =>
       \/ Ended.opp = Used /\ Ended.room = opportunity
       \/ /\ Ended.opp < Used /\ opportunity = PACKET_SIZE
          /\ \A i \in 1..Len(packet_queue) :
               Missed(Ended, Used - 1, packet_queue[i].arrival_time)
  /\ bytes_left = 0 /\ pc # "send" =>
       \/ Used = 0 /\ Ended = [opp |-> 1, room |-> PACKET_SIZE]
       \/ /\ Used > 0 /\ Ended.opp <= Used
          /\ \A i \in 1..Len(packet_queue) :
               Missed(Ended, Used, packet_queue[i].arrival_time)

\* Packets have left when the ideal link lets them.
DepartedInv ==
  \A k \in 1..Len(departed) :
    departed[k].time = OpportunityTime(Service(departed)[k].opp)

\* The packet being read gets the next number.
NumberInv ==
  pc \in {"rationalize", "send"} /\ caller = "read_packet" =>
    incoming.id = arrivals + 1

\* Packets are held and have left in the order of arrival.
OrderInv ==
  /\ \A i \in 1..Len(departed) :
       /\ departed[i].id <= arrivals
       /\ bytes_left > 0 => departed[i].id < in_transit.id
       /\ \A j \in 1..Len(packet_queue) : departed[i].id < packet_queue[j].id
       /\ \A j \in 1..Len(departed) : i < j => departed[i].id < departed[j].id
  /\ bytes_left > 0 =>
       /\ in_transit.id <= arrivals
       /\ \A j \in 1..Len(packet_queue) : in_transit.id < packet_queue[j].id
  /\ \A i \in 1..Len(packet_queue) :
       /\ packet_queue[i].id <= arrivals
       /\ \A j \in 1..Len(packet_queue) : i < j => packet_queue[i].id < packet_queue[j].id

\* The inductive invariant of IdealLink, relative to IInv.
IdealInv == TraceInv /\ RoomInv /\ DepartedInv /\ NumberInv /\ OrderInv

\* A packet that has missed opportunity n - 1 but not n takes a fresh one.
LEMMA ServeFresh ==
  ASSUME NEW e \in End, NEW p, Carried(p), NEW n \in Nat, e.opp < n,
         Missed(e, n - 1, p.arrival_time), p.arrival_time < OpportunityTime(n)
  PROVE  Serve(e, p) = [opp |-> n, room |-> PACKET_SIZE - p.size]
<1> DEFINE a == p.arrival_time
           f == FirstAfter(e.opp, a)
<1>1. /\ a \in Nat /\ p.size \in 1..PACKET_SIZE /\ PACKET_SIZE \in Nat
      /\ e.opp \in Nat \ {0} /\ e.room \in 0..PACKET_SIZE
  BY Constants DEF Carried, End
<1>2. /\ n \in Nat \ {0} /\ n - 1 \in Nat \ {0} /\ (n - 1) + 1 = n
      /\ e.opp <= n - 1 /\ e.opp <= n
  BY <1>1
<1>3. OpportunityTime(n) \in Nat /\ OpportunityTime(n - 1) \in Nat
  BY <1>2, OpportunityNext
<1>4. CASE OpportunityTime(n - 1) <= a
  <2>1. f = n
    BY <1>1, <1>2, <1>3, <1>4, FirstAfterIs
  <2>2. f # e.opp /\ PACKET_SIZE - p.size >= 0
    BY <1>1, <2>1
  <2> HIDE DEF f
  <2> QED
    BY <2>1, <2>2 DEF Serve, f
<1>5. CASE ~(OpportunityTime(n - 1) <= a)
  <2>1. e.opp = n - 1 /\ e.room = 0
    BY <1>5 DEF Missed
  <2>2. f = n - 1
    BY <1>1, <1>2, <1>3, <1>5, <2>1, FirstAfterIs
  <2>3. /\ ~(e.room - p.size >= 0) /\ (n - 1) + 1 = n
        /\ PACKET_SIZE + (e.room - p.size) = PACKET_SIZE - p.size
    BY <1>1, <1>2, <2>1
  <2> HIDE DEF f
  <2> QED
    BY <2>1, <2>2, <2>3 DEF Serve, f
<1> QED
  BY <1>4, <1>5

\* A packet that comes before opportunity n, in which the one before it ended,
\* takes what is left of it.
LEMMA ServeHere ==
  ASSUME NEW e \in End, NEW p, Carried(p),
         p.arrival_time < OpportunityTime(e.opp)
  PROVE  Serve(e, p) =
           IF p.size <= e.room THEN [opp |-> e.opp, room |-> e.room - p.size]
           ELSE [opp |-> e.opp + 1, room |-> PACKET_SIZE + (e.room - p.size)]
<1> DEFINE f == FirstAfter(e.opp, p.arrival_time)
<1>1. /\ p.arrival_time \in Nat /\ p.size \in 1..PACKET_SIZE /\ PACKET_SIZE \in Nat
      /\ e.opp \in Nat \ {0} /\ e.room \in 0..PACKET_SIZE
  BY Constants DEF Carried, End
<1>2. OpportunityTime(e.opp) \in Nat
  BY <1>1, OpportunityNext
<1>3. f = e.opp
  BY <1>1, <1>2, FirstAfterIs
<1>4. (p.size <= e.room) <=> (e.room - p.size >= 0)
  BY <1>1
<1> HIDE DEF f
<1> QED
  BY <1>3, <1>4 DEF Serve, f

\* The packets the link has to do with can be carried.
LEMMA CarriedFacts ==
  ASSUME IInv
  PROVE  /\ \A p \in Packet : Carried(p)
         /\ Len(departed) \in Nat /\ \A i \in 1..Len(departed) : Carried(departed[i])
         /\ bytes_left > 0 => Carried(in_transit)
         /\ \A i \in 1..Len(packet_queue) : Carried(packet_queue[i])
         /\ LastEnd \in End /\ Ended \in End
         /\ Used \in Nat
<1>1. \A p \in Packet : Carried(p)
  BY Constants DEF Carried, Packet
<1>2. \A d \in Departure : Carried(d)
  BY Constants DEF Carried, Departure
<1>3. departed \in Seq(Departure) /\ packet_queue \in Seq(Packet)
  BY DEF IInv, TypeOK, SendTypeOK, QueueTypeOK
<1>4. Len(departed) \in Nat /\ \A i \in 1..Len(departed) : Carried(departed[i])
  BY <1>2, <1>3
<1>5. \A i \in 1..Len(packet_queue) : Carried(packet_queue[i])
  BY <1>1, <1>3
<1>6. bytes_left > 0 => Carried(in_transit)
  BY <1>1 DEF IInv, TransitInv
<1>7. LastEnd \in End
  <2>1. Len(departed) \in 0..Len(departed)
    BY <1>4
  <2> QED
    BY <1>4, <2>1, ServiceSteps DEF LastEnd
<1>8. Ended \in End
  BY <1>6, <1>7, ServeType DEF Ended
<1>9. Used \in Nat
  <2>1. opportunities \in Seq(Nat)
    BY DEF IInv, TypeOK, TraceTypeOK
  <2> QED
    BY <2>1 DEF Used
<1> QED
  BY <1>1, <1>4, <1>5, <1>6, <1>7, <1>8, <1>9

\* A packet that leaves is served after those that have left before it.
LEMMA DepartFacts ==
  ASSUME IInv, NEW gone \in Departure, departed' = Append(departed, gone)
  PROVE  /\ Len(departed') = Len(departed) + 1
         /\ departed'[Len(departed) + 1] = gone
         /\ \A k \in 1..Len(departed) :
              /\ departed'[k] = departed[k]
              /\ Service(departed')[k] = Service(departed)[k]
         /\ LastEnd' = Serve(LastEnd, gone)
         /\ Service(departed')[Len(departed) + 1] = Serve(LastEnd, gone)
<1> DEFINE n == Len(departed)
           qs == Append(departed, gone)
<1>1. departed \in Seq(Departure) /\ n \in Nat
      /\ \A i \in 1..n : Carried(departed[i])
  BY CarriedFacts DEF IInv, TypeOK, SendTypeOK
<1>2. Carried(gone)
  BY Constants DEF Carried, Departure
<1>3. Len(qs) = n + 1 /\ qs[n + 1] = gone /\ \A i \in 1..n : qs[i] = departed[i]
  BY <1>1
<1> HIDE DEF qs
<1>4. \A i \in 1..Len(qs) : Carried(qs[i])
  BY <1>1, <1>2, <1>3
<1>5. \A k \in 0..n : Service(qs)[k] = Service(departed)[k]
  <2>1. Len(qs) \in Nat /\ Len(departed) <= Len(qs)
    BY <1>1, <1>3
  <2> QED
    BY <1>1, <1>3, <1>4, <2>1, ServicePrefix
<1>6. n + 1 \in 1..Len(qs) /\ (n + 1) - 1 = n /\ n \in 0..n /\ Len(qs) \in Nat
  BY <1>1, <1>3
<1>7. Service(qs)[n + 1] = Serve(Service(qs)[n], qs[n + 1])
  BY <1>4, <1>6, ServiceSteps
<1>8. Service(qs)[n + 1] = Serve(LastEnd, gone)
  BY <1>3, <1>5, <1>6, <1>7 DEF LastEnd
<1>9. departed' = qs
  BY DEF qs
<1>10. LastEnd' = Serve(LastEnd, gone)
  BY <1>3, <1>8, <1>9 DEF LastEnd
<1>11. \A k \in 1..n : k \in 0..n
  BY <1>1
<1> QED
  BY <1>3, <1>5, <1>8, <1>9, <1>10, <1>11

\* Where the trace stands is the next opportunity of the ideal link.
LEMMA NextTime ==
  ASSUME IInv, TraceInv, ~finished
  PROVE  next_delivery_time \in Nat /\ next_delivery_time = OpportunityTime(Used + 1)
<1>1. PICK r \in Nat : /\ Used = r * Len(Schedule) + next_delivery
                       /\ base_timestamp = r * Schedule[Len(Schedule)]
  BY DEF TraceInv
<1>2. next_delivery \in 0..(Len(Schedule) - 1)
  BY DEF IInv, TypeOK, TraceTypeOK
<1>3. OpportunityTime(r * Len(Schedule) + next_delivery + 1)
        = Schedule[next_delivery + 1] + r * Schedule[Len(Schedule)]
  BY <1>2, OpportunityAt
<1>4. next_delivery_time \in Nat
  BY Constants DEF IInv, TypeOK, TraceTypeOK, next_delivery_time
<1> QED
  BY <1>1, <1>3, <1>4 DEF next_delivery_time

\* Using an opportunity: the trace moves on by one.
LEMMA UseTrace ==
  ASSUME IInv, TraceInv, use_a_delivery_opportunity
  PROVE  TraceInv' /\ Used' = Used + 1
<1> DEFINE n == Len(Schedule)
           L == Schedule[n]
<1>1. /\ pc = "rationalize" /\ ~finished /\ next_delivery_time <= now
      /\ pc' = "send" /\ this_delivery_time' = next_delivery_time
      /\ opportunities' = Append(opportunities, next_delivery_time)
      /\ next_delivery' = (next_delivery + 1) % n
      /\ base_timestamp' = IF next_delivery' = 0 /\ repeat THEN NextBase
                           ELSE base_timestamp
      /\ finished' = (finished \/ (next_delivery' = 0 /\ ~repeat))
      /\ UNCHANGED <<clock, now>>
  BY DEF use_a_delivery_opportunity, Due
<1>2. next_delivery_time \in Nat /\ next_delivery_time = OpportunityTime(Used + 1)
  BY <1>1, NextTime
<1>3. opportunities \in Seq(Nat) /\ Used \in Nat
  BY CarriedFacts DEF IInv, TypeOK, TraceTypeOK
<1>4. /\ Used' = Used + 1
      /\ opportunities'[Used + 1] = next_delivery_time
      /\ \A o \in 1..Used : opportunities'[o] = opportunities[o]
  BY <1>1, <1>2, <1>3 DEF Used
<1>5. \A o \in 1..Used' : opportunities'[o] = OpportunityTime(o)
  <2> TAKE o \in 1..Used'
  <2>1. o \in 1..Used \/ o = Used + 1
    BY <1>3, <1>4
  <2> QED
    BY <1>2, <1>4, <2>1 DEF TraceInv
<1>6. ASSUME ~finished'
      PROVE  \E r \in Nat : Used' = r * n + next_delivery' /\ base_timestamp' = r * L
  <2>1. PICK r \in Nat : Used = r * n + next_delivery /\ base_timestamp = r * L
    BY <1>1 DEF TraceInv
  <2>2. /\ n \in Nat /\ n > 0 /\ L \in Nat /\ next_delivery \in 0..(n - 1)
        /\ repeat \in BOOLEAN
    BY Constants DEF IInv, TypeOK, TraceTypeOK
  <2>3. NextBase = base_timestamp + L
    BY DEF NextBase
  <2> HIDE DEF n, L
  <2>4. CASE next_delivery = n - 1
    <3>1. next_delivery' = 0
      BY <1>1, <2>2, <2>4, NextDelivery
    <3>2. base_timestamp' = r * L + L
      BY <1>1, <1>6, <2>1, <2>3, <3>1
    <3>3. \A x \in Nat : (r + 1) * x = r * x + x /\ r * x \in Nat
      OBVIOUS
    <3>4. (r + 1) * n = r * n + n /\ r * n \in Nat /\ (r + 1) * L = r * L + L
      BY <2>2, <3>3
    <3> DEFINE a == r * n
               b == (r + 1) * n
    <3>u. Used' = (a + (n - 1)) + 1 /\ b = a + n /\ a \in Nat
      BY <1>4, <2>1, <2>4, <3>4
    <3> HIDE DEF a, b
    <3>v. Used' = b + 0
      BY <2>2, <3>u
    <3>5. Used' = (r + 1) * n + next_delivery' /\ base_timestamp' = (r + 1) * L
      BY <3>1, <3>2, <3>4, <3>v DEF b
    <3>6. r + 1 \in Nat
      OBVIOUS
    <3> QED
      BY <3>5, <3>6
  <2>5. CASE next_delivery < n - 1
    <3>0. (next_delivery + 1) % n = next_delivery + 1
      BY <2>2, <2>5, NextDelivery
    <3>1. next_delivery' = next_delivery + 1 /\ next_delivery' # 0
      BY <1>1, <2>2, <3>0
    <3>2. r * n \in Nat
      BY <2>2
    <3>3. Used' = r * n + next_delivery' /\ base_timestamp' = r * L
      BY <1>1, <1>4, <2>1, <2>2, <3>1, <3>2
    <3> QED
      BY <3>3
  <2> QED
    BY <2>2, <2>4, <2>5
<1>7. Used' > 0 /\ this_delivery_time' = OpportunityTime(Used') /\ OpportunityTime(Used') <= now'
  BY <1>1, <1>2, <1>3, <1>4
<1>8. now' <= clock'
  BY <1>1 DEF TraceInv
<1> QED
  BY <1>1, <1>4, <1>5, <1>6, <1>7, <1>8 DEF TraceInv

\* The steps that leave the trace alone: the handler's time goes on with the
\* clock, and the process goes to sleep before the next opportunity.
LEMMA StillTrace ==
  ASSUME IInv, TraceInv, UNCHANGED traceVars,
         UNCHANGED this_delivery_time, now' \in Nat, now <= now', now' <= clock',
         pc' = "send" => pc = "send",
         pc' = "poll" => (pc = "poll" /\ now' = now) \/ ~Due(now')
  PROVE  TraceInv'
<1>1. UNCHANGED <<repeat, next_delivery, base_timestamp, finished, opportunities>>
  BY DEF traceVars
<1>2. Used' = Used /\ next_delivery_time' = next_delivery_time /\ Used \in Nat
  BY <1>1, CarriedFacts DEF Used, next_delivery_time
<1>3. Used > 0 => OpportunityTime(Used) <= now'
  <2>1. now \in Nat /\ (Used > 0 => OpportunityTime(Used) \in Nat)
    BY <1>2, OpportunityNext DEF IInv, TypeOK, ProcTypeOK
  <2> QED
    BY <2>1 DEF TraceInv
<1>4. pc' = "poll" /\ ~finished => now' < next_delivery_time
  <2>1. ~finished => next_delivery_time \in Nat
    BY NextTime
  <2> QED
    BY <2>1 DEF TraceInv, Due
<1>5. /\ \A o \in 1..Used' : opportunities'[o] = OpportunityTime(o)
      /\ pc' = "send" => Used' > 0 /\ this_delivery_time' = OpportunityTime(Used')
      /\ ~finished' => \E r \in Nat : /\ Used' = r * Len(Schedule) + next_delivery'
                                      /\ base_timestamp' = r * Schedule[Len(Schedule)]
  BY <1>1, <1>2 DEF TraceInv
<1> QED
  BY <1>1, <1>2, <1>3, <1>4, <1>5 DEF TraceInv

\* Using an opportunity gives the link a fresh one.
LEMMA UseRoom ==
  ASSUME IInv, TraceInv, RoomInv, use_a_delivery_opportunity
  PROVE  RoomInv'
<1>1. /\ pc = "rationalize" /\ pc' = "send" /\ opportunity' = PACKET_SIZE
      /\ UNCHANGED <<departed, bytes_left, in_transit, packet_queue>>
  BY DEF use_a_delivery_opportunity, queueVars
<1>2. Used' = Used + 1 /\ Used \in Nat /\ PACKET_SIZE > 0
  BY UseTrace, CarriedFacts, Constants
<1>3. Ended' = Ended /\ Ended \in End
  BY <1>1, CarriedFacts DEF Ended, LastEnd
<1>4. CASE bytes_left > 0
  <2>1. Ended = [opp |-> Used + 1, room |-> PACKET_SIZE - bytes_left]
    BY <1>1, <1>4 DEF RoomInv
  <2> QED
    BY <1>1, <1>2, <1>3, <1>4, <2>1 DEF RoomInv
<1>5. CASE ~(bytes_left > 0)
  <2>1. bytes_left = 0
    BY <1>5, Constants DEF IInv, TypeOK, SendTypeOK
  <2>2. CASE Used = 0 /\ Ended = [opp |-> 1, room |-> PACKET_SIZE]
    <3>1. Ended'.opp = Used' /\ Ended'.room = opportunity'
      BY <1>1, <1>2, <1>3, <2>2
    <3> QED
      BY <1>1, <2>1, <3>1 DEF RoomInv
  <2>3. CASE /\ Used > 0 /\ Ended.opp <= Used
             /\ \A i \in 1..Len(packet_queue) :
                  Missed(Ended, Used, packet_queue[i].arrival_time)
    <3>1. Used' - 1 = Used /\ Ended'.opp < Used'
      BY <1>2, <1>3, <2>3 DEF End
    <3>2. \A i \in 1..Len(packet_queue') :
            Missed(Ended', Used' - 1, packet_queue'[i].arrival_time)
      BY <1>1, <1>3, <2>3, <3>1
    <3> QED
      BY <1>1, <2>1, <3>1, <3>2 DEF RoomInv
  <2> QED
    BY <1>1, <2>1, <2>2, <2>3 DEF RoomInv
<1> QED
  BY <1>4, <1>5

\* A packet fits into what is left of the opportunity, or is cut off by its end.
LEMMA ServeNow ==
  ASSUME IInv, TraceInv, RoomInv, pc = "send", bytes_left = 0,
         NEW i \in 1..Len(packet_queue)
  PROVE  LET p == packet_queue[i]
         IN Serve(LastEnd, p) =
              IF p.size <= opportunity
              THEN [opp |-> Used, room |-> opportunity - p.size]
              ELSE [opp |-> Used + 1, room |-> PACKET_SIZE + (opportunity - p.size)]
<1> DEFINE p == packet_queue[i]
<1>1. /\ Carried(p) /\ LastEnd \in End /\ Ended = LastEnd /\ Used \in Nat
  BY CarriedFacts DEF Ended
<1>2. this_delivery_time = OpportunityTime(Used) /\ p.arrival_time < this_delivery_time
  BY DEF TraceInv, IInv, TimelyInv
<1>3. p.size \in 1..PACKET_SIZE /\ PACKET_SIZE \in Nat
  BY <1>1, Constants DEF Carried
<1> HIDE DEF p
<1>4. CASE LastEnd.opp = Used /\ LastEnd.room = opportunity
  BY <1>1, <1>2, <1>4, ServeHere DEF p
<1>5. CASE /\ LastEnd.opp < Used /\ opportunity = PACKET_SIZE
           /\ Missed(LastEnd, Used - 1, p.arrival_time)
  <2>1. Serve(LastEnd, p) = [opp |-> Used, room |-> PACKET_SIZE - p.size]
    BY <1>1, <1>2, <1>5, ServeFresh
  <2> QED
    BY <1>3, <1>5, <2>1 DEF p
<1> QED
  BY <1>1, <1>4, <1>5 DEF RoomInv, p

\* The end of an opportunity: nothing queued could still have used it.
LEMMA EndRoom ==
  ASSUME IInv, TraceInv, RoomInv, EndOpportunity
  PROVE  RoomInv'
<1>1. /\ pc = "send" /\ pc' = "rationalize"
      /\ opportunity = 0 \/ (bytes_left = 0 /\ packet_queue = <<>>)
      /\ UNCHANGED <<departed, bytes_left, in_transit, packet_queue, opportunities,
                     opportunity>>
  BY DEF EndOpportunity, queueVars, sendVars, traceVars
<1>2. Used' = Used /\ Used \in Nat /\ Used > 0 /\ PACKET_SIZE > 0
  BY <1>1, CarriedFacts, Constants DEF Used, TraceInv
<1>3. Ended' = Ended /\ Ended \in End
  BY <1>1, CarriedFacts DEF Ended, LastEnd
<1>4. bytes_left \in Nat /\ opportunity \in Nat
  BY Constants DEF IInv, TypeOK, SendTypeOK
<1>5. CASE bytes_left > 0
  <2>1. opportunity = 0
    BY <1>1, <1>4, <1>5
  <2>2. Ended = [opp |-> Used + 1, room |-> PACKET_SIZE - bytes_left]
    BY <1>1, <1>5, <2>1 DEF RoomInv
  <2> QED
    BY <1>1, <1>2, <1>3, <1>5, <2>2 DEF RoomInv
<1>6. CASE bytes_left = 0
  <2>1. Ended.opp <= Used
    BY <1>1, <1>2, <1>3, <1>6 DEF RoomInv, End
  <2>2. ASSUME NEW i \in 1..Len(packet_queue)
        PROVE  Missed(Ended, Used, packet_queue[i].arrival_time)
    <3>1. packet_queue # <<>>
      BY <2>2
    <3>2. opportunity = 0
      BY <1>1, <3>1
    <3>3. Ended.opp = Used /\ Ended.room = 0
      BY <1>1, <1>2, <1>6, <3>2 DEF RoomInv
    <3> QED
      BY <3>3 DEF Missed
  <2> QED
    BY <1>1, <1>2, <1>3, <1>6, <2>1, <2>2 DEF RoomInv
<1> QED
  BY <1>4, <1>5, <1>6

\* The steps that leave the link alone, outside an opportunity.
LEMMA StillRoom ==
  ASSUME RoomInv, UNCHANGED <<opportunities, departed, bytes_left, in_transit, opportunity>>,
         (pc # "send" /\ pc' # "send") \/ UNCHANGED pc,
         UNCHANGED packet_queue
  PROVE  RoomInv'
<1>1. Ended' = Ended /\ Used' = Used
  BY DEF Ended, LastEnd, Used
<1>2. CASE pc # "send" /\ pc' # "send"
  BY <1>1, <1>2 DEF RoomInv
<1>3. CASE pc' = pc
  BY <1>1, <1>3 DEF RoomInv
<1> QED
  BY <1>2, <1>3

\* A packet is queued after the last opportunity used, which it has missed.
LEMMA EnqueueRoom ==
  ASSUME IInv, TraceInv, RoomInv, read_packet_enqueues
  PROVE  RoomInv'
<1>1. /\ pc = "rationalize" /\ caller = "read_packet" /\ pc' = "callbacks"
      /\ UNCHANGED <<departed, bytes_left, in_transit, opportunities, opportunity>>
  BY DEF read_packet_enqueues, sendVars, traceVars
<1>2. Used' = Used /\ Used \in Nat /\ Ended' = Ended
  BY <1>1, CarriedFacts DEF Used, Ended, LastEnd
<1>3. incoming \in Packet /\ incoming.arrival_time = now /\ packet_queue \in Seq(Packet)
  BY <1>1 DEF IInv, IncomingInv, TypeOK, QueueTypeOK
<1> DEFINE s == Append(packet_queue, incoming)
<1>4. /\ s \in Seq(Packet) /\ Len(s) = Len(packet_queue) + 1
      /\ \A i \in 1..Len(packet_queue) : s[i] = packet_queue[i]
      /\ s[Len(packet_queue) + 1] = incoming
  BY <1>3
<1>5. packet_queue' \in Contract!Thinnings(s)
  BY DEF read_packet_enqueues
<1> HIDE DEF s
<1>6. \A i \in 1..Len(packet_queue') : \E j \in 1..Len(s) : packet_queue'[i] = s[j]
  BY <1>4, <1>5, ThinningsElements
<1>7. ASSUME Used > 0, \A i \in 1..Len(packet_queue) :
                         Missed(Ended, Used, packet_queue[i].arrival_time)
      PROVE  \A i \in 1..Len(packet_queue') :
               Missed(Ended, Used, packet_queue'[i].arrival_time)
  <2>1. Missed(Ended, Used, incoming.arrival_time)
    BY <1>3, <1>7 DEF TraceInv, Missed
  <2>2. \A j \in 1..Len(s) : j \in 1..Len(packet_queue) \/ j = Len(packet_queue) + 1
    BY <1>3, <1>4
  <2>3. \A j \in 1..Len(s) : Missed(Ended, Used, s[j].arrival_time)
    BY <1>4, <1>7, <2>1, <2>2
  <2> QED
    BY <1>6, <2>3
<1> QED
  BY <1>1, <1>2, <1>7 DEF RoomInv

\* Sending: a packet ends where the ideal link has it end, and, if it leaves,
\* leaves when the ideal link lets it.
LEMMA TransmitIdeal ==
  ASSUME IInv, TraceInv, DepartedInv, pc = "send", pc' = "send", opportunity > 0,
         UNCHANGED <<opportunities, this_delivery_time>>,
         NEW p \in Packet, NEW left \in 1..p.size, Transmit(p, left),
         \/ /\ left <= opportunity
            /\ Serve(LastEnd, p) = [opp |-> Used, room |-> opportunity - left]
         \/ /\ opportunity < left
            /\ Serve(LastEnd, p) =
                 [opp |-> Used + 1, room |-> PACKET_SIZE + (opportunity - left)]
  PROVE  RoomInv' /\ DepartedInv'
<1> DEFINE gone == [id |-> p.id, size |-> p.size, arrival_time |-> p.arrival_time,
                    time |-> this_delivery_time]
<1>1. /\ left \in Nat /\ left > 0 /\ opportunity \in Nat /\ PACKET_SIZE \in Nat
      /\ this_delivery_time \in Nat
  BY Constants DEF IInv, TypeOK, SendTypeOK, Packet
<1>2. Used' = Used /\ Used \in Nat /\ this_delivery_time = OpportunityTime(Used)
  BY CarriedFacts DEF Used, TraceInv
<1>3. gone \in Departure
  BY <1>1 DEF Packet, Departure
<1>4. Serve(LastEnd, gone) = Serve(LastEnd, p)
  BY DEF Serve
<1>5. CASE left <= opportunity
  <2>0. Serve(LastEnd, p) = [opp |-> Used, room |-> opportunity - left]
    BY <1>1, <1>5
  <2>1. Amount(left) = left /\ Done(left, left)
    BY <1>1, <1>5 DEF Amount, Done
  <2>2. /\ bytes_left' = 0 /\ opportunity' = opportunity - left
        /\ departed' = Append(departed, gone)
    BY <1>1, <2>1 DEF Transmit
  <2> HIDE DEF gone
  <2> DEFINE n == Len(departed)
  <2>3. /\ Len(departed') = n + 1 /\ departed'[n + 1] = gone
        /\ \A k \in 1..n : /\ departed'[k] = departed[k]
                           /\ Service(departed')[k] = Service(departed)[k]
        /\ LastEnd' = Serve(LastEnd, gone)
        /\ Service(departed')[n + 1] = Serve(LastEnd, gone)
    BY <1>3, <2>2, DepartFacts
  <2>4. Ended' = LastEnd'
    BY <2>2 DEF Ended
  <2>5. Ended'.opp = Used' /\ Ended'.room = opportunity'
    BY <1>2, <1>4, <2>0, <2>2, <2>3, <2>4
  <2>6. RoomInv'
    BY <2>2, <2>5 DEF RoomInv
  <2>7. n \in Nat
    BY CarriedFacts
  <2> HIDE DEF n
  <2>8. ASSUME NEW k \in 1..(n + 1)
        PROVE  departed'[k].time = OpportunityTime(Service(departed')[k].opp)
    <3>1. CASE k \in 1..n
      BY <2>3, <3>1 DEF DepartedInv, n
    <3>2. CASE k = n + 1
      <4>1. gone.time = this_delivery_time
        BY DEF gone
      <4> QED
        BY <1>2, <1>4, <2>0, <2>3, <3>2, <4>1
    <3> QED
      BY <2>7, <3>1, <3>2
  <2> QED
    BY <2>3, <2>6, <2>8 DEF DepartedInv
<1>6. CASE opportunity < left
  <2>0. Serve(LastEnd, p) = [opp |-> Used + 1, room |-> PACKET_SIZE + (opportunity - left)]
    BY <1>1, <1>6
  <2>1. Amount(left) = opportunity /\ ~Done(left, opportunity)
    BY <1>1, <1>6 DEF Amount, Done
  <2>2. /\ bytes_left' = left - opportunity /\ opportunity' = 0 /\ in_transit' = p
        /\ departed' = departed
    BY <1>1, <2>1 DEF Transmit
  <2>3. bytes_left' > 0 /\ PACKET_SIZE + (opportunity - left) = PACKET_SIZE - bytes_left'
    BY <1>1, <1>6, <2>2
  <2>4. LastEnd' = LastEnd
    BY <2>2 DEF LastEnd
  <2>5. Ended' = Serve(LastEnd, p)
    BY <2>2, <2>3, <2>4 DEF Ended
  <2>6. RoomInv'
    BY <1>1, <1>2, <2>0, <2>2, <2>3, <2>5 DEF RoomInv
  <2>7. DepartedInv'
    BY <2>2 DEF DepartedInv
  <2> QED
    BY <2>6, <2>7
<1> QED
  BY <1>1, <1>5, <1>6

\* Sending the rest of a packet takes one fresh opportunity.
LEMMA ContinueIdeal ==
  ASSUME IInv, TraceInv, RoomInv, DepartedInv, ContinuePacket
  PROVE  RoomInv' /\ DepartedInv'
<1>1. /\ pc = "send" /\ pc' = "send" /\ opportunity > 0 /\ bytes_left > 0
      /\ Transmit(in_transit, bytes_left)
      /\ UNCHANGED <<opportunities, this_delivery_time>>
  BY DEF ContinuePacket, procVars, traceVars
<1>2. /\ in_transit \in Packet /\ bytes_left <= in_transit.size
      /\ bytes_left \in 0..PACKET_SIZE /\ opportunity \in Nat /\ PACKET_SIZE \in Nat
  BY <1>1, Constants DEF IInv, TypeOK, SendTypeOK, TransitInv
<1>3. bytes_left \in 1..in_transit.size
  BY <1>1, <1>2, Constants DEF Packet
<1>4. /\ opportunity = PACKET_SIZE
      /\ Serve(LastEnd, in_transit) = [opp |-> Used, room |-> PACKET_SIZE - bytes_left]
  BY <1>1 DEF RoomInv, Ended
<1> QED
  BY <1>1, <1>2, <1>3, <1>4, TransmitIdeal

\* Taking a packet from the queue.
LEMMA DequeueIdeal ==
  ASSUME IInv, TraceInv, RoomInv, DepartedInv, dequeue_packet
  PROVE  RoomInv' /\ DepartedInv'
<1>1. /\ pc = "send" /\ pc' = "send" /\ opportunity > 0 /\ bytes_left = 0
      /\ UNCHANGED <<opportunities, this_delivery_time>>
  BY DEF dequeue_packet, procVars, traceVars
<1>2. PICK c \in DequeueChoices : Transmit(packet_queue[c[1]], packet_queue[c[1]].size)
  BY DEF dequeue_packet
<1>3. c[1] \in 1..Len(packet_queue) /\ packet_queue \in Seq(Packet)
  BY DEF DequeueChoices, IInv, TypeOK, QueueTypeOK
<1> DEFINE p == packet_queue[c[1]]
<1>4. p \in Packet
  BY <1>3
<1>5. p.size \in 1..p.size /\ p.size \in Nat /\ opportunity \in Nat
  BY <1>4, Constants DEF Packet, IInv, TypeOK, SendTypeOK
<1>6. Serve(LastEnd, p) =
        IF p.size <= opportunity
        THEN [opp |-> Used, room |-> opportunity - p.size]
        ELSE [opp |-> Used + 1, room |-> PACKET_SIZE + (opportunity - p.size)]
  BY <1>1, <1>3, ServeNow
<1>t. Transmit(p, p.size)
  BY <1>2
<1> HIDE DEF p
<1>7. CASE p.size <= opportunity
  <2>1. Serve(LastEnd, p) = [opp |-> Used, room |-> opportunity - p.size]
    BY <1>6, <1>7
  <2> QED
    BY <1>1, <1>t, <1>4, <1>5, <1>7, <2>1, TransmitIdeal
<1>8. CASE opportunity < p.size
  <2>1. ~(p.size <= opportunity)
    BY <1>5, <1>8
  <2>2. Serve(LastEnd, p) = [opp |-> Used + 1, room |-> PACKET_SIZE + (opportunity - p.size)]
    BY <1>6, <2>1
  <2> QED
    BY <1>1, <1>t, <1>4, <1>5, <1>8, <2>2, TransmitIdeal
<1> QED
  BY <1>5, <1>7, <1>8
------------------------------------------------------------------------------
(* The order of the packets.                                                *)

\* The numbers of packets.
LEMMA IdFacts ==
  ASSUME IInv
  PROVE  /\ arrivals \in Nat /\ Len(departed) \in Nat /\ Len(packet_queue) \in Nat
         /\ \A i \in 1..Len(departed) : departed[i].id \in Nat
         /\ \A i \in 1..Len(packet_queue) : packet_queue[i].id \in Nat
         /\ bytes_left \in Nat /\ (bytes_left > 0 => in_transit.id \in Nat)
<1>1. /\ departed \in Seq(Departure) /\ packet_queue \in Seq(Packet)
      /\ arrivals \in Nat /\ bytes_left \in Nat
  BY Constants DEF IInv, TypeOK, SendTypeOK, QueueTypeOK
<1>2. /\ \A d \in Departure : d.id \in Nat
      /\ \A p \in Packet : p.id \in Nat
  BY DEF Departure, Packet
<1>3. bytes_left > 0 => in_transit.id \in Nat
  BY <1>2 DEF IInv, TransitInv
<1>4. \A i \in 1..Len(departed) : departed[i].id \in Nat
  BY <1>1, <1>2
<1>5. \A i \in 1..Len(packet_queue) : packet_queue[i].id \in Nat
  BY <1>1, <1>2
<1> QED
  BY <1>1, <1>3, <1>4, <1>5

\* Sending a packet that came after those that have left and before those that
\* stay in the queue.
LEMMA TransmitOrder ==
  ASSUME IInv, IInv', NEW p \in Packet, NEW left \in 1..p.size, Transmit(p, left),
         UNCHANGED arrivals, p.id <= arrivals,
         \A i \in 1..Len(departed) :
           /\ departed[i].id < p.id
           /\ \A j \in 1..Len(departed) : i < j => departed[i].id < departed[j].id,
         \A i \in 1..Len(packet_queue') :
           /\ packet_queue'[i].id <= arrivals /\ p.id < packet_queue'[i].id
           /\ \A j \in 1..Len(packet_queue') :
                i < j => packet_queue'[i].id < packet_queue'[j].id
  PROVE  OrderInv'
<1> DEFINE n == Len(departed)
           m == Len(packet_queue')
           gone == [id |-> p.id, size |-> p.size, arrival_time |-> p.arrival_time,
                    time |-> this_delivery_time]
<1>t. /\ p.id \in Nat /\ arrivals \in Nat /\ n \in Nat /\ m \in Nat
      /\ \A i \in 1..n : departed[i].id \in Nat
      /\ \A i \in 1..m : packet_queue'[i].id \in Nat
  <2>1. packet_queue' \in Seq(Packet)
    BY DEF IInv, TypeOK, QueueTypeOK
  <2>2. \A x \in Packet : x.id \in Nat
    BY DEF Packet
  <2>3. m \in Nat /\ \A i \in 1..m : packet_queue'[i].id \in Nat
    BY <2>1, <2>2
  <2> QED
    BY <2>2, <2>3, IdFacts
<1>1. in_transit' = p /\ bytes_left' = left - Amount(left)
  BY DEF Transmit
<1>2. departed' = departed \/ (departed' = Append(departed, gone) /\ bytes_left' = 0)
  <2>1. CASE left - Amount(left) = 0
    BY <1>1, <2>1 DEF Transmit, Done
  <2>2. CASE left - Amount(left) # 0
    BY <2>2 DEF Transmit, Done
  <2> QED
    BY <2>1, <2>2
<1>3. CASE departed' = departed
  <2>1. \A i \in 1..n : \A j \in 1..m : departed[i].id < packet_queue'[j].id
    <3> SUFFICES ASSUME NEW i \in 1..n, NEW j \in 1..m
                 PROVE  departed[i].id < packet_queue'[j].id
      OBVIOUS
    <3>1. departed[i].id < p.id /\ p.id < packet_queue'[j].id
      OBVIOUS
    <3> QED
      BY <1>t, <3>1
  <2>2. \A i \in 1..n : departed[i].id <= arrivals
    <3> SUFFICES ASSUME NEW i \in 1..n PROVE departed[i].id <= arrivals
      OBVIOUS
    <3>1. departed[i].id < p.id
      OBVIOUS
    <3> QED
      BY <1>t, <3>1
  <2> QED
    BY <1>1, <1>3, <2>1, <2>2 DEF OrderInv
<1>4. CASE departed' = Append(departed, gone) /\ bytes_left' = 0
  <2>1. gone \in Departure /\ gone.id = p.id
    BY DEF Departure, Packet, IInv, TypeOK, SendTypeOK
  <2> HIDE DEF gone
  <2>2. /\ Len(departed') = n + 1 /\ departed'[n + 1] = gone
        /\ \A k \in 1..n : departed'[k] = departed[k]
    BY <1>4, <2>1, DepartFacts
  <2> HIDE DEF n, m
  <2>3. \A i \in 1..(n + 1) :
          \/ i \in 1..n /\ departed'[i].id = departed[i].id
          \/ i = n + 1 /\ departed'[i].id = p.id
    BY <1>t, <2>1, <2>2
  <2>o. \A i \in 1..n : departed[i].id < p.id /\ departed[i].id \in Nat
    BY <1>t DEF n
  <2>4. \A i \in 1..(n + 1) : departed'[i].id <= p.id /\ departed'[i].id \in Nat
    BY <1>t, <2>3, <2>o
  <2>5. ASSUME NEW i \in 1..(n + 1)
        PROVE  /\ departed'[i].id <= arrivals
               /\ \A j \in 1..m : departed'[i].id < packet_queue'[j].id
    <3>1. departed'[i].id \in Nat /\ departed'[i].id <= p.id
      BY <2>4
    <3>2. \A j \in 1..m : p.id < packet_queue'[j].id /\ packet_queue'[j].id \in Nat
      BY <1>t DEF m
    <3> QED
      BY <1>t, <3>1, <3>2
  <2>6. ASSUME NEW i \in 1..(n + 1), NEW j \in 1..(n + 1), i < j
        PROVE  departed'[i].id < departed'[j].id
    <3>1. i # n + 1
      BY <1>t, <2>6
    <3>2. i \in 1..n /\ departed'[i].id = departed[i].id
      BY <2>3, <3>1
    <3>3. CASE j \in 1..n /\ departed'[j].id = departed[j].id
      BY <2>6, <3>2, <3>3 DEF n
    <3>4. CASE departed'[j].id = p.id
      BY <3>2, <3>4 DEF n
    <3> QED
      BY <2>3, <3>3, <3>4
  <2>7. ~(bytes_left' > 0)
    BY <1>4
  <2>8. arrivals' = arrivals
    OBVIOUS
  <2>9. \A i \in 1..Len(packet_queue') :
           /\ packet_queue'[i].id <= arrivals'
           /\ \A j \in 1..Len(packet_queue') :
                i < j => packet_queue'[i].id < packet_queue'[j].id
    BY <2>8
  <2> QED
    BY <2>2, <2>5, <2>6, <2>7, <2>8, <2>9 DEF OrderInv, m
<1> QED
  BY <1>2, <1>3, <1>4

\* Sending the rest of a packet keeps the order.
LEMMA ContinueOrder ==
  ASSUME IInv, IInv', OrderInv, ContinuePacket PROVE OrderInv'
<1>1. /\ bytes_left > 0 /\ Transmit(in_transit, bytes_left)
      /\ UNCHANGED <<packet_queue, arrivals>>
  BY DEF ContinuePacket, queueVars
<1>2. in_transit \in Packet /\ bytes_left <= in_transit.size /\ bytes_left \in Nat
  BY <1>1, IdFacts DEF IInv, TransitInv
<1>3. bytes_left \in 1..in_transit.size
  BY <1>1, <1>2, Constants DEF Packet
<1>4. /\ in_transit.id <= arrivals
      /\ \A i \in 1..Len(departed) :
           /\ departed[i].id < in_transit.id
           /\ \A j \in 1..Len(departed) : i < j => departed[i].id < departed[j].id
  BY <1>1 DEF OrderInv
<1>5. \A i \in 1..Len(packet_queue') :
           /\ packet_queue'[i].id <= arrivals /\ in_transit.id < packet_queue'[i].id
           /\ \A j \in 1..Len(packet_queue') :
                i < j => packet_queue'[i].id < packet_queue'[j].id
  BY <1>1 DEF OrderInv
<1> QED
  BY <1>1, <1>2, <1>3, <1>4, <1>5, TransmitOrder

\* A dequeue hands out a packet that came before all it leaves.
LEMMA DequeueOrder ==
  ASSUME IInv, IInv', OrderInv, dequeue_packet PROVE OrderInv'
<1>1. PICK c \in DequeueChoices :
        /\ packet_queue' = SubSeq(packet_queue, c[2] + 1, Len(packet_queue))
        /\ Transmit(packet_queue[c[1]], packet_queue[c[1]].size)
  BY DEF dequeue_packet
<1>2. UNCHANGED arrivals
  BY DEF dequeue_packet
<1> DEFINE n == Len(packet_queue)
           a == c[1]
           b == c[2]
           p == packet_queue[a]
           q == SubSeq(packet_queue, b + 1, n)
<1>3. a \in 1..n /\ b \in 1..n /\ a <= b /\ packet_queue \in Seq(Packet) /\ n \in Nat
  BY DEF DequeueChoices, IInv, TypeOK, QueueTypeOK
<1> HIDE DEF a, b
<1>4. b \in 0..n
  BY <1>3
<1>5. /\ q \in Seq(Packet) /\ Len(q) = n - b
      /\ \A i \in 1..(n - b) : q[i] = packet_queue[b + i]
  BY <1>3, <1>4, WithoutFront
<1> HIDE DEF q
<1>6. packet_queue' = q /\ Transmit(p, p.size)
  BY <1>1 DEF q, a, b
<1>7. p \in Packet
  BY <1>3
<1>8. p.size \in 1..p.size
  BY <1>7, Constants DEF Packet
<1>9. /\ p.id <= arrivals
      /\ \A i \in 1..Len(departed) :
           /\ departed[i].id < p.id
           /\ \A j \in 1..Len(departed) : i < j => departed[i].id < departed[j].id
  BY <1>3 DEF OrderInv
<1>10. \A i \in 1..(n - b) : b + i \in 1..n /\ a < b + i
  BY <1>3
<1>11. \A i, j \in 1..(n - b) : i < j => b + i < b + j
  BY <1>3
<1>12. /\ \A i \in 1..n : packet_queue[i].id <= arrivals
       /\ \A i, j \in 1..n : i < j => packet_queue[i].id < packet_queue[j].id
  BY DEF OrderInv
<1>13. ASSUME NEW i \in 1..(n - b)
       PROVE  /\ q[i].id <= arrivals /\ p.id < q[i].id
              /\ \A j \in 1..(n - b) : i < j => q[i].id < q[j].id
  <2>1. q[i] = packet_queue[b + i] /\ b + i \in 1..n /\ a < b + i
    BY <1>5, <1>10
  <2>2. q[i].id <= arrivals /\ p.id < q[i].id
    BY <1>3, <1>12, <2>1
  <2>3. ASSUME NEW j \in 1..(n - b), i < j PROVE q[i].id < q[j].id
    <3>1. q[j] = packet_queue[b + j] /\ b + j \in 1..n /\ b + i < b + j
      BY <1>5, <1>10, <1>11, <2>3
    <3> QED
      BY <1>12, <2>1, <3>1
  <2> QED
    BY <2>2, <2>3
<1> HIDE DEF p
<1> QED
  BY <1>2, <1>5, <1>6, <1>7, <1>8, <1>9, <1>13, TransmitOrder

\* A packet is queued behind all others.
LEMMA EnqueueOrder ==
  ASSUME IInv, NumberInv, OrderInv, read_packet_enqueues PROVE OrderInv'
<1>1. /\ pc = "rationalize" /\ caller = "read_packet" /\ arrivals' = arrivals + 1
      /\ UNCHANGED <<departed, bytes_left, in_transit>>
  BY DEF read_packet_enqueues, sendVars
<1>2. incoming \in Packet /\ incoming.id = arrivals + 1 /\ packet_queue \in Seq(Packet)
  BY <1>1 DEF IInv, IncomingInv, NumberInv, TypeOK, QueueTypeOK
<1> DEFINE s == Append(packet_queue, incoming)
           n == Len(packet_queue)
           m == Len(packet_queue')
<1>3. /\ s \in Seq(Packet) /\ Len(s) = n + 1 /\ s[n + 1] = incoming
      /\ \A i \in 1..n : s[i] = packet_queue[i]
  BY <1>2
<1>4. packet_queue' \in Contract!Thinnings(s)
  BY DEF read_packet_enqueues
<1> HIDE DEF s
<1>5. /\ m \in Nat
      /\ \E f \in [1..m -> 1..Len(s)] :
           /\ \A i \in 1..m : packet_queue'[i] = s[f[i]]
           /\ \A i, j \in 1..m : i < j => f[i] < f[j]
  <2>1. PICK q \in Contract!Thinnings(s) : packet_queue' = q
    BY <1>4
  <2>s. s \in Seq(Packet)
    BY <1>3
  <2>2. /\ q \in Seq(Packet)
        /\ Len(q) <= Len(s)
        /\ \A i \in 1..Len(q) : \E j \in 1..Len(s) : q[i] = s[j]
        /\ \E f \in [1..Len(q) -> 1..Len(s)] :
             /\ \A i \in 1..Len(q) : q[i] = s[f[i]]
             /\ \A i, j \in 1..Len(q) : i < j => f[i] < f[j]
    BY <2>s, ThinningsElements
  <2>3. Len(q) \in Nat
    BY <2>2
  <2> QED
    BY <2>1, <2>2, <2>3
<1>6. PICK f \in [1..m -> 1..(n + 1)] :
             /\ \A i \in 1..m : packet_queue'[i] = s[f[i]]
             /\ \A i, j \in 1..m : i < j => f[i] < f[j]
  BY <1>3, <1>5
<1>7. /\ arrivals \in Nat /\ n \in Nat
      /\ \A i \in 1..Len(departed) : departed[i].id \in Nat
      /\ \A i \in 1..n : packet_queue[i].id \in Nat
      /\ bytes_left > 0 => in_transit.id \in Nat
  BY IdFacts
<1>8. \A i \in 1..(n + 1) : i \in 1..n \/ i = n + 1
  <2> HIDE DEF n
  <2> QED
    BY <1>7
<1>9. \A i \in 1..(n + 1) : s[i].id <= arrivals + 1 /\ s[i].id \in Nat
  <2> TAKE i \in 1..(n + 1)
  <2>1. CASE i \in 1..n
    <3>1. s[i].id = packet_queue[i].id /\ s[i].id <= arrivals /\ s[i].id \in Nat
      BY <1>3, <1>7, <2>1 DEF OrderInv
    <3> QED
      BY <1>7, <3>1
  <2>2. CASE i = n + 1
    <3>1. s[i].id = arrivals + 1
      BY <1>2, <1>3, <2>2
    <3> QED
      BY <1>7, <3>1
  <2> QED
    BY <1>8, <2>1, <2>2
<1>10. ASSUME NEW i \in 1..(n + 1), NEW j \in 1..(n + 1), i < j
       PROVE  s[i].id < s[j].id
  <2>1. i \in 1..n /\ s[i] = packet_queue[i]
    BY <1>3, <1>7, <1>10
  <2>2. CASE j \in 1..n
    BY <1>3, <1>10, <2>1, <2>2 DEF OrderInv
  <2>3. CASE j = n + 1
    <3>1. s[i].id <= arrivals /\ s[i].id \in Nat
      BY <1>7, <2>1 DEF OrderInv
    <3>2. s[j].id = arrivals + 1
      BY <1>2, <1>3, <2>3
    <3> QED
      BY <1>7, <3>1, <3>2
  <2> QED
    BY <1>8, <2>2, <2>3
<1>11. ASSUME NEW x \in Nat, x <= arrivals, \A i \in 1..n : x < packet_queue[i].id
       PROVE  \A i \in 1..(n + 1) : x < s[i].id
  <2>1. x < incoming.id
    BY <1>2, <1>7, <1>11
  <2> QED
    BY <1>3, <1>8, <1>11, <2>1
<1>12. /\ \A i \in 1..Len(departed) : \A j \in 1..(n + 1) : departed[i].id < s[j].id
       /\ bytes_left > 0 => \A j \in 1..(n + 1) : in_transit.id < s[j].id
  BY <1>7, <1>11 DEF OrderInv
<1>13. /\ \A i \in 1..Len(departed) : departed[i].id <= arrivals + 1
       /\ bytes_left > 0 => in_transit.id <= arrivals + 1
  BY <1>7 DEF OrderInv
<1>14. \A i \in 1..m : f[i] \in 1..(n + 1) /\ packet_queue'[i] = s[f[i]]
  BY <1>6
<1>15. \A i \in 1..m :
         /\ packet_queue'[i].id <= arrivals'
         /\ \A j \in 1..m : i < j => packet_queue'[i].id < packet_queue'[j].id
  BY <1>1, <1>6, <1>9, <1>10, <1>14
<1>16. ASSUME NEW i \in 1..Len(departed')
       PROVE /\ departed'[i].id <= arrivals'
             /\ bytes_left' > 0 => departed'[i].id < in_transit'.id
             /\ \A j \in 1..m : departed'[i].id < packet_queue'[j].id
             /\ \A j \in 1..Len(departed') : i < j => departed'[i].id < departed'[j].id
  BY <1>1, <1>12, <1>13, <1>14 DEF OrderInv
<1>17. bytes_left' > 0 =>
         /\ in_transit'.id <= arrivals'
         /\ \A j \in 1..m : in_transit'.id < packet_queue'[j].id
  BY <1>1, <1>12, <1>13, <1>14
<1> QED
  BY <1>15, <1>16, <1>17 DEF OrderInv
------------------------------------------------------------------------------
(* The ideal link.                                                          *)

\* The process starts with an empty link, before the first opportunity.
LEMMA InitIdeal == ASSUME Init PROVE IdealInv
<1>1. /\ Used = 0 /\ departed = <<>> /\ packet_queue = <<>> /\ bytes_left = 0
      /\ Len(departed) = 0 /\ Len(packet_queue) = 0 /\ pc = "wait_time"
      /\ now = 0 /\ clock = 0
  BY DEF Init, Used
<1>2. Ended = [opp |-> 1, room |-> PACKET_SIZE]
  BY <1>1, ServiceSteps DEF Ended, LastEnd, Start
<1>3. TraceInv
  <2>1. next_delivery = 0 /\ base_timestamp = 0
    BY DEF Init
  <2>2. 0 * Len(Schedule) = 0 /\ 0 * Schedule[Len(Schedule)] = 0
    BY Constants
  <2>3. \E r \in Nat : /\ Used = r * Len(Schedule) + next_delivery
                       /\ base_timestamp = r * Schedule[Len(Schedule)]
    <3>1. Used = 0 * Len(Schedule) + next_delivery
      BY <1>1, <2>1, <2>2
    <3>2. base_timestamp = 0 * Schedule[Len(Schedule)] /\ 0 \in Nat
      BY <2>1, <2>2
    <3> QED
      BY <3>1, <3>2
  <2> QED
    BY <1>1, <2>3 DEF TraceInv
<1>4. RoomInv
  BY <1>1, <1>2 DEF RoomInv
<1>5. DepartedInv /\ NumberInv /\ OrderInv
  BY <1>1 DEF DepartedInv, NumberInv, OrderInv
<1> QED
  BY <1>3, <1>4, <1>5 DEF IdealInv

\* The steps that leave the link alone.
LEMMA OutsideIdeal ==
  ASSUME IInv, IdealInv, UNCHANGED <<traceVars, queueVars>>,
         UNCHANGED <<this_delivery_time, opportunity, in_transit, bytes_left, departed>>,
         NumberInv', now' \in Nat, now <= now', now' <= clock',
         (pc # "send" /\ pc' # "send") \/ UNCHANGED pc,
         pc' = "poll" => (pc = "poll" /\ now' = now) \/ ~Due(now')
  PROVE  IdealInv'
<1>1. UNCHANGED <<opportunities, packet_queue, arrivals>>
  BY DEF traceVars, queueVars
<1>2. TraceInv'
  <2>1. UNCHANGED traceVars /\ UNCHANGED this_delivery_time
    OBVIOUS
  <2>2. pc' = "send" => pc = "send"
    OBVIOUS
  <2> QED
    BY <2>1, <2>2, StillTrace DEF IdealInv
<1>3. RoomInv'
  BY <1>1, StillRoom DEF IdealInv
<1>4. DepartedInv' /\ OrderInv'
  BY <1>1 DEF IdealInv, DepartedInv, OrderInv
<1> QED
  BY <1>2, <1>3, <1>4 DEF IdealInv

\* Every step of the process and of the clock keeps to the ideal link.
LEMMA NextIdeal ==
  ASSUME IInv, IInv', IdealInv, [Next]_vars PROVE IdealInv'
<1> USE DEF procVars, sendVars
<1>t. /\ TraceInv /\ RoomInv /\ DepartedInv /\ NumberInv /\ OrderInv
      /\ now \in Nat /\ clock \in Nat /\ now <= clock /\ now <= now
  BY DEF IdealInv, TraceInv, IInv, TypeOK, ProcTypeOK
<1>1. CASE use_a_delivery_opportunity
  <2>1. TraceInv' /\ RoomInv'
    BY <1>t, <1>1, UseTrace, UseRoom
  <2>2. /\ pc = "rationalize" /\ pc' = "send"
        /\ UNCHANGED <<caller, incoming, departed, bytes_left, in_transit,
                       packet_queue, arrivals>>
    BY <1>1 DEF use_a_delivery_opportunity, queueVars
  <2>3. DepartedInv' /\ NumberInv' /\ OrderInv'
    BY <1>t, <2>2 DEF DepartedInv, NumberInv, OrderInv
  <2> QED
    BY <2>1, <2>3 DEF IdealInv
<1>2. CASE ContinuePacket \/ dequeue_packet
  <2>1. /\ pc = "send" /\ pc' = pc
        /\ UNCHANGED <<clock, caller, now, incoming, traceVars, this_delivery_time, arrivals>>
    BY <1>2 DEF ContinuePacket, dequeue_packet, queueVars
  <2>2. TraceInv'
    <3>1. /\ UNCHANGED traceVars /\ UNCHANGED this_delivery_time
          /\ now' \in Nat /\ now <= now' /\ now' <= clock'
          /\ (pc' = "send" => pc = "send") /\ pc' # "poll"
      BY <1>t, <2>1
    <3> QED
      BY <1>t, <3>1, StillTrace
  <2>3. NumberInv'
    BY <1>t, <2>1 DEF NumberInv
  <2>4. RoomInv' /\ DepartedInv'
    BY <1>t, <1>2, ContinueIdeal, DequeueIdeal
  <2>5. OrderInv'
    BY <1>t, <1>2, ContinueOrder, DequeueOrder
  <2> QED
    BY <2>2, <2>3, <2>4, <2>5 DEF IdealInv
<1>3. CASE EndOpportunity
  <2>1. /\ pc = "send" /\ pc' = "rationalize"
        /\ UNCHANGED <<clock, caller, now, incoming, traceVars, sendVars, queueVars>>
    BY <1>3 DEF EndOpportunity
  <2>2. TraceInv'
    <3>1. /\ UNCHANGED traceVars /\ UNCHANGED this_delivery_time
          /\ now' \in Nat /\ now <= now' /\ now' <= clock'
          /\ pc' # "send" /\ pc' # "poll"
      BY <1>t, <2>1
    <3> QED
      BY <1>t, <3>1, StillTrace
  <2>3. RoomInv'
    BY <1>t, <1>3, EndRoom
  <2>4. DepartedInv' /\ NumberInv' /\ OrderInv'
    BY <1>t, <2>1 DEF DepartedInv, NumberInv, OrderInv, queueVars
  <2> QED
    BY <2>2, <2>3, <2>4 DEF IdealInv
<1>4. CASE wait_time
  <2>1. NumberInv'
    BY <1>4 DEF wait_time, NumberInv
  <2> QED
    BY <1>t, <1>4, <2>1, OutsideIdeal DEF wait_time
<1>5. CASE wait_time_returns
  <2>1. NumberInv'
    BY <1>5 DEF wait_time_returns, NumberInv
  <2>2. ~Due(now') /\ now' = now
    BY <1>5 DEF wait_time_returns, Due, traceVars, next_delivery_time
  <2> QED
    BY <1>t, <1>5, <2>1, <2>2, OutsideIdeal DEF wait_time_returns
<1>6. CASE read_packet_enqueues
  <2>1. /\ pc = "rationalize" /\ pc' = "callbacks"
        /\ UNCHANGED <<clock, now, traceVars, this_delivery_time, departed>>
    BY <1>6 DEF read_packet_enqueues
  <2>2. TraceInv'
    <3>1. /\ UNCHANGED traceVars /\ UNCHANGED this_delivery_time
          /\ now' \in Nat /\ now <= now' /\ now' <= clock'
          /\ pc' # "send" /\ pc' # "poll"
      BY <1>t, <2>1
    <3> QED
      BY <1>t, <3>1, StillTrace
  <2>3. RoomInv' /\ OrderInv'
    BY <1>t, <1>6, EnqueueRoom, EnqueueOrder
  <2>4. DepartedInv' /\ NumberInv'
    BY <1>t, <2>1 DEF DepartedInv, NumberInv
  <2> QED
    BY <2>2, <2>3, <2>4 DEF IdealInv
<1>7. CASE read_packet
  <2>1. PICK size \in Sizes : incoming' =
          [id |-> arrivals + 1, size |-> size, arrival_time |-> clock]
    BY <1>7 DEF read_packet
  <2>2. NumberInv'
    BY <1>7, <2>1 DEF read_packet, NumberInv, queueVars
  <2> QED
    BY <1>t, <1>7, <2>2, OutsideIdeal DEF read_packet
<1>8. CASE write_packets
  <2>1. NumberInv'
    BY <1>t, <1>8 DEF write_packets, NumberInv, queueVars
  <2> QED
    BY <1>t, <1>8, <2>1, OutsideIdeal DEF write_packets
<1>9. CASE callbacks_done
  <2>1. NumberInv'
    BY <1>9 DEF callbacks_done, NumberInv
  <2> QED
    BY <1>t, <1>9, <2>1, OutsideIdeal DEF callbacks_done
<1>10. CASE poll_timeout
  <2>1. NumberInv'
    BY <1>10 DEF poll_timeout, NumberInv
  <2> QED
    BY <1>t, <1>10, <2>1, OutsideIdeal DEF poll_timeout
<1>11. ASSUME NEW readable \in BOOLEAN, NEW writable \in BOOLEAN,
              poll(readable, writable)
       PROVE  IdealInv'
  <2>1. NumberInv'
    BY <1>11 DEF poll, NumberInv
  <2> QED
    BY <1>t, <1>11, <2>1, OutsideIdeal DEF poll
<1>12. CASE Tick
  <2>1. NumberInv'
    BY <1>t, <1>12 DEF Tick, NumberInv, queueVars
  <2>2. now' = now /\ clock' = clock + 1 /\ pc' = pc
    BY <1>12 DEF Tick
  <2>3. now' <= clock'
    BY <1>t, <2>2
  <2> QED
    BY <1>t, <1>12, <2>1, <2>2, <2>3, OutsideIdeal DEF Tick
<1>13. CASE UNCHANGED vars
  <2>1. NumberInv'
    BY <1>t, <1>13 DEF vars, NumberInv, queueVars
  <2> QED
    BY <1>t, <1>13, <2>1, OutsideIdeal DEF vars
<1> QED
  BY <1>1, <1>2, <1>3, <1>4, <1>5, <1>6, <1>7, <1>8, <1>9, <1>10, <1>11,
     <1>12, <1>13 DEF Next, Step

\* Sequences of numbers that increase; and of which one is below the other.
Increasing(s) == \A i, j \in 1..Len(s) : i < j => s[i] < s[j]
Below(s, t) == \A i \in 1..Len(s) : \A j \in 1..Len(t) : s[i] < t[j]

\* One after the other they increase.
LEMMA ConcatIncreasing ==
  ASSUME NEW s \in Seq(Nat), NEW t \in Seq(Nat),
         Increasing(s), Increasing(t), Below(s, t)
  PROVE  /\ s \o t \in Seq(Nat) /\ Increasing(s \o t)
         /\ \A u \in Seq(Nat) : Below(s, u) /\ Below(t, u) => Below(s \o t, u)
<1> DEFINE n == Len(s)
           m == Len(t)
           c == s \o t
<1>1. c \in Seq(Nat) /\ Len(c) = n + m /\ n \in Nat /\ m \in Nat
  OBVIOUS
<1>2. /\ \A i \in 1..n : c[i] = s[i]
      /\ \A i \in (n + 1)..(n + m) : c[i] = t[i - n]
  OBVIOUS
<1> HIDE DEF c, n, m
<1>3. ASSUME NEW i \in 1..(n + m)
      PROVE  \/ i \in 1..n /\ c[i] = s[i]
             \/ i - n \in 1..m /\ i > n /\ c[i] = t[i - n]
  <2>1. CASE i \in 1..n
    BY <1>2, <2>1
  <2>2. CASE i \in (n + 1)..(n + m)
    <3>1. i - n \in 1..m /\ i > n
      BY <1>1, <2>2
    <3> QED
      BY <1>2, <2>2, <3>1
  <2> QED
    BY <1>1, <2>1, <2>2
<1>4. ASSUME NEW i \in 1..(n + m), NEW j \in 1..(n + m), i < j
      PROVE  c[i] < c[j]
  <2>1. CASE i \in 1..n /\ c[i] = s[i]
    <3>1. CASE j \in 1..n /\ c[j] = s[j]
      BY <1>4, <2>1, <3>1 DEF Increasing, n
    <3>2. CASE j - n \in 1..m /\ c[j] = t[j - n]
      BY <2>1, <3>2 DEF Below, n, m
    <3> QED
      BY <1>3, <3>1, <3>2
  <2>2. CASE i - n \in 1..m /\ i > n /\ c[i] = t[i - n]
    <3>1. j > n /\ ~(j \in 1..n) /\ i - n < j - n
      BY <1>1, <1>4, <2>2
    <3>2. j - n \in 1..m /\ c[j] = t[j - n]
      BY <1>3, <3>1
    <3> QED
      BY <2>2, <3>1, <3>2 DEF Increasing, m
  <2> QED
    BY <1>3, <2>1, <2>2
<1>5. ASSUME NEW u \in Seq(Nat), Below(s, u), Below(t, u) PROVE Below(c, u)
  <2> SUFFICES ASSUME NEW i \in 1..(n + m), NEW j \in 1..Len(u) PROVE c[i] < u[j]
    BY <1>1 DEF Below
  <2>1. CASE i \in 1..n /\ c[i] = s[i]
    BY <1>5, <2>1 DEF Below, n
  <2>2. CASE i - n \in 1..m /\ c[i] = t[i - n]
    BY <1>5, <2>2 DEF Below, m
  <2> QED
    BY <1>3, <2>1, <2>2
<1>6. Increasing(c)
  BY <1>1, <1>4 DEF Increasing
<1> QED
  BY <1>1, <1>5, <1>6 DEF c

\* No packet is held twice, and none overtakes another.
LEMMA HeldInOrder ==
  ASSUME IInv, OrderInv
  PROVE  \A i, j \in 1..Len(Held) : i < j => Held[i] < Held[j]
<1> DEFINE s == [i \in 1..Len(departed) |-> departed[i].id]
           t == IF bytes_left > 0 THEN <<in_transit.id>> ELSE <<>>
           u == [i \in 1..Len(packet_queue) |-> packet_queue[i].id]
<1>1. /\ Len(departed) \in Nat /\ Len(packet_queue) \in Nat
      /\ \A i \in 1..Len(departed) : departed[i].id \in Nat
      /\ \A i \in 1..Len(packet_queue) : packet_queue[i].id \in Nat
      /\ bytes_left \in Nat /\ (bytes_left > 0 => in_transit.id \in Nat)
  BY IdFacts
<1>2. s \in Seq(Nat) /\ Len(s) = Len(departed) /\ \A i \in 1..Len(departed) : s[i] = departed[i].id
  BY <1>1
<1>3. /\ u \in Seq(Nat) /\ Len(u) = Len(packet_queue)
      /\ \A i \in 1..Len(packet_queue) : u[i] = packet_queue[i].id
  BY <1>1
<1>4. /\ t \in Seq(Nat)
      /\ \A i \in 1..Len(t) : i = 1 /\ bytes_left > 0 /\ t[i] = in_transit.id
  <2>1. CASE bytes_left > 0
    <3>1. t = <<in_transit.id>> /\ in_transit.id \in Nat
      BY <1>1, <2>1
    <3> QED
      BY <2>1, <3>1
  <2>2. CASE ~(bytes_left > 0)
    BY <2>2
  <2> QED
    BY <2>1, <2>2
<1> HIDE DEF s, t, u
<1>5. Increasing(s) /\ Increasing(u) /\ Increasing(t)
  <2>1. Increasing(s)
    BY <1>2 DEF OrderInv, Increasing
  <2>2. Increasing(u)
    BY <1>3 DEF OrderInv, Increasing
  <2>3. \A i, j \in 1..Len(t) : ~(i < j)
    BY <1>4
  <2> QED
    BY <2>1, <2>2, <2>3 DEF Increasing
<1>6. Below(s, t) /\ Below(s, u) /\ Below(t, u)
  <2>1. Below(s, t)
    BY <1>2, <1>4 DEF OrderInv, Below
  <2>2. Below(s, u)
    BY <1>2, <1>3 DEF OrderInv, Below
  <2>3. Below(t, u)
    BY <1>3, <1>4 DEF OrderInv, Below
  <2> QED
    BY <2>1, <2>2, <2>3
<1>7. s \o t \in Seq(Nat) /\ Increasing(s \o t) /\ Below(s \o t, u)
  BY <1>2, <1>3, <1>4, <1>5, <1>6, ConcatIncreasing
<1> DEFINE v == s \o t
<1>8. v \in Seq(Nat) /\ Increasing(v) /\ Below(v, u)
  BY <1>7
<1> HIDE DEF v
<1>9. Increasing(v \o u)
  BY <1>3, <1>5, <1>8, ConcatIncreasing
<1>10. Held = v \o u
  BY DEF Held, s, t, u, v
<1> QED
  BY <1>9, <1>10 DEF Increasing

\* Asleep, the process holds no packet that should have left by now.
LEMMA NoneOverdue ==
  ASSUME IInv, TraceInv, RoomInv, pc = "poll", ~finished, Upcoming # <<>>
  PROVE  LET ps == [i \in 1..(Len(departed) + 1) |->
                      IF i <= Len(departed) THEN
                        [size |-> departed[i].size,
                         arrival_time |-> departed[i].arrival_time]
                      ELSE [size |-> Upcoming[1].size,
                            arrival_time |-> Upcoming[1].arrival_time]]
         IN OpportunityTime(Service(ps)[Len(ps)].opp) > now
<1> DEFINE n == Len(departed)
           u == Upcoming[1]
           ps == [i \in 1..(n + 1) |->
                    IF i <= n THEN [size |-> departed[i].size,
                                    arrival_time |-> departed[i].arrival_time]
                    ELSE [size |-> u.size, arrival_time |-> u.arrival_time]]
<1>1. /\ n \in Nat /\ \A i \in 1..n : Carried(departed[i])
      /\ LastEnd \in End /\ Used \in Nat
      /\ bytes_left > 0 => Carried(in_transit)
      /\ \A i \in 1..Len(packet_queue) : Carried(packet_queue[i])
  BY CarriedFacts
<1>2. \/ bytes_left > 0 /\ u = in_transit
      \/ bytes_left = 0 /\ 1 \in 1..Len(packet_queue) /\ u = packet_queue[1]
  <2>1. CASE bytes_left > 0
    <3>1. Upcoming = <<in_transit>>
      BY <2>1 DEF Upcoming
    <3> QED
      BY <2>1, <3>1
  <2>2. CASE ~(bytes_left > 0)
    <3>1. packet_queue # <<>> /\ Upcoming = <<Head(packet_queue)>>
      BY <2>2 DEF Upcoming
    <3>2. packet_queue \in Seq(Packet) /\ bytes_left \in Nat
      BY Constants DEF IInv, TypeOK, QueueTypeOK, SendTypeOK
    <3>3. 1 \in 1..Len(packet_queue) /\ Head(packet_queue) = packet_queue[1]
      BY <3>1, <3>2
    <3>4. u = Head(packet_queue)
      BY <3>1
    <3> QED
      BY <2>2, <3>2, <3>3, <3>4
  <2> QED
    BY <2>1, <2>2
<1> HIDE DEF u
<1>3. Carried(u)
  BY <1>1, <1>2
<1>4. /\ Len(ps) = n + 1 /\ ps[n + 1] = [size |-> u.size, arrival_time |-> u.arrival_time]
      /\ \A i \in 1..n : ps[i] = [size |-> departed[i].size,
                                  arrival_time |-> departed[i].arrival_time]
  <2>1. n + 1 \in 1..(n + 1) /\ ~(n + 1 <= n) /\ n + 1 \in Nat
    BY <1>1
  <2>2. \A i \in 1..n : i \in 1..(n + 1) /\ i <= n
    BY <1>1
  <2> HIDE DEF n
  <2>3. Len(ps) = n + 1
    BY <2>1
  <2> QED
    BY <2>1, <2>2, <2>3
<1> HIDE DEF ps
<1>s. ASSUME NEW i \in 1..n
      PROVE  ps[i].size = departed[i].size /\ ps[i].arrival_time = departed[i].arrival_time
  <2> HIDE DEF n
  <2>1. ps[i] = [size |-> departed[i].size, arrival_time |-> departed[i].arrival_time]
    BY <1>4
  <2> QED
    BY <2>1
<1>5. \A i \in 1..Len(ps) : Carried(ps[i])
  <2>1. Carried(ps[n + 1])
    BY <1>3, <1>4 DEF Carried
  <2>2. ASSUME NEW i \in 1..n PROVE Carried(ps[i])
    <3>1. Carried(departed[i])
      BY <1>1
    <3> QED
      BY <1>s, <3>1 DEF Carried
  <2>3. \A i \in 1..(n + 1) : i \in 1..n \/ i = n + 1
    BY <1>1
  <2> QED
    BY <1>4, <2>1, <2>2, <2>3
<1>6. Service(ps)[n + 1] = Serve(LastEnd, u)
  <2>1. /\ Len(ps) \in Nat /\ n <= Len(ps) /\ n \in 0..n
        /\ n + 1 \in 1..Len(ps) /\ (n + 1) - 1 = n
    BY <1>1, <1>4
  <2>3. Service(ps)[n] = Service(departed)[n]
    BY <1>1, <1>s, <1>5, <2>1, ServicePrefix
  <2>4. Service(ps)[n + 1] = Serve(Service(ps)[n], ps[n + 1])
    BY <1>5, <2>1, ServiceSteps
  <2>5. Serve(LastEnd, ps[n + 1]) = Serve(LastEnd, u)
    BY <1>4 DEF Serve
  <2> QED
    BY <2>3, <2>4, <2>5 DEF LastEnd
<1>7. /\ now < next_delivery_time /\ next_delivery_time = OpportunityTime(Used + 1)
      /\ next_delivery_time \in Nat /\ now \in Nat
  BY NextTime DEF TraceInv, IInv, TypeOK, ProcTypeOK
<1>8. Serve(LastEnd, u).opp = Used + 1
  <2>1. CASE bytes_left > 0 /\ u = in_transit
    <3>1. Serve(LastEnd, u) = [opp |-> Used + 1, room |-> PACKET_SIZE - bytes_left]
      BY <2>1 DEF RoomInv, Ended
    <3> QED
      BY <3>1
  <2>2. CASE bytes_left = 0 /\ 1 \in 1..Len(packet_queue) /\ u = packet_queue[1]
    <3>1. u.arrival_time < OpportunityTime(Used + 1)
      BY <1>7, <2>2 DEF IInv, TimelyInv
    <3>2. Ended = LastEnd
      BY <2>2 DEF Ended
    <3>3. CASE Used = 0 /\ LastEnd = [opp |-> 1, room |-> PACKET_SIZE]
      <4>1. u.size <= PACKET_SIZE
        BY <1>3, Constants DEF Carried
      <4>2. Serve(LastEnd, u) = [opp |-> 1, room |-> PACKET_SIZE - u.size]
        BY <1>1, <1>3, <3>1, <3>3, <4>1, ServeHere
      <4> QED
        BY <3>3, <4>2
    <3>4. CASE /\ Used > 0 /\ LastEnd.opp <= Used
               /\ Missed(LastEnd, Used, u.arrival_time)
      <4>1. Used + 1 \in Nat /\ (Used + 1) - 1 = Used /\ LastEnd.opp < Used + 1
        BY <1>1, <3>4 DEF End
      <4>2. Serve(LastEnd, u) = [opp |-> Used + 1, room |-> PACKET_SIZE - u.size]
        BY <1>1, <1>3, <3>1, <3>4, <4>1, ServeFresh
      <4> QED
        BY <4>2
    <3> QED
      BY <2>2, <3>2, <3>3, <3>4 DEF RoomInv
  <2> QED
    BY <1>2, <2>1, <2>2
<1>9. OpportunityTime(Service(ps)[Len(ps)].opp) > now
  BY <1>4, <1>6, <1>7, <1>8
<1> QED
  BY <1>9 DEF ps, u

\* The lazily emulated link is the ideal link, whatever the trace, the sizes
\* of the packets, the discipline and the time its handlers take: every packet
\* leaves at the opportunity the ideal link gives it, in the order of arrival,
\* and none is still held that should have left (rationalize, read_packet).
THEOREM LinkIsIdeal == Spec => []IdealLink
<1>1. Spec => []IdealInv
  BY InitIdeal, NextIdeal, Invariance, PTL DEF Spec
<1>2. ASSUME IInv, IdealInv PROVE IdealLink
  <2>1. TraceInv /\ RoomInv /\ DepartedInv /\ OrderInv
    BY <1>2 DEF IdealInv
  <2>2. \A i, j \in 1..Len(Held) : i < j => Held[i] < Held[j]
    BY <1>2, <2>1, HeldInOrder
  <2>3. \A o \in 1..Len(opportunities) : opportunities[o] = OpportunityTime(o)
    BY <2>1 DEF TraceInv, Used
  <2> QED
    BY <1>2, <2>1, <2>2, <2>3, NoneOverdue DEF IdealLink, DepartedInv
<1> QED
  BY <1>1, <1>2, Invariance, PTL
==============================================================================
