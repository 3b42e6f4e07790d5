-------------------------- MODULE CodelQueueProofs --------------------------
(***************************************************************************)
(* Proofs about CodelQueue, for every target, interval, packet size, limit *)
(* and number of packets.                                                  *)
(***************************************************************************)
EXTENDS CodelQueue, SequenceTheorems, TLAPS

\* b is the sum of the sizes of q: rest[i] is what the packets from position
\* i on add up to.
SumOfSizes(q, b) ==
  \E rest \in [1..(Len(q) + 1) -> Nat] :
    /\ rest[1] = b /\ rest[Len(q) + 1] = 0
    /\ \A i \in 1..Len(q) : rest[i] = rest[i + 1] + q[i].size

\* The two counters are those of the queue, and within the limits.
SizeInv ==
  /\ SumOfSizes(internal_queue, queue_size_in_bytes)
  /\ queue_size_in_packets = Len(internal_queue)
  /\ good_with(queue_size_in_bytes, queue_size_in_packets)

\* A verdict to drop leaves two packets: one to discard and one to stay.
VerdictInv ==
  /\ pc = "start" \/ (pc = "loop" /\ dropping) => Len(internal_queue) >= 2
  /\ pc # "idle" /\ discarded # <<>> => internal_queue # <<>>

\* first_above_time_ lies an interval after the last packet that waited little.
TimeInv ==
  /\ last_good <= clock
  /\ pc # "idle" => now = clock
  /\ first_above_time # 0 => first_above_time >= last_good + interval

\* What a call has taken is a prefix of the queue it found.
CallInv ==
  pc # "idle" =>
    /\ at_call \in Seq(Packet) /\ at_call # <<>> /\ pkt = at_call[1]
    /\ \E k \in 1..Len(at_call) :
         internal_queue = SubSeq(at_call, k + 1, Len(at_call))

\* The inductive invariant.
IInv ==
  /\ CountsOrdered /\ DropsLeaveOne /\ DropsAfterInterval
  /\ SizeInv /\ VerdictInv /\ TimeInv /\ CallInv

\* The constants, in the form the proofs use them.
LEMMA Constants ==
  /\ interval \in Nat /\ interval > 0 /\ target \in Nat /\ PACKET_SIZE \in Nat
  /\ packet_limit \in Nat /\ byte_limit \in Nat
  /\ MaxPackets \in Nat /\ MaxTime \in Nat /\ WORD \in Nat
  /\ \A s \in Sizes : s \in Nat /\ s > 0 /\ s <= PACKET_SIZE
  /\ \A p \in Packet : p.size \in Nat /\ p.size > 0 /\ p.size <= PACKET_SIZE
<1>1. \A s \in Sizes : s \in Nat /\ s > 0 /\ s <= PACKET_SIZE
  BY CodelAssumption
<1>2. \A p \in Packet : p.size \in Sizes
  BY DEF Packet
<1>3. /\ interval \in Nat /\ interval > 0 /\ target \in Nat
      /\ PACKET_SIZE \in Nat /\ packet_limit \in Nat /\ byte_limit \in Nat
      /\ MaxPackets \in Nat /\ MaxTime \in Nat /\ WORD \in Nat
  BY CodelAssumption
<1>4. \A p \in Packet : p.size \in Nat /\ p.size > 0 /\ p.size <= PACKET_SIZE
  BY <1>1, <1>2, Zenon
<1> QED
  BY <1>1, <1>3, <1>4, Zenon

\* The head of a queue and what is behind it.
LEMMA TailFacts ==
  ASSUME NEW q \in Seq(Packet), q # <<>>
  PROVE  /\ Head(q) \in Packet /\ Head(q) = q[1]
         /\ Tail(q) \in Seq(Packet)
         /\ Len(q) \in Nat /\ Len(q) > 0 /\ Len(Tail(q)) = Len(q) - 1
         /\ \A i \in 1..Len(Tail(q)) : Tail(q)[i] = q[i + 1]
BY HeadTailProperties

\* An appended packet adds its size.
LEMMA SumOfAppend ==
  ASSUME NEW q \in Seq(Packet), NEW b \in Nat, SumOfSizes(q, b),
         NEW p \in Packet
  PROVE  SumOfSizes(Append(q, p), b + p.size)
<1>1. PICK rest \in [1..(Len(q) + 1) -> Nat] :
        /\ rest[1] = b /\ rest[Len(q) + 1] = 0
        /\ \A i \in 1..Len(q) : rest[i] = rest[i + 1] + q[i].size
  BY DEF SumOfSizes
<1>2. /\ Len(q) \in Nat /\ Len(Append(q, p)) = Len(q) + 1
      /\ \A i \in 1..Len(q) : Append(q, p)[i] = q[i]
      /\ Append(q, p)[Len(q) + 1] = p
  BY AppendProperties
<1> DEFINE r == [i \in 1..(Len(q) + 2) |->
                   IF i = Len(q) + 2 THEN 0 ELSE rest[i] + p.size]
<1>3. r \in [1..(Len(q) + 2) -> Nat]
  BY <1>1, <1>2, Constants
<1>4. r[1] = b + p.size /\ r[Len(q) + 2] = 0
  BY <1>1, <1>2, Constants
<1>5. ASSUME NEW i \in 1..(Len(q) + 1)
      PROVE  r[i] = r[i + 1] + Append(q, p)[i].size
  <2>1. CASE i = Len(q) + 1
    BY <1>1, <1>2, <2>1, Constants
  <2>2. CASE i # Len(q) + 1
    <3>1. /\ i \in 1..Len(q) /\ i + 1 \in 1..(Len(q) + 1)
          /\ i + 1 # Len(q) + 2 /\ i # Len(q) + 2
      BY <1>2, <2>2
    <3>2. /\ r[i] = rest[i] + p.size /\ r[i + 1] = rest[i + 1] + p.size
          /\ rest[i] = rest[i + 1] + q[i].size
      BY <1>1, <1>2, <3>1
    <3>3. rest[i + 1] \in Nat /\ q[i] \in Packet
      BY <1>1, <3>1, ElementOfSeq
    <3> QED
      BY <1>2, <3>1, <3>2, <3>3, Constants
  <2> QED
    BY <2>1, <2>2
<1> HIDE DEF r
<1> QED
  BY <1>2, <1>3, <1>4, <1>5 DEF SumOfSizes

\* Taking the head takes its size; more than a packet behind the head means
\* two packets behind it.
LEMMA SumOfTail ==
  ASSUME NEW q \in Seq(Packet), NEW b \in Nat, SumOfSizes(q, b), q # <<>>
  PROVE  /\ b - Head(q).size \in Nat
         /\ SumOfSizes(Tail(q), b - Head(q).size)
         /\ b - Head(q).size > PACKET_SIZE => Len(q) >= 3
<1>1. PICK rest \in [1..(Len(q) + 1) -> Nat] :
        /\ rest[1] = b /\ rest[Len(q) + 1] = 0
        /\ \A i \in 1..Len(q) : rest[i] = rest[i + 1] + q[i].size
  BY DEF SumOfSizes
<1>2. /\ Head(q) \in Packet /\ Head(q) = q[1]
      /\ Len(q) \in Nat /\ Len(q) > 0 /\ Len(Tail(q)) = Len(q) - 1
      /\ \A i \in 1..Len(Tail(q)) : Tail(q)[i] = q[i + 1]
  BY TailFacts
<1>3. b - Head(q).size = rest[2] /\ rest[2] \in Nat
  <2>1. rest[1] = rest[2] + q[1].size /\ rest[2] \in Nat
    BY <1>1, <1>2
  <2> QED
    BY <1>1, <1>2, <2>1, Constants
<1> DEFINE r == [i \in 1..Len(q) |-> rest[i + 1]]
<1>4. r \in [1..(Len(Tail(q)) + 1) -> Nat]
  BY <1>1, <1>2
<1>5. r[1] = rest[2] /\ r[Len(Tail(q)) + 1] = 0
  BY <1>1, <1>2
<1>6. ASSUME NEW i \in 1..Len(Tail(q))
      PROVE  r[i] = r[i + 1] + Tail(q)[i].size
  <2>1. i \in 1..Len(q) /\ i + 1 \in 1..Len(q)
    BY <1>2
  <2>2. rest[i + 1] = rest[i + 2] + q[i + 1].size
    BY <1>1, <1>2, <2>1
  <2> QED
    BY <1>2, <2>1, <2>2
<1>7. SumOfSizes(Tail(q), b - Head(q).size)
  <2> HIDE DEF r
  <2> QED
    BY <1>3, <1>4, <1>5, <1>6 DEF SumOfSizes
<1>8. ASSUME Len(q) < 3 PROVE rest[2] <= PACKET_SIZE
  <2>1. CASE Len(q) = 1
    BY <1>1, <2>1, Constants
  <2>2. CASE Len(q) = 2
    <3>1. rest[2] = rest[3] + q[2].size /\ rest[3] = 0 /\ q[2] \in Packet
      <4>1. 2 \in 1..Len(q) /\ Len(q) + 1 = 3 /\ 2 + 1 = 3
        BY <2>2
      <4> QED
        BY <1>1, <4>1, ElementOfSeq
    <3> QED
      BY <3>1, Constants
  <2> QED
    BY <1>2, <1>8, <2>1, <2>2
<1> QED
  BY <1>2, <1>3, <1>7, <1>8, Constants
------------------------------------------------------------------------------
(* The parts of an operation.                                               *)

\* dodequeue on a queue that is not empty.
LEMMA DodequeueKeeps ==
  ASSUME IInv, internal_queue # <<>>, dodequeue(clock)
  PROVE  /\ internal_queue' \in Seq(Packet)
         /\ queue_size_in_bytes' \in Nat /\ queue_size_in_packets' \in Nat
         /\ first_above_time' \in Nat /\ last_good' \in 0..MaxTime
         /\ failed' = FALSE /\ SizeInv'
         /\ Len(internal_queue') = Len(internal_queue) - 1
         /\ last_good' <= clock
         /\ first_above_time' # 0 => first_above_time' >= last_good' + interval
         /\ ok_to_drop(clock) => /\ Len(internal_queue') >= 2
                                 /\ clock >= last_good' + interval
<1> USE Constants
<1> DEFINE left == queue_size_in_bytes - Head(internal_queue).size
<1>t. /\ internal_queue \in Seq(Packet) /\ queue_size_in_bytes \in Nat
      /\ clock \in Nat /\ clock <= MaxTime
      /\ first_above_time \in Nat /\ last_good \in Nat
      /\ SizeInv /\ TimeInv
  BY DEF IInv, CountsOrdered, TypeOK
<1>1. /\ left \in Nat /\ SumOfSizes(Tail(internal_queue), left)
      /\ left > PACKET_SIZE => Len(internal_queue) >= 3
  BY <1>t, SumOfTail DEF SizeInv
<1>2. /\ Head(internal_queue) \in Packet
      /\ Tail(internal_queue) \in Seq(Packet)
      /\ Len(internal_queue) \in Nat /\ Len(internal_queue) > 0
      /\ Len(Tail(internal_queue)) = Len(internal_queue) - 1
  BY <1>t, TailFacts
<1>3. /\ internal_queue' = Tail(internal_queue)
      /\ queue_size_in_bytes' = left
      /\ queue_size_in_packets' = queue_size_in_packets - 1
      /\ failed' = ~good_with(left, queue_size_in_packets - 1)
  BY DEF dodequeue, Pop
<1>4. good_with(left, queue_size_in_packets - 1)
  BY <1>t, <1>1, <1>2 DEF SizeInv, good_with
<1>5. failed' = FALSE /\ SizeInv'
  BY <1>t, <1>1, <1>2, <1>3, <1>4 DEF SizeInv
<1>6. StandingQueue(clock) => left > PACKET_SIZE
  BY DEF StandingQueue
<1>7. /\ first_above_time' \in Nat /\ last_good' \in 0..MaxTime
      /\ last_good' <= clock
      /\ first_above_time' # 0 => first_above_time' >= last_good' + interval
  <2> HIDE DEF left
  <2>1. CASE Len(internal_queue) > 1 /\ StandingQueue(clock)
    BY <1>t, <1>2, <2>1 DEF dodequeue, AboveTime, TimeInv
  <2>2. CASE ~(Len(internal_queue) > 1 /\ StandingQueue(clock))
    BY <1>t, <1>2, <2>2 DEF dodequeue, AboveTime, TimeInv
  <2> QED
    BY <2>1, <2>2
<1>8. ASSUME ok_to_drop(clock)
      PROVE  /\ Len(internal_queue') >= 2
             /\ clock >= last_good' + interval
  <2> HIDE DEF left
  <2>1. Len(internal_queue) >= 3
    BY <1>1, <1>6, <1>8 DEF ok_to_drop
  <2>2. last_good' = last_good
    BY <1>8 DEF ok_to_drop, dodequeue
  <2>3. clock >= last_good + interval
    BY <1>t, <1>8 DEF ok_to_drop, TimeInv
  <2> QED
    BY <1>2, <1>3, <2>1, <2>2, <2>3
<1>9. queue_size_in_packets' \in Nat
  BY <1>t, <1>2, <1>3 DEF SizeInv
<1> QED
  BY <1>1, <1>2, <1>3, <1>5, <1>7, <1>8, <1>9

\* The root of a count that is not 0 is taken.
LEMMA ControlLaw ==
  ASSUME NEW t \in Nat, NEW n \in Nat, n >= 1, NEW d \in control_law(t, n)
  PROVE  d \in Nat
BY Constants DEF control_law

\* A dropping state starts with a count of at least 1.
LEMMA StartCountPositive ==
  ASSUME count \in Nat, lastcount \in Nat, NEW t \in Nat
  PROVE  StartCount(t) \in Nat /\ StartCount(t) >= 1
BY DEF StartCount

\* One more packet off a suffix leaves a suffix.
LEMMA SuffixTail ==
  ASSUME NEW a \in Seq(Packet), NEW k \in 1..Len(a), NEW q,
         q = SubSeq(a, k + 1, Len(a)), q # <<>>
  PROVE  k + 1 \in 1..Len(a) /\ Tail(q) = SubSeq(a, k + 2, Len(a))
<1>1. Len(a) \in Nat
  BY LenProperties
<1>2. k + 1 \in 1..Len(a)
  BY <1>1, SubSeqEmpty
<1> QED
  BY <1>1, <1>2, HeadTailOfSubSeq
------------------------------------------------------------------------------
(* The invariant.                                                           *)

\* An empty queue before the first packet.
LEMMA InitIInv == Init => IInv
<1> SUFFICES ASSUME Init PROVE IInv
  OBVIOUS
<1> USE Constants
<1>1. internal_queue \in Seq(Packet) /\ Len(internal_queue) = 0
  BY EmptySeq DEF Init
<1>2. TypeOK
  <2>1. clock \in 0..MaxTime /\ now \in 0..MaxTime /\ last_good \in 0..MaxTime
        /\ offered \in 0..MaxPackets
    BY DEF Init
  <2>2. pkt \in Packet \cup {NoPacket} /\ returned \in Packet \cup {NoPacket}
        /\ failed \in BOOLEAN /\ dropping \in BOOLEAN
    BY DEF Init
  <2> QED
    BY <1>1, <2>1, <2>2 DEF Init, TypeOK
<1>3. SumOfSizes(internal_queue, queue_size_in_bytes)
  <2> DEFINE r == [i \in 1..1 |-> 0]
  <2>1. r \in [1..(Len(internal_queue) + 1) -> Nat] /\ r[1] = 0
        /\ Len(internal_queue) + 1 = 1
    BY <1>1
  <2>2. queue_size_in_bytes = 0
    BY DEF Init
  <2> HIDE DEF r
  <2> QED
    BY <1>1, <2>1, <2>2 DEF SumOfSizes
<1>4. SizeInv
  BY <1>1, <1>3 DEF Init, SizeInv, good_with
<1>5. CountsOrdered /\ DropsLeaveOne /\ DropsAfterInterval
  BY <1>2 DEF Init, CountsOrdered, DropsLeaveOne, NoAssertFails,
     DropsAfterInterval
<1>6. VerdictInv /\ TimeInv /\ CallInv
  BY <1>2 DEF Init, VerdictInv, TimeInv, CallInv
<1> QED
  BY <1>4, <1>5, <1>6 DEF IInv

\* A packet that fits goes to the tail, within the limits.
LEMMA EnqueueIInv == ASSUME IInv, enqueue PROVE IInv'
<1> USE Constants
<1>t. /\ CountsOrdered /\ DropsLeaveOne /\ DropsAfterInterval
      /\ SizeInv /\ VerdictInv /\ TimeInv /\ CallInv /\ TypeOK
  BY DEF IInv, CountsOrdered
<1>u. /\ pc = "idle" /\ offered < MaxPackets /\ offered' = offered + 1
      /\ failed' = ~good_with(queue_size_in_bytes', queue_size_in_packets')
      /\ UNCHANGED <<clock, first_above_time, drop_next, count, lastcount,
                     dropping, pc, now, pkt, at_call, discarded, last_good,
                     returned>>
  BY DEF enqueue, lawVars, callVars
<1>1. PICK s \in Sizes :
        IF Fits(s)
        THEN accept([id |-> offered', size |-> s, arrival_time |-> clock])
        ELSE UNCHANGED sizeVars
  BY DEF enqueue
<1> DEFINE p == [id |-> offered', size |-> s, arrival_time |-> clock]
<1>2. p \in Packet /\ p.size = s
  BY <1>t, <1>u DEF TypeOK, Packet
<1>3. /\ internal_queue' \in Seq(Packet)
      /\ queue_size_in_bytes' \in Nat /\ queue_size_in_packets' \in Nat
      /\ SizeInv'
  <2>1. CASE Fits(s)
    <3> HIDE DEF p
    <3>1. /\ internal_queue' = Append(internal_queue, p)
          /\ queue_size_in_packets' = queue_size_in_packets + 1
          /\ queue_size_in_bytes' = queue_size_in_bytes + p.size
      BY <1>1, <2>1 DEF accept, p
    <3>2. /\ internal_queue' \in Seq(Packet)
          /\ Len(internal_queue') = Len(internal_queue) + 1
      BY <1>t, <1>2, <3>1, AppendProperties DEF TypeOK
    <3>3. SumOfSizes(internal_queue', queue_size_in_bytes')
      BY <1>t, <1>2, <3>1, SumOfAppend DEF TypeOK, SizeInv
    <3>4. good_with(queue_size_in_bytes', queue_size_in_packets')
      BY <1>2, <2>1, <3>1 DEF Fits
    <3>5. queue_size_in_bytes' \in Nat /\ queue_size_in_packets' \in Nat
          /\ queue_size_in_packets' = Len(internal_queue')
      BY <1>t, <1>2, <3>1, <3>2 DEF TypeOK, SizeInv
    <3> QED
      BY <3>2, <3>3, <3>4, <3>5 DEF SizeInv
  <2>2. CASE ~Fits(s)
    BY <1>t, <1>1, <2>2 DEF sizeVars, SizeInv, TypeOK
  <2> QED
    BY <2>1, <2>2
<1>4. failed' = FALSE
  BY <1>u, <1>3 DEF SizeInv
<1>5. TypeOK'
  BY <1>t, <1>u, <1>3, <1>4 DEF TypeOK
<1> HIDE DEF p
<1>6. CountsOrdered' /\ DropsLeaveOne' /\ DropsAfterInterval'
  BY <1>t, <1>u, <1>4, <1>5 DEF CountsOrdered, DropsLeaveOne, NoAssertFails,
     DropsAfterInterval
<1>7. VerdictInv' /\ TimeInv' /\ CallInv'
  BY <1>t, <1>u DEF VerdictInv, TimeInv, CallInv
<1> QED
  BY <1>3, <1>6, <1>7 DEF IInv

\* The first packet of a call is the one that will be handed back.
LEMMA DequeueIInv == ASSUME IInv, dequeue PROVE IInv'
<1> USE Constants
<1>t. /\ CountsOrdered /\ DropsLeaveOne /\ DropsAfterInterval
      /\ SizeInv /\ VerdictInv /\ TimeInv /\ CallInv /\ TypeOK
  BY DEF IInv, CountsOrdered
<1>u. /\ pc = "idle" /\ internal_queue # <<>> /\ dodequeue(clock)
      /\ now' = clock /\ pkt' = Head(internal_queue)
      /\ at_call' = internal_queue /\ discarded' = <<>>
      /\ UNCHANGED <<clock, drop_next, count, lastcount, returned, offered>>
  BY DEF dequeue
<1>1. /\ internal_queue' \in Seq(Packet)
      /\ queue_size_in_bytes' \in Nat /\ queue_size_in_packets' \in Nat
      /\ first_above_time' \in Nat /\ last_good' \in 0..MaxTime
      /\ failed' = FALSE /\ SizeInv'
      /\ last_good' <= clock
      /\ first_above_time' # 0 => first_above_time' >= last_good' + interval
      /\ ok_to_drop(clock) => /\ Len(internal_queue') >= 2
                              /\ clock >= last_good' + interval
  BY <1>u, DodequeueKeeps
<1>2. \/ dropping /\ dropping' = ok_to_drop(clock) /\ pc' = "loop"
      \/ /\ ~dropping /\ pc' = IF ok_to_drop(clock) THEN "start" ELSE "return"
         /\ dropping' = dropping
  BY DEF dequeue
<1>3. dropping' \in BOOLEAN /\ pc' \in {"loop", "start", "return"}
      /\ (dropping' => dropping)
      /\ (pc' = "start" \/ (pc' = "loop" /\ dropping') => ok_to_drop(clock))
  <2>1. ok_to_drop(clock) \in BOOLEAN
    BY DEF ok_to_drop
  <2>2. CASE dropping
    BY <1>2, <2>1, <2>2, Zenon
  <2>3. CASE ~dropping
    <3>1. dropping' = dropping /\ dropping \in BOOLEAN
      BY <1>t, <1>2, <2>3, Zenon DEF TypeOK
    <3>2. CASE ok_to_drop(clock)
      BY <1>2, <2>3, <3>1, <3>2
    <3>3. CASE ~ok_to_drop(clock)
      BY <1>2, <2>3, <3>1, <3>3
    <3> QED
      BY <3>2, <3>3
  <2> QED
    BY <2>2, <2>3
<1>4. Head(internal_queue) \in Packet /\ Head(internal_queue) = internal_queue[1]
      /\ internal_queue' = Tail(internal_queue)
      /\ Len(internal_queue) \in Nat /\ Len(internal_queue) > 0
  BY <1>t, <1>u, TailFacts DEF TypeOK, dodequeue, Pop
<1>5. TypeOK'
  BY <1>t, <1>u, <1>1, <1>3, <1>4 DEF TypeOK
<1>6. CountsOrdered'
  BY <1>t, <1>u, <1>3, <1>5 DEF CountsOrdered
<1>7. VerdictInv' /\ TimeInv' /\ DropsLeaveOne' /\ DropsAfterInterval'
  BY <1>u, <1>1, <1>3 DEF VerdictInv, TimeInv, DropsLeaveOne, NoAssertFails,
     DropsAfterInterval
<1>8. CallInv'
  <2>1. internal_queue' = SubSeq(at_call', 2, Len(at_call'))
    BY <1>t, <1>u, <1>4, TailIsSubSeq DEF TypeOK
  <2>2. at_call' \in Seq(Packet) /\ at_call' # <<>> /\ 1 \in 1..Len(at_call')
        /\ pkt' = at_call'[1] /\ 1 + 1 = 2
    BY <1>t, <1>u, <1>4 DEF TypeOK
  <2> QED
    BY <2>1, <2>2 DEF CallInv
<1> QED
  BY <1>1, <1>6, <1>7, <1>8 DEF IInv

\* One further packet taken and discarded by a call.
LEMMA DiscardKeeps ==
  ASSUME IInv, pc # "idle", Len(internal_queue) >= 2, dodequeue(clock),
         discarded' = Append(discarded, Head(internal_queue)),
         pc' # "idle", UNCHANGED <<clock, now, pkt, at_call>>
  PROVE  CallInv' /\ internal_queue' # <<>>
<1>t. internal_queue \in Seq(Packet) /\ CallInv
  BY DEF IInv, CountsOrdered, TypeOK
<1>1. internal_queue # <<>>
  BY <1>t, EmptySeq
<1>2. internal_queue' = Tail(internal_queue)
  BY DEF dodequeue, Pop
<1>3. PICK k \in 1..Len(at_call) :
             internal_queue = SubSeq(at_call, k + 1, Len(at_call))
  BY <1>t DEF CallInv
<1>4. k + 1 \in 1..Len(at_call)
      /\ internal_queue' = SubSeq(at_call, k + 2, Len(at_call))
  BY <1>t, <1>1, <1>2, <1>3, SuffixTail DEF CallInv
<1>5. (k + 1) + 1 = k + 2
  OBVIOUS
<1>6. Len(internal_queue') >= 1
  BY <1>t, <1>1, <1>2, TailFacts
<1>7. internal_queue' # <<>>
  BY <1>6, EmptySeq
<1> QED
  BY <1>t, <1>4, <1>5, <1>7 DEF CallInv

\* Entering the dropping state.
LEMMA StartIInv == ASSUME IInv, start_dropping PROVE IInv'
<1> USE Constants
<1>t. /\ CountsOrdered /\ DropsLeaveOne /\ DropsAfterInterval
      /\ SizeInv /\ VerdictInv /\ TimeInv /\ CallInv /\ TypeOK
  BY DEF IInv, CountsOrdered
<1>1. pc = "start" /\ now = clock /\ Len(internal_queue) >= 2
      /\ internal_queue # <<>>
  BY <1>t, EmptySeq DEF start_dropping, VerdictInv, TimeInv, TypeOK
<1>u. /\ dodequeue(clock)
      /\ discarded' = Append(discarded, Head(internal_queue))
      /\ dropping' = TRUE /\ count' = StartCount(now) /\ lastcount' = count'
      /\ drop_next' \in control_law(now, count') /\ pc' = "return"
      /\ UNCHANGED <<clock, now, pkt, at_call, returned, offered>>
  BY <1>1 DEF start_dropping
<1>2. /\ internal_queue' \in Seq(Packet)
      /\ queue_size_in_bytes' \in Nat /\ queue_size_in_packets' \in Nat
      /\ first_above_time' \in Nat /\ last_good' \in 0..MaxTime
      /\ failed' = FALSE /\ SizeInv'
      /\ last_good' <= clock
      /\ first_above_time' # 0 => first_above_time' >= last_good' + interval
  BY <1>1, <1>u, DodequeueKeeps
<1>3. count' \in Nat /\ count' >= 1 /\ drop_next' \in Nat
  BY <1>t, <1>u, StartCountPositive, ControlLaw DEF TypeOK
<1>4. CallInv' /\ internal_queue' # <<>>
  BY <1>1, <1>u, DiscardKeeps
<1>5. TypeOK'
  BY <1>t, <1>u, <1>2, <1>3 DEF TypeOK
<1>6. CountsOrdered'
  BY <1>u, <1>3, <1>5 DEF CountsOrdered
<1>7. VerdictInv' /\ TimeInv' /\ DropsLeaveOne' /\ DropsAfterInterval'
  BY <1>1, <1>u, <1>2, <1>4 DEF VerdictInv, TimeInv, DropsLeaveOne,
     NoAssertFails, DropsAfterInterval
<1> QED
  BY <1>2, <1>4, <1>6, <1>7 DEF IInv

\* One round of the loop.
LEMMA AnotherIInv == ASSUME IInv, drop_another PROVE IInv'
<1> USE Constants
<1>t. /\ CountsOrdered /\ DropsLeaveOne /\ DropsAfterInterval
      /\ SizeInv /\ VerdictInv /\ TimeInv /\ CallInv /\ TypeOK
  BY DEF IInv, CountsOrdered
<1>1. pc = "loop" /\ dropping /\ now = clock /\ Len(internal_queue) >= 2
      /\ internal_queue # <<>>
  BY <1>t, EmptySeq DEF drop_another, VerdictInv, TimeInv, TypeOK
<1>u. /\ count' = count + 1 /\ dodequeue(clock)
      /\ discarded' = Append(discarded, Head(internal_queue))
      /\ dropping' = ok_to_drop(clock)
      /\ drop_next' \in IF dropping' THEN control_law(drop_next, count')
                        ELSE {drop_next}
      /\ UNCHANGED <<clock, lastcount, pc, now, pkt, at_call, returned, offered>>
  BY <1>1 DEF drop_another
<1>2. /\ internal_queue' \in Seq(Packet)
      /\ queue_size_in_bytes' \in Nat /\ queue_size_in_packets' \in Nat
      /\ first_above_time' \in Nat /\ last_good' \in 0..MaxTime
      /\ failed' = FALSE /\ SizeInv'
      /\ last_good' <= clock
      /\ first_above_time' # 0 => first_above_time' >= last_good' + interval
      /\ ok_to_drop(clock) => /\ Len(internal_queue') >= 2
                              /\ clock >= last_good' + interval
  BY <1>1, <1>u, DodequeueKeeps
<1>3. count' \in Nat /\ count' >= 1 /\ count' >= lastcount'
  BY <1>t, <1>u DEF TypeOK, CountsOrdered
<1>4. drop_next' \in Nat /\ dropping' \in BOOLEAN
  BY <1>t, <1>u, <1>3, ControlLaw DEF TypeOK, ok_to_drop
<1>5. CallInv' /\ internal_queue' # <<>>
  BY <1>1, <1>u, DiscardKeeps
<1>6. TypeOK'
  BY <1>t, <1>u, <1>2, <1>3, <1>4 DEF TypeOK
<1>7. CountsOrdered'
  BY <1>3, <1>6 DEF CountsOrdered
<1>8. VerdictInv' /\ TimeInv' /\ DropsLeaveOne' /\ DropsAfterInterval'
  BY <1>1, <1>u, <1>2, <1>5 DEF VerdictInv, TimeInv, DropsLeaveOne,
     NoAssertFails, DropsAfterInterval
<1> QED
  BY <1>2, <1>5, <1>7, <1>8 DEF IInv

\* Every step keeps the invariant.
LEMMA NextIInv == IInv /\ [Next]_vars => IInv'
<1> SUFFICES ASSUME IInv, [Next]_vars PROVE IInv'
  OBVIOUS
<1>t. /\ CountsOrdered /\ DropsLeaveOne /\ DropsAfterInterval
      /\ SizeInv /\ VerdictInv /\ TimeInv /\ CallInv /\ TypeOK
  BY DEF IInv, CountsOrdered
<1>1. CASE dequeue_returns
  <2>1. /\ pc' = "idle" /\ returned' = pkt /\ now' = 0 /\ pkt' = NoPacket
        /\ UNCHANGED <<clock, internal_queue, queue_size_in_bytes,
                       queue_size_in_packets, first_above_time, drop_next,
                       count, lastcount, dropping, last_good, offered, failed>>
    BY <1>1 DEF dequeue_returns, HandedBack, sizeVars, lawVars
  <2>2. TypeOK'
    BY <1>t, <2>1, Constants DEF TypeOK
  <2> QED
    BY <1>t, <2>1, <2>2 DEF IInv, CountsOrdered, DropsLeaveOne, NoAssertFails,
       DropsAfterInterval, SizeInv, VerdictInv, TimeInv, CallInv
<1>2. CASE Tick
  <2>1. /\ pc = "idle" /\ clock < MaxTime /\ clock' = clock + 1
        /\ UNCHANGED <<internal_queue, queue_size_in_bytes,
                       queue_size_in_packets, first_above_time, drop_next,
                       count, lastcount, dropping, pc, now, pkt, at_call,
                       discarded, last_good, returned, offered, failed>>
    BY <1>2 DEF Tick, sizeVars, lawVars, callVars
  <2>2. TypeOK'
    BY <1>t, <2>1, Constants DEF TypeOK
  <2>3. TimeInv'
    BY <1>t, <2>1, Constants DEF TimeInv, TypeOK
  <2> QED
    BY <1>t, <2>1, <2>2, <2>3 DEF IInv, CountsOrdered, DropsLeaveOne,
       NoAssertFails, DropsAfterInterval, SizeInv, VerdictInv, CallInv
<1>3. CASE UNCHANGED vars
  BY <1>t, <1>3 DEF vars, sizeVars, lawVars, callVars, IInv, TypeOK,
     CountsOrdered, DropsLeaveOne, NoAssertFails, DropsAfterInterval, SizeInv,
     VerdictInv, TimeInv, CallInv
<1> QED
  BY <1>1, <1>2, <1>3, EnqueueIInv, DequeueIInv, StartIInv, AnotherIInv DEF Next
------------------------------------------------------------------------------
(* The theorems.                                                            *)

\* The inductive invariant holds in every reachable state.
THEOREM Invariance == Spec => []IInv
BY InitIInv, NextIInv, PTL DEF Spec

\* control_law never divides by a count of 0, the unsigned difference of the
\* counts never wraps and every variable keeps its type.
THEOREM CountsStayOrdered == Spec => []CountsOrdered
<1>1. IInv => CountsOrdered
  BY DEF IInv
<1> QED
  BY <1>1, Invariance, PTL

\* dequeue never reads an empty queue, no assert of it fails, and a call that
\* discards packets leaves one behind; whatever the sizes of the packets.
THEOREM CallsLeaveOne == Spec => []DropsLeaveOne
<1>1. IInv => DropsLeaveOne
  BY DEF IInv
<1> QED
  BY <1>1, Invariance, PTL

\* dequeue goes on to discard a packet only after a full interval without a
\* packet from a short queue or of little delay; for every interval and target.
THEOREM IntervalIsTolerated == Spec => []DropsAfterInterval
<1>1. IInv => DropsAfterInterval
  BY DEF IInv
<1> QED
  BY <1>1, Invariance, PTL

\* CoDel keeps the contract the link relies on: the only step of a call that
\* shows is its return, which hands back the oldest packet and discards a run
\* of those right behind it.
THEOREM CodelKeepsContract == Spec => KeepsContract
<1> DEFINE q == IF pc = "idle" THEN internal_queue ELSE at_call
<1>1. Init => Contract!Init
  BY DEF Init, Contract!Init
<1>2. IInv /\ [Next]_vars => [Contract!Next]_<<q, returned>>
  <2> SUFFICES ASSUME IInv, Next
               PROVE  Contract!Next \/ UNCHANGED <<q, returned>>
    BY DEF vars, sizeVars, lawVars, callVars
  <2>t. internal_queue \in Seq(Packet) /\ CallInv /\ TypeOK
    BY DEF IInv, CountsOrdered, TypeOK
  <2>1. CASE enqueue
    <3>1. pc = "idle" /\ pc' = "idle" /\ returned' = returned
      BY <2>1 DEF enqueue, callVars
    <3>2. CASE internal_queue' = internal_queue
      BY <3>1, <3>2
    <3>3. ASSUME NEW p \in Packet, internal_queue' = Append(internal_queue, p)
          PROVE  Contract!Enqueue
      <4> DEFINE n == Len(internal_queue)
      <4>1. /\ n \in Nat /\ internal_queue' \in Seq(Packet)
            /\ Len(internal_queue') = n + 1 /\ internal_queue' # <<>>
            /\ \A i \in 1..n : internal_queue'[i] = internal_queue[i]
            /\ internal_queue'[n + 1] = p
        BY <2>t, <3>3, AppendProperties
      <4>2. SubSeq(internal_queue', 1, n) = internal_queue
        <5>1. \A i \in 1..n : internal_queue'[i] \in Packet
          BY <2>t, <4>1, ElementOfSeq
        <5>2. /\ SubSeq(internal_queue', 1, n) \in Seq(Packet)
              /\ Len(SubSeq(internal_queue', 1, n)) = n
              /\ \A i \in 1..n :
                   SubSeq(internal_queue', 1, n)[i] = internal_queue'[i]
          BY <4>1, <5>1, SubSeqProperties
        <5> QED
          BY <2>t, <4>1, <5>2, SeqEqual
      <4>3. Contract!IsThinning(internal_queue, internal_queue)
        <5> DEFINE d == [i \in 1..n |-> 0]
        <5>1. d \in Contract!Discards(n, n)
          BY <4>1 DEF Contract!Discards
        <5>2. \A i \in 1..n : internal_queue[i] = internal_queue[i + d[i]]
          BY <4>1
        <5> QED
          BY <4>1, <5>1, <5>2 DEF Contract!IsThinning
      <4>4. Len(internal_queue') - 1 = n
        BY <4>1
      <4> QED
        BY <3>1, <4>1, <4>2, <4>3, <4>4 DEF Contract!Enqueue
    <3>4. \/ internal_queue' = internal_queue
          \/ \E p \in Packet : internal_queue' = Append(internal_queue, p)
      <4>1. PICK s \in Sizes :
              IF Fits(s)
              THEN accept([id |-> offered', size |-> s, arrival_time |-> clock])
              ELSE UNCHANGED sizeVars
        BY <2>1 DEF enqueue
      <4>2. [id |-> offered', size |-> s, arrival_time |-> clock] \in Packet
        BY <2>1, <2>t, Constants DEF enqueue, TypeOK, Packet
      <4> QED
        BY <4>1, <4>2 DEF accept, sizeVars
    <3> QED
      BY <3>2, <3>3, <3>4 DEF Contract!Next
  <2>2. CASE dequeue
    BY <2>2 DEF dequeue
  <2>3. CASE start_dropping \/ drop_another
    BY <2>3 DEF start_dropping, drop_another
  <2>4. CASE dequeue_returns
    <3>1. /\ pc # "idle" /\ pc' = "idle" /\ returned' = pkt
          /\ internal_queue' = internal_queue
      BY <2>4 DEF dequeue_returns, HandedBack, sizeVars
    <3>2. PICK k \in 1..Len(at_call) :
                 internal_queue = SubSeq(at_call, k + 1, Len(at_call))
      BY <2>t, <3>1 DEF CallInv
    <3>3. 1 \in 1..k /\ pkt = at_call[1]
      BY <2>t, <3>1 DEF CallInv
    <3> QED
      BY <3>1, <3>2, <3>3 DEF Contract!Next, Contract!Dequeue
  <2>5. CASE Tick
    BY <2>5 DEF Tick, sizeVars, callVars
  <2> QED
    BY <2>1, <2>2, <2>3, <2>4, <2>5 DEF Next
<1> HIDE DEF q
<1> QED
  BY <1>1, <1>2, Invariance, PTL DEF Spec, KeepsContract, Contract!Spec, q
=============================================================================
