------------------------ MODULE QueueDisciplinesProofs ------------------------
(***************************************************************************)
(* Proofs about the disciplines that bound the queue, for every limit,     *)
(* every set of packet sizes and every argument of PIE.                    *)
(***************************************************************************)
EXTENDS QueueDisciplines, RecursionTheorems, SequenceTheorems, TLAPS
------------------------------------------------------------------------------
(* Bytes.                                                                   *)

\* The sizes of the packets of s.
SizeSeq(s) == [i \in 1..Len(s) |-> s[i].size]

\* Sizes are positive.
LEMMA SizeFacts ==
  ASSUME NEW s \in Seq(Packet)
  PROVE  /\ Len(s) \in Nat
         /\ \A i \in 1..Len(s) : s[i] \in Packet /\ s[i].size \in Nat \ {0}
         /\ SizeSeq(s) \in Seq(Int) /\ Len(SizeSeq(s)) = Len(s)
         /\ \A i \in 1..Len(s) : SizeSeq(s)[i] = s[i].size
         /\ Bytes(s) = Total(SizeSeq(s))
<1>1. Len(s) \in Nat /\ \A i \in 1..Len(s) : s[i] \in Packet
  BY LenProperties, ElementOfSeq
<1>2. \A i \in 1..Len(s) : s[i].size \in Nat \ {0}
  BY <1>1, DroppingAssumption DEF Packet
<1>3. /\ SizeSeq(s) \in Seq(Int) /\ Len(SizeSeq(s)) = Len(s)
      /\ \A i \in 1..Len(s) : SizeSeq(s)[i] = s[i].size
  BY <1>1, <1>2 DEF SizeSeq
<1>4. Bytes(s) = Total(SizeSeq(s))
  BY DEF Bytes, SizeSeq
<1> QED
  BY <1>1, <1>2, <1>3, <1>4

\* The bytes of a queue are a natural number.
LEMMA BytesNat ==
  ASSUME NEW s \in Seq(Packet)
  PROVE  Bytes(s) \in Nat
<1> DEFINE w == SizeSeq(s)
<1>1. /\ w \in Seq(Int) /\ \A i \in 1..Len(w) : w[i] >= 0
      /\ Bytes(s) = Total(w)
  BY SizeFacts
<1> HIDE DEF w
<1> QED
  BY <1>1, TotalAtLeast

\* An empty queue has none.
LEMMA BytesEmpty == Bytes(<<>>) = 0
<1>1. SizeSeq(<<>>) = <<>>
  BY DEF SizeSeq
<1>2. Bytes(<<>>) = Total(SizeSeq(<<>>))
  BY DEF Bytes, SizeSeq
<1> QED
  BY <1>1, <1>2, TotalEmpty

\* An arrival adds its size.
LEMMA BytesAppend ==
  ASSUME NEW s \in Seq(Packet), NEW p \in Packet
  PROVE  /\ Append(s, p) \in Seq(Packet) /\ Len(Append(s, p)) = Len(s) + 1
         /\ Bytes(Append(s, p)) = Bytes(s) + p.size
         /\ p.size \in Nat \ {0}
<1> DEFINE r == Append(s, p)
<1>1. /\ r \in Seq(Packet) /\ Len(r) = Len(s) + 1
      /\ \A i \in 1..Len(s) : r[i] = s[i]
      /\ r[Len(s) + 1] = p
  BY AppendProperties
<1> HIDE DEF r
<1> DEFINE v == SizeSeq(r)
           w == SizeSeq(s)
<1>2. /\ Len(s) \in Nat /\ v \in Seq(Int) /\ w \in Seq(Int)
      /\ Len(w) = Len(s) /\ Len(v) = Len(s) + 1
      /\ \A i \in 1..Len(s) : w[i] = s[i].size
      /\ \A i \in 1..Len(r) : v[i] = r[i].size /\ r[i].size \in Nat \ {0}
      /\ Bytes(r) = Total(v) /\ Bytes(s) = Total(w)
  BY <1>1, SizeFacts
<1> HIDE DEF v, w
<1>3. Len(s) + 1 \in 1..Len(r) /\ \A i \in 1..Len(s) : i \in 1..Len(r)
  BY <1>1, <1>2
<1>4. v[Len(s) + 1] = p.size /\ \A i \in 1..Len(w) : v[i] = w[i]
  BY <1>1, <1>2, <1>3
<1>5. Total(v) = Total(w) + v[Len(s) + 1]
  BY <1>2, <1>4, TotalLast
<1> QED
  BY <1>1, <1>2, <1>3, <1>4, <1>5 DEF r

\* A queue cut in two.
LEMMA CutFacts ==
  ASSUME NEW s \in Seq(Packet), NEW k \in 0..Len(s)
  PROVE  /\ SubSeq(s, 1, k) \in Seq(Packet) /\ Len(SubSeq(s, 1, k)) = k
         /\ \A i \in 1..k : SubSeq(s, 1, k)[i] = s[i]
         /\ SubSeq(s, k + 1, Len(s)) \in Seq(Packet)
         /\ Len(SubSeq(s, k + 1, Len(s))) = Len(s) - k
         /\ \A i \in 1..(Len(s) - k) : SubSeq(s, k + 1, Len(s))[i] = s[i + k]
<1>1. Len(s) \in Nat /\ k \in Nat /\ \A i \in 1..Len(s) : s[i] \in Packet
  BY LenProperties, ElementOfSeq
<1>2. \A i \in 1..k : s[i] \in Packet
  BY <1>1
<1>3. /\ SubSeq(s, 1, k) \in Seq(Packet)
      /\ Len(SubSeq(s, 1, k)) = IF 1 <= k THEN k - 1 + 1 ELSE 0
      /\ \A i \in 1..(k - 1 + 1) : SubSeq(s, 1, k)[i] = s[1 + i - 1]
  BY <1>1, <1>2, SubSeqProperties
<1>4. \A i \in (k + 1)..Len(s) : s[i] \in Packet
  BY <1>1
<1>5. /\ SubSeq(s, k + 1, Len(s)) \in Seq(Packet)
      /\ Len(SubSeq(s, k + 1, Len(s))) =
           IF k + 1 <= Len(s) THEN Len(s) - (k + 1) + 1 ELSE 0
      /\ \A i \in 1..(Len(s) - (k + 1) + 1) :
           SubSeq(s, k + 1, Len(s))[i] = s[(k + 1) + i - 1]
  BY <1>1, <1>4, SubSeqProperties
<1>6. /\ Len(SubSeq(s, 1, k)) = k /\ \A i \in 1..k : SubSeq(s, 1, k)[i] = s[i]
  BY <1>1, <1>3
<1>7. /\ Len(SubSeq(s, k + 1, Len(s))) = Len(s) - k
      /\ \A i \in 1..(Len(s) - k) : SubSeq(s, k + 1, Len(s))[i] = s[i + k]
  BY <1>1, <1>5
<1> QED
  BY <1>3, <1>5, <1>6, <1>7

\* What is left and what is taken off the front add up.
LEMMA BytesCut ==
  ASSUME NEW s \in Seq(Packet), NEW k \in 0..Len(s)
  PROVE  /\ Bytes(SubSeq(s, 1, k)) = UpTo(SizeSeq(s))[k]
         /\ Bytes(SubSeq(s, k + 1, Len(s))) = Bytes(s) - Bytes(SubSeq(s, 1, k))
<1> DEFINE a == SubSeq(s, 1, k)
           b == SubSeq(s, k + 1, Len(s))
<1>1. /\ a \in Seq(Packet) /\ Len(a) = k /\ \A i \in 1..k : a[i] = s[i]
      /\ b \in Seq(Packet) /\ Len(b) = Len(s) - k
      /\ \A i \in 1..(Len(s) - k) : b[i] = s[i + k]
  BY CutFacts
<1> HIDE DEF a, b
<1>2. Len(s) \in Nat /\ k \in Nat /\ k <= Len(s)
  BY SizeFacts
<1>3. Bytes(a) = UpTo(SizeSeq(s))[k]
  <2> DEFINE v == SizeSeq(a)
             w == SizeSeq(s)
  <2>1. /\ v \in Seq(Int) /\ w \in Seq(Int) /\ Len(v) = k /\ Len(w) = Len(s)
        /\ \A i \in 1..k : v[i] = a[i].size
        /\ \A i \in 1..Len(s) : w[i] = s[i].size
        /\ Bytes(a) = Total(v)
    BY <1>1, SizeFacts
  <2>2. \A i \in 1..k : i \in 1..Len(s)
    BY <1>2
  <2> HIDE DEF v, w
  <2>3. \A i \in 1..Len(v) : v[i] = w[i]
    BY <1>1, <2>1, <2>2
  <2>4. Total(v) = UpTo(w)[k]
    BY <1>2, <2>1, <2>3, TotalPrefix
  <2> QED
    BY <2>1, <2>4 DEF w
<1>4. Bytes(b) = Bytes(s) - UpTo(SizeSeq(s))[k]
  <2> DEFINE v == SizeSeq(b)
             w == SizeSeq(s)
  <2>1. /\ v \in Seq(Int) /\ w \in Seq(Int)
        /\ Len(v) = Len(s) - k /\ Len(w) = Len(s)
        /\ \A i \in 1..(Len(s) - k) : v[i] = b[i].size
        /\ \A i \in 1..Len(s) : w[i] = s[i].size
        /\ Bytes(b) = Total(v) /\ Bytes(s) = Total(w)
    BY <1>1, SizeFacts
  <2>2. \A i \in 1..(Len(s) - k) : i + k \in 1..Len(s)
    BY <1>2
  <2> HIDE DEF v, w
  <2>3. \A i \in 1..Len(v) : v[i] = w[i + k]
    BY <1>1, <2>1, <2>2, ZenonT(30)
  <2>4. Len(w) = Len(v) + k
    BY <1>2, <2>1
  <2>5. Total(v) = Total(w) - UpTo(w)[k]
    BY <1>2, <2>1, <2>3, <2>4, TotalSuffix
  <2> QED
    BY <2>1, <2>5 DEF w
<1> QED
  BY <1>3, <1>4 DEF a, b

\* dequeue takes the front packet.
LEMMA FrontFacts ==
  ASSUME NEW s \in Seq(Packet), s # <<>>
  PROVE  /\ Len(s) \in Nat /\ Len(s) > 0 /\ s[1] \in Packet
         /\ RemoveAt(s, 1) = SubSeq(s, 2, Len(s))
         /\ RemoveAt(s, 1) \in Seq(Packet)
         /\ Len(RemoveAt(s, 1)) = Len(s) - 1
         /\ \A i \in 1..(Len(s) - 1) : RemoveAt(s, 1)[i] = s[i + 1]
         /\ Bytes(RemoveAt(s, 1)) = Bytes(s) - s[1].size
         /\ s[1].size \in Nat \ {0}
<1>1. Len(s) \in Nat /\ Len(s) > 0 /\ 1 \in 1..Len(s) /\ 1 \in 0..Len(s)
  BY EmptySeq
<1>2. s[1] \in Packet /\ s[1].size \in Nat \ {0}
  BY <1>1, SizeFacts
<1>r. 1 + 1 = 2
  OBVIOUS
<1>c. /\ SubSeq(s, 1 + 1, Len(s)) \in Seq(Packet)
      /\ Len(SubSeq(s, 1 + 1, Len(s))) = Len(s) - 1
      /\ \A i \in 1..(Len(s) - 1) : SubSeq(s, 1 + 1, Len(s))[i] = s[i + 1]
  BY <1>1, CutFacts
<1>d. Bytes(SubSeq(s, 1 + 1, Len(s))) = Bytes(s) - UpTo(SizeSeq(s))[1]
  <2>1. /\ Bytes(SubSeq(s, 1, 1)) = UpTo(SizeSeq(s))[1]
        /\ Bytes(SubSeq(s, 1 + 1, Len(s))) = Bytes(s) - Bytes(SubSeq(s, 1, 1))
    BY <1>1, BytesCut
  <2> QED
    BY <2>1
<1> DEFINE r == SubSeq(s, 2, Len(s))
<1>3. /\ r \in Seq(Packet) /\ Len(r) = Len(s) - 1
      /\ \A i \in 1..(Len(s) - 1) : r[i] = s[i + 1]
      /\ Bytes(r) = Bytes(s) - UpTo(SizeSeq(s))[1]
  BY <1>r, <1>c, <1>d
<1>4. UpTo(SizeSeq(s))[1] = s[1].size
  <2> DEFINE w == SizeSeq(s)
  <2>1. w \in Seq(Int) /\ Len(w) = Len(s) /\ w[1] = s[1].size
    BY <1>1, SizeFacts
  <2> HIDE DEF w
  <2>2. UpTo(w)[0] = 0 /\ UpTo(w)[1] = UpTo(w)[1 - 1] + w[1]
    BY <1>1, <2>1, UpToStep
  <2>3. UpTo(w)[1] = 0 + s[1].size
    BY <2>1, <2>2
  <2> QED
    BY <1>2, <2>3 DEF w
<1>5. RemoveAt(s, 1) = r
  <2>1. SubSeq(s, 1, 1 - 1) = <<>>
    BY SubSeqEmpty
  <2>2. <<>> \o r = r
    BY <1>3, ConcatEmptySeq
  <2>3. RemoveAt(s, 1) = SubSeq(s, 1, 1 - 1) \o SubSeq(s, 1 + 1, Len(s))
    BY DEF RemoveAt
  <2> QED
    BY <2>1, <2>2, <2>3
<1> HIDE DEF r
<1>6. Bytes(r) = Bytes(s) - s[1].size
  BY <1>3, <1>4
<1>7. RemoveAt(s, 1) = SubSeq(s, 2, Len(s))
  BY <1>5 DEF r
<1> QED
  BY <1>1, <1>2, <1>3, <1>5, <1>6, <1>7
------------------------------------------------------------------------------
(* Drop head.                                                               *)

\* good_with, for any config that may be given.
LEMMA LimitsNat ==
  ASSUME config \in Configs
  PROVE  /\ config.byte_limit \in Nat /\ config.packet_limit \in Nat
         /\ config.policy \in {"infinite", "droptail", "drophead", "pie", "activenet"}
         /\ config.policy = "infinite" <=>
              config.packet_limit = 0 /\ config.byte_limit = 0
<1>1. config \in Config
  BY DroppingAssumption
<1> QED
  BY <1>1, DroppingAssumption DEF Config

\* Smaller queues are no worse.
LEMMA GoodMonotonic ==
  ASSUME config \in Configs,
         NEW b \in Int, NEW n \in Int, NEW c \in Int, NEW m \in Int,
         c <= b, m <= n, good_with(b, n)
  PROVE  good_with(c, m)
BY LimitsNat DEF good_with

\* The loop of drop head ends, at the latest when the queue is empty.
LEMMA HeadDropsFacts ==
  ASSUME config \in Configs, NEW s \in Seq(Packet)
  PROVE  LET k == HeadDrops(s, Bytes(s))
         IN /\ k \in 0..Len(s)
            /\ GoodWithout(s, Bytes(s), k)
            /\ \A j \in 0..(k - 1) : ~GoodWithout(s, Bytes(s), j)
<1> DEFINE T == {k \in 0..Len(s) : GoodWithout(s, Bytes(s), k)}
<1>1. Len(s) \in Nat
  BY SizeFacts
<1>2. GoodWithout(s, Bytes(s), Len(s))
  <2>1. Len(s) \in 0..Len(s)
    BY <1>1
  <2>2. Bytes(SubSeq(s, 1, Len(s))) = UpTo(SizeSeq(s))[Len(s)]
    BY <2>1, BytesCut
  <2>3. Bytes(s) = UpTo(SizeSeq(s))[Len(s)]
    <3>1. Bytes(s) = Total(SizeSeq(s)) /\ Len(SizeSeq(s)) = Len(s)
      BY SizeFacts
    <3> QED
      BY <3>1 DEF Total
  <2>4. Bytes(s) - Bytes(SubSeq(s, 1, Len(s))) = 0 /\ Len(s) - Len(s) = 0
    BY <1>1, <2>2, <2>3, BytesNat
  <2>5. good_with(0, 0)
    BY LimitsNat DEF good_with
  <2> QED
    BY <2>4, <2>5 DEF GoodWithout
<1>3. T \in SUBSET Nat /\ Len(s) \in T
  BY <1>1, <1>2
<1> HIDE DEF T
<1>4. PICK x \in T : \A y \in T : x <= y
  BY <1>3, LeastElement
<1>5. x \in 0..Len(s) /\ GoodWithout(s, Bytes(s), x)
  BY DEF T
<1>6. \A j \in 0..(x - 1) : ~GoodWithout(s, Bytes(s), j)
  <2> SUFFICES ASSUME NEW j \in 0..(x - 1), GoodWithout(s, Bytes(s), j)
               PROVE  FALSE
    OBVIOUS
  <2>1. j \in 0..Len(s)
    BY <1>1, <1>5
  <2>2. j \in T
    BY <2>1 DEF T
  <2> QED
    BY <1>1, <1>4, <1>5, <2>2
<1> QED
  BY <1>5, <1>6 DEF HeadDrops
------------------------------------------------------------------------------
(* The counters, the limits and the newest packets.                         *)

\* What the state says of the packets in the queue.
LEMMA SoundFacts ==
  ASSUME QueueSound
  PROVE  /\ config \in Configs /\ internal_queue \in Seq(Packet)
         /\ Len(internal_queue) \in Nat /\ Bytes(internal_queue) \in Nat
         /\ queue_size_in_packets = Len(internal_queue)
         /\ queue_size_in_bytes = Bytes(internal_queue)
         /\ returned \in Packet \cup {NoPacket}
         /\ offered \in Nat /\ offered <= MaxPackets /\ failed \in BOOLEAN
         /\ config.policy # "activenet" =>
              good_with(Bytes(internal_queue), Len(internal_queue))
<1>1. internal_queue \in Seq(Packet)
  BY DEF QueueSound, TypeOK
<1>2. Len(internal_queue) \in Nat /\ Bytes(internal_queue) \in Nat
  BY <1>1, SizeFacts, BytesNat
<1> QED
  BY <1>1, <1>2, DroppingAssumption
  DEF QueueSound, TypeOK, CountersExact, WithinLimits, good_with

\* The packet an enqueue is called with.
LEMMA ArrivalFacts ==
  ASSUME QueueSound, offered < MaxPackets, NEW z \in Sizes
  PROVE  LET p == [id |-> offered + 1, size |-> z]
         IN /\ p \in Packet /\ p.id = offered + 1 /\ p.size = z
            /\ offered + 1 \in 0..MaxPackets
<1>1. offered \in Nat /\ offered + 1 \in 1..MaxPackets /\ offered + 1 \in 0..MaxPackets
  BY SoundFacts, DroppingAssumption
<1> QED
  BY <1>1 DEF Packet

\* A dequeue keeps the counters and the limits.
LEMMA DequeueSound ==
  ASSUME QueueSound, dequeue
  PROVE  QueueSound'
<1> DEFINE q == internal_queue
           r == RemoveAt(internal_queue, 1)
<1>1. /\ config \in Configs /\ q \in Seq(Packet) /\ Len(q) \in Nat /\ Bytes(q) \in Nat
      /\ queue_size_in_packets = Len(q) /\ queue_size_in_bytes = Bytes(q)
      /\ offered \in Nat /\ offered <= MaxPackets
      /\ config.policy # "activenet" => good_with(Bytes(q), Len(q))
  BY SoundFacts
<1>2. /\ q # <<>> /\ internal_queue' = r /\ returned' = q[1]
      /\ queue_size_in_bytes' = queue_size_in_bytes - q[1].size
      /\ queue_size_in_packets' = queue_size_in_packets - 1
      /\ config' = config /\ offered' = offered
      /\ failed' \in BOOLEAN
  BY DEF dequeue, Dequeued
<1>3. /\ Len(q) > 0 /\ q[1] \in Packet /\ r \in Seq(Packet) /\ Len(r) = Len(q) - 1
      /\ \A i \in 1..(Len(q) - 1) : r[i] = q[i + 1]
      /\ Bytes(r) = Bytes(q) - q[1].size /\ q[1].size \in Nat \ {0}
  BY <1>1, <1>2, FrontFacts
<1>n. config.policy = "drophead" => \A i \in 1..Len(q) : q[i].id = offered - Len(q) + i
  BY DEF QueueSound, NewestSurvives
<1>b. Bytes(r) \in Nat /\ Len(r) \in Nat
  BY <1>1, <1>3, BytesNat
<1> HIDE DEF q, r
<1>4. TypeOK'
  <2>1. queue_size_in_bytes' \in Nat /\ queue_size_in_packets' \in Nat
    BY <1>1, <1>2, <1>3, <1>b
  <2>2. offered' \in 0..MaxPackets
    BY <1>1, <1>2
  <2> QED
    BY <1>1, <1>2, <1>3, <2>1, <2>2 DEF TypeOK
<1>5. CountersExact'
  BY <1>1, <1>2, <1>3 DEF CountersExact, Bytes
<1>6. NewestSurvives'
  <2> SUFFICES ASSUME config.policy = "drophead", NEW i \in 1..Len(r)
               PROVE  r[i].id = offered - Len(r) + i
    BY <1>2 DEF NewestSurvives
  <2>1. i \in 1..(Len(q) - 1) /\ i + 1 \in 1..Len(q)
    BY <1>1, <1>3
  <2>2. r[i].id = offered - Len(q) + (i + 1)
    BY <1>3, <1>n, <2>1
  <2> QED
    BY <1>1, <1>3, <2>1, <2>2
<1>7. config.policy # "activenet" => WithinLimits'
  <2> SUFFICES ASSUME config.policy # "activenet" PROVE good_with(Bytes(r), Len(r))
    BY <1>2 DEF WithinLimits, good_with, Bytes
  <2>1. Bytes(r) <= Bytes(q) /\ Len(r) <= Len(q)
    BY <1>1, <1>3
  <2> QED
    BY <1>1, <1>b, <2>1, GoodMonotonic
<1> QED
  BY <1>2, <1>4, <1>5, <1>6, <1>7 DEF QueueSound

\* A packet that is accepted; what else the disciplines do is left out.
LEMMA AcceptSound ==
  ASSUME QueueSound, offered < MaxPackets, config.policy # "drophead",
         NEW p \in Packet, accept(p), config' = config, returned' = returned,
         offered' = offered + 1, failed' \in BOOLEAN,
         config.policy # "activenet" => Fits(p)
  PROVE  QueueSound'
<1> DEFINE q == internal_queue
           r == Append(internal_queue, p)
<1>1. /\ config \in Configs /\ q \in Seq(Packet) /\ Len(q) \in Nat /\ Bytes(q) \in Nat
      /\ queue_size_in_packets = Len(q) /\ queue_size_in_bytes = Bytes(q)
      /\ offered \in Nat /\ offered <= MaxPackets /\ returned \in Packet \cup {NoPacket}
  BY SoundFacts
<1>2. /\ r \in Seq(Packet) /\ Len(r) = Len(q) + 1 /\ Bytes(r) = Bytes(q) + p.size
      /\ p.size \in Nat \ {0}
  BY <1>1, BytesAppend
<1>3. /\ internal_queue' = r /\ queue_size_in_bytes' = queue_size_in_bytes + p.size
      /\ queue_size_in_packets' = queue_size_in_packets + 1
  BY DEF accept
<1>f. config.policy # "activenet" => good_with(queue_size_in_bytes + p.size, queue_size_in_packets + 1)
  BY DEF Fits
<1> HIDE DEF q, r
<1>4. TypeOK'
  <2>1. queue_size_in_bytes' \in Nat /\ queue_size_in_packets' \in Nat
    BY <1>1, <1>2, <1>3
  <2>2. offered' \in 0..MaxPackets
    BY <1>1, DroppingAssumption
  <2> QED
    BY <1>1, <1>2, <1>3, <2>1, <2>2 DEF TypeOK
<1>5. CountersExact'
  BY <1>1, <1>2, <1>3 DEF CountersExact, Bytes
<1>6. NewestSurvives'
  BY DEF NewestSurvives
<1>7. config.policy # "activenet" => WithinLimits'
  <2>1. config.policy # "activenet" => good_with(Bytes(r), Len(r))
    BY <1>1, <1>2, <1>f
  <2> QED
    BY <1>3, <2>1 DEF WithinLimits, good_with, Bytes
<1> QED
  BY <1>4, <1>5, <1>6, <1>7 DEF QueueSound

\* A packet that is refused.
LEMMA RefuseSound ==
  ASSUME QueueSound, offered < MaxPackets, config.policy # "drophead",
         UNCHANGED <<internal_queue, queue_size_in_bytes, queue_size_in_packets>>,
         config' = config, returned' = returned,
         offered' = offered + 1, failed' \in BOOLEAN
  PROVE  QueueSound'
<1>1. offered \in Nat /\ offered' \in 0..MaxPackets
  BY SoundFacts, DroppingAssumption
<1>2. TypeOK'
  BY <1>1 DEF QueueSound, TypeOK
<1>3. CountersExact' /\ (config.policy # "activenet" => WithinLimits')
  BY DEF QueueSound, CountersExact, WithinLimits, Bytes
<1>4. NewestSurvives'
  BY DEF NewestSurvives
<1> QED
  BY <1>2, <1>3, <1>4 DEF QueueSound

\* What drop head leaves: the packets behind the first k, the newest last.
LEMMA HeadFacts ==
  ASSUME QueueSound, config.policy = "drophead", NEW p \in Packet, EnqueueHead(p)
  PROVE  LET q == internal_queue
             s == Append(internal_queue, p)
         IN \E k \in 0..(Len(q) + 1) :
              /\ s \in Seq(Packet) /\ Len(s) = Len(q) + 1
              /\ \A i \in 1..Len(q) : s[i] = q[i]
              /\ s[Len(q) + 1] = p
              /\ internal_queue' = SubSeq(s, k + 1, Len(s))
              /\ internal_queue' \in Seq(Packet)
              /\ Len(internal_queue') = Len(s) - k
              /\ \A i \in 1..(Len(s) - k) : internal_queue'[i] = s[i + k]
              /\ queue_size_in_packets' = Len(internal_queue')
              /\ queue_size_in_bytes' = Bytes(internal_queue')
              /\ good_with(Bytes(internal_queue'), Len(internal_queue'))
              /\ \A j \in 0..(k - 1) : ~GoodWithout(s, Bytes(s), j)
              /\ GoodWithout(s, Bytes(s), k)
              /\ failed' = \E j \in 1..k : ~GoodWithout(s, Bytes(s), j)
<1> DEFINE q == internal_queue
           s == Append(internal_queue, p)
           k == HeadDrops(s, Bytes(s))
<1>1. /\ config \in Configs /\ q \in Seq(Packet) /\ Len(q) \in Nat /\ Bytes(q) \in Nat
      /\ queue_size_in_packets = Len(q) /\ queue_size_in_bytes = Bytes(q)
  BY SoundFacts
<1>2. s \in Seq(Packet) /\ Len(s) = Len(q) + 1 /\ Bytes(s) = Bytes(q) + p.size
  BY <1>1, BytesAppend
<1>3. (\A i \in 1..Len(q) : s[i] = q[i]) /\ s[Len(q) + 1] = p
  BY <1>1, AppendProperties
<1>4. /\ internal_queue' = SubSeq(s, k + 1, Len(s))
      /\ queue_size_in_bytes' = Bytes(s) - Bytes(SubSeq(s, 1, k))
      /\ queue_size_in_packets' = queue_size_in_packets + 1 - k
      /\ failed' = \E j \in 1..k : ~GoodWithout(s, Bytes(s), j)
  BY <1>1, <1>2 DEF EnqueueHead, BytesDropped
<1> HIDE DEF s
<1>5. /\ k \in 0..Len(s) /\ GoodWithout(s, Bytes(s), k)
      /\ \A j \in 0..(k - 1) : ~GoodWithout(s, Bytes(s), j)
  BY <1>1, <1>2, HeadDropsFacts
<1> HIDE DEF q, k
<1>6. /\ internal_queue' \in Seq(Packet) /\ Len(internal_queue') = Len(s) - k
      /\ \A i \in 1..(Len(s) - k) : internal_queue'[i] = s[i + k]
  BY <1>2, <1>4, <1>5, CutFacts
<1>7. Bytes(internal_queue') = Bytes(s) - Bytes(SubSeq(s, 1, k))
  BY <1>2, <1>4, <1>5, BytesCut
<1>8. good_with(Bytes(internal_queue'), Len(internal_queue'))
  BY <1>5, <1>6, <1>7 DEF GoodWithout
<1>9. queue_size_in_packets' = Len(internal_queue')
  BY <1>1, <1>2, <1>4, <1>5, <1>6
<1>10. k \in 0..(Len(q) + 1)
  BY <1>2, <1>5
<1>11. /\ s \in Seq(Packet) /\ Len(s) = Len(q) + 1
       /\ \A i \in 1..Len(q) : s[i] = q[i]
       /\ s[Len(q) + 1] = p
       /\ internal_queue' = SubSeq(s, k + 1, Len(s))
       /\ internal_queue' \in Seq(Packet)
       /\ Len(internal_queue') = Len(s) - k
       /\ \A i \in 1..(Len(s) - k) : internal_queue'[i] = s[i + k]
       /\ queue_size_in_packets' = Len(internal_queue')
       /\ queue_size_in_bytes' = Bytes(internal_queue')
       /\ good_with(Bytes(internal_queue'), Len(internal_queue'))
       /\ \A j \in 0..(k - 1) : ~GoodWithout(s, Bytes(s), j)
       /\ GoodWithout(s, Bytes(s), k)
       /\ failed' = \E j \in 1..k : ~GoodWithout(s, Bytes(s), j)
  BY <1>2, <1>3, <1>4, <1>5, <1>6, <1>7, <1>8, <1>9
<1> QED
  BY <1>10, <1>11 DEF q, s

\* Drop head keeps the newest packets, within the limits.
LEMMA HeadSound ==
  ASSUME QueueSound, offered < MaxPackets, config.policy = "drophead",
         NEW p \in Packet, p.id = offered + 1, EnqueueHead(p),
         config' = config, returned' = returned, offered' = offered + 1
  PROVE  QueueSound'
<1> DEFINE q == internal_queue
           s == Append(internal_queue, p)
           r == internal_queue'
<1>1. /\ config \in Configs /\ Len(q) \in Nat
      /\ offered \in Nat /\ offered <= MaxPackets /\ returned \in Packet \cup {NoPacket}
  BY SoundFacts
<1>2. PICK k \in 0..(Len(q) + 1) :
              /\ s \in Seq(Packet) /\ Len(s) = Len(q) + 1
              /\ \A i \in 1..Len(q) : s[i] = q[i]
              /\ s[Len(q) + 1] = p
              /\ r \in Seq(Packet)
              /\ Len(r) = Len(s) - k
              /\ \A i \in 1..(Len(s) - k) : r[i] = s[i + k]
              /\ queue_size_in_packets' = Len(r)
              /\ queue_size_in_bytes' = Bytes(r)
              /\ good_with(Bytes(r), Len(r))
              /\ failed' = \E j \in 1..k : ~GoodWithout(s, Bytes(s), j)
  BY HeadFacts
<1>n. \A i \in 1..Len(q) : q[i].id = offered - Len(q) + i
  BY DEF QueueSound, NewestSurvives
<1>3. Bytes(r) \in Nat /\ Len(r) \in Nat
  BY <1>2, SizeFacts, BytesNat
<1> HIDE DEF s, q
<1>4. TypeOK'
  <2>1. offered' \in 0..MaxPackets
    BY <1>1, DroppingAssumption
  <2>2. failed' \in BOOLEAN
    BY <1>2
  <2> QED
    BY <1>1, <1>2, <1>3, <2>1, <2>2 DEF TypeOK
<1>5. CountersExact'
  BY <1>2 DEF CountersExact, Bytes
<1>6. NewestSurvives'
  <2>1. ASSUME NEW i \in 1..Len(r)
        PROVE  r[i].id = offered' - Len(r) + i
    <3>1. i \in 1..(Len(s) - k) /\ i + k \in 1..(Len(q) + 1) /\ k \in Nat
      BY <1>1, <1>2
    <3>2. s[i + k].id = offered - Len(q) + (i + k)
      <4>1. CASE i + k = Len(q) + 1
        BY <1>1, <1>2, <4>1, SMTT(30)
      <4>2. CASE i + k \in 1..Len(q)
        BY <1>2, <1>n, <4>2
      <4> QED
        BY <1>1, <3>1, <4>1, <4>2, SMTT(30)
    <3>3. r[i].id = offered - Len(q) + (i + k) /\ Len(r) = Len(q) + 1 - k
      BY <1>2, <3>1, <3>2
    <3> QED
      <4>1. /\ offered \in Int /\ offered' = offered + 1
            /\ Len(q) \in Int /\ i \in Int /\ k \in Int
        BY <1>1, <3>1
      <4>2. \A a, b, c, e \in Int : a - b + (c + e) = (a + 1) - (b + 1 - e) + c
        OBVIOUS
      <4> QED
        BY <3>3, <4>1, <4>2
  <2> QED
    BY <2>1 DEF NewestSurvives
<1>7. WithinLimits'
  BY <1>2 DEF WithinLimits, good_with, Bytes
<1> QED
  BY <1>4, <1>5, <1>6, <1>7 DEF QueueSound

\* enqueue of the disciplines that only bound the queue.
LEMMA EnqueueSound ==
  ASSUME QueueSound, Plain, enqueue
  PROVE  QueueSound'
<1>1. PICK z \in Sizes : Enqueue([id |-> offered + 1, size |-> z])
  BY DEF enqueue
<1> DEFINE p == [id |-> offered + 1, size |-> z]
<1>2. /\ offered < MaxPackets /\ config' = config /\ returned' = returned
      /\ offered' = offered + 1
  BY DEF enqueue
<1>3. p \in Packet /\ p.id = offered + 1
  BY <1>2, ArrivalFacts
<1>4. config \in Configs /\ failed \in BOOLEAN
  BY SoundFacts
<1>5. Enqueue(p)
  BY <1>1
<1> HIDE DEF p
<1>6. CASE config.policy = "drophead"
  BY <1>2, <1>3, <1>5, <1>6, HeadSound DEF Enqueue
<1>7. CASE config.policy = "droptail"
  <2>1. EnqueueTail(p) /\ failed' \in BOOLEAN /\ config.policy # "drophead"
    BY <1>5, <1>7 DEF Enqueue, EnqueueTail
  <2>2. CASE Fits(p)
    BY <1>2, <1>3, <1>7, <2>1, <2>2, AcceptSound DEF EnqueueTail
  <2>3. CASE ~Fits(p)
    BY <1>2, <1>7, <2>1, <2>3, RefuseSound DEF EnqueueTail
  <2> QED
    BY <2>2, <2>3
<1>8. CASE config.policy = "infinite"
  <2>1. accept(p) /\ failed' \in BOOLEAN /\ config.policy # "drophead"
    BY <1>4, <1>5, <1>8 DEF Enqueue
  <2>2. Fits(p)
    BY <1>4, <1>8, LimitsNat DEF Fits, good_with
  <2> QED
    BY <1>2, <1>3, <2>1, <2>2, AcceptSound
<1> QED
  BY <1>6, <1>7, <1>8 DEF Plain

\* enqueue of PIE.
LEMMA PieEnqueueSound ==
  ASSUME QueueSound, config.policy = "pie", pie_enqueue
  PROVE  QueueSound'
<1>1. /\ offered < MaxPackets /\ config' = config /\ returned' = returned
      /\ offered' = offered + 1 /\ failed' \in BOOLEAN
  BY DEF pie_enqueue
<1>2. PICK z \in PieSizes :
        LET p == [id |-> offered + 1, size |-> z]
        IN \/ Fits(p) /\ accept(p)
           \/ UNCHANGED <<internal_queue, queue_size_in_bytes, queue_size_in_packets>>
  BY DEF pie_enqueue
<1> DEFINE p == [id |-> offered + 1, size |-> z]
<1>3. p \in Packet
  <2>1. z \in Sizes
    BY PieAssumption
  <2> QED
    BY <1>1, <2>1, ArrivalFacts
<1>4. \/ Fits(p) /\ accept(p)
      \/ UNCHANGED <<internal_queue, queue_size_in_bytes, queue_size_in_packets>>
  BY <1>2
<1> HIDE DEF p
<1>5. CASE Fits(p) /\ accept(p)
  BY <1>1, <1>3, <1>5, AcceptSound
<1>6. CASE UNCHANGED <<internal_queue, queue_size_in_bytes, queue_size_in_packets>>
  BY <1>1, <1>6, RefuseSound
<1> QED
  BY <1>4, <1>5, <1>6
------------------------------------------------------------------------------
(* The clean-up of ActiveNet.                                               *)

\* The state of the clean-up while it goes through the queue.
Messages == {msg_in_drop} \cup {header[i].msg_no : i \in 1..MaxPackets}
SweepState == [kept : Seq(Packet), msg : Messages, cut : SUBSET (1..MaxPackets),
               stale : BOOLEAN]

SweepBase == [kept |-> <<>>, msg |-> msg_in_drop, cut |-> {}, stale |-> FALSE]

\* Its states after 0, 1, ... packets.
Swept(dropper_msg) ==
  LET swept[n \in 0..Len(internal_queue)] ==
        IF n = 0
        THEN [kept |-> <<>>, msg |-> msg_in_drop, cut |-> {}, stale |-> FALSE]
        ELSE Sweep(swept[n - 1], internal_queue[n], dropper_msg)
  IN swept

\* One turn of the loop keeps the packet or cuts it.
LEMMA SweepTurn ==
  ASSUME NEW acc \in SweepState, NEW p \in Packet, NEW dropper_msg
  PROVE  LET h == header[p.id]
             new == Sweep(acc, p, dropper_msg)
         IN /\ new \in SweepState
            /\ \/ /\ new.kept = Append(acc.kept, p)
                  /\ new.msg = acc.msg /\ new.cut = acc.cut
                  /\ new.stale = acc.stale
               \/ /\ new.kept = acc.kept /\ new.cut = acc.cut \cup {p.id}
                  /\ new.msg = h.msg_no
                  /\ Stale(h, dropper_msg) \/ acc.msg = h.msg_no
<1> DEFINE h == header[p.id]
<1>1. /\ acc.kept \in Seq(Packet) /\ acc.msg \in Messages
      /\ acc.cut \in SUBSET (1..MaxPackets) /\ acc.stale \in BOOLEAN
      /\ acc = [kept |-> acc.kept, msg |-> acc.msg, cut |-> acc.cut, stale |-> acc.stale]
  BY DEF SweepState
<1>2. p.id \in 1..MaxPackets /\ h.msg_no \in Messages
  BY DEF Packet, Messages
<1>3. Append(acc.kept, p) \in Seq(Packet) /\ acc.cut \cup {p.id} \in SUBSET (1..MaxPackets)
  BY <1>1, <1>2, AppendProperties
<1>4. CASE Stale(h, dropper_msg)
  <2>1. Sweep(acc, p, dropper_msg) =
          [kept |-> acc.kept, msg |-> h.msg_no, cut |-> acc.cut \cup {p.id}, stale |-> TRUE]
    BY <1>1, <1>4 DEF Sweep, SweepState
  <2> DEFINE new == Sweep(acc, p, dropper_msg)
  <2>3. new \in SweepState
    BY <1>1, <1>2, <1>3, <2>1 DEF SweepState
  <2>4. new.kept = acc.kept /\ new.msg = h.msg_no /\ new.cut = acc.cut \cup {p.id}
    BY <2>1
  <2> HIDE DEF h, new
  <2>5. \/ /\ new.kept = Append(acc.kept, p)
           /\ new.msg = acc.msg /\ new.cut = acc.cut
           /\ new.stale = acc.stale
        \/ /\ new.kept = acc.kept /\ new.cut = acc.cut \cup {p.id}
           /\ new.msg = h.msg_no
           /\ Stale(h, dropper_msg) \/ acc.msg = h.msg_no
    BY <1>4, <2>4 DEF h
  <2> QED
    BY <2>3, <2>5 DEF new, h
<1>5. CASE ~Stale(h, dropper_msg) /\ acc.msg = h.msg_no
  <2>1. Sweep(acc, p, dropper_msg) =
          [kept |-> acc.kept, msg |-> acc.msg, cut |-> acc.cut \cup {p.id},
           stale |-> acc.stale]
    BY <1>1, <1>5 DEF Sweep, SweepState
  <2> QED
    BY <1>1, <1>2, <1>3, <1>5, <2>1 DEF SweepState
<1>6. CASE ~Stale(h, dropper_msg) /\ acc.msg # h.msg_no
  <2>1. Sweep(acc, p, dropper_msg) =
          [kept |-> Append(acc.kept, p), msg |-> acc.msg, cut |-> acc.cut,
           stale |-> acc.stale]
    BY <1>1, <1>6 DEF Sweep, SweepState
  <2> QED
    BY <1>1, <1>2, <1>3, <2>1 DEF SweepState
<1> QED
  BY <1>4, <1>5, <1>6

\* The clean-up is well defined.
LEMMA SweptSteps ==
  ASSUME internal_queue \in Seq(Packet), NEW dropper_msg
  PROVE  LET f == Swept(dropper_msg)
             q == internal_queue
         IN /\ f \in [0..Len(q) -> SweepState]
            /\ f[0] = SweepBase
            /\ \A n \in 1..Len(q) : f[n] = Sweep(f[n - 1], q[n], dropper_msg)
            /\ dropStaleFrames(dropper_msg) = f[Len(q)]
<1> DEFINE q == internal_queue
           step == [n \in 1..Len(q) |-> [acc \in SweepState |-> Sweep(acc, q[n], dropper_msg)]]
           Def(f) == f = [n \in 0..Len(q) |->
                            IF n = 0 THEN SweepBase ELSE Sweep(f[n - 1], q[n], dropper_msg)]
<1>1. Len(q) \in Nat /\ \A n \in 1..Len(q) : q[n] \in Packet
  BY LenProperties, ElementOfSeq
<1>2. SweepBase \in SweepState
  <2>1. <<>> \in Seq(Packet) /\ {} \in SUBSET (1..MaxPackets) /\ msg_in_drop \in Messages
    BY DEF Messages
  <2> QED
    BY <2>1 DEF SweepBase, SweepState
<1>3. \A n \in 1..Len(q) : \A acc \in SweepState : Sweep(acc, q[n], dropper_msg) \in SweepState
  BY <1>1, SweepTurn
<1>4. step \in [1..Len(q) -> [SweepState -> SweepState]]
  BY <1>3
<1>5. \A n \in 1..Len(q) : \A acc \in SweepState : step[n][acc] = Sweep(acc, q[n], dropper_msg)
  OBVIOUS
<1> HIDE DEF step, q, Def
<1>6. PICK f \in [0..Len(q) -> SweepState] :
        f[0] = SweepBase /\ \A n \in 1..Len(q) : f[n] = step[n][f[n - 1]]
  <2>1. step \in Steps(Len(q), SweepState)
    BY <1>4 DEF Steps
  <2>2. \E f \in [0..Len(q) -> SweepState] : Follows(f, SweepBase, step, Len(q))
    BY <1>1, <1>2, <2>1, RecursionExists
  <2> QED
    BY <2>2 DEF Follows
<1>7. ASSUME NEW n \in 1..Len(q)
      PROVE  f[n] = Sweep(f[n - 1], q[n], dropper_msg)
  <2>1. n - 1 \in 0..Len(q)
    BY <1>1
  <2>2. f[n - 1] \in SweepState
    BY <2>1
  <2> QED
    BY <1>5, <1>6, <2>2
<1>8. Def(f)
  <2>1. \A n \in 0..Len(q) :
          f[n] = IF n = 0 THEN SweepBase ELSE Sweep(f[n - 1], q[n], dropper_msg)
    <3> TAKE n \in 0..Len(q)
    <3>1. CASE n = 0
      BY <1>6, <3>1
    <3>2. CASE n \in 1..Len(q)
      <4>1. n # 0
        BY <1>1, <3>2
      <4> QED
        BY <1>7, <3>2, <4>1
    <3> QED
      BY <1>1, <3>1, <3>2
  <2> QED
    BY <2>1 DEF Def
<1>9. Swept(dropper_msg) = CHOOSE g : Def(g)
  BY DEF Swept, SweepBase, q, Def
<1>10. dropStaleFrames(dropper_msg) = Swept(dropper_msg)[Len(q)]
  BY DEF Swept, dropStaleFrames, q
<1> DEFINE g == Swept(dropper_msg)
<1>11. Def(g)
  BY <1>8, <1>9
<1> HIDE DEF g
<1>12. /\ g[0] = SweepBase
       /\ \A n \in 1..Len(q) : g[n] = Sweep(g[n - 1], q[n], dropper_msg)
       /\ DOMAIN g = 0..Len(q) /\ g = [n \in DOMAIN g |-> g[n]]
  <2>1. \A n \in 0..Len(q) :
          g[n] = IF n = 0 THEN SweepBase ELSE Sweep(g[n - 1], q[n], dropper_msg)
    BY <1>11 DEF Def
  <2>2. 0 \in 0..Len(q) /\ \A n \in 1..Len(q) : n \in 0..Len(q) /\ n # 0
    BY <1>1
  <2>3. DOMAIN g = 0..Len(q) /\ g = [n \in DOMAIN g |-> g[n]]
    BY <1>11 DEF Def
  <2> QED
    BY <2>1, <2>2, <2>3
<1>13. \A n \in 0..Len(q) : g[n] \in SweepState
  <2>1. g[0] \in SweepState
    BY <1>2, <1>12
  <2>2. \A n \in 1..Len(q) : g[n - 1] \in SweepState => g[n] \in SweepState
    BY <1>3, <1>12
  <2> QED
    BY <1>1, <2>1, <2>2, RecursionType
<1>14. g \in [0..Len(q) -> SweepState]
  BY <1>12, <1>13
<1> QED
  BY <1>10, <1>12, <1>14 DEF g, q

\* r is left of the first n elements of q, d[i] of which were taken out in
\* front of r[i].
Leaves(r, d, q, n) ==
  /\ Len(r) <= n /\ d \in [1..Len(r) -> 0..(n - Len(r))]
  /\ \A i, j \in 1..Len(r) : i < j => d[i] <= d[j]
  /\ \A i \in 1..Len(r) : r[i] = q[i + d[i]]

\* One more packet is taken out.
LEMMA LeavesCut ==
  ASSUME NEW r \in Seq(Packet), NEW q, NEW n \in Nat, NEW d, Leaves(r, d, q, n)
  PROVE  Leaves(r, d, q, n + 1)
<1>1. Len(r) \in Nat
  BY LenProperties
<1> QED
  BY <1>1 DEF Leaves

\* One more packet is kept.
LEMMA LeavesKeep ==
  ASSUME NEW r \in Seq(Packet), NEW q, NEW n \in Nat, NEW d, Leaves(r, d, q, n),
         NEW p \in Packet, p = q[n + 1]
  PROVE  \E e : Leaves(Append(r, p), e, q, n + 1)
<1> DEFINE s == Append(r, p)
           L == Len(r)
           e == [i \in 1..(L + 1) |-> IF i = L + 1 THEN n - L ELSE d[i]]
<1>1. L \in Nat /\ Len(s) = L + 1 /\ (\A i \in 1..L : s[i] = r[i]) /\ s[L + 1] = p
  BY LenProperties, AppendProperties
<1>2. /\ L <= n /\ \A i \in 1..L : d[i] \in 0..(n - L)
      /\ \A i, j \in 1..L : i < j => d[i] <= d[j]
      /\ \A i \in 1..L : r[i] = q[i + d[i]]
  BY DEF Leaves
<1> HIDE DEF s, L
<1>3. e \in [1..(L + 1) -> 0..((n + 1) - (L + 1))]
  BY <1>1, <1>2
<1>4. \A i \in 1..L : e[i] = d[i]
  BY <1>1
<1>5. e[L + 1] = n - L
  BY <1>1
<1> HIDE DEF e
<1>6. \A i, j \in 1..(L + 1) : i < j => e[i] <= e[j]
  <2> SUFFICES ASSUME NEW i \in 1..(L + 1), NEW j \in 1..(L + 1), i < j
               PROVE  e[i] <= e[j]
    OBVIOUS
  <2>1. i \in 1..L
    BY <1>1
  <2>2. CASE j = L + 1
    BY <1>1, <1>2, <1>4, <1>5, <2>1, <2>2
  <2>3. CASE j \in 1..L
    BY <1>2, <1>4, <2>1, <2>3
  <2> QED
    BY <1>1, <2>2, <2>3
<1>7. \A i \in 1..(L + 1) : s[i] = q[i + e[i]]
  <2> TAKE i \in 1..(L + 1)
  <2>1. CASE i = L + 1
    <3>1. i + e[i] = n + 1
      BY <1>1, <1>5, <2>1
    <3> QED
      BY <1>1, <2>1, <3>1
  <2>2. CASE i \in 1..L
    BY <1>1, <1>2, <1>4, <2>2
  <2> QED
    BY <1>1, <2>1, <2>2
<1>8. Leaves(s, e, q, n + 1)
  BY <1>1, <1>2, <1>3, <1>6, <1>7 DEF Leaves
<1> QED
  BY <1>8 DEF s

\* The packets left are a thinning of the queue.
LEMMA LeavesThins ==
  ASSUME NEW r \in Seq(Packet), NEW q, NEW d, Leaves(r, d, q, Len(q))
  PROVE  Contract!IsThinning(r, q)
<1>1. d \in Contract!Discards(Len(r), Len(q))
  BY DEF Contract!Discards, Leaves
<1> QED
  BY <1>1 DEF Contract!IsThinning, Leaves

\* The clean-up keeps the packets that it does not cut in their order.
LEMMA SweptThins ==
  ASSUME internal_queue \in Seq(Packet), NEW dropper_msg
  PROVE  LET s == dropStaleFrames(dropper_msg)
         IN /\ s \in SweepState /\ s.kept \in Seq(Packet)
            /\ \E d : Leaves(s.kept, d, internal_queue, Len(internal_queue))
<1> DEFINE q == internal_queue
           f == Swept(dropper_msg)
           T == {n \in Nat : n <= Len(q) => \E d : Leaves(f[n].kept, d, q, n)}
<1>1. Len(q) \in Nat /\ \A n \in 1..Len(q) : q[n] \in Packet
  BY LenProperties, ElementOfSeq
<1>2. /\ f \in [0..Len(q) -> SweepState] /\ f[0] = SweepBase
      /\ \A n \in 1..Len(q) : f[n] = Sweep(f[n - 1], q[n], dropper_msg)
      /\ dropStaleFrames(dropper_msg) = f[Len(q)]
  BY SweptSteps
<1> HIDE DEF q, f
<1>3. \A n \in 0..Len(q) : f[n] \in SweepState /\ f[n].kept \in Seq(Packet)
  BY <1>2 DEF SweepState
<1>4. 0 \in T
  <2>1. f[0].kept = <<>>
    BY <1>2 DEF SweepBase
  <2>2. Leaves(<<>>, <<>>, q, 0)
    BY DEF Leaves
  <2> QED
    BY <2>1, <2>2
<1>5. ASSUME NEW n \in Nat, n \in T PROVE n + 1 \in T
  <2> SUFFICES ASSUME n + 1 <= Len(q) PROVE \E d : Leaves(f[n + 1].kept, d, q, n + 1)
    OBVIOUS
  <2>1. n \in 0..Len(q) /\ n + 1 \in 1..Len(q) /\ (n + 1) - 1 = n
    BY <1>1
  <2>2. PICK d : Leaves(f[n].kept, d, q, n)
    BY <1>1, <1>5, <2>1
  <2>3. f[n + 1] = Sweep(f[n], q[n + 1], dropper_msg)
    BY <1>2, <2>1
  <2>4. f[n] \in SweepState /\ f[n].kept \in Seq(Packet) /\ q[n + 1] \in Packet
    BY <1>1, <1>3, <2>1
  <2>5. f[n + 1].kept = Append(f[n].kept, q[n + 1]) \/ f[n + 1].kept = f[n].kept
    BY <2>3, <2>4, SweepTurn, SMTT(30)
  <2>6. CASE f[n + 1].kept = f[n].kept
    BY <2>2, <2>4, <2>6, LeavesCut
  <2>7. CASE f[n + 1].kept = Append(f[n].kept, q[n + 1])
    BY <2>2, <2>4, <2>7, LeavesKeep
  <2> QED
    BY <2>5, <2>6, <2>7
<1>6. Len(q) \in T
  <2> HIDE DEF T
  <2> QED
    BY <1>1, <1>4, <1>5, SetInduction
<1>7. Len(q) \in 0..Len(q)
  BY <1>1
<1> QED
  BY <1>1, <1>2, <1>3, <1>6, <1>7 DEF q

\* What the enqueue of a UDP packet does to ActiveNet's queue.
LEMMA UdpFacts ==
  ASSUME QueueSound, NEW p \in Packet, NEW h, EnqueueUdp(p, h)
  PROVE  LET q == internal_queue
             s == dropStaleFrames(h.msg_no)
         IN \E kept \in Seq(Packet) :
              /\ \E d : Leaves(kept, d, q, Len(q))
              /\ \/ internal_queue' = kept
                 \/ /\ internal_queue' = Append(kept, p)
                    /\ good_with(Bytes(internal_queue'), Len(internal_queue'))
              /\ internal_queue' \in Seq(Packet)
              /\ queue_size_in_packets' = Len(internal_queue')
              /\ queue_size_in_bytes' = Bytes(internal_queue')
              /\ \/ kept = q /\ msg_in_drop' = msg_in_drop /\ cut' = cut
                 \/ /\ kept = s.kept /\ msg_in_drop' = s.msg
                    /\ cut' = cut \cup s.cut /\ h.priority = 1
              /\ failed' \in BOOLEAN /\ (failed' => ~log_file)
<1> DEFINE q == internal_queue
           s == dropStaleFrames(h.msg_no)
           clean == ~Fits(p) /\ h.priority = 1
           kept == IF clean THEN s.kept ELSE q
           bytes == IF clean THEN BytesLeft(kept) ELSE queue_size_in_bytes
           packets == queue_size_in_packets - (Len(q) - Len(kept))
           fits == good_with(bytes + p.size, packets + 1)
<1>1. /\ q \in Seq(Packet) /\ Len(q) \in Nat /\ Bytes(q) \in Nat
      /\ queue_size_in_packets = Len(q) /\ queue_size_in_bytes = Bytes(q)
  BY SoundFacts
<1>2. s.kept \in Seq(Packet) /\ \E d : Leaves(s.kept, d, q, Len(q))
  BY <1>1, SweptThins
<1>3. \E d : Leaves(q, d, q, Len(q))
  <2> DEFINE d == [i \in 1..Len(q) |-> 0]
  <2>1. Leaves(q, d, q, Len(q))
    BY <1>1 DEF Leaves
  <2> HIDE DEF d
  <2> QED
    BY <2>1
<1>4. /\ internal_queue' = IF fits THEN Append(kept, p) ELSE kept
      /\ queue_size_in_bytes' = IF fits THEN bytes + p.size ELSE bytes
      /\ queue_size_in_packets' = IF fits THEN packets + 1 ELSE packets
      /\ msg_in_drop' = IF clean THEN s.msg ELSE msg_in_drop
      /\ cut' = IF clean THEN cut \cup s.cut ELSE cut
      /\ failed' = (clean /\ s.stale /\ ~log_file)
  BY DEF EnqueueUdp
<1>5. /\ kept \in Seq(Packet) /\ \E d : Leaves(kept, d, q, Len(q))
  BY <1>1, <1>2, <1>3
<1>6. /\ \/ kept = q /\ msg_in_drop' = msg_in_drop /\ cut' = cut
         \/ /\ kept = s.kept /\ msg_in_drop' = s.msg
            /\ cut' = cut \cup s.cut /\ h.priority = 1
      /\ failed' \in BOOLEAN /\ (failed' => ~log_file)
  <2>1. clean => h.priority = 1
    OBVIOUS
  <2> HIDE DEF fits, clean, s, bytes, packets, q
  <2> QED
    BY <1>4, <2>1
<1> HIDE DEF clean, s
<1>7. bytes = Bytes(kept)
  <2>1. Bytes(kept) \in Nat
    BY <1>5, BytesNat
  <2>2. CASE clean
    <3>1. bytes = queue_size_in_bytes - (Bytes(q) - Bytes(kept))
      BY <2>2 DEF BytesLeft
    <3> HIDE DEF kept, q
    <3> QED
      BY <1>1, <2>1, <3>1
  <2>3. CASE ~clean
    BY <1>1, <2>3
  <2> QED
    BY <2>2, <2>3
<1> HIDE DEF kept, q, bytes
<1>8. packets = Len(kept) /\ Len(kept) \in Nat
  <2>1. Len(kept) \in Nat
    BY <1>5, LenProperties
  <2> QED
    BY <1>1, <2>1
<1> HIDE DEF packets
<1>9. /\ Append(kept, p) \in Seq(Packet) /\ Len(Append(kept, p)) = Len(kept) + 1
      /\ Bytes(Append(kept, p)) = Bytes(kept) + p.size
  BY <1>5, BytesAppend
<1>10. /\ \/ internal_queue' = kept
          \/ /\ internal_queue' = Append(kept, p)
             /\ good_with(Bytes(internal_queue'), Len(internal_queue'))
       /\ internal_queue' \in Seq(Packet)
       /\ queue_size_in_packets' = Len(internal_queue')
       /\ queue_size_in_bytes' = Bytes(internal_queue')
  <2>1. CASE fits
    <3>1. internal_queue' = Append(kept, p)
      BY <1>4, <2>1
    <3>2. good_with(Bytes(kept) + p.size, Len(kept) + 1)
      BY <1>7, <1>8, <2>1
    <3>3. queue_size_in_packets' = Len(kept) + 1 /\ queue_size_in_bytes' = Bytes(kept) + p.size
      <4> HIDE DEF fits
      <4> QED
        BY <1>4, <1>7, <1>8, <2>1
    <3> QED
      BY <1>9, <3>1, <3>2, <3>3
  <2>2. CASE ~fits
    <3> HIDE DEF fits
    <3> QED
      BY <1>4, <1>5, <1>7, <1>8, <2>2
  <2> QED
    BY <2>1, <2>2
<1> QED
  BY <1>5, <1>6, <1>10 DEF q, s

\* enqueue of ActiveNet.
LEMMA AnetEnqueueSound ==
  ASSUME QueueSound, config.policy = "activenet", anet_enqueue
  PROVE  QueueSound'
<1>1. /\ offered < MaxPackets /\ config' = config /\ returned' = returned
      /\ offered' = offered + 1
  BY DEF anet_enqueue
<1> DEFINE p == [id |-> offered + 1, size |-> FrameSize]
<1>2. PICK h \in Headers :
        IF h.udp THEN EnqueueUdp(p, h)
        ELSE accept(p) /\ UNCHANGED <<msg_in_drop, cut, failed>>
  BY DEF anet_enqueue
<1>3. p \in Packet
  BY <1>1, ActiveNetAssumption, ArrivalFacts
<1>4. /\ config \in Configs /\ returned \in Packet \cup {NoPacket}
      /\ offered \in Nat /\ failed \in BOOLEAN
  BY SoundFacts
<1> HIDE DEF p
<1>5. CASE h.udp
  <2>1. /\ internal_queue' \in Seq(Packet)
        /\ queue_size_in_packets' = Len(internal_queue')
        /\ queue_size_in_bytes' = Bytes(internal_queue')
        /\ failed' \in BOOLEAN
    BY <1>2, <1>3, <1>5, UdpFacts
  <2>2. Len(internal_queue') \in Nat /\ Bytes(internal_queue') \in Nat
    BY <2>1, SizeFacts, BytesNat
  <2>3. TypeOK'
    <3>1. offered' \in 0..MaxPackets
      BY <1>1, <1>4, DroppingAssumption
    <3> QED
      BY <1>1, <1>4, <2>1, <2>2, <3>1 DEF TypeOK
  <2>4. CountersExact'
    BY <2>1 DEF CountersExact, Bytes
  <2> QED
    BY <1>1, <2>3, <2>4 DEF QueueSound, NewestSurvives
<1>6. CASE ~h.udp
  BY <1>1, <1>2, <1>3, <1>4, <1>6, AcceptSound
<1> QED
  BY <1>5, <1>6

\* The counters and the limits hold whatever the discipline, its limits and
\* the sizes of the packets are (QueueSound): drop head holds the packets
\* offered last, and only ActiveNet may exceed its limits.
THEOREM QueueStaysSound == AllSpec => []QueueSound
<1>1. AllInit => QueueSound
  <2> SUFFICES ASSUME AllInit PROVE QueueSound
    OBVIOUS
  <2>1. /\ config \in Configs /\ internal_queue = <<>> /\ returned = NoPacket
        /\ queue_size_in_bytes = 0 /\ queue_size_in_packets = 0
        /\ offered = 0 /\ failed = FALSE
    BY DEF AllInit, Init
  <2>2. Bytes(internal_queue) = 0 /\ Len(internal_queue) = 0
    BY <2>1, BytesEmpty
  <2>3. TypeOK
    <3>1. internal_queue \in Seq(Packet) /\ offered \in 0..MaxPackets
      BY <2>1, DroppingAssumption
    <3> QED
      BY <2>1, <3>1 DEF TypeOK
  <2>4. WithinLimits
    BY <2>1, <2>2, LimitsNat DEF WithinLimits
  <2>5. NewestSurvives
    BY <2>2 DEF NewestSurvives
  <2> QED
    BY <2>1, <2>2, <2>3, <2>4, <2>5 DEF QueueSound, CountersExact
<1>2. QueueSound /\ [AllNext]_allVars => QueueSound'
  <2> SUFFICES ASSUME QueueSound, [AllNext]_allVars PROVE QueueSound'
    OBVIOUS
  <2>1. CASE Plain /\ enqueue
    BY <2>1, EnqueueSound
  <2>2. CASE dequeue
    BY <2>2, DequeueSound
  <2>3. CASE config.policy = "pie" /\ pie_enqueue
    BY <2>3, PieEnqueueSound
  <2>4. CASE config.policy = "activenet" /\ anet_enqueue
    BY <2>4, AnetEnqueueSound
  <2>5. CASE UNCHANGED vars
    BY <2>5 DEF vars, QueueSound, TypeOK, CountersExact, NewestSurvives,
                WithinLimits, Bytes
  <2>6. CASE UNCHANGED allVars
    BY <2>5, <2>6 DEF allVars
  <2> QED
    BY <2>1, <2>2, <2>3, <2>4, <2>5, <2>6
    DEF AllNext, Next, PieNext, AnetNext, pie_dequeue, anet_dequeue, Tick
<1> QED
  BY <1>1, <1>2, PTL DEF AllSpec
------------------------------------------------------------------------------
(* The contract of the disciplines.                                         *)

\* What is left of the queue, and then the arrival, is what an enqueue may
\* leave.
LEMMA KeptThenArrival ==
  ASSUME NEW kept \in Seq(Packet), NEW p \in Packet,
         NEW d, Leaves(kept, d, internal_queue, Len(internal_queue)),
         internal_queue' = Append(kept, p), returned' = returned
  PROVE  Contract!Enqueue
<1> DEFINE r == Append(kept, p)
           f == SubSeq(r, 1, Len(r) - 1)
<1>1. /\ Len(kept) \in Nat /\ r \in Seq(Packet) /\ Len(r) = Len(kept) + 1
      /\ (\A i \in 1..Len(kept) : r[i] = kept[i]) /\ r[Len(kept) + 1] = p
  BY LenProperties, AppendProperties
<1>2. f = kept
  <2>1. Len(r) - 1 = Len(kept) /\ Len(kept) \in 0..Len(r)
    BY <1>1
  <2> HIDE DEF r
  <2>2. /\ SubSeq(r, 1, Len(kept)) \in Seq(Packet)
        /\ Len(SubSeq(r, 1, Len(kept))) = Len(kept)
        /\ \A i \in 1..Len(kept) : SubSeq(r, 1, Len(kept))[i] = r[i]
    BY <1>1, <2>1, CutFacts
  <2>3. SubSeq(r, 1, Len(kept)) = kept
    BY <1>1, <2>2, SeqEqual
  <2> QED
    BY <2>1, <2>3
<1>3. Contract!IsThinning(kept, internal_queue)
  BY LeavesThins
<1>4. r # <<>> /\ r[Len(r)] \in Packet
  BY <1>1, EmptySeq
<1> HIDE DEF r
<1>5. internal_queue' = r
  BY DEF r
<1>6. internal_queue' # <<>> /\ internal_queue'[Len(internal_queue')] \in Packet
  BY <1>4, <1>5
<1>7. Contract!IsThinning(SubSeq(internal_queue', 1, Len(internal_queue') - 1), internal_queue)
  BY <1>2, <1>3, <1>5
<1> QED
  BY <1>6, <1>7 DEF Contract!Enqueue

\* Nothing taken out.
LEMMA LeavesAll ==
  ASSUME NEW q \in Seq(Packet)
  PROVE  \E d : Leaves(q, d, q, Len(q))
<1> DEFINE d == [i \in 1..Len(q) |-> 0]
<1>1. Len(q) \in Nat
  BY LenProperties
<1>2. Leaves(q, d, q, Len(q))
  BY <1>1 DEF Leaves
<1> HIDE DEF d
<1> QED
  BY <1>2

\* The first k taken out.
LEMMA LeavesRest ==
  ASSUME NEW q \in Seq(Packet), NEW r \in Seq(Packet), NEW k \in 0..Len(q),
         Len(r) = Len(q) - k, \A i \in 1..Len(r) : r[i] = q[i + k]
  PROVE  \E d : Leaves(r, d, q, Len(q))
<1> DEFINE d == [i \in 1..Len(r) |-> k]
<1>1. Len(q) \in Nat /\ Len(r) \in Nat
  BY LenProperties
<1>2. Leaves(r, d, q, Len(q))
  BY <1>1, SMTT(30) DEF Leaves
<1> HIDE DEF d
<1> QED
  BY <1>2

\* dequeue hands back the first packet.
LEMMA DequeueContract ==
  ASSUME QueueSound, dequeue
  PROVE  Contract!Next
<1> DEFINE q == internal_queue
<1>1. q \in Seq(Packet) /\ q # <<>>
  BY SoundFacts DEF dequeue
<1>2. Len(q) \in Nat /\ Len(q) > 0 /\ RemoveAt(q, 1) = SubSeq(q, 2, Len(q))
  BY <1>1, FrontFacts
<1>3. returned' = q[1] /\ internal_queue' = SubSeq(q, 1 + 1, Len(q))
  BY <1>2 DEF dequeue, Dequeued
<1>4. 1 \in 1..Len(internal_queue) /\ 1 \in 1..1
  BY <1>2
<1> QED
  BY <1>3, <1>4 DEF Contract!Next, Contract!Dequeue

\* An arrival that is accepted.
LEMMA AcceptContract ==
  ASSUME QueueSound, NEW p \in Packet, accept(p), returned' = returned
  PROVE  Contract!Next
<1>1. internal_queue \in Seq(Packet) /\ internal_queue' = Append(internal_queue, p)
  BY SoundFacts DEF accept
<1>2. PICK d : Leaves(internal_queue, d, internal_queue, Len(internal_queue))
  BY <1>1, LeavesAll
<1> QED
  BY <1>1, <1>2, KeptThenArrival DEF Contract!Next

\* An arrival in front of which drop head makes room.
LEMMA HeadContract ==
  ASSUME QueueSound, config.policy = "drophead", NEW p \in Packet, EnqueueHead(p),
         returned' = returned
  PROVE  Contract!Next
<1> DEFINE q == internal_queue
           s == Append(internal_queue, p)
           r == internal_queue'
<1>1. q \in Seq(Packet) /\ Len(q) \in Nat
  BY SoundFacts
<1>2. PICK k \in 0..(Len(q) + 1) :
              /\ s \in Seq(Packet) /\ Len(s) = Len(q) + 1
              /\ \A i \in 1..Len(q) : s[i] = q[i]
              /\ s[Len(q) + 1] = p
              /\ r \in Seq(Packet)
              /\ Len(r) = Len(s) - k
              /\ \A i \in 1..(Len(s) - k) : r[i] = s[i + k]
  BY HeadFacts
<1>3. CASE k = Len(q) + 1
  <2>1. Len(r) = 0 /\ r = <<>>
    BY <1>1, <1>2, <1>3, EmptySeq
  <2>2. Leaves(<<>>, <<>>, q, Len(q))
    BY <1>1 DEF Leaves
  <2>3. Contract!IsThinning(<<>>, q)
    <3>1. <<>> \in Seq(Packet)
      OBVIOUS
    <3> HIDE DEF q
    <3> QED
      BY <2>2, <3>1, LeavesThins
  <2> QED
    BY <2>1, <2>3 DEF Contract!Next, Contract!Enqueue
<1>4. CASE k \in 0..Len(q)
  <2> DEFINE kept == SubSeq(q, k + 1, Len(q))
  <2>1. /\ kept \in Seq(Packet) /\ Len(kept) = Len(q) - k
        /\ \A i \in 1..(Len(q) - k) : kept[i] = q[i + k]
    BY <1>1, <1>4, CutFacts
  <2> HIDE DEF kept, q, s
  <2>2. PICK d : Leaves(kept, d, q, Len(q))
    BY <1>1, <1>4, <2>1, LeavesRest
  <2>3. /\ Append(kept, p) \in Seq(Packet) /\ Len(Append(kept, p)) = Len(q) - k + 1
        /\ \A i \in 1..(Len(q) - k) : Append(kept, p)[i] = kept[i]
        /\ Append(kept, p)[Len(q) - k + 1] = p
    BY <2>1, AppendProperties
  <2>4. Len(r) = Len(Append(kept, p))
    BY <1>1, <1>2, <1>4, <2>3
  <2>5. \A i \in 1..Len(r) : r[i] = Append(kept, p)[i]
    <3> TAKE i \in 1..Len(r)
    <3>1. i \in 1..(Len(s) - k) /\ i \in 1..(Len(q) - k + 1)
      BY <1>1, <1>2, <1>4
    <3>2. r[i] = s[i + k]
      BY <1>2, <3>1
    <3>3. CASE i = Len(q) - k + 1
      <4>1. i + k = Len(q) + 1
        BY <1>1, <1>4, <3>3
      <4> QED
        BY <1>2, <2>3, <3>2, <3>3, <4>1
    <3>4. CASE i \in 1..(Len(q) - k)
      <4>1. i + k \in 1..Len(q)
        BY <1>1, <1>4, <3>4
      <4> QED
        BY <1>2, <2>1, <2>3, <3>2, <3>4, <4>1
    <3>5. i = Len(q) - k + 1 \/ i \in 1..(Len(q) - k)
      BY <1>1, <1>4, <3>1
    <3> QED
      BY <3>3, <3>4, <3>5
  <2>6. r = Append(kept, p)
    BY <1>2, <2>3, <2>4, <2>5, SeqEqual
  <2>7. Leaves(kept, d, internal_queue, Len(internal_queue))
    BY <2>2 DEF q
  <2> QED
    BY <2>1, <2>6, <2>7, KeptThenArrival DEF Contract!Next
<1> QED
  BY <1>1, <1>3, <1>4

\* Whatever they drop, and whatever their limits are, the disciplines keep the
\* contract of AbstractPacketQueue (KeepsContract).
THEOREM DisciplinesKeepContract == AllSpec => KeepsContract
<1>1. AllInit => Contract!Init
  BY DEF AllInit, Init, Contract!Init
<1>2. QueueSound /\ [AllNext]_allVars => [Contract!Next]_<<internal_queue, returned>>
  <2> SUFFICES ASSUME QueueSound, [AllNext]_allVars,
                      ~UNCHANGED <<internal_queue, returned>>
               PROVE  Contract!Next
    OBVIOUS
  <2>1. CASE Plain /\ enqueue
    <3>1. PICK z \in Sizes : Enqueue([id |-> offered + 1, size |-> z])
      BY <2>1 DEF enqueue
    <3> DEFINE p == [id |-> offered + 1, size |-> z]
    <3>2. offered < MaxPackets /\ returned' = returned
      BY <2>1 DEF enqueue
    <3>3. p \in Packet /\ Enqueue(p)
      BY <3>1, <3>2, ArrivalFacts
    <3> HIDE DEF p
    <3>4. \/ config.policy = "drophead" /\ EnqueueHead(p)
          \/ accept(p)
      BY <3>2, <3>3 DEF Enqueue, EnqueueTail
    <3> QED
      BY <3>2, <3>3, <3>4, HeadContract, AcceptContract
  <2>2. CASE dequeue
    BY <2>2, DequeueContract
  <2>3. CASE pie_enqueue
    <3>1. PICK z \in PieSizes : accept([id |-> offered + 1, size |-> z])
      BY <2>3 DEF pie_enqueue
    <3> DEFINE p == [id |-> offered + 1, size |-> z]
    <3>2. offered < MaxPackets /\ returned' = returned
      BY <2>3 DEF pie_enqueue
    <3>3. p \in Packet /\ accept(p)
      <4>1. z \in Sizes
        BY PieAssumption
      <4> QED
        BY <3>1, <3>2, <4>1, ArrivalFacts
    <3> HIDE DEF p
    <3> QED
      BY <3>2, <3>3, AcceptContract
  <2>4. CASE anet_enqueue
    <3> DEFINE p == [id |-> offered + 1, size |-> FrameSize]
    <3>1. PICK h \in Headers :
            IF h.udp THEN EnqueueUdp(p, h) ELSE accept(p)
      BY <2>4 DEF anet_enqueue
    <3>2. offered < MaxPackets /\ returned' = returned
      BY <2>4 DEF anet_enqueue
    <3>3. p \in Packet
      BY <3>2, ActiveNetAssumption, ArrivalFacts
    <3> HIDE DEF p
    <3>4. CASE h.udp
      <4>1. PICK kept \in Seq(Packet) :
              /\ \E d : Leaves(kept, d, internal_queue, Len(internal_queue))
              /\ internal_queue' = kept \/ internal_queue' = Append(kept, p)
        BY <3>1, <3>3, <3>4, UdpFacts
      <4>2. PICK d : Leaves(kept, d, internal_queue, Len(internal_queue))
        BY <4>1
      <4>3. CASE internal_queue' = kept
        BY <3>2, <4>2, <4>3, LeavesThins DEF Contract!Next, Contract!Enqueue
      <4>4. CASE internal_queue' = Append(kept, p)
        BY <3>2, <3>3, <4>2, <4>4, KeptThenArrival DEF Contract!Next
      <4> QED
        BY <4>1, <4>3, <4>4
    <3>5. CASE ~h.udp
      BY <3>1, <3>2, <3>3, <3>5, AcceptContract
    <3> QED
      BY <3>4, <3>5
  <2>5. ~Tick /\ ~UNCHANGED allVars
    BY DEF Tick, allVars, vars
  <2> QED
    BY <2>1, <2>2, <2>3, <2>4, <2>5
    DEF AllNext, Next, PieNext, AnetNext, pie_dequeue, anet_dequeue
<1> QED
  BY <1>1, <1>2, QueueStaysSound, PTL DEF AllSpec, KeepsContract, Contract!Spec
------------------------------------------------------------------------------
(* ActiveNet.                                                               *)

\* The header of every packet offered so far.
HeadersOK == header \in Seq(Header) /\ Len(header) = offered

\* A packet is queued in the order of arrival, sent or cut, never two of these.
IdsOK ==
  /\ \A i \in 1..Len(internal_queue) :
       internal_queue[i].id \in 1..offered /\ internal_queue[i].size = FrameSize
  /\ \A i, j \in 1..Len(internal_queue) :
       i < j => internal_queue[i].id < internal_queue[j].id
  /\ sent \subseteq 1..offered /\ cut \subseteq 1..offered
  /\ \A i \in sent : i \notin cut
  /\ \A i \in 1..Len(internal_queue) :
       internal_queue[i].id \notin sent /\ internal_queue[i].id \notin cut

\* The number that msg_in_drop_ holds, and that of every packet that was cut,
\* is the number of a packet that was cut because it gave way.
CutOK ==
  /\ \/ msg_in_drop = -1
     \/ \E c \in cut : GivesWay(c) /\ header[c].msg_no = msg_in_drop
  /\ \A j \in cut : \E c \in cut : GivesWay(c) /\ header[c].msg_no = header[j].msg_no

\* Drop head is given no byte limit.
HeadCountsPackets == \A c \in Configs : c.policy = "drophead" => c.byte_limit = 0

\* The ferry has died only of what DiesOnlyOverfilled allows.
FailOK ==
  HeadCountsPackets /\ failed =>
    /\ config.policy = "activenet"
    /\ ~log_file \/ \E i \in 1..offered : ~header[i].udp

\* The inductive invariant of ActiveNet.
AnetInv ==
  /\ config.policy = "activenet" => HeadersOK /\ IdsOK /\ CutOK
  /\ OverfilledByOthers
  /\ FailOK

\* The header of the arrival is known from then on, and what has given way
\* before the arrival or because of it gives way.
LEMMA HeaderFacts ==
  ASSUME HeadersOK, offered \in Nat, NEW h \in Headers,
         header' = Append(header, h), offered' = offered + 1
  PROVE  /\ HeadersOK'
         /\ \A i \in 1..offered : header'[i] = header[i]
         /\ header'[offered + 1] = h
         /\ \A c \in 1..offered :
              GivesWay(c) \/ (h.udp /\ h.priority = 1 /\ Stale(header[c], h.msg_no))
                => GivesWay(c)'
<1> DEFINE g == Append(header, h)
<1>1. h \in Header
  BY ActiveNetAssumption
<1>2. /\ g \in Seq(Header) /\ Len(g) = offered + 1
      /\ \A i \in 1..offered : g[i] = header[i]
      /\ g[offered + 1] = h
  BY <1>1, AppendProperties DEF HeadersOK
<1> HIDE DEF g
<1>3. header' = g
  BY DEF g
<1>4. HeadersOK'
  BY <1>2, <1>3 DEF HeadersOK
<1>5. ASSUME NEW c \in 1..offered, GivesWay(c)
      PROVE  GivesWay(c)'
  <2>1. PICK d \in (c + 1)..offered :
          header[d].udp /\ header[d].priority = 1 /\ header[d].msg_no > header[c].msg_no
    BY <1>5 DEF GivesWay
  <2>2. d \in 1..offered /\ d \in (c + 1)..(offered + 1)
    OBVIOUS
  <2>3. g[d] = header[d] /\ g[c] = header[c]
    BY <1>2, <2>2
  <2> QED
    BY <1>3, <1>5, <2>1, <2>2, <2>3 DEF GivesWay
<1>6. ASSUME NEW c \in 1..offered, h.udp, h.priority = 1, Stale(header[c], h.msg_no)
      PROVE  GivesWay(c)'
  <2>1. /\ header[c].priority >= 2 /\ header[c].msg_no < h.msg_no
        /\ header[c].pkt_pos \in {"FIRST", "SOLO"}
    BY <1>6 DEF Stale
  <2>2. offered + 1 \in (c + 1)..(offered + 1)
    OBVIOUS
  <2>3. h.msg_no > header[c].msg_no
    <3>1. header[c] \in Header
      BY ElementOfSeq DEF HeadersOK
    <3>2. header[c].msg_no \in Nat /\ h.msg_no \in Nat
      BY <1>1, <3>1 DEF Header
    <3> QED
      BY <2>1, <3>2
  <2> QED
    BY <1>2, <1>3, <1>6, <2>1, <2>2, <2>3 DEF GivesWay
<1> QED
  BY <1>2, <1>3, <1>4, <1>5, <1>6

\* With packets of one size a longer prefix has no fewer bytes.
LEMMA UniformBytes ==
  ASSUME NEW s \in Seq(Packet), NEW t \in Seq(Packet),
         \A i \in 1..Len(s) : s[i].size = FrameSize,
         \A i \in 1..Len(t) : t[i].size = FrameSize,
         NEW n \in 0..Len(s), NEW m \in 0..Len(t), n <= m
  PROVE  /\ Bytes(SubSeq(s, 1, n)) \in Int /\ Bytes(SubSeq(t, 1, m)) \in Int
         /\ Bytes(SubSeq(s, 1, n)) <= Bytes(SubSeq(t, 1, m))
<1> DEFINE v == SizeSeq(s)
           w == SizeSeq(t)
<1>1. /\ Len(s) \in Nat /\ Len(t) \in Nat
      /\ v \in Seq(Int) /\ Len(v) = Len(s) /\ \A i \in 1..Len(s) : v[i] = s[i].size
      /\ w \in Seq(Int) /\ Len(w) = Len(t)
      /\ \A i \in 1..Len(t) : w[i] = t[i].size /\ t[i].size \in Nat \ {0}
  BY SizeFacts
<1>2. Bytes(SubSeq(s, 1, n)) = UpTo(v)[n] /\ Bytes(SubSeq(t, 1, m)) = UpTo(w)[m]
  BY BytesCut
<1> HIDE DEF v, w
<1>3. /\ n \in Nat /\ n <= Len(v) /\ n <= Len(w) /\ n \in 0..n /\ m \in 0..Len(w)
      /\ n \in 0..m /\ \A i \in 1..n : i \in 1..Len(s) /\ i \in 1..Len(t)
  BY <1>1
<1>4. \A i \in 1..n : v[i] = w[i]
  BY <1>1, <1>3
<1>5. UpTo(v)[n] = UpTo(w)[n]
  <2>1. \A x \in 0..n : UpTo(v)[x] = UpTo(w)[x]
    BY <1>1, <1>3, <1>4, UpToPrefix, ZenonT(30)
  <2> QED
    BY <1>3, <2>1
<1>6. \A i \in 1..Len(w) : w[i] >= 0
  <2> TAKE i \in 1..Len(w)
  <2>1. i \in 1..Len(t)
    BY <1>1
  <2>2. w[i] = t[i].size /\ t[i].size \in Nat
    BY <1>1, <2>1
  <2> QED
    BY <2>2
<1>7. UpTo(w)[n] <= UpTo(w)[m]
  BY <1>1, <1>3, <1>6, UpToMonotonic
<1>8. UpTo(w)[n] \in Int /\ UpTo(w)[m] \in Int
  <2>1. UpTo(w) \in [0..Len(w) -> Int] /\ n \in 0..Len(w)
    BY <1>1, <1>3, UpToStep
  <2> QED
    BY <1>3, <2>1
<1> QED
  BY <1>2, <1>5, <1>7, <1>8

\* The whole queue is its longest prefix.
LEMMA WholeBytes ==
  ASSUME NEW s \in Seq(Packet)
  PROVE  SubSeq(s, 1, Len(s)) = s
BY SubSeqFull

\* The state of the clean-up after n packets.
SweptOK(acc, n, dropper_msg) ==
  LET ids == {internal_queue[i].id : i \in 1..n}
  IN /\ acc.cut \subseteq ids
     /\ \A i \in 1..Len(acc.kept) : acc.kept[i].id \in ids /\ acc.kept[i].id \notin acc.cut
     /\ \/ acc.msg = msg_in_drop
        \/ \E c \in acc.cut : Stale(header[c], dropper_msg) /\ header[c].msg_no = acc.msg
     /\ \A j \in acc.cut :
          \/ header[j].msg_no = msg_in_drop
          \/ \E c \in acc.cut : Stale(header[c], dropper_msg) /\ header[c].msg_no = header[j].msg_no

\* The clean-up cuts only frames whose first packet it has cut, and what an
\* earlier one has left of the frame that msg_in_drop_ names.
LEMMA SweptFrames ==
  ASSUME internal_queue \in Seq(Packet), IdsOK, NEW dropper_msg
  PROVE  SweptOK(dropStaleFrames(dropper_msg), Len(internal_queue), dropper_msg)
<1> DEFINE q == internal_queue
           f == Swept(dropper_msg)
           T == {n \in Nat : n <= Len(q) => SweptOK(f[n], n, dropper_msg)}
<1>1. Len(q) \in Nat /\ \A n \in 1..Len(q) : q[n] \in Packet
  BY LenProperties, ElementOfSeq
<1>2. /\ f \in [0..Len(q) -> SweepState] /\ f[0] = SweepBase
      /\ \A n \in 1..Len(q) : f[n] = Sweep(f[n - 1], q[n], dropper_msg)
      /\ dropStaleFrames(dropper_msg) = f[Len(q)]
  BY SweptSteps
<1>i. \A i, j \in 1..Len(q) : i < j => q[i].id < q[j].id
  BY DEF IdsOK
<1>j. \A i \in 1..Len(q) : q[i].id \in Int
  BY DEF IdsOK
<1> HIDE DEF f
<1>3. \A n \in 0..Len(q) : f[n] \in SweepState /\ f[n].kept \in Seq(Packet)
  BY <1>2 DEF SweepState
<1>4. 0 \in T
  <2>1. f[0].kept = <<>> /\ f[0].msg = msg_in_drop /\ f[0].cut = {}
    BY <1>2 DEF SweepBase
  <2> QED
    BY <2>1 DEF SweptOK
<1>5. ASSUME NEW n \in Nat, n \in T PROVE n + 1 \in T
  <2> SUFFICES ASSUME n + 1 <= Len(q) PROVE SweptOK(f[n + 1], n + 1, dropper_msg)
    OBVIOUS
  <2> DEFINE p == q[n + 1]
             acc == f[n]
             new == f[n + 1]
             ids == {q[i].id : i \in 1..n}
             more == {q[i].id : i \in 1..(n + 1)}
  <2>1. n \in 0..Len(q) /\ n + 1 \in 1..Len(q) /\ (n + 1) - 1 = n
    BY <1>1
  <2>2. SweptOK(acc, n, dropper_msg)
    BY <1>1, <1>5, <2>1
  <2>3. new = Sweep(acc, p, dropper_msg)
    BY <1>2, <2>1
  <2>4. acc \in SweepState /\ acc.kept \in Seq(Packet) /\ p \in Packet
    BY <1>1, <1>3, <2>1
  <2>5. p.id \notin ids
    <3> SUFFICES ASSUME NEW i \in 1..n, q[i].id = p.id PROVE FALSE
      OBVIOUS
    <3>1. i \in 1..Len(q) /\ i < n + 1
      BY <1>1, <2>1
    <3> QED
      BY <1>i, <1>j, <2>1, <3>1
  <2>6. ids \subseteq more /\ p.id \in more
    OBVIOUS
  <2>7. /\ acc.cut \subseteq ids
        /\ \A i \in 1..Len(acc.kept) : acc.kept[i].id \in ids /\ acc.kept[i].id \notin acc.cut
        /\ \/ acc.msg = msg_in_drop
           \/ \E c \in acc.cut : Stale(header[c], dropper_msg) /\ header[c].msg_no = acc.msg
        /\ \A j \in acc.cut :
             \/ header[j].msg_no = msg_in_drop
             \/ \E c \in acc.cut :
                  Stale(header[c], dropper_msg) /\ header[c].msg_no = header[j].msg_no
    BY <2>2 DEF SweptOK
  <2>8. \/ new.kept = Append(acc.kept, p) /\ new.msg = acc.msg /\ new.cut = acc.cut
        \/ /\ new.kept = acc.kept /\ new.cut = acc.cut \cup {p.id}
           /\ new.msg = header[p.id].msg_no
           /\ Stale(header[p.id], dropper_msg) \/ acc.msg = header[p.id].msg_no
    BY <2>3, <2>4, SweepTurn, SMTT(30)
  <2> HIDE DEF p, acc, new, ids
  <2>9. CASE new.kept = Append(acc.kept, p) /\ new.msg = acc.msg /\ new.cut = acc.cut
    <3> DEFINE L == Len(acc.kept)
    <3>1. /\ L \in Nat /\ Len(new.kept) = L + 1 /\ new.kept[L + 1] = p
          /\ \A i \in 1..L : new.kept[i] = acc.kept[i]
      BY <2>4, <2>9, LenProperties, AppendProperties
    <3> HIDE DEF L
    <3>2. \A i \in 1..Len(new.kept) : new.kept[i].id \in more /\ new.kept[i].id \notin new.cut
      <4> TAKE i \in 1..Len(new.kept)
      <4>1. CASE i = L + 1
        BY <2>5, <2>6, <2>7, <2>9, <3>1, <4>1
      <4>2. CASE i \in 1..L
        BY <2>6, <2>7, <2>9, <3>1, <4>2 DEF L
      <4> QED
        BY <3>1, <4>1, <4>2
    <3>3. new.cut \subseteq more
      BY <2>6, <2>7, <2>9
    <3> HIDE DEF more
    <3>4. /\ \/ new.msg = msg_in_drop
             \/ \E c \in new.cut : Stale(header[c], dropper_msg) /\ header[c].msg_no = new.msg
          /\ \A j \in new.cut :
               \/ header[j].msg_no = msg_in_drop
               \/ \E c \in new.cut : Stale(header[c], dropper_msg) /\ header[c].msg_no = header[j].msg_no
      BY <2>7, <2>9
    <3> QED
      BY <3>2, <3>3, <3>4 DEF SweptOK, more, new
  <2>10. CASE /\ new.kept = acc.kept /\ new.cut = acc.cut \cup {p.id}
              /\ new.msg = header[p.id].msg_no
              /\ Stale(header[p.id], dropper_msg) \/ acc.msg = header[p.id].msg_no
    <3>1. \A i \in 1..Len(new.kept) : new.kept[i].id \in more /\ new.kept[i].id \notin new.cut
      BY <2>5, <2>6, <2>7, <2>10
    <3>2. new.cut \subseteq more
      BY <2>6, <2>7, <2>10
    <3> HIDE DEF more
    <3>3. \/ new.msg = msg_in_drop
          \/ \E c \in new.cut : Stale(header[c], dropper_msg) /\ header[c].msg_no = new.msg
      BY <2>7, <2>10
    <3>4. ASSUME NEW j \in new.cut
          PROVE  \/ header[j].msg_no = msg_in_drop
                 \/ \E c \in new.cut : Stale(header[c], dropper_msg) /\ header[c].msg_no = header[j].msg_no
      <4>1. CASE j = p.id
        BY <2>10, <3>3, <4>1
      <4>2. CASE j \in acc.cut
        BY <2>7, <2>10, <4>2
      <4> QED
        BY <2>10, <3>4, <4>1, <4>2
    <3> QED
      BY <3>1, <3>2, <3>3, <3>4 DEF SweptOK, more, new
  <2> QED
    BY <2>8, <2>9, <2>10
<1>6. Len(q) \in T
  <2> HIDE DEF T
  <2> QED
    BY <1>1, <1>4, <1>5, SetInduction
<1> QED
  BY <1>1, <1>2, <1>6

\* good() after a step, for the disciplines that keep their limits.
LEMMA GoodAfter ==
  ASSUME QueueSound', config' = config, config.policy # "activenet"
  PROVE  good'
<1> DEFINE q == internal_queue'
<1>1. queue_size_in_packets' = Len(q) /\ queue_size_in_bytes' = Bytes(q)
  BY DEF QueueSound, CountersExact, Bytes
<1>2. /\ config.packet_limit # 0 => Len(q) <= config.packet_limit
      /\ config.byte_limit # 0 => Bytes(q) <= config.byte_limit
  BY DEF QueueSound, WithinLimits, Bytes
<1> QED
  BY <1>1, <1>2 DEF good, good_with

\* A drop-head queue without a byte limit makes room for one packet at a time.
LEMMA HeadDropsOne ==
  ASSUME QueueSound, config.policy = "drophead", config.byte_limit = 0,
         NEW p \in Packet, EnqueueHead(p)
  PROVE  ~failed'
<1> DEFINE q == internal_queue
           s == Append(internal_queue, p)
<1>1. /\ config \in Configs /\ Len(q) \in Nat
      /\ config.packet_limit # 0 => Len(q) <= config.packet_limit
  BY SoundFacts DEF good_with
<1>2. PICK k \in 0..(Len(q) + 1) :
              /\ Len(s) = Len(q) + 1
              /\ \A j \in 0..(k - 1) : ~GoodWithout(s, Bytes(s), j)
              /\ GoodWithout(s, Bytes(s), k)
              /\ failed' = \E j \in 1..k : ~GoodWithout(s, Bytes(s), j)
  BY HeadFacts
<1>3. GoodWithout(s, Bytes(s), 1)
  <2>1. Len(s) - 1 = Len(q)
    BY <1>1, <1>2
  <2> QED
    BY <1>1, <2>1 DEF GoodWithout, good_with
<1> HIDE DEF s, q
<1>4. k <= 1
  <2> SUFFICES ASSUME k > 1 PROVE FALSE
    BY <1>1
  <2>1. 1 \in 0..(k - 1)
    BY <1>1
  <2> QED
    BY <1>2, <1>3, <2>1
<1>5. \A j \in 1..k : j = 1
  BY <1>1, <1>4
<1> QED
  BY <1>2, <1>3, <1>5

\* The other disciplines never fail.
LEMMA OthersDoNotFail ==
  ASSUME QueueSound, QueueSound', AnetInv, config.policy # "activenet",
         \/ Plain /\ Next /\ UNCHANGED <<pieVars, anetVars>>
         \/ config.policy = "pie" /\ PieNext /\ UNCHANGED anetVars
  PROVE  AnetInv'
<1>1. (HeadCountsPackets => ~failed) /\ config \in Configs
  BY SoundFacts DEF AnetInv, FailOK
<1>2. config' = config
  BY DEF Next, PieNext, enqueue, dequeue, pie_enqueue, pie_dequeue, Tick, vars
<1>3. good'
  BY <1>2, GoodAfter
<1>4. HeadCountsPackets => ~failed'
  <2> SUFFICES ASSUME HeadCountsPackets PROVE ~failed'
    OBVIOUS
  <2>1. CASE Plain /\ enqueue
    <3>1. PICK z \in Sizes : Enqueue([id |-> offered + 1, size |-> z])
      BY <2>1 DEF enqueue
    <3> DEFINE p == [id |-> offered + 1, size |-> z]
    <3>2. p \in Packet /\ Enqueue(p)
      <4>1. offered < MaxPackets
        BY <2>1 DEF enqueue
      <4> QED
        BY <3>1, <4>1, ArrivalFacts
    <3> HIDE DEF p
    <3>3. CASE config.policy = "drophead" /\ EnqueueHead(p)
      BY <1>1, <3>2, <3>3, HeadDropsOne DEF HeadCountsPackets
    <3>4. CASE EnqueueTail(p)
      BY <1>3, <3>4 DEF EnqueueTail
    <3>5. CASE UNCHANGED failed
      BY <1>1, <3>5
    <3> QED
      BY <3>2, <3>3, <3>4, <3>5 DEF Enqueue
  <2>2. CASE dequeue
    BY <1>3, <2>2 DEF dequeue
  <2>3. CASE pie_enqueue
    BY <1>3, <2>3 DEF pie_enqueue
  <2>4. CASE Tick
    BY <1>1, <2>4 DEF Tick, vars
  <2> QED
    BY <2>1, <2>2, <2>3, <2>4 DEF Next, PieNext, pie_dequeue
<1> QED
  BY <1>2, <1>4 DEF AnetInv, OverfilledByOthers, FailOK

\* A dequeue of ActiveNet.
LEMMA AnetDequeueInv ==
  ASSUME QueueSound, AnetInv, config.policy = "activenet", anet_dequeue
  PROVE  AnetInv'
<1> DEFINE q == internal_queue
           r == RemoveAt(internal_queue, 1)
<1>1. /\ config \in Configs /\ q \in Seq(Packet) /\ Len(q) \in Nat /\ Bytes(q) \in Nat
      /\ queue_size_in_packets = Len(q) /\ queue_size_in_bytes = Bytes(q)
      /\ offered \in Nat
  BY SoundFacts
<1>2. /\ q # <<>> /\ internal_queue' = r /\ returned' = q[1]
      /\ queue_size_in_bytes' = queue_size_in_bytes - q[1].size
      /\ queue_size_in_packets' = queue_size_in_packets - 1
      /\ config' = config /\ offered' = offered
      /\ failed' = ~good'
      /\ sent' = sent \cup {q[1].id}
      /\ log_file' = log_file /\ msg_in_drop' = msg_in_drop
      /\ header' = header /\ cut' = cut
  BY DEF anet_dequeue, dequeue, Dequeued
<1>3. /\ Len(q) > 0 /\ q[1] \in Packet /\ r \in Seq(Packet) /\ Len(r) = Len(q) - 1
      /\ \A i \in 1..(Len(q) - 1) : r[i] = q[i + 1]
      /\ q[1].size \in Nat \ {0}
  BY <1>1, <1>2, FrontFacts
<1>4. HeadersOK /\ IdsOK /\ CutOK /\ OverfilledByOthers
  BY DEF AnetInv
<1>5. /\ \A i \in 1..Len(q) : q[i].id \in 1..offered /\ q[i].size = FrameSize
      /\ \A i, j \in 1..Len(q) : i < j => q[i].id < q[j].id
      /\ \A i \in 1..Len(q) : q[i].id \notin sent /\ q[i].id \notin cut
      /\ sent \subseteq 1..offered /\ cut \subseteq 1..offered
      /\ \A i \in sent : i \notin cut
  BY <1>4 DEF IdsOK
<1>6. \A n \in 1..Len(q) : header[q[n].id].udp => good_with(Bytes(SubSeq(q, 1, n)), n)
  BY <1>4 DEF AnetInv, OverfilledByOthers
<1> HIDE DEF q, r
<1>7. \A i \in 1..Len(r) : i + 1 \in 1..Len(q) /\ r[i] = q[i + 1]
  BY <1>1, <1>3
<1>8. 1 \in 1..Len(q)
  BY <1>1, <1>3
<1>9. HeadersOK' /\ CutOK'
  BY <1>2, <1>4 DEF HeadersOK, CutOK, GivesWay
<1>10. IdsOK'
  <2>1. \A i \in 1..Len(r) : r[i].id \in 1..offered /\ r[i].size = FrameSize
    BY <1>5, <1>7
  <2>2. \A i, j \in 1..Len(r) : i < j => r[i].id < r[j].id
    <3> SUFFICES ASSUME NEW i \in 1..Len(r), NEW j \in 1..Len(r), i < j
                 PROVE  r[i].id < r[j].id
      OBVIOUS
    <3>1. i + 1 < j + 1
      BY <1>1, <1>3
    <3> QED
      BY <1>5, <1>7, <3>1
  <2>3. \A i \in 1..Len(r) : r[i].id \notin sent' /\ r[i].id \notin cut
    <3> TAKE i \in 1..Len(r)
    <3>1. q[1].id < q[i + 1].id
      <4>1. 1 < i + 1
        BY <1>1, <1>3
      <4> QED
        BY <1>5, <1>7, <1>8, <4>1
    <3>2. q[1].id # q[i + 1].id
      BY <1>5, <1>7, <1>8, <3>1
    <3> QED
      BY <1>2, <1>5, <1>7, <3>2
  <2>4. sent' \subseteq 1..offered /\ \A i \in sent' : i \notin cut
    BY <1>2, <1>5, <1>8
  <2> QED
    BY <1>2, <1>5, <2>1, <2>2, <2>3, <2>4 DEF IdsOK
<1>11. ASSUME NEW n \in 1..Len(r), header[r[n].id].udp
       PROVE  good_with(Bytes(SubSeq(r, 1, n)), n)
  <2>1. good_with(Bytes(SubSeq(q, 1, n + 1)), n + 1)
    BY <1>6, <1>7, <1>11
  <2>2. n \in 0..Len(r) /\ n + 1 \in 0..Len(q) /\ n <= n + 1 /\ n \in Int /\ n + 1 \in Int
    BY <1>1, <1>3
  <2>3. /\ \A i \in 1..Len(q) : q[i].size = FrameSize
        /\ \A i \in 1..Len(r) : r[i].size = FrameSize
    BY <1>5, <1>7
  <2>4. /\ Bytes(SubSeq(r, 1, n)) \in Int /\ Bytes(SubSeq(q, 1, n + 1)) \in Int
        /\ Bytes(SubSeq(r, 1, n)) <= Bytes(SubSeq(q, 1, n + 1))
    BY <1>1, <1>3, <2>2, <2>3, UniformBytes
  <2> QED
    BY <1>1, <2>1, <2>2, <2>4, GoodMonotonic
<1>12. OverfilledByOthers'
  BY <1>2, <1>11 DEF OverfilledByOthers, good_with, Bytes
<1>13. FailOK'
  <2> SUFFICES ASSUME \A i \in 1..offered : header[i].udp
               PROVE  good_with(Bytes(q) - q[1].size, Len(q) - 1)
    BY <1>1, <1>2 DEF FailOK, good, good_with
  <2>1. Len(q) \in 1..Len(q)
    BY <1>1, <1>3
  <2>2. good_with(Bytes(SubSeq(q, 1, Len(q))), Len(q))
    BY <1>5, <1>6, <2>1
  <2>3. good_with(Bytes(q), Len(q))
    BY <1>1, <2>2, WholeBytes
  <2>4. Bytes(q) - q[1].size <= Bytes(q) /\ Len(q) - 1 <= Len(q)
    BY <1>1, <1>3
  <2>5. Bytes(q) - q[1].size \in Int /\ Len(q) - 1 \in Int
    BY <1>1, <1>3
  <2> QED
    BY <1>1, <2>3, <2>4, <2>5, GoodMonotonic
<1> QED
  BY <1>9, <1>10, <1>12, <1>13 DEF AnetInv

\* What the invariant says of the packets that a clean-up leaves.
LEMMA KeptFacts ==
  ASSUME QueueSound, AnetInv, config.policy = "activenet",
         NEW kept \in Seq(Packet), NEW d,
         Leaves(kept, d, internal_queue, Len(internal_queue))
  PROVE  /\ Len(kept) \in Nat
         /\ \A i \in 1..Len(kept) :
              /\ kept[i].id \in 1..offered /\ kept[i].size = FrameSize
              /\ kept[i].id \notin sent /\ kept[i].id \notin cut
         /\ \A i, j \in 1..Len(kept) : i < j => kept[i].id < kept[j].id
         /\ \A n \in 1..Len(kept) :
              header[kept[n].id].udp => good_with(Bytes(SubSeq(kept, 1, n)), n)
<1> DEFINE q == internal_queue
<1>1. config \in Configs /\ q \in Seq(Packet) /\ Len(q) \in Nat
  BY SoundFacts
<1>2. /\ \A i \in 1..Len(q) : q[i].id \in 1..offered /\ q[i].size = FrameSize
      /\ \A i, j \in 1..Len(q) : i < j => q[i].id < q[j].id
      /\ \A i \in 1..Len(q) : q[i].id \notin sent /\ q[i].id \notin cut
  BY DEF AnetInv, IdsOK
<1>3. \A n \in 1..Len(q) : header[q[n].id].udp => good_with(Bytes(SubSeq(q, 1, n)), n)
  BY DEF AnetInv, OverfilledByOthers
<1>4. /\ Len(kept) \in Nat /\ Len(kept) <= Len(q)
      /\ \A i \in 1..Len(kept) : d[i] \in 0..(Len(q) - Len(kept)) /\ kept[i] = q[i + d[i]]
      /\ \A i, j \in 1..Len(kept) : i < j => d[i] <= d[j]
  BY LenProperties DEF Leaves
<1> HIDE DEF q
<1>5. \A i \in 1..Len(kept) : d[i] \in Nat /\ i + d[i] \in 1..Len(q) /\ kept[i] = q[i + d[i]]
  BY <1>1, <1>4
<1>6. \A i \in 1..Len(kept) : /\ kept[i].id \in 1..offered /\ kept[i].size = FrameSize
                              /\ kept[i].id \notin sent /\ kept[i].id \notin cut
  BY <1>2, <1>5
<1>7. ASSUME NEW i \in 1..Len(kept), NEW j \in 1..Len(kept), i < j
      PROVE  kept[i].id < kept[j].id
  <2>1. i + d[i] < j + d[j]
    BY <1>4, <1>5, <1>7, SMTT(30)
  <2> QED
    BY <1>2, <1>5, <2>1
<1>8. ASSUME NEW n \in 1..Len(kept), header[kept[n].id].udp
      PROVE  good_with(Bytes(SubSeq(kept, 1, n)), n)
  <2> DEFINE m == n + d[n]
  <2>1. m \in 1..Len(q) /\ n <= m /\ n \in Int /\ m \in Int /\ kept[n] = q[m]
    BY <1>1, <1>4, <1>5
  <2> HIDE DEF m
  <2>2. good_with(Bytes(SubSeq(q, 1, m)), m)
    BY <1>3, <1>8, <2>1
  <2>3. n \in 0..Len(kept) /\ m \in 0..Len(q)
    BY <1>1, <1>4, <2>1
  <2>4. /\ \A i \in 1..Len(q) : q[i].size = FrameSize
        /\ \A i \in 1..Len(kept) : kept[i].size = FrameSize
    BY <1>2, <1>6
  <2>5. /\ Bytes(SubSeq(kept, 1, n)) \in Int /\ Bytes(SubSeq(q, 1, m)) \in Int
        /\ Bytes(SubSeq(kept, 1, n)) <= Bytes(SubSeq(q, 1, m))
    BY <1>1, <2>1, <2>3, <2>4, UniformBytes
  <2> QED
    BY <1>1, <2>1, <2>2, <2>5, GoodMonotonic
<1> QED
  BY <1>4, <1>6, <1>7, <1>8

\* The arrival of a packet at the queue that a clean-up leaves.
LEMMA ArrivalInv ==
  ASSUME QueueSound, AnetInv, config.policy = "activenet",
         NEW kept \in Seq(Packet), NEW d,
         Leaves(kept, d, internal_queue, Len(internal_queue)),
         NEW p \in Packet, p.id = offered + 1, p.size = FrameSize,
         NEW h \in Headers,
         header' = Append(header, h), offered' = offered + 1,
         config' = config, sent' = sent, log_file' = log_file,
         \/ internal_queue' = kept
         \/ /\ internal_queue' = Append(kept, p)
            /\ h.udp => good_with(Bytes(internal_queue'), Len(internal_queue')),
         cut \subseteq cut', cut' \subseteq 1..offered,
         \A i \in sent : i \notin cut',
         \A i \in 1..Len(kept) : kept[i].id \notin cut',
         CutOK', failed' => ~log_file
  PROVE  AnetInv'
<1> DEFINE s == Append(kept, p)
           L == Len(kept)
           r == internal_queue'
<1>1. config \in Configs /\ offered \in Nat
  BY SoundFacts
<1>2. /\ HeadersOK'
      /\ \A i \in 1..offered : header'[i] = header[i]
      /\ header'[offered + 1] = h
  BY <1>1, HeaderFacts DEF AnetInv
<1>3. /\ L \in Nat
      /\ \A i \in 1..L : /\ kept[i].id \in 1..offered /\ kept[i].size = FrameSize
                         /\ kept[i].id \notin sent
      /\ \A i, j \in 1..L : i < j => kept[i].id < kept[j].id
      /\ \A n \in 1..L : header[kept[n].id].udp => good_with(Bytes(SubSeq(kept, 1, n)), n)
  BY KeptFacts
<1>4. /\ s \in Seq(Packet) /\ Len(s) = L + 1
      /\ (\A i \in 1..L : s[i] = kept[i]) /\ s[L + 1] = p
  BY AppendProperties
<1>5. sent \subseteq 1..offered /\ cut' \subseteq 1..offered
  BY DEF AnetInv, IdsOK
<1>o. 1..offered \subseteq 1..(offered + 1) /\ offered + 1 \in 1..(offered + 1)
      /\ offered + 1 \notin 1..offered
  BY <1>1
<1> HIDE DEF s, L
<1>6. /\ r \in Seq(Packet) /\ Len(r) \in Nat
      /\ \A i \in 1..Len(r) : (i \in 1..L /\ r[i] = kept[i]) \/ (i = L + 1 /\ r[i] = p)
      /\ Len(r) = L \/ (Len(r) = L + 1 /\ r = s)
  <2>1. CASE r = kept
    BY <1>3, <2>1 DEF L
  <2>2. CASE r = s
    BY <1>3, <1>4, <2>2
  <2> QED
    BY <2>1, <2>2 DEF s
<1>7. \A i \in 1..Len(r) : /\ r[i].id \in 1..(offered + 1) /\ r[i].size = FrameSize
                           /\ r[i].id \notin sent /\ r[i].id \notin cut'
  <2> TAKE i \in 1..Len(r)
  <2>1. CASE i \in 1..L /\ r[i] = kept[i]
    BY <1>3, <1>o, <2>1 DEF L
  <2>2. CASE i = L + 1 /\ r[i] = p
    BY <1>5, <1>o, <2>2
  <2> QED
    BY <1>6, <2>1, <2>2
<1>8. ASSUME NEW i \in 1..Len(r), NEW j \in 1..Len(r), i < j
      PROVE  r[i].id < r[j].id
  <2>1. i \in 1..L /\ r[i] = kept[i]
    BY <1>3, <1>6, <1>8
  <2>2. CASE j \in 1..L /\ r[j] = kept[j]
    BY <1>3, <1>8, <2>1, <2>2
  <2>3. CASE j = L + 1 /\ r[j] = p
    <3>1. r[i].id \in 1..offered /\ r[j].id = offered + 1
      BY <1>3, <2>1, <2>3
    <3> QED
      BY <1>1, <3>1, SMTT(30)
  <2> QED
    BY <1>6, <2>2, <2>3
<1>9. IdsOK'
  <2>1. sent' \subseteq 1..offered' /\ cut' \subseteq 1..offered'
    BY <1>5, <1>o
  <2>2. \A i \in 1..Len(r) : /\ r[i].id \in 1..offered' /\ r[i].size = FrameSize
                             /\ r[i].id \notin sent' /\ r[i].id \notin cut'
    BY <1>7
  <2>3. \A i \in sent' : i \notin cut'
    OBVIOUS
  <2> QED
    BY <1>8, <2>1, <2>2, <2>3 DEF IdsOK
<1>10. ASSUME NEW n \in 1..Len(r), header'[r[n].id].udp
       PROVE  good_with(Bytes(SubSeq(r, 1, n)), n)
  <2>1. CASE n \in 1..L /\ r[n] = kept[n]
    <3>1. good_with(Bytes(SubSeq(kept, 1, n)), n)
      BY <1>2, <1>3, <1>10, <2>1, ZenonT(30)
    <3>2. n \in 0..Len(kept) /\ n \in 0..Len(r) /\ n <= n /\ n \in Int
      BY <1>3, <1>6, <2>1 DEF L
    <3>3. /\ \A i \in 1..Len(r) : r[i].size = FrameSize
          /\ \A i \in 1..Len(kept) : kept[i].size = FrameSize
      BY <1>3, <1>7 DEF L
    <3>4. /\ Bytes(SubSeq(kept, 1, n)) \in Int /\ Bytes(SubSeq(r, 1, n)) \in Int
          /\ Bytes(SubSeq(r, 1, n)) <= Bytes(SubSeq(kept, 1, n))
      BY <1>6, <3>2, <3>3, UniformBytes
    <3> QED
      BY <1>1, <3>1, <3>2, <3>4, GoodMonotonic
  <2>2. CASE n = L + 1 /\ r[n] = p
    <3>1. n = Len(r) /\ r = s
      BY <1>3, <1>6, <2>2
    <3>2. h.udp
      BY <1>2, <1>10, <2>2
    <3>3. r # kept
      BY <1>3, <1>4, <3>1 DEF L
    <3>4. good_with(Bytes(r), Len(r))
      BY <3>2, <3>3
    <3>5. SubSeq(r, 1, Len(r)) = r
      BY <1>6, WholeBytes
    <3> QED
      BY <3>1, <3>4, <3>5
  <2> QED
    BY <1>6, <2>1, <2>2
<1>11. OverfilledByOthers'
  BY <1>10 DEF OverfilledByOthers, good_with, Bytes
<1>12. FailOK'
  BY DEF FailOK
<1> QED
  BY <1>2, <1>9, <1>11, <1>12 DEF AnetInv

\* enqueue of ActiveNet.
LEMMA AnetEnqueueInv ==
  ASSUME QueueSound, AnetInv, config.policy = "activenet", anet_enqueue
  PROVE  AnetInv'
<1> DEFINE p == [id |-> offered + 1, size |-> FrameSize]
           q == internal_queue
<1>1. /\ ~failed /\ offered < MaxPackets /\ config' = config
      /\ offered' = offered + 1 /\ log_file' = log_file /\ sent' = sent
  BY DEF anet_enqueue
<1>2. PICK h \in Headers :
        /\ header' = Append(header, h)
        /\ IF h.udp THEN EnqueueUdp(p, h)
           ELSE accept(p) /\ UNCHANGED <<msg_in_drop, cut, failed>>
  BY DEF anet_enqueue
<1>3. p \in Packet /\ p.id = offered + 1 /\ p.size = FrameSize
  BY <1>1, ActiveNetAssumption, ArrivalFacts
<1>4. q \in Seq(Packet) /\ offered \in Nat
  BY SoundFacts
<1>5. HeadersOK /\ IdsOK /\ CutOK
  BY DEF AnetInv
<1>6. /\ \A i \in 1..offered : header'[i] = header[i]
      /\ \A c \in 1..offered :
           GivesWay(c) \/ (h.udp /\ h.priority = 1 /\ Stale(header[c], h.msg_no))
             => GivesWay(c)'
  BY <1>1, <1>2, <1>4, <1>5, HeaderFacts
<1>7. /\ cut \subseteq 1..offered /\ \A i \in sent : i \notin cut
      /\ \A i \in 1..Len(q) : q[i].id \in 1..offered /\ q[i].id \notin cut /\ q[i].id \notin sent
  BY <1>5 DEF IdsOK
<1>8. /\ \/ msg_in_drop = -1
         \/ \E c \in cut : GivesWay(c) /\ header[c].msg_no = msg_in_drop
      /\ \A j \in cut : \E c \in cut : GivesWay(c) /\ header[c].msg_no = header[j].msg_no
  BY <1>5 DEF CutOK
<1>9. ASSUME msg_in_drop' = -1 \/ \E c \in cut' : /\ c \in 1..offered /\ GivesWay(c)'
                                                  /\ header[c].msg_no = msg_in_drop',
             \A j \in cut' : /\ j \in 1..offered
                             /\ \E c \in cut' : /\ c \in 1..offered /\ GivesWay(c)'
                                                /\ header[c].msg_no = header[j].msg_no
      PROVE  CutOK'
  BY <1>6, <1>9 DEF CutOK
<1> HIDE DEF p
<1>10. CASE cut' = cut /\ msg_in_drop' = msg_in_drop
  <2>1. CutOK'
    <3>1. \A c \in cut : c \in 1..offered /\ (GivesWay(c) => GivesWay(c)')
      BY <1>6, <1>7
    <3> QED
      BY <1>8, <1>9, <1>10, <3>1
  <2>2. PICK d : Leaves(q, d, q, Len(q))
    BY <1>4, LeavesAll
  <2>3. CASE h.udp
    <3>1. \E kept \in Seq(Packet) :
              /\ \E e : Leaves(kept, e, q, Len(q))
              /\ \/ internal_queue' = kept
                 \/ /\ internal_queue' = Append(kept, p)
                    /\ good_with(Bytes(internal_queue'), Len(internal_queue'))
              /\ failed' => ~log_file
      BY <1>2, <1>3, <2>3, UdpFacts
    <3>2. PICK kept \in Seq(Packet) :
              /\ \E e : Leaves(kept, e, q, Len(q))
              /\ \/ internal_queue' = kept
                 \/ /\ internal_queue' = Append(kept, p)
                    /\ good_with(Bytes(internal_queue'), Len(internal_queue'))
              /\ failed' => ~log_file
      BY <3>1
    <3>3. PICK e : Leaves(kept, e, q, Len(q))
      BY <3>2
    <3>4. \A i \in 1..Len(kept) : kept[i].id \notin cut'
      BY <1>10, <3>3, KeptFacts
    <3> QED
      BY <1>1, <1>2, <1>3, <1>7, <1>10, <2>1, <3>2, <3>3, <3>4, ArrivalInv
  <2>4. CASE ~h.udp
    <3>1. internal_queue' = Append(q, p) /\ failed' = failed
      BY <1>2, <2>4 DEF accept
    <3>2. \A i \in 1..Len(q) : q[i].id \notin cut'
      BY <1>7, <1>10
    <3> QED
      BY <1>1, <1>2, <1>3, <1>4, <1>7, <1>10, <2>1, <2>2, <2>4, <3>1, <3>2, ArrivalInv
  <2> QED
    BY <2>3, <2>4
<1>11. CASE h.udp /\ ~(cut' = cut /\ msg_in_drop' = msg_in_drop)
  <2> DEFINE s == dropStaleFrames(h.msg_no)
             kept == s.kept
  <2>1. EnqueueUdp(p, h)
    BY <1>2, <1>11
  <2>2. /\ kept \in Seq(Packet) /\ \E e : Leaves(kept, e, q, Len(q))
        /\ \/ internal_queue' = kept
           \/ /\ internal_queue' = Append(kept, p)
              /\ good_with(Bytes(internal_queue'), Len(internal_queue'))
        /\ msg_in_drop' = s.msg /\ cut' = cut \cup s.cut /\ h.priority = 1
        /\ failed' => ~log_file
    BY <1>3, <1>11, <2>1, UdpFacts
  <2>3. SweptOK(s, Len(q), h.msg_no)
    BY <1>4, <1>5, SweptFrames
  <2> HIDE DEF s
  <2>4. /\ \A j \in s.cut : j \in 1..offered /\ j \notin cut /\ j \notin sent
        /\ \A i \in 1..Len(kept) : kept[i].id \notin s.cut
        /\ \/ s.msg = msg_in_drop
           \/ \E c \in s.cut : Stale(header[c], h.msg_no) /\ header[c].msg_no = s.msg
        /\ \A j \in s.cut :
             \/ header[j].msg_no = msg_in_drop
             \/ \E c \in s.cut :
                  Stale(header[c], h.msg_no) /\ header[c].msg_no = header[j].msg_no
    <3>1. s.cut \subseteq {q[i].id : i \in 1..Len(q)}
      BY <2>3 DEF SweptOK
    <3>2. \A j \in s.cut : j \in 1..offered /\ j \notin cut /\ j \notin sent
      BY <1>7, <3>1
    <3> QED
      BY <2>3, <3>2 DEF SweptOK
  <2>5. PICK e : Leaves(kept, e, q, Len(q))
    BY <2>2
  <2>6. \A i \in 1..Len(kept) : kept[i].id \notin cut
    BY <2>2, <2>5, KeptFacts
  <2>7. \A j \in s.cut : header[j].msg_no # -1
    <3>1. \A j \in 1..offered : header[j].msg_no \in Nat
      <4>1. \A j \in 1..offered : header[j] \in Header
        BY <1>5, ElementOfSeq DEF HeadersOK
      <4> QED
        BY <4>1 DEF Header
    <3> QED
      BY <2>4, <3>1
  <2>8. CutOK'
    <3>1. \A c \in cut' : c \in 1..offered
      BY <1>7, <2>2, <2>4
    <3>2. /\ \A c \in cut : GivesWay(c) => GivesWay(c)'
          /\ \A c \in s.cut : Stale(header[c], h.msg_no) => GivesWay(c)'
      BY <1>6, <1>7, <1>11, <2>2, <2>4
    <3>3. \/ s.msg = -1
          \/ \E c \in cut' : GivesWay(c)' /\ header[c].msg_no = s.msg
      BY <1>8, <2>2, <2>4, <3>2
    <3>4. \A j \in cut' : \E c \in cut' : GivesWay(c)' /\ header[c].msg_no = header[j].msg_no
      BY <1>8, <2>2, <2>4, <2>7, <3>2
    <3> QED
      BY <1>9, <2>2, <3>1, <3>3, <3>4
  <2>9. /\ cut \subseteq cut' /\ cut' \subseteq 1..offered
        /\ \A i \in sent : i \notin cut'
        /\ \A i \in 1..Len(kept) : kept[i].id \notin cut'
    BY <1>7, <2>2, <2>4, <2>6
  <2> HIDE DEF kept
  <2> QED
    BY <1>1, <1>2, <1>3, <2>2, <2>5, <2>8, <2>9, ArrivalInv
<1>12. ~h.udp => cut' = cut /\ msg_in_drop' = msg_in_drop
  BY <1>2
<1> QED
  BY <1>10, <1>11, <1>12

\* ActiveNet's invariant.
THEOREM ActiveNetInvariance == AllSpec => []AnetInv
<1>1. AllInit => AnetInv
  <2> SUFFICES ASSUME AllInit PROVE AnetInv
    OBVIOUS
  <2>1. /\ internal_queue = <<>> /\ offered = 0 /\ failed = FALSE
        /\ msg_in_drop = -1 /\ header = <<>> /\ sent = {} /\ cut = {}
    BY DEF AllInit, Init, AnetInit
  <2>2. HeadersOK
    BY <2>1 DEF HeadersOK
  <2>3. IdsOK /\ OverfilledByOthers
    BY <2>1 DEF IdsOK, OverfilledByOthers
  <2>4. CutOK /\ FailOK
    BY <2>1 DEF CutOK, FailOK
  <2> QED
    BY <2>2, <2>3, <2>4 DEF AnetInv
<1>2. QueueSound /\ QueueSound' /\ AnetInv /\ [AllNext]_allVars => AnetInv'
  <2> SUFFICES ASSUME QueueSound, QueueSound', AnetInv, [AllNext]_allVars
               PROVE  AnetInv'
    OBVIOUS
  <2>1. CASE \/ Plain /\ Next /\ UNCHANGED <<pieVars, anetVars>>
             \/ config.policy = "pie" /\ PieNext /\ UNCHANGED anetVars
    <3>1. config.policy # "activenet"
      BY <2>1 DEF Plain
    <3> QED
      BY <2>1, <3>1, OthersDoNotFail
  <2>2. CASE config.policy = "activenet" /\ anet_enqueue
    BY <2>2, AnetEnqueueInv
  <2>3. CASE config.policy = "activenet" /\ anet_dequeue
    BY <2>3, AnetDequeueInv
  <2>4. CASE UNCHANGED allVars
    <3>1. /\ config' = config /\ internal_queue' = internal_queue
          /\ offered' = offered /\ failed' = failed /\ log_file' = log_file
          /\ msg_in_drop' = msg_in_drop /\ header' = header
          /\ sent' = sent /\ cut' = cut
      BY <2>4 DEF allVars, vars, anetVars
    <3>2. CutOK => CutOK'
      BY <3>1 DEF CutOK, GivesWay
    <3> QED
      BY <3>1, <3>2 DEF AnetInv, HeadersOK, IdsOK, OverfilledByOthers, FailOK,
                        good_with, Bytes
  <2> QED
    BY <2>1, <2>2, <2>3, <2>4 DEF AllNext, AnetNext
<1> QED
  BY <1>1, <1>2, QueueStaysSound, PTL DEF AllSpec

\* ActiveNet's queue is overfilled only by traffic that is not UDP, and the
\* ferry dies of nothing else than that and a missing log file
\* (DiesOnlyOverfilled), whatever the sizes and the limits are, as long as no
\* drop-head queue is given a byte limit (a single large packet may then need
\* two packets to go, and the code asserts after the first).
THEOREM DeathsExplained ==
  ASSUME HeadCountsPackets
  PROVE  AllSpec => []DiesOnlyOverfilled
<1>1. AnetInv => DiesOnlyOverfilled
  BY DEF AnetInv, FailOK, DiesOnlyOverfilled
<1> QED
  BY <1>1, ActiveNetInvariance, PTL

\* Whatever headers the packets carry and whatever the limit is, a frame whose
\* first packet was sent loses a later one only to another packet of the same
\* number that was cut because it gave way (FrameNotTorn).
THEOREM FramesNeverTorn == AllSpec => []FrameNotTorn
<1>1. AnetInv => FrameNotTorn
  <2> SUFFICES ASSUME AnetInv, config.policy = "activenet",
                      NEW i \in sent, NEW j \in cut,
                      header[i].msg_no = header[j].msg_no
               PROVE  \E c \in cut \ {i} : GivesWay(c) /\ header[c].msg_no = header[i].msg_no
    BY DEF FrameNotTorn
  <2>1. i \notin cut
    BY DEF AnetInv, IdsOK
  <2>2. PICK c \in cut : GivesWay(c) /\ header[c].msg_no = header[j].msg_no
    BY DEF AnetInv, CutOK
  <2> QED
    BY <2>1, <2>2
<1> QED
  BY <1>1, ActiveNetInvariance, PTL
------------------------------------------------------------------------------
(* PIE.                                                                     *)

PieState ==
  [drop_prob : 0..One, burst_allowance : Nat, qdelay_old : Nat,
   current_qdelay : Nat, dq_count : Int, dq_tstamp : Nat, avg_dq_rate : Nat,
   last_update : Nat]

\* A state with one field changed.
SetProb(r, x) == [r EXCEPT !.drop_prob = x]
SetBurst(r, x) == [r EXCEPT !.burst_allowance = x]
SetOld(r, x) == [r EXCEPT !.qdelay_old = x]
SetCurrent(r, x) == [r EXCEPT !.current_qdelay = x]
SetCount(r, x) == [r EXCEPT !.dq_count = x]
SetStamp(r, x) == [r EXCEPT !.dq_tstamp = x]
SetRate(r, x) == [r EXCEPT !.avg_dq_rate = x]
SetUpdate(r, x) == [r EXCEPT !.last_update = x]

\* The fields of a state.
LEMMA PieFields ==
  ASSUME NEW r \in PieState
  PROVE  /\ r.drop_prob \in 0..One /\ r.burst_allowance \in Nat
         /\ r.qdelay_old \in Nat /\ r.current_qdelay \in Nat
         /\ r.dq_count \in Int /\ r.dq_tstamp \in Nat
         /\ r.avg_dq_rate \in Nat /\ r.last_update \in Nat
BY DEF PieState

\* Changing a field leaves the others; one lemma for each field.
LEMMA SetProbFacts ==
  ASSUME NEW r \in PieState, NEW x \in 0..One
  PROVE  LET s == SetProb(r, x)
         IN /\ s \in PieState /\ s.drop_prob = x
            /\ s.burst_allowance = r.burst_allowance /\ s.qdelay_old = r.qdelay_old
            /\ s.current_qdelay = r.current_qdelay /\ s.dq_count = r.dq_count
            /\ s.dq_tstamp = r.dq_tstamp /\ s.avg_dq_rate = r.avg_dq_rate
            /\ s.last_update = r.last_update
BY ZenonT(60) DEF PieState, SetProb

\* The same for burst_allowance.
LEMMA SetBurstFacts ==
  ASSUME NEW r \in PieState, NEW x \in Nat
  PROVE  LET s == SetBurst(r, x)
         IN /\ s \in PieState /\ s.burst_allowance = x
            /\ s.drop_prob = r.drop_prob /\ s.qdelay_old = r.qdelay_old
            /\ s.current_qdelay = r.current_qdelay /\ s.dq_count = r.dq_count
            /\ s.dq_tstamp = r.dq_tstamp /\ s.avg_dq_rate = r.avg_dq_rate
            /\ s.last_update = r.last_update
BY ZenonT(60) DEF PieState, SetBurst

\* The same for qdelay_old.
LEMMA SetOldFacts ==
  ASSUME NEW r \in PieState, NEW x \in Nat
  PROVE  LET s == SetOld(r, x)
         IN /\ s \in PieState /\ s.qdelay_old = x
            /\ s.drop_prob = r.drop_prob /\ s.burst_allowance = r.burst_allowance
            /\ s.current_qdelay = r.current_qdelay /\ s.dq_count = r.dq_count
            /\ s.dq_tstamp = r.dq_tstamp /\ s.avg_dq_rate = r.avg_dq_rate
            /\ s.last_update = r.last_update
BY ZenonT(60) DEF PieState, SetOld

\* The same for current_qdelay.
LEMMA SetCurrentFacts ==
  ASSUME NEW r \in PieState, NEW x \in Nat
  PROVE  LET s == SetCurrent(r, x)
         IN /\ s \in PieState /\ s.current_qdelay = x
            /\ s.drop_prob = r.drop_prob /\ s.burst_allowance = r.burst_allowance
            /\ s.qdelay_old = r.qdelay_old /\ s.dq_count = r.dq_count
            /\ s.dq_tstamp = r.dq_tstamp /\ s.avg_dq_rate = r.avg_dq_rate
            /\ s.last_update = r.last_update
BY ZenonT(60) DEF PieState, SetCurrent

\* The same for dq_count.
LEMMA SetCountFacts ==
  ASSUME NEW r \in PieState, NEW x \in Int
  PROVE  LET s == SetCount(r, x)
         IN /\ s \in PieState /\ s.dq_count = x
            /\ s.drop_prob = r.drop_prob /\ s.burst_allowance = r.burst_allowance
            /\ s.qdelay_old = r.qdelay_old /\ s.current_qdelay = r.current_qdelay
            /\ s.dq_tstamp = r.dq_tstamp /\ s.avg_dq_rate = r.avg_dq_rate
            /\ s.last_update = r.last_update
BY ZenonT(60) DEF PieState, SetCount

\* The same for dq_tstamp.
LEMMA SetStampFacts ==
  ASSUME NEW r \in PieState, NEW x \in Nat
  PROVE  LET s == SetStamp(r, x)
         IN /\ s \in PieState /\ s.dq_tstamp = x
            /\ s.drop_prob = r.drop_prob /\ s.burst_allowance = r.burst_allowance
            /\ s.qdelay_old = r.qdelay_old /\ s.current_qdelay = r.current_qdelay
            /\ s.dq_count = r.dq_count /\ s.avg_dq_rate = r.avg_dq_rate
            /\ s.last_update = r.last_update
BY ZenonT(60) DEF PieState, SetStamp

\* The same for avg_dq_rate.
LEMMA SetRateFacts ==
  ASSUME NEW r \in PieState, NEW x \in Nat
  PROVE  LET s == SetRate(r, x)
         IN /\ s \in PieState /\ s.avg_dq_rate = x
            /\ s.drop_prob = r.drop_prob /\ s.burst_allowance = r.burst_allowance
            /\ s.qdelay_old = r.qdelay_old /\ s.current_qdelay = r.current_qdelay
            /\ s.dq_count = r.dq_count /\ s.dq_tstamp = r.dq_tstamp
            /\ s.last_update = r.last_update
BY ZenonT(60) DEF PieState, SetRate

\* The same for last_update.
LEMMA SetUpdateFacts ==
  ASSUME NEW r \in PieState, NEW x \in Nat
  PROVE  LET s == SetUpdate(r, x)
         IN /\ s \in PieState /\ s.last_update = x
            /\ s.drop_prob = r.drop_prob /\ s.burst_allowance = r.burst_allowance
            /\ s.qdelay_old = r.qdelay_old /\ s.current_qdelay = r.current_qdelay
            /\ s.dq_count = r.dq_count /\ s.dq_tstamp = r.dq_tstamp
            /\ s.avg_dq_rate = r.avg_dq_rate
BY ZenonT(60) DEF PieState, SetUpdate

\* The maximum and minimum of two numbers.
LEMMA TwoElements ==
  ASSUME NEW a \in Int, NEW b \in Int
  PROVE  /\ Max({a, b}) = IF a >= b THEN a ELSE b
         /\ Min({a, b}) = IF a <= b THEN a ELSE b
<1>1. \E x \in {a, b} : \A y \in {a, b} : x >= y
  OBVIOUS
<1>2. Max({a, b}) \in {a, b} /\ \A y \in {a, b} : Max({a, b}) >= y
  BY <1>1 DEF Max
<1>3. \E x \in {a, b} : \A y \in {a, b} : x <= y
  OBVIOUS
<1>4. Min({a, b}) \in {a, b} /\ \A y \in {a, b} : Min({a, b}) <= y
  BY <1>3, SMTT(30) DEF Min
<1> QED
  BY <1>2, <1>4

\* The remainder of a division is below the divisor.
LEMMA Remainder ==
  ASSUME NEW x \in Int, NEW t \in Nat, t > 0
  PROVE  x % t \in 0..(t - 1)
OBVIOUS

\* The difference cast to int: up to 2^31 below 0 it keeps its sign.
LEMMA SignedFacts ==
  /\ \A n \in Int : Signed(n) \in Int
  /\ Signed(0) = 0
  /\ \A n \in Nat : n <= WORD \div 2 => Signed(0 - n) <= 0
<1>1. ASSUME NEW n \in Int PROVE Signed(n) \in Int
  <2>1. WORD \in Nat /\ WORD > 0
    BY DEF WORD
  <2>2. n % WORD \in 0..(WORD - 1)
    BY <2>1, Remainder
  <2>3. n % WORD \in Int /\ WORD \in Int
    BY <2>1, <2>2
  <2> QED
    BY <2>3 DEF Signed
<1>2. ASSUME NEW n \in Nat, n <= 32768
      PROVE  Signed(0 - n) <= 0
  <2>1. CASE n = 0
    BY <2>1 DEF Signed, WORD
  <2>2. CASE n > 0
    <3>1. (0 - n) % 65536 = 65536 - n
      BY <1>2, <2>2
    <3> QED
      BY <1>2, <2>2, <3>1 DEF Signed, WORD
  <2> QED
    BY <2>1, <2>2
<1>3. Signed(0) = 0 /\ WORD \div 2 = 32768
  BY DEF Signed, WORD
<1> QED
  BY <1>1, <1>2, <1>3

\* Nothing has been measured and nothing would be dropped.
Unrated(r) ==
  /\ r.avg_dq_rate = 0 /\ r.drop_prob = 0
  /\ r.qdelay_old = 0 /\ r.current_qdelay = 0

\* The first part of an update.
LEMMA DelayedFacts ==
  ASSUME NEW r \in PieState, NEW bytes \in Nat
  PROVE  LET s == Delayed(r, bytes)
         IN /\ s \in PieState /\ s.last_update = r.last_update
            /\ s.avg_dq_rate = r.avg_dq_rate /\ s.drop_prob = r.drop_prob
            /\ s.qdelay_old = r.current_qdelay
            /\ r.avg_dq_rate = 0 => s.current_qdelay = 0
<1> DEFINE delay == IF r.avg_dq_rate > 0 THEN bytes \div r.avg_dq_rate ELSE 0
           x == SetOld(r, r.current_qdelay)
           y == SetCurrent(x, delay)
<1>1. delay \in Nat /\ (r.avg_dq_rate = 0 => delay = 0)
  BY PieFields
<1>2. Delayed(r, bytes) = y
  BY Zenon DEF Delayed, SetOld, SetCurrent
<1> HIDE DEF delay
<1>3. /\ x \in PieState /\ x.last_update = r.last_update
      /\ x.avg_dq_rate = r.avg_dq_rate /\ x.drop_prob = r.drop_prob
      /\ x.qdelay_old = r.current_qdelay
  BY PieFields, SetOldFacts
<1> HIDE DEF x
<1>4. /\ y \in PieState /\ y.last_update = x.last_update
      /\ y.avg_dq_rate = x.avg_dq_rate /\ y.drop_prob = x.drop_prob
      /\ y.qdelay_old = x.qdelay_old /\ y.current_qdelay = delay
  BY <1>1, <1>3, SetCurrentFacts
<1> HIDE DEF y
<1> QED
  BY <1>1, <1>2, <1>3, <1>4

\* The probability stays one, and 0 while nothing has been measured.
LEMMA AdjustedFacts ==
  ASSUME NEW r \in PieState, NEW bytes \in Nat
  PROVE  LET s == Adjusted(r, bytes)
         IN /\ s \in PieState /\ s.last_update = r.last_update + t_update
            /\ s.avg_dq_rate = r.avg_dq_rate /\ s.qdelay_old = r.qdelay_old
            /\ s.current_qdelay = r.current_qdelay
            /\ qdelay_ref <= WORD \div 2 /\ Unrated(r) => s.drop_prob = 0
<1> DEFINE adj == Adjustment(r)
           prob == r.drop_prob + adj
           clamped == Min({Max({prob, 0}), One})
           decays == /\ r.current_qdelay = 0 /\ r.qdelay_old = 0
                     /\ prob <= One /\ bytes = 0
           np == IF decays THEN (clamped * 98) \div 100 ELSE clamped
           nb == Max({0, r.burst_allowance - t_update})
           nu == r.last_update + t_update
           x == SetProb(r, np)
           y == SetBurst(x, nb)
           z == SetUpdate(y, nu)
<1>1. Adjusted(r, bytes) = z
  BY Zenon DEF Adjusted, SetProb, SetBurst, SetUpdate
<1>2. /\ r.drop_prob \in 0..One /\ r.burst_allowance \in Nat
      /\ r.qdelay_old \in Nat /\ r.current_qdelay \in Nat
      /\ r.avg_dq_rate \in Nat /\ r.last_update \in Nat
  BY PieFields
<1>3. t_update \in Nat \ {0} /\ qdelay_ref \in Nat
  BY PieAssumption
<1>4. adj \in Int
  <2>1. /\ Signed(r.current_qdelay - qdelay_ref) \in Int
        /\ Signed(r.current_qdelay - r.qdelay_old) \in Int
    BY <1>2, <1>3, SignedFacts
  <2> QED
    BY <1>2, <2>1 DEF Adjustment
<1> HIDE DEF adj
<1>5. prob \in Int
  <2>1. r.drop_prob \in Int
    BY <1>2, SMTT(30) DEF One
  <2> QED
    BY <1>4, <2>1
<1> HIDE DEF prob
<1>6. clamped \in 0..One /\ (prob <= 0 => clamped = 0)
  <2> DEFINE high == Max({prob, 0})
  <2>1. high = IF prob >= 0 THEN prob ELSE 0
    BY <1>5, TwoElements
  <2> HIDE DEF high
  <2>2. high \in Int /\ One \in Int
    BY <1>5, <2>1 DEF One
  <2>3. Min({high, One}) = IF high <= One THEN high ELSE One
    BY <2>2, TwoElements
  <2>4. clamped = Min({high, One})
    BY DEF high
  <2> HIDE DEF clamped
  <2> QED
    BY <1>5, <2>1, <2>3, <2>4 DEF One
<1> HIDE DEF clamped, decays
<1>7. np \in 0..One /\ (prob <= 0 => np = 0)
  BY <1>6 DEF One
<1>8. nb \in Nat /\ nu \in Nat
  BY <1>2, <1>3, TwoElements
<1> HIDE DEF np, nb, nu
<1>9. /\ x \in PieState /\ x.drop_prob = np /\ x.qdelay_old = r.qdelay_old
      /\ x.current_qdelay = r.current_qdelay /\ x.avg_dq_rate = r.avg_dq_rate
  BY <1>7, SetProbFacts
<1> HIDE DEF x
<1>10. /\ y \in PieState /\ y.drop_prob = np /\ y.qdelay_old = r.qdelay_old
       /\ y.current_qdelay = r.current_qdelay /\ y.avg_dq_rate = r.avg_dq_rate
  BY <1>8, <1>9, SetBurstFacts
<1> HIDE DEF y
<1>11. /\ z \in PieState /\ z.drop_prob = np /\ z.qdelay_old = r.qdelay_old
       /\ z.current_qdelay = r.current_qdelay /\ z.avg_dq_rate = r.avg_dq_rate
       /\ z.last_update = nu
  BY <1>8, <1>10, SetUpdateFacts
<1> HIDE DEF z
<1>12. ASSUME qdelay_ref <= WORD \div 2, Unrated(r)
       PROVE  prob <= 0
  <2>1. r.drop_prob = 0 /\ r.current_qdelay = 0 /\ r.qdelay_old = 0
    BY <1>12 DEF Unrated
  <2>2. Signed(0 - 0) = 0 /\ Signed(0 - qdelay_ref) <= 0 /\ Signed(0 - qdelay_ref) \in Int
    BY <1>3, <1>12, SignedFacts
  <2>3. adj = Signed(0 - qdelay_ref) + 10 * Signed(0 - 0)
    BY <2>1, <2>2 DEF Adjustment, adj
  <2> QED
    BY <2>1, <2>2, <2>3 DEF prob
<1> QED
  BY <1>1, <1>7, <1>11, <1>12 DEF nu

\* At most the measurement is forgotten.
LEMMA RestedFacts ==
  ASSUME NEW r \in PieState
  PROVE  LET s == Rested(r)
         IN /\ s \in PieState /\ s.last_update = r.last_update
            /\ s.drop_prob = r.drop_prob /\ s.qdelay_old = r.qdelay_old
            /\ s.current_qdelay = r.current_qdelay
            /\ s.avg_dq_rate \in {0, r.avg_dq_rate}
<1> DEFINE x == SetCount(r, Invalid)
           y == SetRate(x, 0)
           z == SetBurst(y, max_burst)
<1>1. Rested(r) = z \/ Rested(r) = r
  BY Zenon DEF Rested, SetCount, SetRate, SetBurst
<1>2. max_burst \in Nat /\ Invalid \in Int
  BY PieAssumption DEF Invalid
<1>3. /\ x \in PieState /\ x.last_update = r.last_update
      /\ x.drop_prob = r.drop_prob /\ x.qdelay_old = r.qdelay_old
      /\ x.current_qdelay = r.current_qdelay
  BY <1>2, SetCountFacts
<1> HIDE DEF x
<1>4. /\ y \in PieState /\ y.last_update = r.last_update
      /\ y.drop_prob = r.drop_prob /\ y.qdelay_old = r.qdelay_old
      /\ y.current_qdelay = r.current_qdelay /\ y.avg_dq_rate = 0
  BY <1>3, SetRateFacts
<1> HIDE DEF y
<1>5. /\ z \in PieState /\ z.last_update = r.last_update
      /\ z.drop_prob = r.drop_prob /\ z.qdelay_old = r.qdelay_old
      /\ z.current_qdelay = r.current_qdelay /\ z.avg_dq_rate = 0
  BY <1>2, <1>4, SetBurstFacts
<1> HIDE DEF z
<1> QED
  BY <1>1, <1>5

\* An update is made t_update after the one before, and drops nothing as long
\* as no rate has been measured.
LEMMA UpdateFacts ==
  ASSUME NEW r \in PieState, NEW bytes \in Nat
  PROVE  LET s == Update(r, bytes)
         IN /\ s \in PieState /\ s.last_update = r.last_update + t_update
            /\ qdelay_ref <= WORD \div 2 /\ Unrated(r) => Unrated(s)
<1> DEFINE x == Delayed(r, bytes)
           y == Adjusted(x, bytes)
           z == Rested(y)
<1>1. Update(r, bytes) = z
  BY DEF Update
<1>2. /\ x \in PieState /\ x.last_update = r.last_update
      /\ x.avg_dq_rate = r.avg_dq_rate /\ x.drop_prob = r.drop_prob
      /\ x.qdelay_old = r.current_qdelay
      /\ r.avg_dq_rate = 0 => x.current_qdelay = 0
  BY DelayedFacts
<1> HIDE DEF x
<1>3. /\ y \in PieState /\ y.last_update = x.last_update + t_update
      /\ y.avg_dq_rate = x.avg_dq_rate /\ y.qdelay_old = x.qdelay_old
      /\ y.current_qdelay = x.current_qdelay
      /\ qdelay_ref <= WORD \div 2 /\ Unrated(x) => y.drop_prob = 0
  BY <1>2, AdjustedFacts
<1> HIDE DEF y
<1>4. /\ z \in PieState /\ z.last_update = y.last_update
      /\ z.drop_prob = y.drop_prob /\ z.qdelay_old = y.qdelay_old
      /\ z.current_qdelay = y.current_qdelay
      /\ z.avg_dq_rate \in {0, y.avg_dq_rate}
  BY <1>3, RestedFacts
<1> HIDE DEF z
<1>5. ASSUME qdelay_ref <= WORD \div 2, Unrated(r)
      PROVE  Unrated(z)
  <2>1. Unrated(x)
    BY <1>2, <1>5 DEF Unrated
  <2> QED
    BY <1>3, <1>4, <1>5, <2>1 DEF Unrated
<1> QED
  BY <1>1, <1>2, <1>3, <1>4, <1>5

\* What a dequeue measures.
LEMMA MeasuredFacts ==
  ASSUME NEW r \in PieState, NEW size \in Nat, NEW bytes \in Nat, now \in Nat
  PROVE  LET s == Measured(r, size, bytes)
         IN /\ s \in PieState /\ s.last_update = r.last_update
            /\ s.drop_prob = r.drop_prob /\ s.qdelay_old = r.qdelay_old
            /\ s.current_qdelay = r.current_qdelay
<1> DEFINE Same(s) == /\ s \in PieState /\ s.last_update = r.last_update
                      /\ s.drop_prob = r.drop_prob /\ s.qdelay_old = r.qdelay_old
                      /\ s.current_qdelay = r.current_qdelay
<1>1. ASSUME NEW s, Same(s)
      PROVE  Same(Sampled(s, bytes))
  <2> DEFINE dtime == now - s.dq_tstamp
             sample == s.dq_count \div dtime
             rate == IF s.avg_dq_rate = 0 THEN sample
                     ELSE (s.avg_dq_rate - s.avg_dq_rate \div 8) + sample \div 8
             count == IF bytes < dq_threshold THEN Invalid ELSE 0
             stamp == IF bytes < dq_threshold THEN s.dq_tstamp ELSE now
             burst == Max({0, s.burst_allowance - dtime})
             w == SetRate(s, rate)
             x == SetCount(w, count)
             y == SetStamp(x, stamp)
             z == SetBurst(y, burst)
  <2>1. /\ s.burst_allowance \in Nat /\ s.dq_count \in Int /\ s.dq_tstamp \in Nat
        /\ s.avg_dq_rate \in Nat
    BY <1>1, PieFields
  <2>2. CASE ~(s.dq_count > dq_threshold /\ dtime > 0)
    <3>1. Sampled(s, bytes) = s
      BY <2>2, Zenon DEF Sampled
    <3> QED
      BY <1>1, <3>1
  <2>3. CASE s.dq_count > dq_threshold /\ dtime > 0
    <3>1. Sampled(s, bytes) = z
      BY <2>3, Zenon DEF Sampled, SetRate, SetCount, SetStamp, SetBurst
    <3>2. dq_threshold \in Nat
      BY PieAssumption
    <3>3. dtime \in Nat \ {0} /\ s.dq_count \in Nat
      BY <2>1, <2>3, <3>2
    <3> HIDE DEF dtime
    <3>4. sample \in Nat
      BY <3>3
    <3> HIDE DEF sample
    <3>5. rate \in Nat
      BY <2>1, <3>4
    <3>6. count \in Int /\ stamp \in Nat
      BY <2>1, <3>2 DEF Invalid
    <3>7. burst \in Nat
      BY <2>1, <3>3, TwoElements
    <3> HIDE DEF rate, count, stamp, burst
    <3>8. Same(w)
      BY <1>1, <3>5, SetRateFacts
    <3> HIDE DEF w
    <3>9. Same(x)
      BY <3>6, <3>8, SetCountFacts
    <3> HIDE DEF x
    <3>10. Same(y)
      BY <3>6, <3>9, SetStampFacts
    <3> HIDE DEF y
    <3>11. Same(z)
      BY <3>7, <3>10, SetBurstFacts
    <3> HIDE DEF z, Same
    <3> QED
      BY <3>1, <3>11
  <2> QED
    BY <2>2, <2>3
<1> DEFINE begun == IF bytes >= dq_threshold /\ r.dq_count = Invalid
                    THEN SetCount(SetStamp(r, now), 0) ELSE r
           more == SetCount(begun, begun.dq_count + size)
<1>2. Measured(r, size, bytes) = begun \/ Measured(r, size, bytes) = Sampled(more, bytes)
  BY Zenon DEF Measured, SetCount, SetStamp
<1>3. Same(begun)
  <2> DEFINE x == SetStamp(r, now)
             y == SetCount(x, 0)
  <2>1. Same(x)
    BY SetStampFacts
  <2> HIDE DEF x
  <2>2. Same(y)
    BY <2>1, SetCountFacts
  <2> HIDE DEF y, Same
  <2>3. begun = y \/ begun = r
    BY DEF y, x
  <2>4. Same(r)
    BY DEF Same
  <2> QED
    BY <2>2, <2>3, <2>4
<1> HIDE DEF begun
<1>4. Same(more)
  <2>1. begun.dq_count + size \in Int
    BY <1>3, PieFields
  <2> QED
    BY <1>3, <2>1, SetCountFacts
<1> HIDE DEF more
<1>5. Same(Sampled(more, bytes))
  BY <1>1, <1>4
<1>6. Same(Measured(r, size, bytes))
  <2> HIDE DEF Same
  <2> QED
    BY <1>2, <1>3, <1>5
<1> QED
  BY <1>6
------------------------------------------------------------------------------
(* PIE: the updates that are made up for.                                   *)

\* The states that N updates go through, the last of them, and the number of
\* updates that are due at time t when the last was at time last.
After(r, bytes, N) ==
  LET after[n \in 0..N] == IF n = 0 THEN r ELSE Update(after[n - 1], bytes)
  IN after
Caught(r, bytes, N) == After(r, bytes, N)[N]
Turns(last, t) == Max({0, (t - last - 1) \div t_update})

\* What calculate_drop_prob computes, in those terms.
LEMMA CaughtUp ==
  ASSUME NEW r, NEW bytes
  PROVE  calculate_drop_prob(r, bytes) = Caught(r, bytes, Turns(r.last_update, now))
BY DEF calculate_drop_prob, Periods, Caught, After, Turns

\* The updates are made one after the other.
LEMMA AfterSteps ==
  ASSUME NEW r \in PieState, NEW bytes \in Nat, NEW N \in Nat
  PROVE  LET f == After(r, bytes, N)
         IN /\ f \in [0..N -> PieState] /\ f[0] = r
            /\ \A n \in 1..N : f[n] = Update(f[n - 1], bytes)
<1> DEFINE step == [n \in 1..N |-> [s \in PieState |-> Update(s, bytes)]]
           Def(f) == f = [n \in 0..N |-> IF n = 0 THEN r ELSE Update(f[n - 1], bytes)]
<1>1. \A s \in PieState : Update(s, bytes) \in PieState
  BY UpdateFacts
<1>2. step \in Steps(N, PieState)
  BY <1>1 DEF Steps
<1>3. \A n \in 1..N : \A s \in PieState : step[n][s] = Update(s, bytes)
  OBVIOUS
<1> HIDE DEF step, Def
<1>4. PICK f \in [0..N -> PieState] :
        f[0] = r /\ \A n \in 1..N : f[n] = step[n][f[n - 1]]
  <2>1. \E f \in [0..N -> PieState] : Follows(f, r, step, N)
    BY <1>2, RecursionExists
  <2> QED
    BY <2>1 DEF Follows
<1>5. ASSUME NEW n \in 1..N
      PROVE  f[n] = Update(f[n - 1], bytes)
  <2>1. n - 1 \in 0..N
    OBVIOUS
  <2>2. f[n - 1] \in PieState
    BY <2>1
  <2> QED
    BY <1>3, <1>4, <2>2
<1>6. Def(f)
  <2>1. \A n \in 0..N : f[n] = IF n = 0 THEN r ELSE Update(f[n - 1], bytes)
    <3> TAKE n \in 0..N
    <3>1. CASE n = 0
      BY <1>4, <3>1
    <3>2. CASE n \in 1..N
      <4>1. n # 0
        BY <3>2
      <4> QED
        BY <1>5, <3>2, <4>1
    <3> QED
      BY <3>1, <3>2
  <2> QED
    BY <2>1 DEF Def
<1>7. After(r, bytes, N) = CHOOSE g : Def(g)
  BY DEF After, Def
<1> DEFINE g == After(r, bytes, N)
<1>8. Def(g)
  BY <1>6, <1>7
<1> HIDE DEF g
<1>9. /\ g[0] = r /\ \A n \in 1..N : g[n] = Update(g[n - 1], bytes)
      /\ DOMAIN g = 0..N /\ g = [n \in DOMAIN g |-> g[n]]
  <2>1. \A n \in 0..N : g[n] = IF n = 0 THEN r ELSE Update(g[n - 1], bytes)
    BY <1>8 DEF Def
  <2>2. 0 \in 0..N /\ \A n \in 1..N : n \in 0..N /\ n # 0
    OBVIOUS
  <2>3. DOMAIN g = 0..N /\ g = [n \in DOMAIN g |-> g[n]]
    BY <1>8 DEF Def
  <2> QED
    BY <2>1, <2>2, <2>3
<1>10. \A n \in 0..N : g[n] \in PieState
  <2>1. \A n \in 1..N : g[n - 1] \in PieState => g[n] \in PieState
    BY <1>1, <1>9
  <2> QED
    BY <1>9, <2>1, RecursionType
<1>11. g \in [0..N -> PieState]
  BY <1>9, <1>10
<1> QED
  BY <1>9, <1>11 DEF g

\* One update more.
LEMMA CaughtNext ==
  ASSUME NEW r \in PieState, NEW bytes \in Nat
  PROVE  /\ Caught(r, bytes, 0) = r
         /\ \A N \in Nat : /\ Caught(r, bytes, N) \in PieState
                           /\ Caught(r, bytes, N + 1) = Update(Caught(r, bytes, N), bytes)
<1>1. Caught(r, bytes, 0) = r
  BY AfterSteps DEF Caught
<1>2. ASSUME NEW N \in Nat
      PROVE  /\ Caught(r, bytes, N) \in PieState
             /\ Caught(r, bytes, N + 1) = Update(Caught(r, bytes, N), bytes)
  <2> DEFINE f == After(r, bytes, N)
             g == After(r, bytes, N + 1)
             T == {n \in Nat : n <= N => f[n] = g[n]}
  <2>1. /\ f \in [0..N -> PieState] /\ f[0] = r
        /\ \A n \in 1..N : f[n] = Update(f[n - 1], bytes)
    BY AfterSteps
  <2>2. /\ g[0] = r /\ \A n \in 1..(N + 1) : g[n] = Update(g[n - 1], bytes)
    BY AfterSteps
  <2>3. Caught(r, bytes, N) = f[N] /\ Caught(r, bytes, N + 1) = g[N + 1]
    BY DEF Caught
  <2> HIDE DEF f, g
  <2>4. 0 \in T
    BY <2>1, <2>2
  <2>5. \A n \in Nat : n \in T => n + 1 \in T
    <3> SUFFICES ASSUME NEW n \in Nat, n \in T, n + 1 <= N PROVE f[n + 1] = g[n + 1]
      OBVIOUS
    <3>1. n + 1 \in 1..N /\ n + 1 \in 1..(N + 1) /\ (n + 1) - 1 = n /\ f[n] = g[n]
      OBVIOUS
    <3>2. f[n + 1] = Update(f[n], bytes)
      BY <2>1, <3>1
    <3>3. g[n + 1] = Update(g[n], bytes)
      BY <2>2, <3>1
    <3> QED
      BY <3>1, <3>2, <3>3
  <2>6. N \in T
    <3> HIDE DEF T
    <3> QED
      BY <2>4, <2>5, SetInduction
  <2>7. f[N] = g[N]
    BY <2>6
  <2>8. N + 1 \in 1..(N + 1) /\ (N + 1) - 1 = N /\ N \in 0..N
    OBVIOUS
  <2>9. g[N + 1] = Update(g[N], bytes)
    BY <2>2, <2>8
  <2> QED
    BY <2>1, <2>3, <2>7, <2>8, <2>9
<1> QED
  BY <1>1, <1>2

\* N updates take N times t_update, and drop nothing before a rate has been
\* measured.
LEMMA CaughtFacts ==
  ASSUME NEW r \in PieState, NEW bytes \in Nat, NEW N \in Nat
  PROVE  LET s == Caught(r, bytes, N)
         IN /\ s \in PieState /\ s.last_update = r.last_update + N * t_update
            /\ qdelay_ref <= WORD \div 2 /\ Unrated(r) => Unrated(s)
<1> DEFINE Fine(n) ==
             /\ Caught(r, bytes, n).last_update = r.last_update + n * t_update
             /\ qdelay_ref <= WORD \div 2 /\ Unrated(r) => Unrated(Caught(r, bytes, n))
           T == {n \in Nat : Fine(n)}
<1>1. t_update \in Nat /\ r.last_update \in Nat
  BY PieAssumption, PieFields
<1>2. 0 \in T
  <2> DEFINE c == Caught(r, bytes, 0)
  <2>1. c = r
    BY CaughtNext
  <2> HIDE DEF c
  <2>2. 0 * t_update = 0
    BY <1>1
  <2>3. c.last_update = r.last_update + 0 * t_update
    BY <1>1, <2>1, <2>2
  <2>4. Fine(0)
    BY <2>1, <2>3 DEF c
  <2> QED
    BY <2>4
<1>3. \A n \in Nat : n \in T => n + 1 \in T
  <2> SUFFICES ASSUME NEW n \in Nat, Fine(n) PROVE Fine(n + 1)
    OBVIOUS
  <2> DEFINE s == Caught(r, bytes, n)
             u == Caught(r, bytes, n + 1)
  <2>1. s \in PieState /\ u = Update(s, bytes)
    BY CaughtNext
  <2>2. /\ s.last_update = r.last_update + n * t_update
        /\ qdelay_ref <= WORD \div 2 /\ Unrated(r) => Unrated(s)
    OBVIOUS
  <2> HIDE DEF s, u
  <2>3. /\ u.last_update = s.last_update + t_update
        /\ qdelay_ref <= WORD \div 2 /\ Unrated(s) => Unrated(u)
    BY <2>1, UpdateFacts
  <2>4. (n + 1) * t_update = n * t_update + t_update /\ n * t_update \in Nat
    BY <1>1
  <2>5. u.last_update = r.last_update + (n + 1) * t_update
    BY <1>1, <2>2, <2>3, <2>4
  <2> QED
    BY <2>2, <2>3, <2>5 DEF u
<1>4. N \in T
  <2> HIDE DEF T
  <2> QED
    BY <1>2, <1>3, SetInduction
<1>5. Caught(r, bytes, N) \in PieState
  BY CaughtNext
<1> QED
  BY <1>4, <1>5

\* The number of updates due is the only one that leaves at most t_update
\* since the last of them, and was needed for it.
LEMMA TurnsFacts ==
  ASSUME NEW last \in Int, NEW t \in Int
  PROVE  /\ Turns(last, t) \in Nat
         /\ t - last <= Turns(last, t) * t_update + t_update
         /\ Turns(last, t) = 0 \/ Turns(last, t) * t_update < t - last
         /\ \A n \in Nat :
              /\ t - last <= n * t_update + t_update
              /\ n = 0 \/ n * t_update < t - last
              => n = Turns(last, t)
<1> DEFINE x == t - last - 1
           q == x \div t_update
           n0 == Turns(last, t)
<1>1. t_update \in Nat \ {0} /\ x \in Int
  BY PieAssumption
<1>2. q \in Int /\ q * t_update <= x /\ x < q * t_update + t_update
  BY <1>1, Quotient
<1>3. n0 = IF 0 >= q THEN 0 ELSE q
  <2>1. n0 = Max({0, q})
    BY DEF Turns
  <2> HIDE DEF q, n0
  <2> QED
    BY <1>2, <2>1, TwoElements
<1>4. t - last = x + 1
  OBVIOUS
<1> HIDE DEF q, n0
<1>5. n0 \in Nat
  BY <1>2, <1>3
<1> DEFINE d == t - last
<1>6. d \in Int /\ d = x + 1
  BY <1>4
<1> HIDE DEF x, d
<1>7. d <= n0 * t_update + t_update
  <2>1. CASE q > 0
    BY <1>1, <1>2, <1>3, <1>6, <2>1
  <2>2. CASE q = 0
    BY <1>1, <1>2, <1>3, <1>6, <2>2
  <2>3. CASE q < 0
    <3>1. q * t_update + t_update <= 0 * t_update /\ 0 * t_update = 0
      BY <1>1, <1>2, <2>3, ProductMonotonic
    <3>2. n0 = 0 /\ n0 * t_update = 0
      BY <1>1, <1>2, <1>3, <2>3
    <3>3. q * t_update \in Int
      BY <1>1, <1>2
    <3> QED
      BY <1>1, <1>2, <1>6, <3>1, <3>2, <3>3
  <2> QED
    BY <1>2, <2>1, <2>2, <2>3
<1>8. n0 = 0 \/ n0 * t_update < d
  <2>1. CASE q > 0
    <3>1. n0 = q /\ q * t_update \in Int
      BY <1>1, <1>2, <1>3, <2>1
    <3> QED
      BY <1>1, <1>2, <1>6, <3>1
  <2> QED
    BY <1>2, <1>3, <2>1
<1>9. ASSUME NEW n \in Nat, d <= n * t_update + t_update,
             n = 0 \/ n * t_update < d
      PROVE  n = n0
  <2>1. n * t_update \in Int /\ n0 * t_update \in Int
    BY <1>1, <1>5
  <2>2. CASE n < n0
    <3>1. n * t_update + t_update <= n0 * t_update
      BY <1>1, <1>5, <2>2, ProductMonotonic
    <3> QED
      BY <1>1, <1>5, <1>6, <1>8, <1>9, <2>1, <2>2, <3>1
  <2>3. CASE n0 < n
    <3>1. n0 * t_update + t_update <= n * t_update
      BY <1>1, <1>5, <2>3, ProductMonotonic
    <3> QED
      BY <1>1, <1>5, <1>6, <1>7, <1>9, <2>1, <2>3, <3>1
  <2> QED
    BY <1>5, <2>2, <2>3
<1> QED
  BY <1>5, <1>7, <1>8, <1>9 DEF d, n0
------------------------------------------------------------------------------
(* PIE: the theorems.                                                       *)

\* The delay that PIE aims at is at most 2^31 ms (24 days): beyond it the cast
\* of a difference to int turns its sign around.
TargetIsInt == qdelay_ref <= WORD \div 2

\* The inductive invariant: before a rate has been measured the controller has
\* nothing to act on, and it lags behind the timer by the updates due.
PieInv ==
  /\ pie \in PieState /\ timer \in PieState /\ now \in Nat
  /\ measured \in BOOLEAN
  /\ TargetIsInt /\ ~measured => Unrated(pie)
  /\ config.policy = "pie" =>
       timer = Caught(pie, queue_size_in_bytes, Turns(pie.last_update, now))

\* After calculate_drop_prob no update is due.
LEMMA NoneDue ==
  ASSUME NEW r \in PieState, NEW bytes \in Nat, NEW other \in Nat, now \in Nat
  PROVE  LET s == calculate_drop_prob(r, bytes)
         IN /\ s \in PieState
            /\ Caught(s, other, Turns(s.last_update, now)) = s
            /\ TargetIsInt /\ Unrated(r) => Unrated(s)
<1> DEFINE n == Turns(r.last_update, now)
           s == Caught(r, bytes, n)
<1>1. r.last_update \in Nat /\ t_update \in Nat
  BY PieFields, PieAssumption
<1>2. n \in Nat /\ now - r.last_update <= n * t_update + t_update
  <2> DEFINE L == r.last_update
  <2>1. L \in Int /\ now \in Int
    BY <1>1
  <2> HIDE DEF L
  <2>2. /\ Turns(L, now) \in Nat
        /\ now - L <= Turns(L, now) * t_update + t_update
    BY <2>1, TurnsFacts
  <2> QED
    BY <2>2 DEF L
<1> HIDE DEF n
<1>3. calculate_drop_prob(r, bytes) = s
  BY CaughtUp DEF n
<1>4. /\ s \in PieState /\ s.last_update = r.last_update + n * t_update
      /\ TargetIsInt /\ Unrated(r) => Unrated(s)
  BY <1>2, CaughtFacts DEF TargetIsInt
<1> HIDE DEF s
<1>5. s.last_update \in Nat
  BY <1>4, PieFields
<1>6. now - s.last_update <= 0 * t_update + t_update
  BY <1>1, <1>2, <1>4
<1>7. Turns(s.last_update, now) = 0
  <2> DEFINE L == s.last_update
  <2>1. L \in Int /\ now \in Int /\ now - L <= 0 * t_update + t_update
    BY <1>5, <1>6
  <2> HIDE DEF L
  <2>2. \A k \in Nat : /\ now - L <= k * t_update + t_update
                       /\ k = 0 \/ k * t_update < now - L
                       => k = Turns(L, now)
    BY <2>1, TurnsFacts
  <2>3. Turns(L, now) = 0
    BY <2>1, <2>2
  <2> QED
    BY <2>3 DEF L
<1>8. Caught(s, other, 0) = s
  BY <1>4, CaughtNext
<1> QED
  BY <1>3, <1>4, <1>7, <1>8

\* A millisecond passes.
LEMMA TickInv ==
  ASSUME PieInv, QueueSound, config.policy = "pie", Tick
  PROVE  PieInv'
<1> DEFINE b == queue_size_in_bytes
           L == pie.last_update
           n == Turns(L, now)
           m == Turns(L, now + 1)
<1>1. /\ pie \in PieState /\ timer \in PieState /\ now \in Nat
      /\ measured \in BOOLEAN
      /\ TargetIsInt /\ ~measured => Unrated(pie)
      /\ timer = Caught(pie, b, n)
  BY DEF PieInv
<1>2. b \in Nat
  BY SoundFacts
<1>3. /\ now' = now + 1 /\ pie' = pie /\ b' = b /\ config' = config
      /\ measured' = measured
      /\ timer' = IF (now + 1) - timer.last_update > t_update
                  THEN Update(timer, b) ELSE timer
  BY DEF Tick, vars
<1> HIDE DEF b
<1>4. L \in Nat /\ t_update \in Nat \ {0}
  BY <1>1, PieFields, PieAssumption
<1> HIDE DEF L
<1>5. /\ n \in Nat /\ now - L <= n * t_update + t_update
      /\ n = 0 \/ n * t_update < now - L
  BY <1>1, <1>4, TurnsFacts
<1>6. \A k \in Nat : /\ (now + 1) - L <= k * t_update + t_update
                     /\ k = 0 \/ k * t_update < (now + 1) - L
                     => k = m
  BY <1>1, <1>4, TurnsFacts
<1> HIDE DEF n, m
<1>7. timer.last_update = L + n * t_update /\ n * t_update \in Nat
  <2>1. timer.last_update = pie.last_update + n * t_update
    BY <1>1, <1>2, <1>5, CaughtFacts
  <2>2. n * t_update \in Nat
    BY <1>4, <1>5
  <2> QED
    BY <2>1, <2>2 DEF L
<1>8. timer' \in PieState
  BY <1>1, <1>2, <1>3, UpdateFacts
<1>9. timer' = Caught(pie, b, m)
  <2>1. CASE (now + 1) - timer.last_update > t_update
    <3>1. (n + 1) * t_update = n * t_update + t_update
      BY <1>4, <1>5
    <3>2. n + 1 \in Nat /\ (n + 1) * t_update < (now + 1) - L
      BY <1>1, <1>4, <1>5, <1>7, <2>1, <3>1
    <3>3. (now + 1) - L <= (n + 1) * t_update + t_update
      BY <1>1, <1>4, <1>5, <1>7, <3>1
    <3>4. m = n + 1
      BY <1>6, <3>2, <3>3
    <3>5. Caught(pie, b, n + 1) = Update(Caught(pie, b, n), b)
      BY <1>1, <1>2, <1>5, CaughtNext
    <3> QED
      BY <1>1, <1>3, <2>1, <3>4, <3>5
  <2>2. CASE ~((now + 1) - timer.last_update > t_update)
    <3>1. (now + 1) - L <= n * t_update + t_update
      BY <1>1, <1>4, <1>5, <1>7, <2>2
    <3>2. n = 0 \/ n * t_update < (now + 1) - L
      BY <1>1, <1>4, <1>5, <1>7
    <3>3. m = n
      BY <1>5, <1>6, <3>1, <3>2
    <3> QED
      BY <1>1, <1>3, <2>2, <3>3
  <2> QED
    BY <2>1, <2>2
<1>10. timer' = Caught(pie', queue_size_in_bytes', Turns(pie'.last_update, now'))
  BY <1>3, <1>9 DEF m, b, L
<1>11. now' \in Nat
  BY <1>1, <1>3
<1> QED
  BY <1>1, <1>3, <1>8, <1>10, <1>11 DEF PieInv, TargetIsInt

\* An arrival.
LEMMA PieEnqueueInv ==
  ASSUME PieInv, QueueSound, QueueSound', config.policy = "pie", pie_enqueue
  PROVE  PieInv'
<1> DEFINE b == queue_size_in_bytes
<1>1. /\ pie \in PieState /\ timer \in PieState /\ now \in Nat
      /\ measured \in BOOLEAN
      /\ TargetIsInt /\ ~measured => Unrated(pie)
      /\ timer = Caught(pie, b, Turns(pie.last_update, now))
  BY DEF PieInv
<1>2. b \in Nat /\ b' \in Nat
  BY DEF QueueSound, TypeOK
<1>3. /\ pie' = calculate_drop_prob(pie, b) /\ now' = now /\ timer' = timer
      /\ measured' = measured /\ config' = config
  BY DEF pie_enqueue, BytesAtEnqueue
<1>4. calculate_drop_prob(pie, b) = timer
  BY <1>1, CaughtUp
<1>5. /\ pie' \in PieState
      /\ Caught(pie', b', Turns(pie'.last_update, now)) = pie'
      /\ TargetIsInt /\ Unrated(pie) => Unrated(pie')
  BY <1>1, <1>2, <1>3, NoneDue
<1> QED
  BY <1>1, <1>3, <1>4, <1>5 DEF PieInv, TargetIsInt, Unrated

\* A departure.
LEMMA PieDequeueInv ==
  ASSUME PieInv, QueueSound, QueueSound', config.policy = "pie", pie_dequeue
  PROVE  PieInv'
<1> DEFINE b == queue_size_in_bytes
           r == Measured(pie, returned'.size, b')
<1>1. /\ pie \in PieState /\ now \in Nat /\ measured \in BOOLEAN
      /\ TargetIsInt /\ ~measured => Unrated(pie)
  BY DEF PieInv
<1>2. b' \in Nat
  BY DEF QueueSound, TypeOK
<1>3. returned'.size \in Nat
  <2>1. returned' \in Packet \cup {NoPacket}
    BY DEF QueueSound, TypeOK
  <2>2. CASE returned' \in Packet
    BY <2>2, DroppingAssumption DEF Packet
  <2>3. CASE returned' = NoPacket
    BY <2>3 DEF NoPacket
  <2> QED
    BY <2>1, <2>2, <2>3
<1>4. /\ pie' = calculate_drop_prob(r, b') /\ timer' = pie' /\ now' = now
      /\ measured' = (measured \/ r.avg_dq_rate # pie.avg_dq_rate)
      /\ config' = config
  BY DEF pie_dequeue, dequeue
<1>5. /\ r \in PieState /\ r.drop_prob = pie.drop_prob
      /\ r.qdelay_old = pie.qdelay_old /\ r.current_qdelay = pie.current_qdelay
  BY <1>1, <1>2, <1>3, MeasuredFacts, ZenonT(30)
<1> HIDE DEF r
<1>6. /\ pie' \in PieState
      /\ Caught(pie', b', Turns(pie'.last_update, now)) = pie'
      /\ TargetIsInt /\ Unrated(r) => Unrated(pie')
  BY <1>1, <1>2, <1>4, <1>5, NoneDue
<1>7. TargetIsInt /\ ~measured' => Unrated(r)
  BY <1>1, <1>4, <1>5 DEF Unrated
<1>8. measured' \in BOOLEAN
  BY <1>1, <1>4
<1> QED
  BY <1>1, <1>4, <1>6, <1>7, <1>8 DEF PieInv, TargetIsInt, Unrated

\* PieInv is an invariant of the disciplines.
THEOREM PieInvariance == AllSpec => []PieInv
<1>1. AllInit => PieInv
  <2> SUFFICES ASSUME AllInit PROVE PieInv
    OBVIOUS
  <2>1. /\ now = 0 /\ timer = pie /\ measured = FALSE
        /\ pie = [drop_prob |-> 0, burst_allowance |-> 0, qdelay_old |-> 0,
                  current_qdelay |-> 0, dq_count |-> Invalid, dq_tstamp |-> 0,
                  avg_dq_rate |-> 0, last_update |-> 0]
        /\ queue_size_in_bytes = 0
    BY DEF AllInit, PieInit, Init
  <2>2. pie \in PieState /\ Unrated(pie) /\ pie.last_update = 0
    BY <2>1 DEF PieState, Unrated, Invalid, One
  <2>3. t_update \in Nat
    BY PieAssumption
  <2>4. Turns(0, 0) = 0
    <3>1. \A k \in Nat : /\ 0 - 0 <= k * t_update + t_update
                         /\ k = 0 \/ k * t_update < 0 - 0
                         => k = Turns(0, 0)
      BY TurnsFacts
    <3>2. 0 - 0 <= 0 * t_update + t_update
      BY <2>3
    <3> QED
      BY <3>1, <3>2
  <2>5. Caught(pie, 0, 0) = pie
    BY <2>2, CaughtNext
  <2> QED
    BY <2>1, <2>2, <2>4, <2>5 DEF PieInv
<1>2. PieInv /\ QueueSound /\ QueueSound' /\ [AllNext]_allVars => PieInv'
  <2> SUFFICES ASSUME PieInv, QueueSound, QueueSound', [AllNext]_allVars
               PROVE  PieInv'
    OBVIOUS
  <2>1. CASE config.policy = "pie" /\ Tick
    BY <2>1, TickInv
  <2>2. CASE config.policy = "pie" /\ pie_enqueue
    BY <2>2, PieEnqueueInv
  <2>3. CASE config.policy = "pie" /\ pie_dequeue
    BY <2>3, PieDequeueInv
  <2>4. CASE config.policy # "pie" /\ config' = config /\ UNCHANGED pieVars
    BY <2>4 DEF PieInv, pieVars, TargetIsInt, Unrated
  <2>5. CASE UNCHANGED allVars
    BY <2>5 DEF PieInv, allVars, vars, pieVars, TargetIsInt, Unrated
  <2> QED
    BY <2>1, <2>2, <2>3, <2>4, <2>5
    DEF AllNext, Next, PieNext, AnetNext, Plain, enqueue, dequeue,
        anet_enqueue, anet_dequeue
<1> QED
  BY <1>1, <1>2, QueueStaysSound, PTL DEF AllSpec

\* Whatever the limits, the sizes of the packets and the arguments of PIE are,
\* if the delay aimed at fits an int, nothing is dropped early before a
\* dequeue has measured a rate, however long the queue is and however much
\* time passes.
THEOREM NoDropsBeforeARate ==
  ASSUME TargetIsInt
  PROVE  AllSpec => []DropsNeedRate
<1>1. PieInv => DropsNeedRate
  <2> SUFFICES ASSUME PieInv, config.policy = "pie", pie.drop_prob > 0, ~measured
               PROVE  FALSE
    BY DEF DropsNeedRate, PieInv
  <2>1. pie.drop_prob = 0
    BY DEF PieInv, Unrated
  <2> QED
    BY <2>1
<1> QED
  BY <1>1, PieInvariance, PTL

\* However long the updates due were left, an enqueue leaves the controller in
\* the state that a timer would have brought it to since the last dequeue.
THEOREM UpdatesCatchUp == AllSpec => []AsWithTimer
<1>1. PieInv => AsWithTimer
  BY CaughtUp DEF PieInv, AsWithTimer
<1> QED
  BY <1>1, PieInvariance, PTL
==============================================================================
