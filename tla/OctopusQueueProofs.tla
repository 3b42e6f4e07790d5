-------------------------- MODULE OctopusQueueProofs --------------------------
(***************************************************************************)
(* Proofs about OctopusQueue, for every set of flows and frames, every     *)
(* fair share and limit, and whatever packets are sent again.              *)
(***************************************************************************)
EXTENDS OctopusQueue, RecursionTheorems, SequenceTheorems, FiniteSetTheorems, TLAPS

\* The types the proofs need.
Types ==
  /\ clock \in 0..MaxTime
  /\ internal_queue \in Seq(Packet)
  /\ sent \in [Ports -> Nat \X Nat]
  /\ DOMAIN frame_counter = Ports
  /\ \A port \in Ports : frame_counter[port] \in [MsgNos(port) -> Int]
  /\ msg_in_drop \in [Ports -> Nat]
  /\ DOMAIN prio_to_droppers \subseteq Ports
  /\ \A port \in DOMAIN prio_to_droppers :
       prio_to_droppers[port] \in [Priorities -> Int]
  /\ pc \in {"idle", "dequeue"}

\* What a call has taken is a prefix of the queue it found; the packet in hand
\* is the last of it.
CallInv ==
  pc = "dequeue" =>
    /\ at_call \in Seq(Packet)
    /\ \E k \in 1..Len(at_call) :
         /\ pkt = at_call[k]
         /\ internal_queue = SubSeq(at_call, k + 1, Len(at_call))

\* Position <<f, k>> of a flow comes before <<g, l>>.
Lex(f, k, g, l) == f < g \/ (f = g /\ k < l)

\* The last packet sent lies in the flow.
SentInv(port) ==
  \/ sent[port] = <<1, 0>>
  \/ /\ sent[port][1] \in 1..Len(Flows[port])
     /\ sent[port][2] \in 1..Flows[port][sent[port][1]].fragments

\* The invariant of the calls.
BaseInv == Types /\ CallInv /\ \A port \in Ports : SentInv(port)
------------------------------------------------------------------------------
(* The packets.                                                             *)

\* The frames of a flow.
LEMMA FrameFacts ==
  ASSUME NEW port \in Ports, NEW f \in 1..Len(Flows[port])
  PROVE  /\ Flows[port] \in Seq(Frame) /\ Len(Flows[port]) \in Nat
         /\ Flows[port][f] \in Frame
         /\ Flows[port][f].octopus \in BOOLEAN
         /\ Flows[port][f].preempt \in BOOLEAN
         /\ Flows[port][f].msg_no \in Nat /\ Flows[port][f].msg_no > 0
         /\ Flows[port][f].msg_no \in MsgNos(port)
         /\ Flows[port][f].fragments \in Nat /\ Flows[port][f].fragments > 0
         /\ Flows[port][f].size \in Nat
         /\ Flows[port][f].priority \in Priorities
         /\ Flows[port][f].threshold \in Priorities
<1>1. Flows[port] \in Seq(Frame)
  BY OctopusAssumption
<1>2. Flows[port][f] \in Frame /\ Len(Flows[port]) \in Nat
  BY <1>1, ElementOfSeq, LenProperties
<1>3. Flows[port][f].msg_no \in MsgNos(port)
  BY DEF MsgNos
<1>4. /\ Flows[port][f].msg_no \in Nat \ {0} /\ Flows[port][f].size \in Nat
      /\ Flows[port][f].fragments \in Nat \ {0}
  BY <1>2 DEF Frame
<1>5. /\ Flows[port][f].octopus \in BOOLEAN
      /\ Flows[port][f].preempt \in BOOLEAN
      /\ Flows[port][f].priority \in Priorities
      /\ Flows[port][f].threshold \in Priorities
  BY <1>2 DEF Frame
<1>6. Flows[port][f].msg_no > 0 /\ Flows[port][f].fragments > 0
  BY <1>4
<1> QED
  BY <1>1, <1>2, <1>3, <1>4, <1>5, <1>6, Zenon

\* Later frames have larger message numbers.
LEMMA MsgNosGrow ==
  ASSUME NEW port \in Ports,
         NEW f \in 1..Len(Flows[port]), NEW g \in 1..Len(Flows[port])
  PROVE  Flows[port][f].msg_no < Flows[port][g].msg_no <=> f < g
<1>1. /\ Len(Flows[port]) \in Nat
      /\ Flows[port][f].msg_no \in Nat /\ Flows[port][g].msg_no \in Nat
  BY FrameFacts
<1>2. /\ f < g => Flows[port][f].msg_no < Flows[port][g].msg_no
      /\ g < f => Flows[port][g].msg_no < Flows[port][f].msg_no
  BY OctopusAssumption
<1> QED
  BY <1>1, <1>2

\* What a packet is.
LEMMA PacketFacts ==
  ASSUME NEW p \in Packet
  PROVE  /\ p.port \in Ports /\ p.frame \in 1..Len(Flows[p.port])
         /\ p.fragment \in 1..Flows[p.port][p.frame].fragments
         /\ p.arrival_time \in 0..MaxTime
         /\ p.frame \in Nat /\ p.fragment \in Nat
<1>1. PICK port \in Ports :
        p \in UNION {[port : {port}, frame : {f}, arrival_time : 0..MaxTime,
                      fragment : 1..Flows[port][f].fragments] :
                        f \in 1..Len(Flows[port])}
  BY DEF Packet
<1>2. PICK f \in 1..Len(Flows[port]) :
        p \in [port : {port}, frame : {f}, arrival_time : 0..MaxTime,
               fragment : 1..Flows[port][f].fragments]
  BY <1>1
<1>3. /\ p.port = port /\ p.frame = f /\ p.arrival_time \in 0..MaxTime
      /\ p.fragment \in 1..Flows[port][f].fragments
  BY <1>2
<1>4. Flows[port][f].fragments \in Nat /\ Len(Flows[port]) \in Nat
  BY FrameFacts
<1> QED
  BY <1>3, <1>4

\* A position of a flow is a packet.
LEMMA PacketAtFacts ==
  ASSUME NEW port \in Ports, NEW f \in 1..Len(Flows[port]),
         NEW k \in 1..Flows[port][f].fragments, clock \in 0..MaxTime
  PROVE  /\ PacketAt(port, <<f, k>>) \in Packet
         /\ PacketAt(port, <<f, k>>).port = port
         /\ PacketAt(port, <<f, k>>).frame = f
         /\ PacketAt(port, <<f, k>>).fragment = k
<1> DEFINE p == PacketAt(port, <<f, k>>)
<1>1. p = [port |-> port, frame |-> f, fragment |-> k, arrival_time |-> clock]
  BY DEF PacketAt
<1>2. p \in [port : {port}, frame : {f}, arrival_time : 0..MaxTime,
             fragment : 1..Flows[port][f].fragments]
  BY <1>1
<1>3. p \in Packet
  BY <1>2 DEF Packet
<1> QED
  BY <1>1, <1>3

\* The next packet of a flow is a packet, and comes after the last one sent.
LEMMA FollowingFacts ==
  ASSUME BaseInv, NEW port \in Ports, Following(port)[1] <= Len(Flows[port])
  PROVE  /\ Following(port) = <<Following(port)[1], Following(port)[2]>>
         /\ Following(port)[1] \in 1..Len(Flows[port])
         /\ Following(port)[2] \in 1..Flows[port][Following(port)[1]].fragments
         /\ Following(port) \in Nat \X Nat
         /\ Lex(sent[port][1], sent[port][2],
                Following(port)[1], Following(port)[2])
         /\ sent[port][1] <= Following(port)[1]
         /\ PacketAt(port, Following(port)) \in Packet
<1>1. sent[port][1] \in Nat /\ sent[port][2] \in Nat /\ SentInv(port)
      /\ clock \in 0..MaxTime
  BY DEF BaseInv, Types
<1> DEFINE f == sent[port][1]
           k == sent[port][2]
<1>2. Len(Flows[port]) \in Nat
  BY OctopusAssumption, LenProperties
<1>3. CASE k < Flows[port][f].fragments
  <2>1. Following(port) = <<f, k + 1>>
    BY <1>3 DEF Following
  <2>2. f \in 1..Len(Flows[port])
    BY <1>1, <1>2, <2>1 DEF SentInv
  <2>3. Flows[port][f].fragments \in Nat
    BY <2>2, FrameFacts
  <2> HIDE DEF f, k
  <2>4. k + 1 \in 1..Flows[port][f].fragments /\ k \in Nat /\ f \in Nat
    BY <1>1, <1>3, <2>3, SMTT(30) DEF f, k
  <2> QED
    BY <1>1, <2>1, <2>2, <2>4, PacketAtFacts, SMTT(30) DEF Lex, f, k
<1>4. CASE ~(k < Flows[port][f].fragments)
  <2>1. Following(port) = <<f + 1, 1>>
    BY <1>4 DEF Following
  <2>2. f + 1 \in 1..Len(Flows[port])
    BY <1>1, <1>2, <2>1
  <2>3. 1 \in 1..Flows[port][f + 1].fragments
    BY <2>2, FrameFacts
  <2> HIDE DEF f, k
  <2>4. k \in Nat /\ f \in Nat
    BY <1>1 DEF f, k
  <2> QED
    BY <1>1, <2>1, <2>2, <2>3, <2>4, PacketAtFacts, SMTT(30) DEF Lex, f, k
<1> QED
  BY <1>3, <1>4
------------------------------------------------------------------------------
(* What enqueue and dequeuefront do to the state.                           *)

\* Where the queued packets are after a packet has been let in.
LEMMA AppendFacts ==
  ASSUME internal_queue \in Seq(Packet), NEW p \in Packet,
         internal_queue' = Append(internal_queue, p)
  PROVE  /\ internal_queue' \in Seq(Packet) /\ Len(internal_queue) \in Nat
         /\ Len(internal_queue') = Len(internal_queue) + 1
         /\ \A i \in 1..Len(internal_queue) :
              internal_queue'[i] = internal_queue[i]
         /\ internal_queue'[Len(internal_queue) + 1] = p
BY AppendProperties

\* Where they are after the front packet has been taken.
LEMMA TailFacts ==
  ASSUME internal_queue \in Seq(Packet), internal_queue # <<>>,
         internal_queue' = Tail(internal_queue)
  PROVE  /\ internal_queue' \in Seq(Packet) /\ Len(internal_queue) \in Nat
         /\ Len(internal_queue) > 0
         /\ Len(internal_queue') = Len(internal_queue) - 1
         /\ Head(internal_queue) = internal_queue[1]
         /\ Head(internal_queue) \in Packet
         /\ \A i \in 1..Len(internal_queue') :
              internal_queue'[i] = internal_queue[i + 1]
BY HeadTailProperties

\* enqueue touches the records of the packet's own flow only.
LEMMA EnqueueEffect ==
  ASSUME Types, NEW p \in Packet, enqueue(p)
  PROVE  /\ \/ UNCHANGED <<internal_queue, frame_counter, prio_to_droppers>>
            \/ /\ internal_queue' = Append(internal_queue, p)
               /\ ~header(p).octopus
               /\ UNCHANGED <<frame_counter, prio_to_droppers>>
            \/ /\ internal_queue' = Append(internal_queue, p)
               /\ header(p).octopus /\ NotePacket(p)
         /\ msg_in_drop' = msg_in_drop
         /\ internal_queue' \in Seq(Packet)
BY AppendFacts DEF enqueue, Types, NotePacket, frameVars, sizeVars

\* What NotePacket does to the records.
LEMMA NoteEffect ==
  ASSUME Types, NEW p \in Packet, NotePacket(p)
  PROVE  /\ DOMAIN frame_counter' = Ports
         /\ \A port \in Ports : frame_counter'[port] \in [MsgNos(port) -> Int]
         /\ \A port \in Ports :
              port # p.port => frame_counter'[port] = frame_counter[port]
         /\ \A m \in MsgNos(p.port) :
              m # header(p).msg_no =>
                frame_counter'[p.port][m] = frame_counter[p.port][m]
         /\ frame_counter'[p.port][header(p).msg_no] =
              IF pkt_pos(p) = "SOLO" THEN 2
              ELSE frame_counter[p.port][header(p).msg_no] + Weight(p)
         /\ \/ prio_to_droppers' = prio_to_droppers
            \/ /\ pkt_pos(p) \in {"LAST", "SOLO"} /\ header(p).preempt
               /\ DOMAIN prio_to_droppers' = DOMAIN prio_to_droppers \cup {p.port}
               /\ prio_to_droppers'[p.port] = Droppers(p)
               /\ \A port \in DOMAIN prio_to_droppers :
                    port # p.port =>
                      prio_to_droppers'[port] = prio_to_droppers[port]
         /\ Droppers(p) \in [Priorities -> Int]
         /\ DOMAIN prio_to_droppers' \subseteq Ports
         /\ \A port \in DOMAIN prio_to_droppers' :
              prio_to_droppers'[port] \in [Priorities -> Int]
<1> DEFINE h == header(p)
<1>1. /\ p.port \in Ports /\ h.msg_no \in MsgNos(p.port)
      /\ h.threshold \in Priorities /\ h.msg_no \in Nat
  BY PacketFacts, FrameFacts DEF header
<1>2. Weight(p) \in Int
  BY DEF Weight
<1> HIDE DEF h
<1>3. frame_counter' = [frame_counter EXCEPT ![p.port] =
        [frame_counter[p.port] EXCEPT ![h.msg_no] =
          IF pkt_pos(p) = "SOLO" THEN 2
          ELSE frame_counter[p.port][h.msg_no] + Weight(p)]]
  BY DEF NotePacket, h
<1>4. /\ frame_counter[p.port] \in [MsgNos(p.port) -> Int]
      /\ DOMAIN frame_counter = Ports
  BY <1>1 DEF Types
<1>5. /\ DOMAIN frame_counter' = Ports
      /\ \A port \in Ports :
           port # p.port => frame_counter'[port] = frame_counter[port]
      /\ frame_counter'[p.port] = [frame_counter[p.port] EXCEPT ![h.msg_no] =
          IF pkt_pos(p) = "SOLO" THEN 2
          ELSE frame_counter[p.port][h.msg_no] + Weight(p)]
  BY <1>1, <1>3, <1>4
<1>6. frame_counter[p.port][h.msg_no] \in Int
  BY <1>1, <1>4
<1>7. /\ frame_counter'[p.port] \in [MsgNos(p.port) -> Int]
      /\ \A m \in MsgNos(p.port) :
           m # h.msg_no => frame_counter'[p.port][m] = frame_counter[p.port][m]
      /\ frame_counter'[p.port][h.msg_no] =
           IF pkt_pos(p) = "SOLO" THEN 2
           ELSE frame_counter[p.port][h.msg_no] + Weight(p)
  BY <1>1, <1>2, <1>4, <1>5, <1>6
<1>8. \A port \in Ports : frame_counter'[port] \in [MsgNos(port) -> Int]
  BY <1>5, <1>7 DEF Types
<1>9. Droppers(p) \in [Priorities -> Int]
  BY <1>1 DEF Types, Droppers, h
<1>10. \/ prio_to_droppers' = prio_to_droppers
       \/ /\ pkt_pos(p) \in {"LAST", "SOLO"} /\ h.preempt
          /\ prio_to_droppers' =
               [port \in DOMAIN prio_to_droppers \cup {p.port} |->
                  IF port = p.port THEN Droppers(p)
                  ELSE prio_to_droppers[port]]
  BY DEF NotePacket, h
<1>11. \/ prio_to_droppers' = prio_to_droppers
       \/ /\ pkt_pos(p) \in {"LAST", "SOLO"} /\ h.preempt
          /\ DOMAIN prio_to_droppers' = DOMAIN prio_to_droppers \cup {p.port}
          /\ prio_to_droppers'[p.port] = Droppers(p)
          /\ \A port \in DOMAIN prio_to_droppers :
               port # p.port =>
                 prio_to_droppers'[port] = prio_to_droppers[port]
  BY <1>10
<1>12. /\ DOMAIN prio_to_droppers' \subseteq Ports
       /\ \A port \in DOMAIN prio_to_droppers' :
            prio_to_droppers'[port] \in [Priorities -> Int]
  BY <1>1, <1>9, <1>11 DEF Types
<1> QED
  BY <1>5, <1>7, <1>8, <1>9, <1>11, <1>12 DEF h

\* dequeuefront, likewise.
LEMMA FrontEffect ==
  ASSUME Types, internal_queue # <<>>, dequeuefront,
         NEW p, p = Head(internal_queue)
  PROVE  /\ p \in Packet /\ pkt' = p /\ internal_queue' = Tail(internal_queue)
         /\ internal_queue' \in Seq(Packet)
         /\ DOMAIN frame_counter' = Ports
         /\ \A port \in Ports : frame_counter'[port] \in [MsgNos(port) -> Int]
         /\ \A port \in Ports :
              port # p.port => frame_counter'[port] = frame_counter[port]
         /\ \A m \in MsgNos(p.port) :
              m # header(p).msg_no =>
                frame_counter'[p.port][m] = frame_counter[p.port][m]
         /\ header(p).octopus =>
              frame_counter'[p.port][header(p).msg_no] =
                frame_counter[p.port][header(p).msg_no] - Weight(p)
         /\ \/ ~header(p).octopus /\ msg_in_drop' = msg_in_drop
            \/ header(p).octopus /\ Remember(verdict')
               /\ msg_in_drop' = [msg_in_drop EXCEPT ![p.port] = header(p).msg_no]
            \/ header(p).octopus /\ ~Remember(verdict')
               /\ msg_in_drop' = msg_in_drop
         /\ msg_in_drop' \in [Ports -> Nat]
         /\ DOMAIN prio_to_droppers' \subseteq Ports
         /\ \A port \in DOMAIN prio_to_droppers' :
              /\ prio_to_droppers'[port] \in [Priorities -> Int]
              /\ \/ /\ port \in DOMAIN prio_to_droppers
                    /\ prio_to_droppers'[port] = prio_to_droppers[port]
                 \/ \A t \in Priorities : prio_to_droppers'[port][t] = 0
         /\ is_drop' = (header(p).octopus /\ verdict' # "keep")
         /\ header(p).octopus =>
              \E fair_share \in FairShares : verdict' = Verdict(p, fair_share)
         /\ ~header(p).octopus => verdict' = "keep"
<1> DEFINE h == header(p)
<1>1. p \in Packet /\ internal_queue' = Tail(internal_queue)
      /\ internal_queue' \in Seq(Packet) /\ pkt' = p
  BY TailFacts DEF dequeuefront, Types
<1>2. /\ p.port \in Ports /\ h.msg_no \in MsgNos(p.port) /\ h.msg_no \in Nat
      /\ h.octopus \in BOOLEAN
  BY <1>1, PacketFacts, FrameFacts DEF header
<1>3. Weight(p) \in Int
  BY DEF Weight
<1> HIDE DEF h
<1>4. /\ frame_counter[p.port] \in [MsgNos(p.port) -> Int]
      /\ DOMAIN frame_counter = Ports
      /\ frame_counter[p.port][h.msg_no] \in Int
  BY <1>2 DEF Types
<1>5. CASE ~h.octopus
  <2>1. /\ is_drop' = FALSE /\ verdict' = "keep"
        /\ UNCHANGED <<frame_counter, msg_in_drop, prio_to_droppers>>
    BY <1>5 DEF dequeuefront, frameVars, h
  <2> QED
    BY <1>1, <1>5, <2>1 DEF Types, h
<1>6. CASE h.octopus
  <2>1. /\ \E fair_share \in FairShares : verdict' = Verdict(p, fair_share)
        /\ is_drop' = (verdict' # "keep")
        /\ msg_in_drop' = IF Remember(verdict')
                          THEN [msg_in_drop EXCEPT ![p.port] = h.msg_no]
                          ELSE msg_in_drop
        /\ frame_counter' = [frame_counter EXCEPT ![p.port] =
             [frame_counter[p.port] EXCEPT ![h.msg_no] =
                frame_counter[p.port][h.msg_no] - Weight(p)]]
        /\ \/ prio_to_droppers' = prio_to_droppers
           \/ /\ p.port \notin DOMAIN prio_to_droppers
              /\ prio_to_droppers' =
                   [port \in DOMAIN prio_to_droppers \cup {p.port} |->
                      IF port = p.port THEN [i \in Priorities |-> 0]
                      ELSE prio_to_droppers[port]]
    BY <1>6 DEF dequeuefront, CountedOut, h
  <2>2. /\ DOMAIN frame_counter' = Ports
        /\ \A port \in Ports :
             port # p.port => frame_counter'[port] = frame_counter[port]
        /\ frame_counter'[p.port] = [frame_counter[p.port] EXCEPT ![h.msg_no] =
             frame_counter[p.port][h.msg_no] - Weight(p)]
    BY <1>2, <1>4, <2>1
  <2>3. /\ frame_counter'[p.port] \in [MsgNos(p.port) -> Int]
        /\ \A m \in MsgNos(p.port) : m # h.msg_no =>
             frame_counter'[p.port][m] = frame_counter[p.port][m]
        /\ frame_counter'[p.port][h.msg_no] =
             frame_counter[p.port][h.msg_no] - Weight(p)
    BY <1>2, <1>3, <1>4, <2>2
  <2>4. \A port \in Ports : frame_counter'[port] \in [MsgNos(port) -> Int]
    BY <2>2, <2>3 DEF Types
  <2>5. /\ DOMAIN prio_to_droppers' \subseteq Ports
        /\ \A port \in DOMAIN prio_to_droppers' :
             /\ prio_to_droppers'[port] \in [Priorities -> Int]
             /\ \/ /\ port \in DOMAIN prio_to_droppers
                   /\ prio_to_droppers'[port] = prio_to_droppers[port]
                \/ \A t \in Priorities : prio_to_droppers'[port][t] = 0
    <3>1. CASE prio_to_droppers' = prio_to_droppers
      BY <3>1 DEF Types
    <3>2. CASE prio_to_droppers' # prio_to_droppers
      <4>1. DOMAIN prio_to_droppers' = DOMAIN prio_to_droppers \cup {p.port}
        BY <2>1, <3>2
      <4>2. prio_to_droppers'[p.port] = [i \in Priorities |-> 0]
        BY <2>1, <3>2
      <4>3. \A port \in DOMAIN prio_to_droppers :
              prio_to_droppers'[port] = prio_to_droppers[port]
        BY <2>1, <3>2
      <4> QED
        BY <1>2, <4>1, <4>2, <4>3 DEF Types
    <3> QED
      BY <3>1, <3>2
  <2>6. msg_in_drop' \in [Ports -> Nat]
    BY <1>2, <2>1 DEF Types
  <2> QED
    BY <1>1, <1>6, <2>1, <2>2, <2>3, <2>4, <2>5, <2>6 DEF h
<1> QED
  BY <1>5, <1>6
------------------------------------------------------------------------------
(* The invariant of the calls, and the contract.                            *)

\* Nothing has been sent, queued or counted at the start.
LEMMA InitBase == Init => BaseInv
<1> SUFFICES ASSUME Init PROVE BaseInv
  OBVIOUS
<1>1. internal_queue \in Seq(Packet)
  BY EmptySeq DEF Init
<1>2. sent \in [Ports -> Nat \X Nat] /\ \A port \in Ports : SentInv(port)
  BY DEF Init, SentInv
<1>3. /\ DOMAIN frame_counter = Ports
      /\ \A port \in Ports : frame_counter[port] \in [MsgNos(port) -> Int]
  BY DEF Init
<1>4. msg_in_drop \in [Ports -> Nat] /\ clock \in 0..MaxTime
  BY OctopusAssumption DEF Init
<1>5. DOMAIN prio_to_droppers = {}
  BY DEF Init
<1>6. Types
  BY <1>1, <1>2, <1>3, <1>4, <1>5 DEF Init, Types
<1> QED
  BY <1>2, <1>6 DEF Init, BaseInv, CallInv

\* The arrival of a packet, for the first time or again.
LEMMA ArrivalTypes ==
  ASSUME BaseInv, NEW p \in Packet, enqueue(p), pc = "idle",
         UNCHANGED <<clock, callVars>>
  PROVE  /\ internal_queue' \in Seq(Packet)
         /\ DOMAIN frame_counter' = Ports
         /\ \A port \in Ports : frame_counter'[port] \in [MsgNos(port) -> Int]
         /\ msg_in_drop' \in [Ports -> Nat]
         /\ DOMAIN prio_to_droppers' \subseteq Ports
         /\ \A port \in DOMAIN prio_to_droppers' :
              prio_to_droppers'[port] \in [Priorities -> Int]
<1>1. Types
  BY DEF BaseInv
<1>2. /\ \/ UNCHANGED <<frame_counter, prio_to_droppers>>
         \/ NotePacket(p)
      /\ msg_in_drop' = msg_in_drop
      /\ internal_queue' \in Seq(Packet)
  BY <1>1, EnqueueEffect
<1>3. CASE UNCHANGED <<frame_counter, prio_to_droppers>>
  BY <1>1, <1>2, <1>3 DEF Types
<1>4. CASE NotePacket(p)
  BY <1>1, <1>2, <1>4, NoteEffect DEF Types
<1> QED
  BY <1>2, <1>3, <1>4

\* A step of a sender offers one packet; all others leave the queue's records.
LEMMA ArriveFacts ==
  ASSUME BaseInv, NEW port \in Ports, Arrive(port) \/ ArriveAgain(port)
  PROVE  \E p \in Packet :
           /\ enqueue(p) /\ p.port = port
           /\ pc = "idle" /\ UNCHANGED <<clock, callVars>>
           /\ \/ /\ Arrive(port) /\ resent' = resent
                 /\ sent' = [sent EXCEPT ![port] = <<p.frame, p.fragment>>]
                 /\ Lex(sent[port][1], sent[port][2], p.frame, p.fragment)
                 /\ sent[port][1] <= p.frame
              \/ /\ ArriveAgain(port) /\ sent' = sent
                 /\ resent' = resent \cup {<<port, p.frame, p.fragment>>}
                 /\ Cardinality(resent) < Resends /\ pkt_pos(p) \in Resendable
                 /\ ~Lex(sent[port][1], sent[port][2], p.frame, p.fragment)
<1>t. Types /\ SentInv(port)
  BY DEF BaseInv
<1>1. CASE Arrive(port)
  <2> DEFINE at == Following(port)
             p == PacketAt(port, at)
  <2>1. /\ at[1] <= Len(Flows[port]) /\ enqueue(p)
        /\ sent' = [sent EXCEPT ![port] = at] /\ resent' = resent
        /\ pc = "idle" /\ UNCHANGED <<clock, callVars>>
    BY <1>1 DEF Arrive
  <2>2. /\ at = <<at[1], at[2]>> /\ p \in Packet
        /\ Lex(sent[port][1], sent[port][2], at[1], at[2])
        /\ sent[port][1] <= at[1]
    BY <2>1, FollowingFacts
  <2>3. p.port = port /\ p.frame = at[1] /\ p.fragment = at[2]
    BY DEF PacketAt
  <2> HIDE DEF at, p
  <2> QED
    BY <1>1, <2>1, <2>2, <2>3
<1>2. CASE ArriveAgain(port)
  <2>0. PICK f \in 1..sent[port][1] : \E k \in 1..Flows[port][f].fragments :
          /\ f < sent[port][1] \/ k <= sent[port][2]
          /\ pkt_pos(PacketAt(port, <<f, k>>)) \in Resendable
          /\ enqueue(PacketAt(port, <<f, k>>))
          /\ resent' = resent \cup {<<port, f, k>>}
    BY <1>2 DEF ArriveAgain
  <2>1. PICK k \in 1..Flows[port][f].fragments :
          /\ f < sent[port][1] \/ k <= sent[port][2]
          /\ pkt_pos(PacketAt(port, <<f, k>>)) \in Resendable
          /\ enqueue(PacketAt(port, <<f, k>>))
          /\ resent' = resent \cup {<<port, f, k>>}
    BY <2>0
  <2>2. f \in 1..Len(Flows[port])
    <3>1. sent[port][1] \in Nat /\ sent[port][2] \in Nat
          /\ Len(Flows[port]) \in Nat
      BY <1>t, OctopusAssumption, LenProperties DEF Types
    <3>2. sent[port] # <<1, 0>>
      BY <2>1
    <3> QED
      BY <1>t, <3>1, <3>2 DEF SentInv
  <2>3. /\ PacketAt(port, <<f, k>>) \in Packet
        /\ PacketAt(port, <<f, k>>).port = port
        /\ PacketAt(port, <<f, k>>).frame = f
        /\ PacketAt(port, <<f, k>>).fragment = k
    BY <1>t, <2>2, PacketAtFacts DEF Types
  <2>4. /\ pc = "idle" /\ UNCHANGED <<clock, sent, callVars>>
        /\ Cardinality(resent) < Resends
    BY <1>2 DEF ArriveAgain
  <2>5. ~Lex(sent[port][1], sent[port][2], f, k)
    <3>1. /\ sent[port][1] \in Nat /\ sent[port][2] \in Nat
          /\ Flows[port][f].fragments \in Nat
      BY <1>t, <2>2, FrameFacts DEF Types
    <3> QED
      BY <2>1, <3>1 DEF Lex
  <2> QED
    BY <1>2, <2>1, <2>3, <2>4, <2>5
<1> QED
  BY <1>1, <1>2

\* Taking the front packet off a suffix leaves a suffix.
LEMMA SuffixTail ==
  ASSUME NEW a \in Seq(Packet), NEW k \in 1..Len(a), NEW q,
         q = SubSeq(a, k + 1, Len(a)), q # <<>>
  PROVE  /\ k + 1 \in 1..Len(a) /\ Head(q) = a[k + 1]
         /\ Tail(q) = SubSeq(a, k + 2, Len(a))
<1>1. Len(a) \in Nat
  BY LenProperties
<1>2. k + 1 \in 1..Len(a)
  BY <1>1, SubSeqEmpty
<1> QED
  BY <1>1, <1>2, HeadTailOfSubSeq

\* Every step keeps the invariant.
LEMMA NextBase == BaseInv /\ [Next]_vars => BaseInv'
<1> SUFFICES ASSUME BaseInv, [Next]_vars PROVE BaseInv'
  OBVIOUS
<1>t. Types /\ CallInv /\ \A port \in Ports : SentInv(port)
  BY DEF BaseInv
<1>1. ASSUME NEW port \in Ports, Arrive(port) \/ ArriveAgain(port)
      PROVE  BaseInv'
  <2>1. PICK p \in Packet :
           /\ enqueue(p) /\ p.port = port
           /\ pc = "idle" /\ UNCHANGED <<clock, callVars>>
           /\ \/ sent' = [sent EXCEPT ![port] = <<p.frame, p.fragment>>]
              \/ sent' = sent
    BY <1>1, ArriveFacts
  <2>2. /\ p.frame \in 1..Len(Flows[port])
        /\ p.fragment \in 1..Flows[port][p.frame].fragments
        /\ p.frame \in Nat /\ p.fragment \in Nat
    BY <2>1, PacketFacts
  <2>3. /\ sent' \in [Ports -> Nat \X Nat]
        /\ sent'[port] = sent[port] \/ sent'[port] = <<p.frame, p.fragment>>
        /\ \A o \in Ports : o # port => sent'[o] = sent[o]
    <3>1. <<p.frame, p.fragment>> \in Nat \X Nat
      BY <2>2
    <3>2. sent \in [Ports -> Nat \X Nat]
      BY <1>t DEF Types
    <3> QED
      BY <2>1, <3>1, <3>2, Zenon
  <2>4. \A o \in Ports : SentInv(o)'
    <3>1. SentInv(port)'
      <4>1. CASE sent'[port] = sent[port]
        BY <1>t, <4>1 DEF SentInv
      <4>2. CASE sent'[port] = <<p.frame, p.fragment>>
        BY <2>2, <4>2 DEF SentInv
      <4> QED
        BY <2>3, <4>1, <4>2
    <3>2. ASSUME NEW o \in Ports, o # port PROVE SentInv(o)'
      BY <1>t, <2>3, <3>2 DEF SentInv
    <3> QED
      BY <3>1, <3>2
  <2>5. pc' = "idle" /\ clock' = clock
    BY <2>1 DEF callVars
  <2>6. Types'
    BY <1>t, <2>1, <2>3, <2>5, ArrivalTypes DEF Types
  <2> QED
    BY <2>4, <2>5, <2>6 DEF BaseInv, CallInv
<1>2. ASSUME dequeuefront, internal_queue # <<>>, pc' = "dequeue",
             UNCHANGED envVars, CallInv'
      PROVE  BaseInv'
  <2>1. UNCHANGED <<clock, sent>>
    BY <1>2 DEF envVars
  <2>2. Types'
    BY <1>t, <1>2, <2>1, FrontEffect DEF Types
  <2> QED
    BY <1>t, <1>2, <2>1, <2>2 DEF BaseInv, SentInv
<1>3. CASE dequeue
  <2>1. /\ dequeuefront /\ internal_queue # <<>> /\ pc' = "dequeue"
        /\ UNCHANGED envVars /\ at_call' = internal_queue
    BY <1>3 DEF dequeue
  <2>2. /\ pkt' = internal_queue[1] /\ internal_queue' = Tail(internal_queue)
        /\ Len(internal_queue) \in Nat /\ Len(internal_queue) > 0
    BY <1>t, <2>1, TailFacts DEF dequeuefront, Types
  <2>3. internal_queue' = SubSeq(internal_queue, 1 + 1, Len(internal_queue))
    BY <1>t, <2>1, <2>2, TailIsSubSeq DEF Types
  <2>4. 1 \in 1..Len(internal_queue)
    BY <2>2
  <2>5. CallInv'
    BY <1>t, <2>1, <2>2, <2>3, <2>4 DEF CallInv, Types
  <2> QED
    BY <1>2, <2>1, <2>5
<1>4. CASE dequeue_next
  <2>1. /\ dequeuefront /\ internal_queue # <<>>
        /\ pc = "dequeue" /\ pc' = "dequeue"
        /\ UNCHANGED envVars /\ at_call' = at_call
    BY <1>4 DEF dequeue_next
  <2>2. PICK k \in 1..Len(at_call) :
             internal_queue = SubSeq(at_call, k + 1, Len(at_call))
    BY <1>t, <2>1 DEF CallInv
  <2>3. /\ k + 1 \in 1..Len(at_call) /\ Head(internal_queue) = at_call[k + 1]
        /\ Tail(internal_queue) = SubSeq(at_call, (k + 1) + 1, Len(at_call))
    <3>1. k + 2 = (k + 1) + 1
      OBVIOUS
    <3> QED
      BY <1>t, <2>1, <2>2, <3>1, SuffixTail DEF CallInv
  <2>4. /\ pkt' = Head(internal_queue)
        /\ internal_queue' = Tail(internal_queue)
    BY <2>1 DEF dequeuefront
  <2>5. CallInv'
    BY <1>t, <2>1, <2>3, <2>4 DEF CallInv
  <2> QED
    BY <1>2, <2>1, <2>5
<1>5. CASE dequeue_returns
  BY <1>t, <1>5 DEF dequeue_returns, envVars, sizeVars, frameVars, BaseInv,
     Types, CallInv, SentInv
<1>6. CASE Tick
  <2>1. clock' \in 0..MaxTime
    BY <1>t, <1>6, OctopusAssumption DEF Tick, Types
  <2>2. UNCHANGED <<sent, sizeVars, frameVars, callVars>>
    BY <1>6 DEF Tick
  <2> QED
    BY <1>t, <2>1, <2>2 DEF sizeVars, frameVars, callVars, BaseInv, Types,
       CallInv, SentInv
<1>7. CASE UNCHANGED vars
  BY <1>t, <1>7 DEF vars, envVars, sizeVars, frameVars, callVars, BaseInv,
     Types, CallInv, SentInv
<1> QED
  BY <1>1, <1>3, <1>4, <1>5, <1>6, <1>7 DEF Next

\* The invariant of the calls holds in every reachable state.
THEOREM BaseInvariance == Spec => []BaseInv
BY InitBase, NextBase, PTL DEF Spec

\* Octopus keeps the contract the link relies on: the only step of a call
\* that shows is its return, which hands back one packet that was queued,
\* discards those in front of it and leaves the others as they were.
THEOREM OctopusKeepsContract == Spec => KeepsContract
<1> DEFINE q == IF pc = "idle" THEN internal_queue ELSE at_call
<1>1. Init => Contract!Init
  BY DEF Init, Contract!Init
<1>2. BaseInv /\ [Next]_vars => [Contract!Next]_<<q, returned>>
  <2> SUFFICES ASSUME BaseInv, Next
               PROVE  Contract!Next \/ UNCHANGED <<q, returned>>
    BY DEF vars, sizeVars, callVars
  <2>t. internal_queue \in Seq(Packet) /\ CallInv /\ Types
    BY DEF BaseInv, Types
  <2>1. ASSUME NEW port \in Ports, Arrive(port) \/ ArriveAgain(port)
        PROVE  Contract!Next \/ UNCHANGED <<q, returned>>
    <3>1. PICK p \in Packet :
             enqueue(p) /\ pc = "idle" /\ UNCHANGED callVars
      BY <2>1, ArriveFacts
    <3>2. pc = "idle" /\ pc' = "idle" /\ returned' = returned
      BY <3>1 DEF callVars
    <3>3. CASE internal_queue' = internal_queue
      BY <3>2, <3>3
    <3>4. CASE internal_queue' = Append(internal_queue, p)
      <4> DEFINE n == Len(internal_queue)
      <4>1. /\ n \in Nat /\ internal_queue' \in Seq(Packet)
            /\ Len(internal_queue') = n + 1 /\ internal_queue' # <<>>
            /\ \A i \in 1..n : internal_queue'[i] = internal_queue[i]
            /\ internal_queue'[n + 1] = p
        BY <2>t, <3>4, AppendProperties
      <4>2. SubSeq(internal_queue', 1, n) = internal_queue
        <5>1. \A i \in 1..n : internal_queue'[i] \in Packet
          BY <2>t, <4>1, ElementOfSeq
        <5>2. /\ SubSeq(internal_queue', 1, n) \in Seq(Packet)
              /\ Len(SubSeq(internal_queue', 1, n)) = n
              /\ \A i \in 1..n :
                   SubSeq(internal_queue', 1, n)[i] = internal_queue'[i]
          BY <4>1, <5>1, SubSeqProperties
        <5> QED
          BY <2>t, <4>1, <5>2, SeqEqual
      <4>3. Contract!IsThinning(internal_queue, internal_queue)
        <5> DEFINE d == [i \in 1..n |-> 0]
        <5>1. d \in Contract!Discards(n, n)
          BY <4>1 DEF Contract!Discards
        <5>2. \A i \in 1..n : internal_queue[i] = internal_queue[i + d[i]]
          BY <4>1
        <5> QED
          BY <4>1, <5>1, <5>2 DEF Contract!IsThinning
      <4>4. Len(internal_queue') - 1 = n
        BY <4>1
      <4> QED
        BY <3>2, <4>1, <4>2, <4>3, <4>4 DEF Contract!Enqueue, Contract!Next
    <3> QED
      BY <2>t, <3>1, <3>3, <3>4, EnqueueEffect
  <2>2. CASE dequeue
    BY <2>2 DEF dequeue
  <2>3. CASE dequeue_next
    BY <2>3 DEF dequeue_next
  <2>4. CASE dequeue_returns
    <3>1. /\ pc = "dequeue" /\ pc' = "idle" /\ returned' = pkt
          /\ internal_queue' = internal_queue
      BY <2>4 DEF dequeue_returns, HandedBack, sizeVars
    <3>2. PICK k \in 1..Len(at_call) :
                 /\ pkt = at_call[k]
                 /\ internal_queue = SubSeq(at_call, k + 1, Len(at_call))
      BY <2>t, <3>1 DEF CallInv
    <3>3. k \in 1..k
      OBVIOUS
    <3> QED
      BY <3>1, <3>2, <3>3 DEF Contract!Next, Contract!Dequeue
  <2>5. CASE Tick
    BY <2>5 DEF Tick, sizeVars, callVars
  <2> QED
    BY <2>1, <2>2, <2>3, <2>4, <2>5 DEF Next
<1> HIDE DEF q
<1> QED
  BY <1>1, <1>2, BaseInvariance, PTL
  DEF Spec, KeepsContract, Contract!Spec, q
------------------------------------------------------------------------------
(* The flows on which every packet is sent once.                            *)

\* The queued packets of a flow are in the order they were sent.
OrderInv(port) ==
  /\ \A i \in 1..Len(internal_queue) :
       internal_queue[i].port = port =>
         ~Lex(sent[port][1], sent[port][2],
              internal_queue[i].frame, internal_queue[i].fragment)
  /\ \A i, j \in 1..Len(internal_queue) :
       i < j /\ internal_queue[i].port = port /\ internal_queue[j].port = port
         => Lex(internal_queue[i].frame, internal_queue[i].fragment,
                internal_queue[j].frame, internal_queue[j].fragment)

\* Is packet k of frame f in the queue?
QueuedAt(port, f, k) ==
  \E i \in 1..Len(internal_queue) :
    /\ internal_queue[i].port = port /\ internal_queue[i].frame = f
    /\ internal_queue[i].fragment = k

\* 1 or 0, as it is or is not.
Present(port, f, k) == IF QueuedAt(port, f, k) THEN 1 ELSE 0

\* The counter of a frame tells which ends of it are in the queue.
CounterInv(port) ==
  \A f \in 1..Len(Flows[port]) :
    Flows[port][f].octopus =>
      frame_counter[port][Flows[port][f].msg_no] =
        Present(port, f, 1) + Present(port, f, Flows[port][f].fragments)

\* A recorded dropper has been sent, and as long as a packet of an older frame
\* is queued its own last packet is queued behind it.
DropperInv(port) ==
  port \in DOMAIN prio_to_droppers =>
    \A t \in Priorities : prio_to_droppers[port][t] > 0 =>
      \E f \in 1..Len(Flows[port]) :
        /\ Flows[port][f].msg_no = prio_to_droppers[port][t]
        /\ Flows[port][f].octopus /\ Flows[port][f].preempt
        /\ Flows[port][f].threshold = t /\ f <= sent[port][1]
        /\ \A i \in 1..Len(internal_queue) :
             internal_queue[i].port = port /\ internal_queue[i].frame < f =>
               \E j \in 1..Len(internal_queue) :
                 /\ j > i /\ internal_queue[j].port = port
                 /\ internal_queue[j].frame = f
                 /\ internal_queue[j].fragment = Flows[port][f].fragments

\* The invariant of a flow.
FlowInv(port) == OrderInv(port) /\ CounterInv(port) /\ DropperInv(port)

\* Is p packet k of frame f?
Is(p, port, f, k) == p.port = port /\ p.frame = f /\ p.fragment = k

\* The queued packets.
LEMMA QueueFacts ==
  ASSUME Types
  PROVE  /\ Len(internal_queue) \in Nat
         /\ \A i \in 1..Len(internal_queue) :
              /\ internal_queue[i] \in Packet
              /\ internal_queue[i].port \in Ports
              /\ internal_queue[i].frame \in Nat
              /\ internal_queue[i].fragment \in Nat
<1>1. internal_queue \in Seq(Packet)
  BY DEF Types
<1>2. Len(internal_queue) \in Nat
  BY <1>1, LenProperties
<1>3. \A i \in 1..Len(internal_queue) : internal_queue[i] \in Packet
  BY <1>1, ElementOfSeq
<1> QED
  BY <1>2, <1>3, PacketFacts

\* Each end of a frame weighs 1.
LEMMA WeightFacts ==
  ASSUME NEW p \in Packet
  PROVE  /\ Weight(p) = (IF p.fragment = 1 THEN 1 ELSE 0)
                        + (IF p.fragment = header(p).fragments THEN 1 ELSE 0)
         /\ pkt_pos(p) = "SOLO" <=> header(p).fragments = 1
         /\ pkt_pos(p) = "SOLO" => Weight(p) = 2
         /\ pkt_pos(p) \in {"LAST", "SOLO"} <=> p.fragment = header(p).fragments
<1>1. /\ p.fragment \in 1..header(p).fragments
      /\ header(p).fragments \in Nat /\ header(p).fragments > 0
  BY PacketFacts, FrameFacts DEF header
<1>2. CASE header(p).fragments = 1
  <2>1. pkt_pos(p) = "SOLO" /\ p.fragment = 1
    BY <1>1, <1>2 DEF pkt_pos
  <2>2. Weight(p) = 2
    BY <2>1 DEF Weight
  <2> QED
    BY <1>2, <2>1, <2>2
<1>3. CASE header(p).fragments # 1 /\ p.fragment = 1
  <2>1. pkt_pos(p) = "FIRST"
    BY <1>3 DEF pkt_pos
  <2>2. Weight(p) = 1
    BY <2>1 DEF Weight
  <2> QED
    BY <1>1, <1>3, <2>1, <2>2
<1>4. CASE /\ header(p).fragments # 1 /\ p.fragment # 1
           /\ p.fragment = header(p).fragments
  <2>1. pkt_pos(p) = "LAST"
    BY <1>4 DEF pkt_pos
  <2>2. Weight(p) = 1
    BY <2>1 DEF Weight
  <2> QED
    BY <1>1, <1>4, <2>1, <2>2
<1>5. CASE /\ header(p).fragments # 1 /\ p.fragment # 1
           /\ p.fragment # header(p).fragments
  <2>1. pkt_pos(p) = "MID"
    BY <1>5 DEF pkt_pos
  <2>2. Weight(p) = 0
    BY <2>1 DEF Weight
  <2> QED
    BY <1>1, <1>5, <2>1, <2>2
<1> QED
  BY <1>2, <1>3, <1>4, <1>5

\* A packet let in is newer than the queued ones of its flow.
LEMMA AppendPresent ==
  ASSUME Types, NEW port \in Ports, OrderInv(port), NEW p \in Packet,
         internal_queue' = Append(internal_queue, p),
         p.port = port => Lex(sent[port][1], sent[port][2], p.frame, p.fragment),
         NEW f \in Nat, NEW k \in Nat
  PROVE  Present(port, f, k)' =
           Present(port, f, k) + (IF Is(p, port, f, k) THEN 1 ELSE 0)
<1> DEFINE n == Len(internal_queue)
<1>1. /\ n \in Nat /\ Len(internal_queue') = n + 1
      /\ \A i \in 1..n : internal_queue'[i] = internal_queue[i]
      /\ internal_queue'[n + 1] = p
  BY AppendFacts DEF Types
<1>2. QueuedAt(port, f, k)' <=> QueuedAt(port, f, k) \/ Is(p, port, f, k)
  <2>1. ASSUME QueuedAt(port, f, k)
        PROVE  QueuedAt(port, f, k)'
    <3>1. PICK i \in 1..n : Is(internal_queue[i], port, f, k)
      BY <2>1 DEF QueuedAt, Is
    <3>2. i \in 1..Len(internal_queue') /\ internal_queue'[i] = internal_queue[i]
      BY <1>1
    <3> QED
      BY <3>1, <3>2 DEF QueuedAt, Is
  <2>2. ASSUME Is(p, port, f, k) PROVE QueuedAt(port, f, k)'
    <3>1. n + 1 \in 1..Len(internal_queue')
      BY <1>1
    <3> QED
      BY <1>1, <2>2, <3>1 DEF QueuedAt, Is
  <2>3. ASSUME QueuedAt(port, f, k)', ~Is(p, port, f, k)
        PROVE  QueuedAt(port, f, k)
    <3>1. PICK i \in 1..Len(internal_queue') : Is(internal_queue'[i], port, f, k)
      BY <2>3 DEF QueuedAt, Is
    <3>2. i # n + 1
      BY <1>1, <2>3, <3>1
    <3>3. i \in 1..n
      BY <1>1, <3>2
    <3> QED
      BY <1>1, <3>1, <3>3 DEF QueuedAt, Is
  <2> QED
    BY <2>1, <2>2, <2>3
<1>3. ~(QueuedAt(port, f, k) /\ Is(p, port, f, k))
  BY DEF QueuedAt, Is, OrderInv
<1> QED
  BY <1>2, <1>3 DEF Present

\* The front packet is older than the other queued ones of its flow.
LEMMA TailPresent ==
  ASSUME Types, NEW port \in Ports, OrderInv(port), internal_queue # <<>>,
         internal_queue' = Tail(internal_queue),
         NEW p, p = Head(internal_queue), NEW f \in Nat, NEW k \in Nat
  PROVE  Present(port, f, k)' =
           Present(port, f, k) - (IF Is(p, port, f, k) THEN 1 ELSE 0)
<1> DEFINE n == Len(internal_queue)
<1>1. /\ n \in Nat /\ n > 0 /\ Len(internal_queue') = n - 1
      /\ p = internal_queue[1]
      /\ \A i \in 1..(n - 1) : internal_queue'[i] = internal_queue[i + 1]
  BY TailFacts DEF Types
<1>2. QueuedAt(port, f, k) <=> QueuedAt(port, f, k)' \/ Is(p, port, f, k)
  <2>1. ASSUME QueuedAt(port, f, k)'
        PROVE  QueuedAt(port, f, k)
    <3>1. PICK i \in 1..(n - 1) : Is(internal_queue'[i], port, f, k)
      BY <1>1, <2>1 DEF QueuedAt, Is
    <3>2. i + 1 \in 1..n /\ internal_queue'[i] = internal_queue[i + 1]
      BY <1>1
    <3> QED
      BY <3>1, <3>2 DEF QueuedAt, Is
  <2>2. ASSUME Is(p, port, f, k) PROVE QueuedAt(port, f, k)
    <3>1. 1 \in 1..n
      BY <1>1
    <3> QED
      BY <1>1, <2>2, <3>1 DEF QueuedAt, Is
  <2>3. ASSUME QueuedAt(port, f, k), ~Is(p, port, f, k)
        PROVE  QueuedAt(port, f, k)'
    <3>1. PICK i \in 1..n : Is(internal_queue[i], port, f, k)
      BY <2>3 DEF QueuedAt, Is
    <3>2. i # 1
      BY <1>1, <2>3, <3>1
    <3>3. /\ i - 1 \in 1..Len(internal_queue')
          /\ internal_queue'[i - 1] = internal_queue[i]
      <4>1. i - 1 \in 1..(n - 1) /\ (i - 1) + 1 = i
        BY <1>1, <3>2
      <4> QED
        BY <1>1, <4>1
    <3> QED
      BY <3>1, <3>3 DEF QueuedAt, Is
  <2> QED
    BY <2>1, <2>2, <2>3
<1>3. ~(QueuedAt(port, f, k)' /\ Is(p, port, f, k))
  <2> SUFFICES ASSUME QueuedAt(port, f, k)', Is(p, port, f, k) PROVE FALSE
    OBVIOUS
  <2>1. PICK i \in 1..(n - 1) : Is(internal_queue'[i], port, f, k)
    BY <1>1 DEF QueuedAt, Is
  <2>2. /\ 1 \in 1..n /\ i + 1 \in 1..n /\ 1 < i + 1
        /\ internal_queue'[i] = internal_queue[i + 1]
    BY <1>1
  <2>3. Lex(f, k, f, k)
    BY <1>1, <2>1, <2>2 DEF OrderInv, Is
  <2> QED
    BY <2>3 DEF Lex
<1> QED
  BY <1>2, <1>3 DEF Present

\* A packet offered to the queue, of this flow or of another one.
Offered(port, p) ==
  /\ enqueue(p)
  /\ p.port = port =>
       /\ Lex(sent[port][1], sent[port][2], p.frame, p.fragment)
       /\ sent[port][1] <= p.frame
       /\ sent'[port] = <<p.frame, p.fragment>>
  /\ p.port # port => sent'[port] = sent[port]

\* A packet that is offered keeps the flow in order.
LEMMA OfferedOrder ==
  ASSUME Types, NEW port \in Ports, OrderInv(port), NEW p \in Packet,
         Offered(port, p)
  PROVE  OrderInv(port)'
<1> DEFINE n == Len(internal_queue)
<1>1. /\ p.frame \in Nat /\ p.fragment \in Nat
      /\ sent[port][1] \in Nat /\ sent[port][2] \in Nat
  BY PacketFacts DEF Types
<1>2. /\ n \in Nat
      /\ \A i \in 1..n : /\ internal_queue[i].frame \in Nat
                         /\ internal_queue[i].fragment \in Nat
  BY QueueFacts
<1>3. \/ sent'[port] = sent[port]
      \/ /\ sent'[port][1] = p.frame /\ sent'[port][2] = p.fragment
         /\ Lex(sent[port][1], sent[port][2], p.frame, p.fragment)
  BY DEF Offered
<1>4. p.port = port => sent'[port][1] = p.frame /\ sent'[port][2] = p.fragment
  BY DEF Offered
<1>5. p.port = port => Lex(sent[port][1], sent[port][2], p.frame, p.fragment)
  BY DEF Offered
<1>6. \A i \in 1..n : internal_queue[i].port = port =>
        ~Lex(sent'[port][1], sent'[port][2],
             internal_queue[i].frame, internal_queue[i].fragment)
  BY <1>1, <1>2, <1>3 DEF OrderInv, Lex
<1>7. CASE internal_queue' = internal_queue
  BY <1>6, <1>7 DEF OrderInv
<1>8. CASE internal_queue' = Append(internal_queue, p)
  <2>1. /\ Len(internal_queue') = n + 1
        /\ \A i \in 1..n : internal_queue'[i] = internal_queue[i]
        /\ internal_queue'[n + 1] = p
    BY <1>8, AppendFacts DEF Types
  <2>2. ASSUME NEW i \in 1..Len(internal_queue'),
               internal_queue'[i].port = port
        PROVE  ~Lex(sent'[port][1], sent'[port][2],
                    internal_queue'[i].frame, internal_queue'[i].fragment)
    <3>1. CASE i \in 1..n
      BY <1>6, <2>1, <2>2, <3>1
    <3>2. CASE i = n + 1
      BY <1>1, <1>4, <2>1, <2>2, <3>2 DEF Lex
    <3> QED
      BY <1>2, <2>1, <3>1, <3>2
  <2>3. ASSUME NEW i \in 1..Len(internal_queue'),
               NEW j \in 1..Len(internal_queue'), i < j,
               internal_queue'[i].port = port, internal_queue'[j].port = port
        PROVE  Lex(internal_queue'[i].frame, internal_queue'[i].fragment,
                   internal_queue'[j].frame, internal_queue'[j].fragment)
    <3>0. i \in 1..n
      BY <1>2, <2>1, <2>3
    <3>1. CASE j \in 1..n
      BY <2>1, <2>3, <3>0, <3>1 DEF OrderInv
    <3>2. CASE j = n + 1
      <4>1. p.port = port /\ internal_queue'[j] = p
            /\ internal_queue'[i] = internal_queue[i]
            /\ internal_queue[i].port = port
        BY <2>1, <2>3, <3>0, <3>2
      <4>2. ~Lex(sent[port][1], sent[port][2],
                 internal_queue[i].frame, internal_queue[i].fragment)
        BY <3>0, <4>1 DEF OrderInv
      <4> QED
        BY <1>1, <1>2, <1>5, <3>0, <4>1, <4>2, SMTT(30) DEF Lex
    <3> QED
      BY <1>2, <2>1, <3>1, <3>2
  <2> QED
    BY <2>2, <2>3 DEF OrderInv
<1> QED
  BY <1>7, <1>8, EnqueueEffect DEF Offered

\* Its frame's counter goes with it.
LEMMA OfferedCounter ==
  ASSUME Types, NEW port \in Ports, OrderInv(port), CounterInv(port),
         NEW p \in Packet, Offered(port, p)
  PROVE  CounterInv(port)'
<1> SUFFICES ASSUME NEW f \in 1..Len(Flows[port]), Flows[port][f].octopus
             PROVE  (frame_counter[port][Flows[port][f].msg_no] =
                      Present(port, f, 1)
                      + Present(port, f, Flows[port][f].fragments))'
  BY DEF CounterInv
<1> DEFINE m == Flows[port][f].msg_no
           last == Flows[port][f].fragments
<1>1. /\ m \in Nat /\ m \in MsgNos(port) /\ last \in Nat /\ last > 0 /\ f \in Nat
  BY FrameFacts
<1>2. p.port \in Ports /\ p.frame \in 1..Len(Flows[p.port])
      /\ frame_counter[port][m] \in Int
  BY <1>1, PacketFacts DEF Types
<1>3. frame_counter[port][m] = Present(port, f, 1) + Present(port, f, last)
  BY DEF CounterInv
<1>p. Present(port, f, 1) \in {0, 1} /\ Present(port, f, last) \in {0, 1}
  BY DEF Present
<1>4. CASE UNCHANGED <<internal_queue, frame_counter>>
  <2>1. Present(port, f, 1)' = Present(port, f, 1)
        /\ Present(port, f, last)' = Present(port, f, last)
    BY <1>4 DEF Present, QueuedAt
  <2> QED
    BY <1>3, <1>4, <2>1
<1>5. ASSUME internal_queue' = Append(internal_queue, p)
      PROVE  /\ Present(port, f, 1)' = Present(port, f, 1)
                  + (IF Is(p, port, f, 1) THEN 1 ELSE 0)
             /\ Present(port, f, last)' = Present(port, f, last)
                  + (IF Is(p, port, f, last) THEN 1 ELSE 0)
  BY <1>1, <1>5, AppendPresent DEF Offered
<1>6. CASE /\ internal_queue' = Append(internal_queue, p) /\ ~header(p).octopus
           /\ frame_counter' = frame_counter
  <2>1. ~(p.port = port /\ p.frame = f)
    BY <1>6 DEF header
  <2> QED
    BY <1>3, <1>5, <1>6, <1>p, <2>1 DEF Is
<1>7. CASE /\ internal_queue' = Append(internal_queue, p) /\ header(p).octopus
           /\ NotePacket(p)
  <2>1. CASE ~(p.port = port /\ p.frame = f)
    <3>1. p.port = port => header(p).msg_no # m
      BY <1>1, <1>2, <2>1, MsgNosGrow, FrameFacts DEF header
    <3>2. frame_counter'[port][m] = frame_counter[port][m]
      <4>1. CASE p.port = port
        BY <1>1, <1>7, <3>1, <4>1, NoteEffect
      <4>2. CASE p.port # port
        BY <1>7, <4>2, NoteEffect
      <4> QED
        BY <4>1, <4>2
    <3> QED
      BY <1>3, <1>5, <1>7, <1>p, <2>1, <3>2 DEF Is
  <2>2. CASE p.port = port /\ p.frame = f
    <3>1. header(p).msg_no = m /\ header(p).fragments = last
      BY <2>2 DEF header
    <3>2. frame_counter'[port][m] = IF pkt_pos(p) = "SOLO" THEN 2
                                    ELSE frame_counter[port][m] + Weight(p)
      BY <1>7, <2>2, <3>1, NoteEffect, ZenonT(30)
    <3>3. /\ Weight(p) = (IF p.fragment = 1 THEN 1 ELSE 0)
                         + (IF p.fragment = last THEN 1 ELSE 0)
          /\ pkt_pos(p) = "SOLO" <=> last = 1
      BY <3>1, WeightFacts
    <3>4. /\ Present(port, f, 1)' = Present(port, f, 1)
                  + (IF p.fragment = 1 THEN 1 ELSE 0)
          /\ Present(port, f, last)' = Present(port, f, last)
                  + (IF p.fragment = last THEN 1 ELSE 0)
      BY <1>5, <1>7, <2>2 DEF Is
    <3>5. CASE last = 1
      <4>1. p.fragment = 1
        BY <2>2, <3>5, PacketFacts
      <4>2. Present(port, f, 1)' \in {0, 1} /\ Present(port, f, last)' \in {0, 1}
        BY DEF Present
      <4> QED
        BY <1>p, <3>2, <3>3, <3>4, <3>5, <4>1, <4>2
    <3>6. CASE last # 1
      BY <1>3, <1>p, <3>2, <3>3, <3>4, <3>6
    <3> QED
      BY <3>5, <3>6
  <2> QED
    BY <2>1, <2>2
<1> QED
  BY <1>4, <1>6, <1>7, EnqueueEffect DEF Offered

\* The last packet of a preempting frame is behind everything it preempts.
LEMMA OfferedDropper ==
  ASSUME Types, NEW port \in Ports, OrderInv(port), DropperInv(port),
         NEW p \in Packet, Offered(port, p)
  PROVE  DropperInv(port)'
<1> DEFINE n == Len(internal_queue)
<1> SUFFICES ASSUME (port \in DOMAIN prio_to_droppers)',
                    NEW t \in Priorities, (prio_to_droppers[port][t] > 0)'
             PROVE  (\E f \in 1..Len(Flows[port]) :
        /\ Flows[port][f].msg_no = prio_to_droppers[port][t]
        /\ Flows[port][f].octopus /\ Flows[port][f].preempt
        /\ Flows[port][f].threshold = t /\ f <= sent[port][1]
        /\ \A i \in 1..Len(internal_queue) :
             internal_queue[i].port = port /\ internal_queue[i].frame < f =>
               \E j \in 1..Len(internal_queue) :
                 /\ j > i /\ internal_queue[j].port = port
                 /\ internal_queue[j].frame = f
                 /\ internal_queue[j].fragment = Flows[port][f].fragments)'
  BY DEF DropperInv
<1>1. /\ p.frame \in Nat /\ p.fragment \in Nat /\ p.port \in Ports
      /\ p.frame \in 1..Len(Flows[p.port])
      /\ sent[port][1] \in Nat /\ sent[port][2] \in Nat /\ n \in Nat
  BY PacketFacts, QueueFacts DEF Types
<1>2. sent[port][1] <= sent'[port][1]
      /\ (p.port = port => sent'[port][1] = p.frame /\ sent[port][1] <= p.frame)
  BY <1>1 DEF Offered
<1>3. \/ internal_queue' = internal_queue
      \/ /\ Len(internal_queue') = n + 1
         /\ \A i \in 1..n : internal_queue'[i] = internal_queue[i]
         /\ internal_queue'[n + 1] = p
  BY EnqueueEffect, AppendFacts DEF Types, Offered
<1>4. CASE /\ port \in DOMAIN prio_to_droppers
           /\ prio_to_droppers'[port][t] = prio_to_droppers[port][t]
  <2>1. PICK f \in 1..Len(Flows[port]) :
        /\ Flows[port][f].msg_no = prio_to_droppers[port][t]
        /\ Flows[port][f].octopus /\ Flows[port][f].preempt
        /\ Flows[port][f].threshold = t /\ f <= sent[port][1]
        /\ \A i \in 1..n :
             internal_queue[i].port = port /\ internal_queue[i].frame < f =>
               \E j \in 1..n :
                 /\ j > i /\ internal_queue[j].port = port
                 /\ internal_queue[j].frame = f
                 /\ internal_queue[j].fragment = Flows[port][f].fragments
    BY <1>4 DEF DropperInv
  <2>2. f \in Nat /\ f <= sent'[port][1]
    <3>1. f \in Nat
      BY FrameFacts
    <3>2. sent'[port][1] \in Nat
      BY <1>1 DEF Offered
    <3> QED
      BY <1>1, <1>2, <2>1, <3>1, <3>2
  <2>3. ASSUME NEW i \in 1..Len(internal_queue'),
               internal_queue'[i].port = port, internal_queue'[i].frame < f
        PROVE  \E j \in 1..Len(internal_queue') :
                 /\ j > i /\ internal_queue'[j].port = port
                 /\ internal_queue'[j].frame = f
                 /\ internal_queue'[j].fragment = Flows[port][f].fragments
    <3>1. i \in 1..n /\ internal_queue'[i] = internal_queue[i]
      BY <1>1, <1>2, <1>3, <2>1, <2>2, <2>3
    <3>2. PICK j \in 1..n :
                 /\ j > i /\ internal_queue[j].port = port
                 /\ internal_queue[j].frame = f
                 /\ internal_queue[j].fragment = Flows[port][f].fragments
      BY <2>1, <2>3, <3>1
    <3>3. j \in 1..Len(internal_queue') /\ internal_queue'[j] = internal_queue[j]
      BY <1>1, <1>3
    <3> QED
      BY <3>2, <3>3
  <2> QED
    BY <1>4, <2>1, <2>2, <2>3
<1>5. CASE /\ internal_queue' = Append(internal_queue, p) /\ header(p).octopus
           /\ p.port = port /\ header(p).preempt /\ header(p).threshold = t
           /\ pkt_pos(p) \in {"LAST", "SOLO"}
           /\ prio_to_droppers'[port][t] = header(p).msg_no
  <2>1. /\ Len(internal_queue') = n + 1
        /\ \A i \in 1..n : internal_queue'[i] = internal_queue[i]
        /\ internal_queue'[n + 1] = p
    BY <1>5, AppendFacts DEF Types
  <2>2. p.fragment = Flows[port][p.frame].fragments
    BY <1>5, WeightFacts DEF header
  <2>3. ASSUME NEW i \in 1..Len(internal_queue'),
               internal_queue'[i].frame < p.frame
        PROVE  n + 1 \in 1..Len(internal_queue') /\ n + 1 > i
    BY <1>1, <2>1, <2>3
  <2> QED
    BY <1>1, <1>2, <1>5, <2>1, <2>2, <2>3, SMTT(30) DEF header
<1>6. \/ /\ port \in DOMAIN prio_to_droppers
         /\ prio_to_droppers'[port][t] = prio_to_droppers[port][t]
      \/ /\ internal_queue' = Append(internal_queue, p) /\ header(p).octopus
         /\ p.port = port /\ header(p).preempt /\ header(p).threshold = t
         /\ pkt_pos(p) \in {"LAST", "SOLO"}
         /\ prio_to_droppers'[port][t] = header(p).msg_no
  <2>1. CASE prio_to_droppers' = prio_to_droppers
    BY <2>1
  <2>2. CASE prio_to_droppers' # prio_to_droppers
    <3>1. /\ internal_queue' = Append(internal_queue, p) /\ header(p).octopus
          /\ NotePacket(p)
      BY <2>2, EnqueueEffect DEF Offered
    <3>2. /\ pkt_pos(p) \in {"LAST", "SOLO"} /\ header(p).preempt
          /\ DOMAIN prio_to_droppers' = DOMAIN prio_to_droppers \cup {p.port}
          /\ prio_to_droppers'[p.port] = Droppers(p)
          /\ \A o \in DOMAIN prio_to_droppers :
               o # p.port => prio_to_droppers'[o] = prio_to_droppers[o]
      BY <2>2, <3>1, NoteEffect
    <3>3. CASE p.port # port
      BY <3>2, <3>3
    <3>4. CASE p.port = port
      <4> DEFINE known == IF port \in DOMAIN prio_to_droppers
                          THEN prio_to_droppers[port]
                          ELSE [i \in Priorities |-> -1]
      <4>1. known \in [Priorities -> Int]
        BY DEF Types
      <4>2. \/ Droppers(p) = [known EXCEPT ![header(p).threshold] =
                                header(p).msg_no]
            \/ Droppers(p) = known
        BY <3>4 DEF Droppers
      <4>3. \/ /\ header(p).threshold = t
               /\ Droppers(p)[t] = header(p).msg_no
            \/ Droppers(p)[t] = known[t]
        <5> HIDE DEF known
        <5> QED
          BY <4>1, <4>2
      <4>4. known[t] = prio_to_droppers[port][t]
            \/ (port \notin DOMAIN prio_to_droppers /\ known[t] = -1)
        OBVIOUS
      <4>5. Droppers(p)[t] > 0
        BY <3>2, <3>4
      <4>6. port \notin DOMAIN prio_to_droppers => known[t] = -1
        OBVIOUS
      <4> HIDE DEF known
      <4> QED
        BY <3>1, <3>2, <3>4, <4>3, <4>4, <4>5, <4>6
    <3> QED
      BY <3>3, <3>4
  <2> QED
    BY <2>1, <2>2
<1> QED
  BY <1>4, <1>5, <1>6

\* Taking the front packet keeps the flows in order.
LEMMA FrontOrder ==
  ASSUME Types, NEW port \in Ports, OrderInv(port), internal_queue # <<>>,
         dequeuefront, sent' = sent
  PROVE  OrderInv(port)'
<1> DEFINE n == Len(internal_queue)
<1>1. /\ n \in Nat /\ Len(internal_queue') = n - 1
      /\ \A i \in 1..(n - 1) : internal_queue'[i] = internal_queue[i + 1]
  BY TailFacts DEF Types, dequeuefront
<1>2. ASSUME NEW i \in 1..Len(internal_queue'),
             internal_queue'[i].port = port
      PROVE  ~Lex(sent'[port][1], sent'[port][2],
                  internal_queue'[i].frame, internal_queue'[i].fragment)
  <2>1. i + 1 \in 1..n /\ internal_queue'[i] = internal_queue[i + 1]
    BY <1>1
  <2> QED
    BY <1>2, <2>1 DEF OrderInv
<1>3. ASSUME NEW i \in 1..Len(internal_queue'),
             NEW j \in 1..Len(internal_queue'), i < j,
             internal_queue'[i].port = port, internal_queue'[j].port = port
      PROVE  Lex(internal_queue'[i].frame, internal_queue'[i].fragment,
                 internal_queue'[j].frame, internal_queue'[j].fragment)
  <2>1. /\ i + 1 \in 1..n /\ internal_queue'[i] = internal_queue[i + 1]
        /\ j + 1 \in 1..n /\ internal_queue'[j] = internal_queue[j + 1]
        /\ i + 1 < j + 1
    BY <1>1, <1>3
  <2> QED
    BY <1>3, <2>1 DEF OrderInv
<1> QED
  BY <1>2, <1>3 DEF OrderInv

\* The counter of its frame goes with it.
LEMMA FrontCounter ==
  ASSUME Types, NEW port \in Ports, OrderInv(port), CounterInv(port),
         internal_queue # <<>>, dequeuefront
  PROVE  CounterInv(port)'
<1> SUFFICES ASSUME NEW f \in 1..Len(Flows[port]), Flows[port][f].octopus
             PROVE  (frame_counter[port][Flows[port][f].msg_no] =
                      Present(port, f, 1)
                      + Present(port, f, Flows[port][f].fragments))'
  BY DEF CounterInv
<1> DEFINE m == Flows[port][f].msg_no
           last == Flows[port][f].fragments
           p == Head(internal_queue)
<1>1. /\ m \in Nat /\ m \in MsgNos(port) /\ last \in Nat /\ last > 0 /\ f \in Nat
  BY FrameFacts
<1>2. /\ p \in Packet /\ internal_queue' = Tail(internal_queue)
      /\ \A o \in Ports :
           o # p.port => frame_counter'[o] = frame_counter[o]
      /\ \A x \in MsgNos(p.port) : x # header(p).msg_no =>
           frame_counter'[p.port][x] = frame_counter[p.port][x]
      /\ header(p).octopus =>
           frame_counter'[p.port][header(p).msg_no] =
             frame_counter[p.port][header(p).msg_no] - Weight(p)
  BY FrontEffect
<1> HIDE DEF p
<1>3. /\ Present(port, f, 1)' = Present(port, f, 1)
           - (IF Is(p, port, f, 1) THEN 1 ELSE 0)
      /\ Present(port, f, last)' = Present(port, f, last)
           - (IF Is(p, port, f, last) THEN 1 ELSE 0)
  BY <1>1, <1>2, TailPresent DEF p
<1>4. frame_counter[port][m] = Present(port, f, 1) + Present(port, f, last)
  BY DEF CounterInv
<1>p. Present(port, f, 1) \in {0, 1} /\ Present(port, f, last) \in {0, 1}
  BY DEF Present
<1>5. CASE ~(p.port = port /\ p.frame = f)
  <2>1. CASE p.port = port
    <3>1. header(p).msg_no # m
      <4>1. p.frame \in 1..Len(Flows[port]) /\ p.frame \in Nat
        BY <1>2, <2>1, PacketFacts
      <4> QED
        BY <1>1, <1>5, <2>1, <4>1, MsgNosGrow, FrameFacts DEF header
    <3>2. frame_counter'[port][m] = frame_counter[port][m]
      BY <1>1, <1>2, <2>1, <3>1
    <3> QED
      BY <1>3, <1>4, <1>5, <1>p, <3>2 DEF Is
  <2>2. CASE p.port # port
    <3>1. frame_counter'[port][m] = frame_counter[port][m]
      BY <1>2, <2>2
    <3> QED
      BY <1>3, <1>4, <1>5, <1>p, <3>1 DEF Is
  <2> QED
    BY <2>1, <2>2
<1>6. CASE p.port = port /\ p.frame = f
  <2>1. header(p).msg_no = m /\ header(p).fragments = last /\ header(p).octopus
    BY <1>6 DEF header
  <2>2. /\ Weight(p) = (IF p.fragment = 1 THEN 1 ELSE 0)
                       + (IF p.fragment = last THEN 1 ELSE 0)
    BY <1>2, <2>1, WeightFacts
  <2>3. frame_counter'[port][m] = frame_counter[port][m] - Weight(p)
    BY <1>2, <1>6, <2>1
  <2> QED
    BY <1>3, <1>4, <1>6, <1>p, <2>2, <2>3 DEF Is
<1> QED
  BY <1>5, <1>6

\* What is queued behind a packet stays behind it.
LEMMA FrontDropper ==
  ASSUME Types, NEW port \in Ports, DropperInv(port), internal_queue # <<>>,
         dequeuefront, sent' = sent
  PROVE  DropperInv(port)'
<1> DEFINE n == Len(internal_queue)
<1> SUFFICES ASSUME (port \in DOMAIN prio_to_droppers)',
                    NEW t \in Priorities, (prio_to_droppers[port][t] > 0)'
             PROVE  (\E f \in 1..Len(Flows[port]) :
        /\ Flows[port][f].msg_no = prio_to_droppers[port][t]
        /\ Flows[port][f].octopus /\ Flows[port][f].preempt
        /\ Flows[port][f].threshold = t /\ f <= sent[port][1]
        /\ \A i \in 1..Len(internal_queue) :
             internal_queue[i].port = port /\ internal_queue[i].frame < f =>
               \E j \in 1..Len(internal_queue) :
                 /\ j > i /\ internal_queue[j].port = port
                 /\ internal_queue[j].frame = f
                 /\ internal_queue[j].fragment = Flows[port][f].fragments)'
  BY DEF DropperInv
<1>1. /\ port \in DOMAIN prio_to_droppers
      /\ prio_to_droppers'[port] = prio_to_droppers[port]
  <2>1. \/ /\ port \in DOMAIN prio_to_droppers
           /\ prio_to_droppers'[port] = prio_to_droppers[port]
        \/ \A u \in Priorities : prio_to_droppers'[port][u] = 0
    BY FrontEffect
  <2> QED
    BY <2>1
<1>2. PICK f \in 1..Len(Flows[port]) :
        /\ Flows[port][f].msg_no = prio_to_droppers[port][t]
        /\ Flows[port][f].octopus /\ Flows[port][f].preempt
        /\ Flows[port][f].threshold = t /\ f <= sent[port][1]
        /\ \A i \in 1..n :
             internal_queue[i].port = port /\ internal_queue[i].frame < f =>
               \E j \in 1..n :
                 /\ j > i /\ internal_queue[j].port = port
                 /\ internal_queue[j].frame = f
                 /\ internal_queue[j].fragment = Flows[port][f].fragments
  BY <1>1 DEF DropperInv
<1>3. /\ n \in Nat /\ Len(internal_queue') = n - 1
      /\ \A i \in 1..(n - 1) : internal_queue'[i] = internal_queue[i + 1]
  BY TailFacts DEF Types, dequeuefront
<1>4. ASSUME NEW i \in 1..Len(internal_queue'),
             internal_queue'[i].port = port, internal_queue'[i].frame < f
      PROVE  \E j \in 1..Len(internal_queue') :
               /\ j > i /\ internal_queue'[j].port = port
               /\ internal_queue'[j].frame = f
               /\ internal_queue'[j].fragment = Flows[port][f].fragments
  <2>1. i + 1 \in 1..n /\ internal_queue'[i] = internal_queue[i + 1]
    BY <1>3
  <2>2. PICK j \in 1..n :
               /\ j > i + 1 /\ internal_queue[j].port = port
               /\ internal_queue[j].frame = f
               /\ internal_queue[j].fragment = Flows[port][f].fragments
    BY <1>2, <1>4, <2>1
  <2>3. j - 1 \in 1..(n - 1) /\ (j - 1) + 1 = j /\ j - 1 > i
    BY <1>3, <2>1, <2>2
  <2>4. internal_queue'[j - 1] = internal_queue[j]
    BY <1>3, <2>3
  <2> QED
    BY <1>3, <2>2, <2>3, <2>4
<1> QED
  BY <1>1, <1>2, <1>4

\* A flow that is still sent once has been so before.
LEMMA StillSentOnce ==
  ASSUME BaseInv, [Next]_vars, NEW port \in SentOnce'
  PROVE  /\ port \in SentOnce /\ port \in Ports
         /\ ~ArriveAgain(port)
<1>1. port \in Ports /\ \A r \in resent' : r[1] # port
  BY DEF SentOnce
<1>2. resent \subseteq resent'
  <2>1. CASE \E o \in Ports : Arrive(o) \/ ArriveAgain(o)
    BY <2>1 DEF Arrive, ArriveAgain
  <2>2. CASE ~\E o \in Ports : Arrive(o) \/ ArriveAgain(o)
    BY <2>2 DEF Next, vars, envVars, dequeue, dequeue_next, dequeue_returns, Tick
  <2> QED
    BY <2>1, <2>2
<1>3. ~ArriveAgain(port)
  <2> SUFFICES ASSUME ArriveAgain(port) PROVE FALSE
    OBVIOUS
  <2>1. \E f, k : <<port, f, k>> \in resent'
    BY DEF ArriveAgain
  <2> QED
    BY <1>1, <2>1
<1> QED
  BY <1>1, <1>2, <1>3 DEF SentOnce

\* An arrival offers a packet to every flow that is sent once.
LEMMA ArrivalOffers ==
  ASSUME BaseInv, NEW o \in Ports, Arrive(o) \/ ArriveAgain(o),
         NEW port \in Ports, ~ArriveAgain(port)
  PROVE  \E p \in Packet :
           Offered(port, p) /\ pc = "idle" /\ UNCHANGED <<clock, callVars>>
<1>1. PICK p \in Packet :
           /\ enqueue(p) /\ p.port = o
           /\ pc = "idle" /\ UNCHANGED <<clock, callVars>>
           /\ \/ /\ Arrive(o) /\ resent' = resent
                 /\ sent' = [sent EXCEPT ![o] = <<p.frame, p.fragment>>]
                 /\ Lex(sent[o][1], sent[o][2], p.frame, p.fragment)
                 /\ sent[o][1] <= p.frame
              \/ /\ ArriveAgain(o) /\ sent' = sent
                 /\ resent' = resent \cup {<<o, p.frame, p.fragment>>}
  BY ArriveFacts
<1>2. sent \in [Ports -> Nat \X Nat]
  BY DEF BaseInv, Types
<1>3. CASE port = o
  BY <1>1, <1>2, <1>3 DEF Offered
<1>4. CASE port # o
  BY <1>1, <1>2, <1>4 DEF Offered
<1> QED
  BY <1>3, <1>4

\* Every step keeps the flows that are sent once in order, their counters
\* exact and their droppers behind what they preempt.
LEMMA FlowStep ==
  ASSUME BaseInv, [Next]_vars, \A port \in SentOnce : FlowInv(port),
         NEW port \in SentOnce'
  PROVE  FlowInv(port)'
<1>1. port \in SentOnce /\ port \in Ports /\ FlowInv(port) /\ ~ArriveAgain(port)
      /\ Types
  BY StillSentOnce DEF BaseInv
<1>2. ASSUME NEW o \in Ports, Arrive(o) \/ ArriveAgain(o) PROVE FlowInv(port)'
  <2>1. PICK p \in Packet : Offered(port, p)
    BY <1>1, <1>2, ArrivalOffers
  <2> QED
    BY <1>1, <2>1, OfferedOrder, OfferedCounter, OfferedDropper DEF FlowInv
<1>3. CASE dequeue \/ dequeue_next
  <2>1. internal_queue # <<>> /\ dequeuefront /\ sent' = sent
    BY <1>3 DEF dequeue, dequeue_next, envVars
  <2> QED
    BY <1>1, <2>1, FrontOrder, FrontCounter, FrontDropper DEF FlowInv
<1>4. CASE dequeue_returns \/ Tick \/ UNCHANGED vars
  <2>1. UNCHANGED <<sent, internal_queue, frame_counter, prio_to_droppers>>
    BY <1>4 DEF dequeue_returns, Tick, vars, envVars, sizeVars, frameVars
  <2> QED
    BY <1>1, <2>1 DEF FlowInv, OrderInv, CounterInv, DropperInv, Present,
       QueuedAt
<1> QED
  BY <1>2, <1>3, <1>4 DEF Next

\* On a flow that is sent once the queue is in the order of sending, the frame
\* counters tell exactly which ends of a frame are queued, and a dropper is
\* queued behind every frame it may preempt.
THEOREM FlowInvariance == Spec => [](\A port \in SentOnce : FlowInv(port))
<1>1. Init => \A port \in SentOnce : FlowInv(port)
  <2> SUFFICES ASSUME Init, NEW port \in SentOnce PROVE FlowInv(port)
    OBVIOUS
  <2>1. port \in Ports /\ internal_queue = <<>> /\ Len(internal_queue) = 0
    BY EmptySeq DEF Init, SentOnce
  <2>2. \A f, k : Present(port, f, k) = 0
    BY <2>1 DEF Present, QueuedAt
  <2>3. CounterInv(port)
    BY <2>1, <2>2, FrameFacts, SMTT(30) DEF Init, CounterInv
  <2>4. OrderInv(port) /\ DropperInv(port)
    BY <2>1 DEF Init, OrderInv, DropperInv
  <2> QED
    BY <2>3, <2>4 DEF FlowInv
<1>2. BaseInv /\ (\A port \in SentOnce : FlowInv(port)) /\ [Next]_vars
        => (\A port \in SentOnce : FlowInv(port))'
  BY FlowStep
<1> QED
  BY <1>1, <1>2, BaseInvariance, PTL DEF Spec
------------------------------------------------------------------------------
(* Preemption.                                                              *)

\* A set of the first entries of a table of priorities has a maximum.
LEMMA TableMax ==
  ASSUME NEW g \in [Priorities -> Int], NEW n \in Priorities
  PROVE  LET S == {-1} \cup {g[i] : i \in 0..n}
         IN Max(S) \in S
<1> DEFINE S(k) == {-1} \cup {g[i] : i \in 0..k}
           HasMax(k) == \E x \in S(k) : \A y \in S(k) : x >= y
<1>1. HasMax(0)
  BY DEF Priorities
<1>2. ASSUME NEW k \in 0..6, HasMax(k) PROVE HasMax(k + 1)
  <2>1. PICK x \in S(k) : \A y \in S(k) : x >= y
    BY <1>2
  <2>2. g[k + 1] \in Int /\ x \in Int
    BY DEF Priorities
  <2>3. S(k + 1) = S(k) \cup {g[k + 1]}
    OBVIOUS
  <2>4. CASE x >= g[k + 1]
    BY <2>1, <2>3, <2>4
  <2>5. CASE g[k + 1] > x
    <3>1. \A y \in S(k) : y \in Int
      BY DEF Priorities
    <3> HIDE DEF S
    <3>2. \A y \in S(k) : g[k + 1] >= y
      BY <2>1, <2>2, <2>5, <3>1
    <3>3. g[k + 1] >= g[k + 1]
      BY <2>2
    <3> QED
      BY <2>3, <3>2, <3>3
  <2> HIDE DEF S, HasMax
  <2>6. x >= g[k + 1] \/ g[k + 1] > x
    BY <2>2
  <2> QED
    BY <2>4, <2>5, <2>6
<1> HIDE DEF HasMax
<1>3. HasMax(1) /\ HasMax(2) /\ HasMax(3) /\ HasMax(4)
  <2>1. HasMax(0 + 1)
    BY <1>1, <1>2
  <2>2. HasMax(1 + 1)
    BY <2>1, <1>2
  <2>3. HasMax(2 + 1)
    BY <2>2, <1>2
  <2>4. HasMax(3 + 1)
    BY <2>3, <1>2
  <2> QED
    BY <2>1, <2>2, <2>3, <2>4
<1>4. HasMax(5) /\ HasMax(6) /\ HasMax(7)
  <2>1. HasMax(4 + 1)
    BY <1>3, <1>2
  <2>2. HasMax(5 + 1)
    BY <2>1, <1>2
  <2>3. HasMax(6 + 1)
    BY <2>2, <1>2
  <2> QED
    BY <2>1, <2>2, <2>3
<1>5. HasMax(n)
  BY <1>1, <1>3, <1>4 DEF Priorities
<1>6. \E x \in S(n) : \A y \in S(n) : x >= y
  BY <1>5 DEF HasMax
<1> QED
  BY <1>6 DEF Max

\* The latest dropper of a packet is one that may preempt its priority.
LEMMA LatestDropper ==
  ASSUME Types, NEW p \in Packet, Preempted(p)
  PROVE  /\ p.port \in DOMAIN prio_to_droppers
         /\ \E t \in 0..header(p).priority :
              prio_to_droppers[p.port][t] > header(p).msg_no
<1>1. /\ header(p).priority \in Priorities
      /\ header(p).msg_no \in Nat /\ header(p).msg_no > 0
  BY PacketFacts, FrameFacts DEF header
<1>2. header(p).msg_no < latest_dropper(p)
  BY DEF Preempted
<1>3. CASE p.port \notin DOMAIN prio_to_droppers
  <2>1. latest_dropper(p) = Max({-1} \cup {0})
    BY <1>3 DEF latest_dropper
  <2>2. Max({-1} \cup {0}) \in {-1} \cup {0}
    <3>1. \E x \in {-1} \cup {0} : \A y \in {-1} \cup {0} : x >= y
      OBVIOUS
    <3> QED
      BY <3>1 DEF Max
  <2> QED
    BY <1>1, <1>2, <2>1, <2>2
<1>4. CASE p.port \in DOMAIN prio_to_droppers
  <2> DEFINE g == prio_to_droppers[p.port]
             S == {-1} \cup {g[i] : i \in 0..header(p).priority}
  <2>1. latest_dropper(p) = Max(S)
    BY <1>4 DEF latest_dropper
  <2>2. g \in [Priorities -> Int]
    BY <1>4 DEF Types
  <2>3. Max(S) \in S
    BY <1>1, <2>2, TableMax
  <2>4. Max(S) # -1
    BY <1>1, <1>2, <2>1
  <2>5. PICK t \in 0..header(p).priority : Max(S) = g[t]
    BY <2>3, <2>4
  <2>6. g[t] > header(p).msg_no
    <3>1. t \in Priorities
      BY <1>1 DEF Priorities
    <3> QED
      BY <1>1, <1>2, <2>1, <2>2, <2>5, <3>1
  <2> QED
    BY <1>4, <2>6
<1> QED
  BY <1>3, <1>4

\* A packet that is preempted has its dropper behind it in the queue.
LEMMA FrontPreempts ==
  ASSUME BaseInv, internal_queue # <<>>, dequeuefront, verdict' = "preempt",
         FlowInv(pkt'.port)
  PROVE  (\E i \in 1..Len(internal_queue) :
            LET q == internal_queue[i] IN
            /\ q.port = pkt.port /\ header(q).octopus
            /\ header(q).msg_no > header(pkt).msg_no
            /\ header(q).preempt /\ header(q).threshold <= header(pkt).priority
            /\ pkt_pos(q) \in {"LAST", "SOLO"})'
<1> DEFINE n == Len(internal_queue)
           p == Head(internal_queue)
<1>t. Types
  BY DEF BaseInv
<1>1. /\ p \in Packet /\ pkt' = p /\ header(p).octopus
      /\ \E fair_share \in FairShares : verdict' = Verdict(p, fair_share)
  BY <1>t, FrontEffect
<1>2. /\ n \in Nat /\ n > 0 /\ Len(internal_queue') = n - 1
      /\ p = internal_queue[1]
      /\ \A i \in 1..(n - 1) : internal_queue'[i] = internal_queue[i + 1]
  BY <1>t, TailFacts DEF Types, dequeuefront
<1> HIDE DEF p
<1> DEFINE port == p.port
<1>3. Preempted(p)
  BY <1>1 DEF Verdict
<1>4. /\ port \in Ports /\ p.frame \in 1..Len(Flows[port])
      /\ header(p) = Flows[port][p.frame] /\ p.frame \in Nat
      /\ header(p).msg_no \in Nat /\ header(p).priority \in Priorities
  BY <1>1, PacketFacts, FrameFacts DEF header
<1>5. PICK t \in 0..header(p).priority :
             prio_to_droppers[port][t] > header(p).msg_no
  BY <1>t, <1>1, <1>3, LatestDropper
<1>6. port \in DOMAIN prio_to_droppers /\ t \in Priorities
      /\ prio_to_droppers[port][t] \in Int
  <2>1. port \in DOMAIN prio_to_droppers
    BY <1>t, <1>1, <1>3, LatestDropper
  <2>2. t \in Priorities
    BY <1>4, SMTT(30) DEF Priorities
  <2>3. prio_to_droppers[port] \in [Priorities -> Int]
    BY <1>t, <2>1 DEF Types
  <2> QED
    BY <2>1, <2>2, <2>3
<1>7. PICK f \in 1..Len(Flows[port]) :
        /\ Flows[port][f].msg_no = prio_to_droppers[port][t]
        /\ Flows[port][f].octopus /\ Flows[port][f].preempt
        /\ Flows[port][f].threshold = t
        /\ \A i \in 1..n :
             internal_queue[i].port = port /\ internal_queue[i].frame < f =>
               \E j \in 1..n :
                 /\ j > i /\ internal_queue[j].port = port
                 /\ internal_queue[j].frame = f
                 /\ internal_queue[j].fragment = Flows[port][f].fragments
  <2>1. prio_to_droppers[port][t] > 0
    BY <1>4, <1>5, <1>6
  <2>2. DropperInv(port)
    BY <1>1 DEF FlowInv
  <2> QED
    BY <1>6, <2>1, <2>2 DEF DropperInv
<1>8. p.frame < f
  BY <1>4, <1>5, <1>6, <1>7, MsgNosGrow
<1>9. PICK j \in 1..n :
        /\ j > 1 /\ internal_queue[j].port = port
        /\ internal_queue[j].frame = f
        /\ internal_queue[j].fragment = Flows[port][f].fragments
  <2>1. 1 \in 1..n
    BY <1>2
  <2> QED
    BY <1>2, <1>7, <1>8, <2>1
<1>10. j - 1 \in 1..(n - 1) /\ (j - 1) + 1 = j
  BY <1>2, <1>9
<1> DEFINE q == internal_queue[j]
<1>11. internal_queue'[j - 1] = q /\ j - 1 \in 1..Len(internal_queue')
  BY <1>2, <1>10
<1>12. q \in Packet /\ header(q) = Flows[port][f]
  BY <1>t, <1>9, QueueFacts DEF header
<1>13. pkt_pos(q) \in {"LAST", "SOLO"}
  BY <1>9, <1>12, WeightFacts
<1>14. header(q).msg_no > header(p).msg_no /\ header(q).threshold <= header(p).priority
  BY <1>4, <1>5, <1>6, <1>7, <1>12
<1>15. header(pkt') = header(p) /\ q.port = pkt'.port
  BY <1>1, <1>9
<1> HIDE DEF q, port
<1> QED
  BY <1>1, <1>7, <1>11, <1>12, <1>13, <1>14, <1>15 DEF header, pkt_pos

\* A frame is preempted only for a newer one of its flow that is queued behind
\* it, on every flow that is sent once; for any flows, limits and fair shares.
THEOREM FramesGiveWayToNewer == Spec => []PreemptedForNewer
<1>1. Init => PreemptedForNewer
  BY DEF Init, PreemptedForNewer
<1>2. ASSUME BaseInv, \A port \in SentOnce : FlowInv(port),
             PreemptedForNewer, [Next]_vars
      PROVE  PreemptedForNewer'
  <2> SUFFICES ASSUME verdict' = "preempt", pc' = "dequeue",
                      pkt'.port \in SentOnce'
               PROVE  PreemptedForNewer'
    BY DEF PreemptedForNewer
  <2>1. CASE dequeue \/ dequeue_next
    <3>1. internal_queue # <<>> /\ dequeuefront
      BY <2>1 DEF dequeue, dequeue_next
    <3>2. FlowInv(pkt'.port)
      BY <1>2, StillSentOnce, SMTT(30)
    <3> QED
      BY <1>2, <3>1, <3>2, FrontPreempts DEF PreemptedForNewer
  <2>2. CASE Tick \/ UNCHANGED vars
    <3>1. UNCHANGED <<internal_queue, pkt, pc, verdict, resent>>
      BY <2>2 DEF Tick, vars, envVars, sizeVars, callVars
    <3> QED
      BY <1>2, <3>1 DEF PreemptedForNewer, SentOnce, header, pkt_pos
  <2>3. CASE dequeue_returns
    BY <2>3 DEF dequeue_returns
  <2>4. ASSUME NEW o \in Ports, Arrive(o) \/ ArriveAgain(o) PROVE FALSE
    BY <2>4 DEF Arrive, ArriveAgain, callVars
  <2> QED
    BY <1>2, <2>1, <2>2, <2>3, <2>4 DEF Next
<1> QED
  BY <1>1, <1>2, BaseInvariance, FlowInvariance, PTL DEF Spec
------------------------------------------------------------------------------
(* Frames are dropped as a whole.                                           *)

\* Has packet k of frame f been handed on or dropped, or is it in hand?
Gone(port, f, k) == <<port, f, k>> \in delivered \cup dropped
Hand(port, f, k) == pc = "dequeue" /\ Is(pkt, port, f, k)

\* The packets of a flow leave the queue in order, each of them once.
TakenInv(port) ==
  \A f, k \in Nat :
    /\ Gone(port, f, k) =>
         /\ ~(<<port, f, k>> \in delivered /\ <<port, f, k>> \in dropped)
         /\ pc = "dequeue" /\ pkt.port = port =>
              Lex(f, k, pkt.frame, pkt.fragment)
    /\ Gone(port, f, k) \/ Hand(port, f, k) =>
         /\ ~Lex(sent[port][1], sent[port][2], f, k)
         /\ \A i \in 1..Len(internal_queue) :
              internal_queue[i].port = port =>
                Lex(f, k, internal_queue[i].frame, internal_queue[i].fragment)

\* Has the first packet of frame f been dropped or handed on, or will it be?
FirstDropped(port, f) ==
  <<port, f, 1>> \in dropped \/ (Hand(port, f, 1) /\ DropOn)
FirstKept(port, f) ==
  <<port, f, 1>> \in delivered \/ (Hand(port, f, 1) /\ ~DropOn)

\* Is a packet of frame f in the queue?
SomeQueued(port, f) ==
  \E i \in 1..Len(internal_queue) :
    internal_queue[i].port = port /\ internal_queue[i].frame = f

\* msg_in_drop_ names a frame whose first packet has been taken.
DropNoted(port, f) ==
  msg_in_drop[port] = Flows[port][f].msg_no => Gone(port, f, 1) \/ Hand(port, f, 1)

\* A frame of several packets whose first one is dropped: the last one is still
\* to come, and until then msg_in_drop_ names the frame.
DroppedInv(port, f) ==
  LET last == Flows[port][f].fragments IN
  /\ msg_in_drop[port] = Flows[port][f].msg_no => FirstDropped(port, f)
  /\ FirstDropped(port, f) =>
       /\ Flows[port][f].octopus
       /\ QueuedAt(port, f, last) \/ Gone(port, f, last) \/ Hand(port, f, last)
       /\ SomeQueued(port, f) => msg_in_drop[port] = Flows[port][f].msg_no
       /\ \A k \in 1..(last - 1) : <<port, f, k>> \notin delivered
       /\ \A k \in 1..(last - 1) : Hand(port, f, k) => DropOn

\* One whose first packet is handed on.
KeptInv(port, f) ==
  FirstKept(port, f) =>
    \A k \in 1..Flows[port][f].fragments :
      <<port, f, k>> \notin dropped /\ (Hand(port, f, k) => ~DropOn)

\* The invariant of a frame.
FrameInv(port, f) ==
  /\ DropNoted(port, f)
  /\ Flows[port][f].fragments > 1 => DroppedInv(port, f) /\ KeptInv(port, f)

\* The inductive invariant of WholeFrames.
WholeInv(port) ==
  TakenInv(port) /\ \A f \in 1..Len(Flows[port]) : FrameInv(port, f)

\* An arrival is newer than everything taken.
LEMMA OfferedTaken ==
  ASSUME Types, NEW port \in Ports, TakenInv(port), NEW p \in Packet,
         Offered(port, p), UNCHANGED <<pc, pkt, delivered, dropped>>
  PROVE  TakenInv(port)'
<1> DEFINE n == Len(internal_queue)
<1>1. /\ p.frame \in Nat /\ p.fragment \in Nat
      /\ sent[port][1] \in Nat /\ sent[port][2] \in Nat /\ n \in Nat
  BY PacketFacts, QueueFacts DEF Types
<1>2. \/ sent'[port] = sent[port]
      \/ /\ sent'[port][1] = p.frame /\ sent'[port][2] = p.fragment
         /\ Lex(sent[port][1], sent[port][2], p.frame, p.fragment)
  BY DEF Offered
<1>3. \/ internal_queue' = internal_queue
      \/ /\ Len(internal_queue') = n + 1
         /\ \A i \in 1..n : internal_queue'[i] = internal_queue[i]
         /\ internal_queue'[n + 1] = p
  BY EnqueueEffect, AppendFacts DEF Types, Offered
<1> SUFFICES ASSUME NEW f \in Nat, NEW k \in Nat,
                    Gone(port, f, k) \/ Hand(port, f, k)
             PROVE  /\ ~Lex(sent'[port][1], sent'[port][2], f, k)
                    /\ \A i \in 1..Len(internal_queue') :
                         internal_queue'[i].port = port =>
                           Lex(f, k, internal_queue'[i].frame,
                                     internal_queue'[i].fragment)
  BY DEF TakenInv, Gone, Hand, Is
<1>4. /\ ~Lex(sent[port][1], sent[port][2], f, k)
      /\ \A i \in 1..n : internal_queue[i].port = port =>
           Lex(f, k, internal_queue[i].frame, internal_queue[i].fragment)
  BY DEF TakenInv
<1>5. ~Lex(sent'[port][1], sent'[port][2], f, k)
  BY <1>1, <1>2, <1>4, SMTT(30) DEF Lex
<1>6. p.port = port => Lex(f, k, p.frame, p.fragment)
  BY <1>1, <1>4 DEF Lex, Offered
<1>7. ASSUME NEW i \in 1..Len(internal_queue'), internal_queue'[i].port = port
      PROVE  Lex(f, k, internal_queue'[i].frame, internal_queue'[i].fragment)
  <2>1. CASE i \in 1..n
    BY <1>3, <1>4, <1>7, <2>1
  <2>2. CASE i \notin 1..n
    <3>1. internal_queue'[i] = p
      BY <1>1, <1>3, <2>2
    <3> QED
      BY <1>6, <1>7, <3>1
  <2> QED
    BY <2>1, <2>2
<1> QED
  BY <1>5, <1>7

\* A frame whose last packet has been sent gets no further packet.
LEMMA OfferedFrame ==
  ASSUME Types, NEW port \in Ports, OrderInv(port), TakenInv(port),
         NEW f \in 1..Len(Flows[port]), FrameInv(port, f), NEW p \in Packet,
         Offered(port, p), pc = "idle",
         UNCHANGED <<pc, pkt, is_drop, delivered, dropped>>
  PROVE  FrameInv(port, f)'
<1> DEFINE n == Len(internal_queue)
           last == Flows[port][f].fragments
<1>1. /\ f \in Nat /\ last \in Nat /\ last > 0
      /\ p.frame \in Nat /\ p.fragment \in Nat
      /\ sent[port][1] \in Nat /\ sent[port][2] \in Nat /\ n \in Nat
  BY FrameFacts, PacketFacts, QueueFacts, SMTT(30) DEF Types
<1>2. /\ msg_in_drop' = msg_in_drop
      /\ \/ internal_queue' = internal_queue
         \/ /\ Len(internal_queue') = n + 1
            /\ \A i \in 1..n : internal_queue'[i] = internal_queue[i]
            /\ internal_queue'[n + 1] = p
  BY EnqueueEffect, AppendFacts DEF Types, Offered
<1>3. /\ \A k : Gone(port, f, k)' <=> Gone(port, f, k)
      /\ \A k : ~Hand(port, f, k) /\ ~Hand(port, f, k)'
      /\ FirstDropped(port, f)' <=> FirstDropped(port, f)
      /\ FirstKept(port, f)' <=> FirstKept(port, f)
  BY DEF Gone, Hand, FirstDropped, FirstKept
<1>4. DropNoted(port, f)'
  BY <1>2, <1>3 DEF FrameInv, DropNoted
<1>5. QueuedAt(port, f, last) => QueuedAt(port, f, last)'
  <2> SUFFICES ASSUME QueuedAt(port, f, last) PROVE QueuedAt(port, f, last)'
    OBVIOUS
  <2>1. PICK i \in 1..n : Is(internal_queue[i], port, f, last)
    BY DEF QueuedAt, Is
  <2>2. i \in 1..Len(internal_queue') /\ internal_queue'[i] = internal_queue[i]
    BY <1>1, <1>2
  <2> QED
    BY <2>1, <2>2 DEF QueuedAt, Is
<1>6. ASSUME last > 1, FirstDropped(port, f), SomeQueued(port, f)'
      PROVE  SomeQueued(port, f)
  <2>1. DroppedInv(port, f)
    BY <1>6 DEF FrameInv
  <2>2. ~Lex(sent[port][1], sent[port][2], f, last)
    <3>1. CASE QueuedAt(port, f, last)
      BY <3>1 DEF QueuedAt, OrderInv
    <3>2. CASE Gone(port, f, last)
      BY <1>1, <3>2 DEF TakenInv
    <3> QED
      BY <1>3, <1>6, <2>1, <3>1, <3>2 DEF DroppedInv
  <2>3. ~(p.port = port /\ p.frame = f)
    <3> SUFFICES ASSUME p.port = port, p.frame = f PROVE FALSE
      OBVIOUS
    <3>1. p.fragment <= last
      BY <1>1, PacketFacts
    <3>2. Lex(sent[port][1], sent[port][2], f, p.fragment)
      BY DEF Offered
    <3> QED
      BY <1>1, <2>2, <3>1, <3>2 DEF Lex
  <2>4. PICK i \in 1..Len(internal_queue') :
          internal_queue'[i].port = port /\ internal_queue'[i].frame = f
    BY <1>6 DEF SomeQueued
  <2>5. i \in 1..n /\ internal_queue'[i] = internal_queue[i]
    BY <1>1, <1>2, <2>3, <2>4
  <2> QED
    BY <2>4, <2>5 DEF SomeQueued
<1>7. last > 1 => KeptInv(port, f)'
  BY <1>3 DEF FrameInv, KeptInv
<1>8. ASSUME last > 1 PROVE DroppedInv(port, f)'
  <2>1. DroppedInv(port, f)
    BY <1>8 DEF FrameInv
  <2> QED
    BY <1>2, <1>3, <1>5, <1>6, <1>8, <2>1 DEF DroppedInv
<1> QED
  BY <1>4, <1>7, <1>8 DEF FrameInv

\* A step of dequeue that takes a packet; the one in hand, if any, is dropped.
Takes ==
  /\ internal_queue # <<>> /\ dequeuefront /\ sent' = sent
  /\ pc' = "dequeue" /\ delivered' = delivered
  /\ \/ pc = "idle" /\ dropped' = dropped
     \/ pc = "dequeue" /\ DropOn /\ dropped' = dropped \cup {Key(pkt)}

\* What was in hand is gone afterwards, and nothing else.
LEMMA TakesGone ==
  ASSUME Takes, NEW port, NEW f, NEW k
  PROVE  /\ <<port, f, k>> \in dropped' <=>
              <<port, f, k>> \in dropped \/ Hand(port, f, k)
         /\ Gone(port, f, k)' <=> Gone(port, f, k) \/ Hand(port, f, k)
         /\ Hand(port, f, k) => DropOn
         /\ Hand(port, f, k)' <=> Is(Head(internal_queue), port, f, k)
<1>1. Hand(port, f, k) => DropOn
  BY DEF Takes, Hand
<1>2. <<port, f, k>> \in dropped' <=>
        <<port, f, k>> \in dropped \/ Hand(port, f, k)
  <2>1. CASE pc = "idle"
    BY <2>1 DEF Takes, Hand
  <2>2. CASE pc # "idle"
    <3>1. pc = "dequeue" /\ dropped' = dropped \cup {Key(pkt)}
      BY <2>2 DEF Takes
    <3>2. <<port, f, k>> = Key(pkt) <=> Is(pkt, port, f, k)
      BY DEF Key, Is
    <3> QED
      BY <3>1, <3>2 DEF Hand
  <2> QED
    BY <2>1, <2>2
<1>3. delivered' = delivered /\ pc' = "dequeue" /\ pkt' = Head(internal_queue)
  BY DEF Takes, dequeuefront
<1> QED
  BY <1>1, <1>2, <1>3 DEF Gone, Hand, Is

\* Packets are taken in order.
LEMMA FrontTaken ==
  ASSUME Types, NEW port \in Ports, OrderInv(port), TakenInv(port), Takes
  PROVE  TakenInv(port)'
<1> DEFINE n == Len(internal_queue)
           p == Head(internal_queue)
<1>1. /\ n \in Nat /\ n > 0 /\ Len(internal_queue') = n - 1
      /\ p = internal_queue[1] /\ p \in Packet
      /\ \A i \in 1..(n - 1) : internal_queue'[i] = internal_queue[i + 1]
      /\ pkt' = p
  BY TailFacts DEF Types, Takes, dequeuefront
<1> HIDE DEF p
<1>2. 1 \in 1..n /\ p.frame \in Nat /\ p.fragment \in Nat
  BY <1>1, PacketFacts
<1> SUFFICES ASSUME NEW f \in Nat, NEW k \in Nat
             PROVE  /\ Gone(port, f, k)' =>
                         /\ ~(<<port, f, k>> \in delivered'
                                /\ <<port, f, k>> \in dropped')
                         /\ pc' = "dequeue" /\ pkt'.port = port =>
                              Lex(f, k, pkt'.frame, pkt'.fragment)
                    /\ Gone(port, f, k)' \/ Hand(port, f, k)' =>
                         /\ ~Lex(sent'[port][1], sent'[port][2], f, k)
                         /\ \A i \in 1..Len(internal_queue') :
                              internal_queue'[i].port = port =>
                                Lex(f, k, internal_queue'[i].frame,
                                          internal_queue'[i].fragment)
  BY DEF TakenInv
<1>3. /\ Gone(port, f, k)' => Gone(port, f, k) \/ Hand(port, f, k)
      /\ Hand(port, f, k)' => Is(p, port, f, k)
      /\ <<port, f, k>> \in dropped' =>
            <<port, f, k>> \in dropped \/ Hand(port, f, k)
      /\ delivered' = delivered /\ sent' = sent
  BY TakesGone DEF p, Takes
<1>4. ASSUME Gone(port, f, k) \/ Hand(port, f, k)
      PROVE  /\ ~Lex(sent[port][1], sent[port][2], f, k)
             /\ \A i \in 1..n : internal_queue[i].port = port =>
                  Lex(f, k, internal_queue[i].frame, internal_queue[i].fragment)
  BY <1>4 DEF TakenInv
<1>5. ASSUME NEW i \in 1..Len(internal_queue')
      PROVE  /\ i + 1 \in 1..n /\ 1 < i + 1
             /\ internal_queue'[i] = internal_queue[i + 1]
  BY <1>1
<1>6. ASSUME Gone(port, f, k)'
      PROVE  ~(<<port, f, k>> \in delivered' /\ <<port, f, k>> \in dropped')
  <2> SUFFICES ASSUME <<port, f, k>> \in delivered, <<port, f, k>> \in dropped'
               PROVE  FALSE
    BY <1>3
  <2>1. Gone(port, f, k)
    BY DEF Gone
  <2>2. <<port, f, k>> \notin dropped
    BY <2>1 DEF TakenInv
  <2>3. Hand(port, f, k)
    BY <1>3, <2>2
  <2>4. Lex(f, k, f, k)
    BY <2>1, <2>3 DEF TakenInv, Hand, Is
  <2> QED
    BY <2>4 DEF Lex
<1>7. ASSUME Gone(port, f, k)', pkt'.port = port
      PROVE  Lex(f, k, pkt'.frame, pkt'.fragment)
  BY <1>1, <1>2, <1>3, <1>4, <1>7
<1>8. ASSUME Gone(port, f, k)' \/ Hand(port, f, k)'
      PROVE  ~Lex(sent'[port][1], sent'[port][2], f, k)
  <2>1. CASE Gone(port, f, k) \/ Hand(port, f, k)
    BY <1>3, <1>4, <2>1
  <2>2. CASE Is(p, port, f, k)
    BY <1>1, <1>2, <1>3, <2>2 DEF OrderInv, Is
  <2> QED
    BY <1>3, <1>8, <2>1, <2>2
<1>9. ASSUME Gone(port, f, k)' \/ Hand(port, f, k)',
             NEW i \in 1..Len(internal_queue'), internal_queue'[i].port = port
      PROVE  Lex(f, k, internal_queue'[i].frame, internal_queue'[i].fragment)
  <2>1. CASE Gone(port, f, k) \/ Hand(port, f, k)
    BY <1>4, <1>5, <1>9, <2>1
  <2>2. CASE Is(p, port, f, k)
    BY <1>1, <1>2, <1>5, <1>9, <2>2 DEF OrderInv, Is
  <2> QED
    BY <1>3, <1>9, <2>1, <2>2
<1> QED
  BY <1>6, <1>7, <1>8, <1>9

\* The verdict on a packet of a flow that is sent once: only the first packet
\* of a frame is dropped on its own account, and only if the last one is
\* queued; the others follow msg_in_drop_.
LEMMA FrontVerdict ==
  ASSUME Types, NEW port \in Ports, OrderInv(port), CounterInv(port),
         TakenInv(port), Takes, NEW p, p = Head(internal_queue), p.port = port,
         FrameInv(port, p.frame)
  PROVE  /\ p.fragment = 1 =>
              /\ msg_in_drop[port] # header(p).msg_no
              /\ DropOn' <=> msg_in_drop'[port] = header(p).msg_no
              /\ DropOn' => QueuedAt(port, p.frame, header(p).fragments)
         /\ p.fragment # 1 =>
              /\ msg_in_drop' = msg_in_drop
              /\ DropOn' <=> /\ header(p).octopus
                             /\ msg_in_drop[port] = header(p).msg_no
         /\ DropOn' => header(p).octopus
         /\ \A m : m # header(p).msg_no =>
              (msg_in_drop'[port] = m => msg_in_drop[port] = m)
<1> DEFINE n == Len(internal_queue)
           h == header(p)
           last == h.fragments
<1>1. /\ n \in Nat /\ n > 0 /\ 1 \in 1..n
      /\ p = internal_queue[1] /\ p \in Packet
  BY TailFacts DEF Types, Takes, dequeuefront
<1>2. /\ p.frame \in 1..Len(Flows[port]) /\ p.frame \in Nat /\ p.fragment \in Nat
      /\ p.fragment > 0 /\ h = Flows[port][p.frame] /\ h.octopus \in BOOLEAN
      /\ h.msg_no \in Nat /\ last \in Nat
  BY <1>1, PacketFacts, FrameFacts, SMTT(30) DEF header
<1>3. /\ pkt' = p
      /\ \/ ~h.octopus /\ msg_in_drop' = msg_in_drop
         \/ h.octopus /\ Remember(verdict')
            /\ msg_in_drop' = [msg_in_drop EXCEPT ![p.port] = h.msg_no]
         \/ h.octopus /\ ~Remember(verdict') /\ msg_in_drop' = msg_in_drop
      /\ is_drop' = (h.octopus /\ verdict' # "keep")
      /\ h.octopus =>
           \E fair_share \in FairShares : verdict' = Verdict(p, fair_share)
  BY FrontEffect DEF Takes
<1>4. DropOn' <=> h.octopus /\ verdict' # "keep"
  BY <1>2, <1>3 DEF DropOn, header
<1> HIDE DEF h
<1>5. msg_in_drop \in [Ports -> Nat]
  BY DEF Types
<1>6. ASSUME p.fragment = 1 PROVE msg_in_drop[port] # h.msg_no
  <2> SUFFICES ASSUME msg_in_drop[port] = h.msg_no PROVE FALSE
    OBVIOUS
  <2>1. Gone(port, p.frame, 1) \/ Hand(port, p.frame, 1)
    BY <1>2 DEF FrameInv, DropNoted
  <2>2. \A i \in 1..n : internal_queue[i].port = port =>
          Lex(p.frame, 1, internal_queue[i].frame, internal_queue[i].fragment)
    BY <1>2, <2>1 DEF TakenInv
  <2>3. Lex(p.frame, 1, p.frame, 1)
    BY <1>1, <1>6, <2>2
  <2> QED
    BY <1>2, <2>3 DEF Lex
<1>7. ASSUME h.octopus, WholeFrameQueued(p)
      PROVE  p.fragment = 1 /\ QueuedAt(port, p.frame, last)
  <2>1. Present(port, p.frame, 1) + Present(port, p.frame, last) = 2
    BY <1>2, <1>7, SMTT(30) DEF CounterInv, WholeFrameQueued, h
  <2>2. QueuedAt(port, p.frame, 1) /\ QueuedAt(port, p.frame, last)
    BY <2>1 DEF Present
  <2>3. PICK i \in 1..n : Is(internal_queue[i], port, p.frame, 1)
    BY <2>2 DEF QueuedAt, Is
  <2>4. CASE i = 1
    BY <1>1, <2>2, <2>3, <2>4 DEF Is
  <2>5. CASE i # 1
    <3>1. Lex(p.frame, p.fragment, p.frame, 1)
      <4>1. 1 < i
        BY <1>1, <2>5
      <4> QED
        BY <1>1, <2>3, <4>1 DEF OrderInv, Is
    <3> QED
      BY <1>2, <3>1 DEF Lex
  <2> QED
    BY <2>4, <2>5
<1>8. h.octopus =>
        /\ WholeFrameQueued(p) => verdict' \in {"rate", "preempt", "keep"}
        /\ ~WholeFrameQueued(p) =>
             verdict' = IF h.msg_no = msg_in_drop[port] THEN "follow" ELSE "keep"
  BY <1>3 DEF Verdict, h
<1>9. ASSUME p.fragment # 1
      PROVE  /\ msg_in_drop' = msg_in_drop
             /\ DropOn' <=> h.octopus /\ msg_in_drop[port] = h.msg_no
  <2>1. CASE ~h.octopus
    BY <1>3, <1>4, <2>1
  <2>2. CASE h.octopus
    <3>1. verdict' = IF h.msg_no = msg_in_drop[port] THEN "follow" ELSE "keep"
      BY <1>7, <1>8, <1>9, <2>2
    <3>2. ~Remember(verdict')
      BY <3>1 DEF Remember
    <3> QED
      BY <1>3, <1>4, <2>2, <3>1, <3>2
  <2> QED
    BY <2>1, <2>2
<1>10. ASSUME p.fragment = 1
       PROVE  /\ DropOn' <=> msg_in_drop'[port] = h.msg_no
              /\ DropOn' => QueuedAt(port, p.frame, last)
  <2>1. CASE ~h.octopus
    BY <1>3, <1>4, <1>6, <1>10, <2>1
  <2>2. CASE h.octopus /\ WholeFrameQueued(p)
    <3>1. verdict' # "keep" <=> Remember(verdict')
      BY <1>8, <2>2 DEF Remember
    <3>2. QueuedAt(port, p.frame, last)
      BY <1>7, <2>2
    <3>3. CASE Remember(verdict')
      BY <1>3, <1>4, <1>5, <2>2, <3>1, <3>2, <3>3
    <3>4. CASE ~Remember(verdict')
      BY <1>3, <1>4, <1>6, <1>10, <2>2, <3>1, <3>4
    <3> QED
      BY <3>3, <3>4
  <2>3. CASE h.octopus /\ ~WholeFrameQueued(p)
    <3>1. verdict' = "keep"
      BY <1>6, <1>8, <1>10, <2>3
    <3>2. ~Remember(verdict')
      BY <3>1 DEF Remember
    <3> QED
      BY <1>3, <1>4, <1>6, <1>10, <2>3, <3>1, <3>2
  <2> QED
    BY <1>2, <2>1, <2>2, <2>3
<1>11. \A m : m # h.msg_no => (msg_in_drop'[port] = m => msg_in_drop[port] = m)
  BY <1>3, <1>5
<1> QED
  BY <1>4, <1>6, <1>9, <1>10, <1>11 DEF h

\* What taking a packet leaves in the queue.
LEMMA TakesQueued ==
  ASSUME Types, Takes, NEW port, NEW f
  PROVE  /\ SomeQueued(port, f)' => SomeQueued(port, f)
         /\ \A k : QueuedAt(port, f, k) =>
              QueuedAt(port, f, k)' \/ Is(Head(internal_queue), port, f, k)
<1> DEFINE n == Len(internal_queue)
           p == Head(internal_queue)
<1>1. /\ n \in Nat /\ n > 0 /\ Len(internal_queue') = n - 1
      /\ p = internal_queue[1]
      /\ \A i \in 1..(n - 1) : internal_queue'[i] = internal_queue[i + 1]
  BY TailFacts DEF Types, Takes, dequeuefront
<1> HIDE DEF p
<1>2. ASSUME SomeQueued(port, f)' PROVE SomeQueued(port, f)
  <2>1. PICK i \in 1..(n - 1) :
          internal_queue'[i].port = port /\ internal_queue'[i].frame = f
    BY <1>1, <1>2 DEF SomeQueued
  <2>2. i + 1 \in 1..n /\ internal_queue'[i] = internal_queue[i + 1]
    BY <1>1
  <2> QED
    BY <2>1, <2>2 DEF SomeQueued
<1>3. ASSUME NEW k, QueuedAt(port, f, k), ~Is(p, port, f, k)
      PROVE  QueuedAt(port, f, k)'
  <2>1. PICK i \in 1..n : Is(internal_queue[i], port, f, k)
    BY <1>3 DEF QueuedAt, Is
  <2>2. i # 1
    BY <1>1, <1>3, <2>1
  <2>3. i - 1 \in 1..(n - 1) /\ (i - 1) + 1 = i
    BY <1>1, <2>2
  <2>4. internal_queue'[i - 1] = internal_queue[i]
    BY <1>1, <2>3
  <2> QED
    BY <1>1, <2>1, <2>3, <2>4 DEF QueuedAt, Is
<1> QED
  BY <1>2, <1>3 DEF p

\* Taking a packet of another frame.
LEMMA FrontOther ==
  ASSUME Types, NEW port \in Ports, OrderInv(port), TakenInv(port), Takes,
         NEW f \in 1..Len(Flows[port]), FrameInv(port, f),
         NEW p, p = Head(internal_queue), ~(p.port = port /\ p.frame = f)
  PROVE  FrameInv(port, f)'
<1> DEFINE n == Len(internal_queue)
           last == Flows[port][f].fragments
           m == Flows[port][f].msg_no
<1>1. /\ n \in Nat /\ n > 0 /\ 1 \in 1..n /\ Len(internal_queue') = n - 1
      /\ p = internal_queue[1] /\ p \in Packet
      /\ \A i \in 1..(n - 1) : internal_queue'[i] = internal_queue[i + 1]
  BY TailFacts DEF Types, Takes, dequeuefront
<1>2. /\ f \in Nat /\ last \in Nat /\ p.frame \in Nat /\ p.fragment \in Nat
      /\ m \in Nat
  BY <1>1, FrameFacts, PacketFacts
<1>3. \A k : /\ <<port, f, k>> \in dropped' <=>
                  <<port, f, k>> \in dropped \/ Hand(port, f, k)
             /\ Gone(port, f, k)' <=> Gone(port, f, k) \/ Hand(port, f, k)
             /\ Hand(port, f, k) => DropOn
             /\ ~Hand(port, f, k)'
  BY TakesGone DEF Is
<1>4. delivered' = delivered
  BY DEF Takes
<1>5. /\ FirstDropped(port, f)' <=> FirstDropped(port, f)
      /\ FirstKept(port, f)' <=> FirstKept(port, f)
  BY <1>3, <1>4 DEF FirstDropped, FirstKept
<1>6. \/ msg_in_drop'[port] = msg_in_drop[port]
      \/ p.port = port /\ msg_in_drop'[port] = header(p).msg_no
  <2>1. msg_in_drop \in [Ports -> Nat]
    BY DEF Types
  <2>2. \/ msg_in_drop' = msg_in_drop
        \/ msg_in_drop' = [msg_in_drop EXCEPT ![p.port] = header(p).msg_no]
    BY FrontEffect DEF Takes
  <2> QED
    BY <2>1, <2>2
<1>7. p.port = port => header(p).msg_no # m
  <2> SUFFICES ASSUME p.port = port PROVE header(p).msg_no # m
    OBVIOUS
  <2>1. p.frame \in 1..Len(Flows[port]) /\ p.frame # f
    BY <1>1, PacketFacts
  <2>2. Flows[port][p.frame].msg_no \in Nat
    BY <2>1, FrameFacts
  <2> QED
    BY <1>2, <2>1, <2>2, MsgNosGrow DEF header
<1>8. msg_in_drop'[port] = m => msg_in_drop[port] = m
  BY <1>6, <1>7
<1>9. ASSUME FirstDropped(port, f), SomeQueued(port, f)' PROVE p.port # port
  <2> SUFFICES ASSUME p.port = port PROVE FALSE
    OBVIOUS
  <2>1. PICK i \in 1..(n - 1) :
          internal_queue'[i].port = port /\ internal_queue'[i].frame = f
    BY <1>1, <1>9 DEF SomeQueued
  <2>2. /\ i + 1 \in 1..n /\ 1 < i + 1
        /\ internal_queue[i + 1].port = port /\ internal_queue[i + 1].frame = f
    BY <1>1, <2>1
  <2>3. Lex(p.frame, p.fragment, f, internal_queue[i + 1].fragment)
    BY <1>1, <2>2 DEF OrderInv
  <2>4. Gone(port, f, 1) \/ Hand(port, f, 1)
    BY <1>9 DEF FirstDropped, Gone
  <2>5. \A l \in 1..n : internal_queue[l].port = port =>
          Lex(f, 1, internal_queue[l].frame, internal_queue[l].fragment)
    BY <1>2, <2>4 DEF TakenInv
  <2>6. Lex(f, 1, p.frame, p.fragment)
    BY <1>1, <2>5
  <2>7. p.frame # f
    OBVIOUS
  <2> QED
    BY <1>2, <2>3, <2>6, <2>7 DEF Lex
<1>10. QueuedAt(port, f, last) => QueuedAt(port, f, last)'
  BY TakesQueued DEF Is
<1>11. DropNoted(port, f)'
  BY <1>3, <1>8 DEF FrameInv, DropNoted
<1>12. ASSUME last > 1 PROVE DroppedInv(port, f)'
  <2>1. DroppedInv(port, f)
    BY <1>12 DEF FrameInv
  <2>2. msg_in_drop'[port] = m => FirstDropped(port, f)'
    BY <1>5, <1>8, <2>1 DEF DroppedInv
  <2>3. ASSUME FirstDropped(port, f)'
        PROVE  /\ Flows[port][f].octopus
               /\ \/ QueuedAt(port, f, last)'
                  \/ Gone(port, f, last)' \/ Hand(port, f, last)'
               /\ \A k \in 1..(last - 1) : <<port, f, k>> \notin delivered'
    BY <1>3, <1>4, <1>5, <1>10, <2>1, <2>3 DEF DroppedInv
  <2>4. ASSUME FirstDropped(port, f)', SomeQueued(port, f)'
        PROVE  msg_in_drop'[port] = m
    <3>1. SomeQueued(port, f)
      BY <2>4, TakesQueued
    <3>2. msg_in_drop'[port] = msg_in_drop[port]
      BY <1>5, <1>6, <1>9, <2>4
    <3> QED
      BY <1>5, <2>1, <2>4, <3>1, <3>2 DEF DroppedInv
  <2> QED
    BY <1>3, <2>2, <2>3, <2>4 DEF DroppedInv
<1>13. ASSUME last > 1 PROVE KeptInv(port, f)'
  <2>1. KeptInv(port, f)
    BY <1>13 DEF FrameInv
  <2> QED
    BY <1>3, <1>5, <2>1 DEF KeptInv
<1> QED
  BY <1>11, <1>12, <1>13 DEF FrameInv

\* Taking the first packet of the frame: the verdict on it stands for all.
LEMMA FrontFirst ==
  ASSUME Types, NEW port \in Ports, OrderInv(port), CounterInv(port),
         TakenInv(port), Takes,
         NEW f \in 1..Len(Flows[port]), FrameInv(port, f),
         NEW p, p = Head(internal_queue), Is(p, port, f, 1)
  PROVE  FrameInv(port, f)'
<1> DEFINE n == Len(internal_queue)
           last == Flows[port][f].fragments
           m == Flows[port][f].msg_no
<1>1. n \in Nat /\ 1 \in 1..n /\ p = internal_queue[1] /\ header(p) = Flows[port][f]
  <2>1. n \in Nat /\ n > 0 /\ p = internal_queue[1]
    BY TailFacts DEF Types, Takes, dequeuefront
  <2> QED
    BY <2>1 DEF header, Is
<1>2. f \in Nat /\ last \in Nat
  BY FrameFacts
<1>3. ASSUME NEW k \in 1..last PROVE ~Gone(port, f, k) /\ ~Hand(port, f, k)
  <2> SUFFICES ASSUME Gone(port, f, k) \/ Hand(port, f, k) PROVE FALSE
    OBVIOUS
  <2>1. k \in Nat
    BY <1>2
  <2>2. \A i \in 1..n : internal_queue[i].port = port =>
          Lex(f, k, internal_queue[i].frame, internal_queue[i].fragment)
    BY <1>2, <2>1 DEF TakenInv
  <2>3. Lex(f, k, f, 1)
    BY <1>1, <2>2 DEF Is
  <2> QED
    BY <1>2, <2>3 DEF Lex
<1>4. ASSUME NEW k \in 1..last
      PROVE  /\ <<port, f, k>> \notin dropped' /\ <<port, f, k>> \notin delivered'
             /\ Hand(port, f, k)' <=> k = 1
  <2>1. /\ <<port, f, k>> \in dropped' =>
             <<port, f, k>> \in dropped \/ Hand(port, f, k)
        /\ Hand(port, f, k)' <=> Is(p, port, f, k)
    BY TakesGone
  <2> QED
    BY <1>3, <2>1 DEF Gone, Is, Takes
<1>5. Hand(port, f, 1)' /\ 1 \in 1..last
  <2>1. last > 0
    BY FrameFacts
  <2>2. 1 \in 1..last
    BY <1>2, <2>1
  <2> QED
    BY <1>4, <2>2
<1>6. /\ FirstDropped(port, f)' <=> DropOn'
      /\ FirstKept(port, f)' <=> ~DropOn'
  BY <1>4, <1>5 DEF FirstDropped, FirstKept
<1>7. /\ DropOn' <=> msg_in_drop'[port] = m
      /\ DropOn' => QueuedAt(port, f, last) /\ Flows[port][f].octopus
  BY <1>1, FrontVerdict DEF Is
<1>8. DropNoted(port, f)'
  BY <1>5 DEF DropNoted
<1>9. ASSUME last > 1 PROVE DroppedInv(port, f)'
  <2>1. ~Is(p, port, f, last)
    BY <1>2, <1>9 DEF Is
  <2>2. QueuedAt(port, f, last) => QueuedAt(port, f, last)'
    BY <2>1, TakesQueued
  <2>3. \A k \in 1..(last - 1) : k \in 1..last
    BY <1>2
  <2> QED
    BY <1>4, <1>6, <1>7, <2>2, <2>3 DEF DroppedInv
<1>10. KeptInv(port, f)'
  BY <1>4, <1>6 DEF KeptInv
<1> QED
  BY <1>8, <1>9, <1>10 DEF FrameInv

\* Taking a later packet of the frame: it follows the first one.
LEMMA FrontFollows ==
  ASSUME Types, NEW port \in Ports, OrderInv(port), CounterInv(port),
         TakenInv(port), Takes,
         NEW f \in 1..Len(Flows[port]), FrameInv(port, f),
         NEW p, p = Head(internal_queue), p.port = port, p.frame = f,
         p.fragment # 1
  PROVE  FrameInv(port, f)'
<1> DEFINE n == Len(internal_queue)
           last == Flows[port][f].fragments
           m == Flows[port][f].msg_no
<1>1. n \in Nat /\ 1 \in 1..n /\ p = internal_queue[1] /\ header(p) = Flows[port][f]
  <2>1. n \in Nat /\ n > 0 /\ p = internal_queue[1]
    BY TailFacts DEF Types, Takes, dequeuefront
  <2> QED
    BY <2>1 DEF header
<1>2. f \in Nat /\ last \in Nat
  BY FrameFacts
<1>3. \A k : /\ <<port, f, k>> \in dropped' <=>
                  <<port, f, k>> \in dropped \/ Hand(port, f, k)
             /\ Gone(port, f, k)' <=> Gone(port, f, k) \/ Hand(port, f, k)
             /\ Hand(port, f, k) => DropOn
             /\ Hand(port, f, k)' <=> k = p.fragment
  BY TakesGone DEF Is
<1>4. delivered' = delivered /\ ~Hand(port, f, 1)'
  BY <1>3 DEF Takes
<1>5. /\ FirstDropped(port, f)' <=> FirstDropped(port, f)
      /\ FirstKept(port, f)' <=> FirstKept(port, f)
  BY <1>3, <1>4 DEF FirstDropped, FirstKept
<1>6. /\ msg_in_drop' = msg_in_drop
      /\ DropOn' <=> Flows[port][f].octopus /\ msg_in_drop[port] = m
  BY <1>1, FrontVerdict
<1>7. SomeQueued(port, f)
  BY <1>1 DEF SomeQueued
<1>8. DropNoted(port, f)'
  BY <1>3, <1>6 DEF FrameInv, DropNoted
<1>9. ASSUME last > 1 PROVE DroppedInv(port, f)'
  <2>1. DroppedInv(port, f)
    BY <1>9 DEF FrameInv
  <2>2. QueuedAt(port, f, last) => QueuedAt(port, f, last)' \/ Hand(port, f, last)'
    <3>1. Is(p, port, f, last) => Hand(port, f, last)'
      BY <1>3 DEF Is
    <3> QED
      BY <3>1, TakesQueued
  <2>3. ASSUME FirstDropped(port, f)'
        PROVE  /\ Flows[port][f].octopus /\ msg_in_drop[port] = m
               /\ \/ QueuedAt(port, f, last)'
                  \/ Gone(port, f, last)' \/ Hand(port, f, last)'
               /\ \A k \in 1..(last - 1) : <<port, f, k>> \notin delivered'
    BY <1>3, <1>4, <1>5, <1>7, <2>1, <2>2, <2>3 DEF DroppedInv
  <2>4. msg_in_drop'[port] = m => FirstDropped(port, f)'
    BY <1>5, <1>6, <2>1 DEF DroppedInv
  <2> QED
    BY <1>6, <2>3, <2>4 DEF DroppedInv
<1>10. ASSUME last > 1 PROVE KeptInv(port, f)'
  <2> SUFFICES ASSUME FirstKept(port, f)', NEW k \in 1..last
               PROVE  /\ <<port, f, k>> \notin dropped'
                      /\ Hand(port, f, k)' => ~DropOn'
    BY DEF KeptInv
  <2>1. /\ <<port, f, 1>> \in delivered /\ KeptInv(port, f) /\ DroppedInv(port, f)
        /\ FirstKept(port, f)
    BY <1>4, <1>5, <1>10 DEF FrameInv, FirstKept
  <2>2. <<port, f, k>> \notin dropped'
    BY <1>3, <2>1 DEF KeptInv
  <2>3. ~FirstDropped(port, f)
    <3>1. Gone(port, f, 1)
      BY <2>1 DEF Gone
    <3>2. /\ <<port, f, 1>> \notin dropped
          /\ Hand(port, f, 1) => Lex(f, 1, f, 1)
      BY <1>2, <2>1, <3>1 DEF TakenInv, Hand, Is
    <3> QED
      BY <1>2, <3>2 DEF FirstDropped, Lex
  <2>4. ~DropOn'
    BY <1>6, <2>1, <2>3 DEF DroppedInv
  <2> QED
    BY <2>2, <2>4
<1> QED
  BY <1>8, <1>9, <1>10 DEF FrameInv

\* A step of dequeue that hands the packet in hand back.
Returns ==
  /\ pc = "dequeue" /\ pc' = "idle"
  /\ internal_queue = <<>> \/ ~DropOn
  /\ delivered' = delivered \cup {Key(pkt)}
  /\ UNCHANGED <<sent, internal_queue, msg_in_drop, dropped>>

\* What was in hand is gone afterwards, and nothing else.
LEMMA ReturnsGone ==
  ASSUME Returns, NEW port, NEW f, NEW k
  PROVE  /\ <<port, f, k>> \in delivered' <=>
              <<port, f, k>> \in delivered \/ Hand(port, f, k)
         /\ Gone(port, f, k)' <=> Gone(port, f, k) \/ Hand(port, f, k)
         /\ ~Hand(port, f, k)'
<1>1. <<port, f, k>> \in delivered' <=>
        <<port, f, k>> \in delivered \/ Hand(port, f, k)
  <2>1. pc = "dequeue" /\ delivered' = delivered \cup {Key(pkt)}
    BY DEF Returns
  <2>2. <<port, f, k>> = Key(pkt) <=> Is(pkt, port, f, k)
    BY DEF Key, Is
  <2> QED
    BY <2>1, <2>2 DEF Hand
<1>2. dropped' = dropped /\ pc' = "idle"
  BY DEF Returns
<1> QED
  BY <1>1, <1>2 DEF Gone, Hand

\* The packet handed back has not been taken before.
LEMMA ReturnTaken ==
  ASSUME NEW port \in Ports, TakenInv(port), Returns
  PROVE  TakenInv(port)'
<1>1. pc' = "idle" /\ dropped' = dropped /\ internal_queue' = internal_queue
      /\ sent' = sent
  BY DEF Returns
<1> SUFFICES ASSUME NEW f \in Nat, NEW k \in Nat
             PROVE  /\ ~(/\ <<port, f, k>> \in delivered'
                         /\ <<port, f, k>> \in dropped')
                    /\ Gone(port, f, k)' \/ Hand(port, f, k)' =>
                         /\ ~Lex(sent[port][1], sent[port][2], f, k)
                         /\ \A i \in 1..Len(internal_queue) :
                              internal_queue[i].port = port =>
                                Lex(f, k, internal_queue[i].frame,
                                          internal_queue[i].fragment)
  BY <1>1 DEF TakenInv
<1>2. ASSUME <<port, f, k>> \in delivered', <<port, f, k>> \in dropped'
      PROVE  FALSE
  <2>1. <<port, f, k>> \in dropped /\ Gone(port, f, k)
    BY <1>1, <1>2 DEF Gone
  <2>2. <<port, f, k>> \notin delivered
    BY <2>1 DEF TakenInv
  <2>3. Hand(port, f, k)
    BY <1>2, <2>2, ReturnsGone
  <2>4. Lex(f, k, f, k)
    BY <2>1, <2>3 DEF TakenInv, Hand, Is
  <2> QED
    BY <2>4 DEF Lex
<1> QED
  BY <1>2, ReturnsGone DEF TakenInv

\* A packet to be dropped is handed back only when the queue is empty, and
\* then it is the last one of its frame.
LEMMA ReturnFrame ==
  ASSUME Types, NEW port \in Ports, TakenInv(port), Returns,
         NEW f \in 1..Len(Flows[port]), FrameInv(port, f)
  PROVE  FrameInv(port, f)'
<1> DEFINE last == Flows[port][f].fragments
<1>1. f \in Nat /\ last \in Nat
  BY FrameFacts
<1>2. /\ dropped' = dropped /\ internal_queue' = internal_queue
      /\ msg_in_drop' = msg_in_drop /\ pc = "dequeue"
  BY DEF Returns
<1>3. \A k : /\ <<port, f, k>> \in delivered' <=>
                  <<port, f, k>> \in delivered \/ Hand(port, f, k)
             /\ Gone(port, f, k)' <=> Gone(port, f, k) \/ Hand(port, f, k)
             /\ ~Hand(port, f, k)'
  BY ReturnsGone
<1>4. /\ FirstDropped(port, f)' <=> <<port, f, 1>> \in dropped
      /\ FirstKept(port, f)' <=> <<port, f, 1>> \in delivered'
  BY <1>2, <1>3 DEF FirstDropped, FirstKept
<1>5. DropNoted(port, f)'
  BY <1>2, <1>3 DEF FrameInv, DropNoted
<1>6. ASSUME last > 1, FirstDropped(port, f), NEW k \in 1..(last - 1)
      PROVE  ~Hand(port, f, k)
  <2> SUFFICES ASSUME Hand(port, f, k) PROVE FALSE
    OBVIOUS
  <2>1. DroppedInv(port, f)
    BY <1>6 DEF FrameInv
  <2>2. DropOn
    BY <1>6, <2>1 DEF DroppedInv
  <2>3. internal_queue = <<>>
    BY <2>2 DEF Returns
  <2>4. ~QueuedAt(port, f, last)
    BY <2>3, EmptySeq DEF QueuedAt
  <2>5. k # last /\ pkt.port = port /\ pkt.frame = f /\ pkt.fragment = k
    BY <1>1 DEF Hand, Is
  <2>6. Gone(port, f, last)
    BY <1>6, <2>1, <2>4, <2>5 DEF DroppedInv, Hand, Is
  <2>7. Lex(f, last, f, k)
    BY <1>1, <1>2, <2>5, <2>6, ZenonT(30) DEF TakenInv
  <2> QED
    BY <1>1, <2>7 DEF Lex
<1>7. ASSUME last > 1 PROVE FirstDropped(port, f)' <=> FirstDropped(port, f)
  <2>1. 1 \in 1..(last - 1)
    BY <1>1, <1>7
  <2>2. FirstDropped(port, f) => ~Hand(port, f, 1)
    BY <1>6, <1>7, <2>1
  <2> QED
    BY <1>4, <2>2 DEF FirstDropped
<1>8. ASSUME last > 1 PROVE DroppedInv(port, f)'
  <2>1. DroppedInv(port, f)
    BY <1>8 DEF FrameInv
  <2>2. /\ QueuedAt(port, f, last)' <=> QueuedAt(port, f, last)
        /\ SomeQueued(port, f)' <=> SomeQueued(port, f)
    BY <1>2 DEF QueuedAt, SomeQueued
  <2>3. FirstDropped(port, f) =>
          \A k \in 1..(last - 1) : <<port, f, k>> \notin delivered'
    BY <1>3, <1>6, <1>8, <2>1 DEF DroppedInv
  <2> QED
    BY <1>2, <1>3, <1>7, <1>8, <2>1, <2>2, <2>3 DEF DroppedInv
<1>9. ASSUME last > 1 PROVE KeptInv(port, f)'
  <2> SUFFICES ASSUME FirstKept(port, f)', NEW k \in 1..last
               PROVE  <<port, f, k>> \notin dropped
    BY <1>2, <1>3 DEF KeptInv
  <2>1. <<port, f, 1>> \in delivered \/ Hand(port, f, 1)
    BY <1>3, <1>4
  <2>2. FirstKept(port, f)
    <3>1. 1 \in 1..(last - 1)
      BY <1>1, <1>9
    <3>2. Hand(port, f, 1) => ~DropOn
      BY <1>6, <1>9, <3>1 DEF FirstDropped
    <3> QED
      BY <2>1, <3>2 DEF FirstKept
  <2>3. KeptInv(port, f)
    BY <1>9 DEF FrameInv
  <2> QED
    BY <2>2, <2>3 DEF KeptInv
<1> QED
  BY <1>5, <1>8, <1>9 DEF FrameInv

\* Every step keeps it all.
LEMMA WholeStep ==
  ASSUME BaseInv, [Next]_vars, \A port \in SentOnce : FlowInv(port),
         \A port \in SentOnce : WholeInv(port), NEW port \in SentOnce'
  PROVE  WholeInv(port)'
<1>1. /\ port \in Ports /\ FlowInv(port) /\ WholeInv(port) /\ ~ArriveAgain(port)
      /\ Types
  BY StillSentOnce DEF BaseInv
<1>2. OrderInv(port) /\ CounterInv(port) /\ TakenInv(port)
  BY <1>1 DEF FlowInv, WholeInv
<1>3. ASSUME NEW o \in Ports, Arrive(o) \/ ArriveAgain(o) PROVE WholeInv(port)'
  <2>1. PICK p \in Packet :
          Offered(port, p) /\ pc = "idle" /\ UNCHANGED <<clock, callVars>>
    BY <1>1, <1>3, ArrivalOffers
  <2>2. UNCHANGED <<pc, pkt, is_drop, delivered, dropped>>
    BY <2>1 DEF callVars
  <2>3. TakenInv(port)'
    BY <1>1, <1>2, <2>1, <2>2, OfferedTaken
  <2>4. ASSUME NEW f \in 1..Len(Flows[port]) PROVE FrameInv(port, f)'
    <3>1. FrameInv(port, f)
      BY <1>1 DEF WholeInv
    <3> QED
      BY <1>1, <1>2, <2>1, <2>2, <3>1, OfferedFrame
  <2> QED
    BY <2>3, <2>4 DEF WholeInv
<1>4. CASE dequeue \/ dequeue_next
  <2>1. Takes
    BY <1>4 DEF dequeue, dequeue_next, Takes, envVars
  <2>2. TakenInv(port)'
    BY <1>1, <1>2, <2>1, FrontTaken
  <2>3. ASSUME NEW f \in 1..Len(Flows[port]) PROVE FrameInv(port, f)'
    <3> DEFINE p == Head(internal_queue)
    <3>1. FrameInv(port, f)
      BY <1>1 DEF WholeInv
    <3> HIDE DEF p
    <3>2. CASE ~(p.port = port /\ p.frame = f)
      BY <1>1, <1>2, <2>1, <3>1, <3>2, FrontOther DEF p
    <3>3. CASE p.port = port /\ p.frame = f /\ p.fragment = 1
      BY <1>1, <1>2, <2>1, <3>1, <3>3, FrontFirst DEF p, Is
    <3>4. CASE p.port = port /\ p.frame = f /\ p.fragment # 1
      BY <1>1, <1>2, <2>1, <3>1, <3>4, FrontFollows DEF p
    <3> QED
      BY <3>2, <3>3, <3>4
  <2> QED
    BY <2>2, <2>3 DEF WholeInv
<1>5. CASE dequeue_returns
  <2>1. Returns
    BY <1>5 DEF dequeue_returns, Returns, HandedBack, envVars, sizeVars, frameVars
  <2>2. TakenInv(port)'
    BY <1>1, <1>2, <2>1, ReturnTaken
  <2>3. ASSUME NEW f \in 1..Len(Flows[port]) PROVE FrameInv(port, f)'
    BY <1>1, <1>2, <2>1, ReturnFrame DEF WholeInv
  <2> QED
    BY <2>2, <2>3 DEF WholeInv
<1>6. CASE Tick \/ UNCHANGED vars
  <2>1. UNCHANGED <<sent, internal_queue, msg_in_drop, pc, pkt, is_drop,
                    delivered, dropped>>
    BY <1>6 DEF Tick, vars, envVars, sizeVars, frameVars, callVars
  <2>2. TakenInv(port)'
    BY <1>2, <2>1 DEF TakenInv, Gone, Hand, Is
  <2>3. ASSUME NEW f \in 1..Len(Flows[port]) PROVE FrameInv(port, f)'
    <3>1. FrameInv(port, f)
      BY <1>1 DEF WholeInv
    <3>2. \A k : /\ Gone(port, f, k)' <=> Gone(port, f, k)
                 /\ Hand(port, f, k)' <=> Hand(port, f, k)
                 /\ QueuedAt(port, f, k)' <=> QueuedAt(port, f, k)
      BY <2>1 DEF Gone, Hand, Is, QueuedAt
    <3>3. /\ DropOn' <=> DropOn
          /\ SomeQueued(port, f)' <=> SomeQueued(port, f)
      BY <2>1 DEF DropOn, header, SomeQueued
    <3> QED
      BY <2>1, <3>1, <3>2, <3>3 DEF FrameInv, DropNoted, DroppedInv, KeptInv,
         FirstDropped, FirstKept
  <2> QED
    BY <2>2, <2>3 DEF WholeInv
<1> QED
  BY <1>3, <1>4, <1>5, <1>6 DEF Next

\* On every flow that is sent once frames are dropped as a whole; for any
\* flows, limits and fair shares, whatever is sent again on the other flows.
THEOREM FramesDroppedAsAWhole == Spec => []WholeFrames
<1>1. Init => \A port \in SentOnce : WholeInv(port)
  <2> SUFFICES ASSUME Init, NEW port \in SentOnce PROVE WholeInv(port)
    OBVIOUS
  <2>1. \A f, k : ~Gone(port, f, k) /\ ~Hand(port, f, k)
    BY DEF Init, Gone, Hand
  <2>2. TakenInv(port)
    BY <2>1 DEF TakenInv
  <2>3. ASSUME NEW f \in 1..Len(Flows[port]) PROVE FrameInv(port, f)
    <3>1. port \in Ports
      BY DEF SentOnce
    <3>2. msg_in_drop[port] # Flows[port][f].msg_no
      BY <3>1, FrameFacts DEF Init
    <3>3. ~FirstDropped(port, f) /\ ~FirstKept(port, f)
      BY <2>1 DEF FirstDropped, FirstKept, Gone
    <3> QED
      BY <3>2, <3>3 DEF FrameInv, DropNoted, DroppedInv, KeptInv
  <2> QED
    BY <2>2, <2>3 DEF WholeInv
<1>2. BaseInv /\ (\A port \in SentOnce : FlowInv(port))
        /\ (\A port \in SentOnce : WholeInv(port)) /\ [Next]_vars
        => (\A port \in SentOnce : WholeInv(port))'
  BY WholeStep
<1>3. (\A port \in SentOnce : WholeInv(port)) => WholeFrames
  <2> SUFFICES ASSUME NEW port \in SentOnce, WholeInv(port),
                      NEW f \in 1..Len(Flows[port])
               PROVE  LET last == Flows[port][f].fragments IN
                      /\ <<port, f, 1>> \in delivered =>
                           \A k \in 1..last : <<port, f, k>> \notin dropped
                      /\ <<port, f, 1>> \in dropped =>
                           \A k \in 1..(last - 1) : <<port, f, k>> \notin delivered
    BY DEF WholeFrames
  <2> DEFINE last == Flows[port][f].fragments
  <2>1. last \in Nat /\ last > 0 /\ f \in Nat
    BY FrameFacts DEF SentOnce
  <2>2. FrameInv(port, f) /\ TakenInv(port)
    BY DEF WholeInv
  <2>3. CASE last > 1
    <3>1. DroppedInv(port, f) /\ KeptInv(port, f)
      BY <2>2, <2>3 DEF FrameInv
    <3> QED
      BY <3>1 DEF DroppedInv, KeptInv, FirstDropped, FirstKept
  <2>4. CASE ~(last > 1)
    <3>1. \A k \in 1..last : k = 1
      BY <2>1, <2>4
    <3>2. \A k : k \notin 1..(last - 1)
      BY <2>1, <2>4
    <3>3. <<port, f, 1>> \in delivered => <<port, f, 1>> \notin dropped
      BY <2>1, <2>2 DEF TakenInv, Gone
    <3> QED
      BY <3>1, <3>2, <3>3
  <2> QED
    BY <2>3, <2>4
<1> QED
  BY <1>1, <1>2, <1>3, BaseInvariance, FlowInvariance, PTL DEF Spec
------------------------------------------------------------------------------
(* The counters, if no frame of one packet is sent again.                   *)

\* Is p a packet of frame m?
InFrame(p, port, m) ==
  p.port = port /\ header(p).octopus /\ header(p).msg_no = m

\* What the queued packets add to the counter of a frame.
FrameWeights(q, port, m) ==
  [i \in 1..Len(q) |-> IF InFrame(q[i], port, m) THEN Weight(q[i]) ELSE 0]

\* The sizes of the queued packets.
PacketSizes(q) == [i \in 1..Len(q) |-> header(q[i]).size]

\* The sizes agree with the queue and meet the limits.
SizesInv ==
  /\ queue_size_in_packets = Len(internal_queue)
  /\ queue_size_in_bytes = Total(PacketSizes(internal_queue))
  /\ good_with(queue_size_in_bytes, queue_size_in_packets)

\* The frame counters agree with the queue.
FramesInv ==
  \A port \in Ports : \A m \in MsgNos(port) :
    frame_counter[port][m] = Total(FrameWeights(internal_queue, port, m))

\* What is queued has been sent, and a frame of one packet is queued once.
SoloInv ==
  /\ \A i \in 1..Len(internal_queue) :
       LET p == internal_queue[i]
       IN ~Lex(sent[p.port][1], sent[p.port][2], p.frame, p.fragment)
  /\ \A i, j \in 1..Len(internal_queue) :
       i # j /\ pkt_pos(internal_queue[i]) = "SOLO" =>
         ~(/\ internal_queue[j].port = internal_queue[i].port
           /\ internal_queue[j].frame = internal_queue[i].frame)

\* The types that the other proofs do without.
MoreTypes ==
  /\ IsFiniteSet(resent) /\ Cardinality(resent) <= Resends
  /\ pkt \in Packet \cup {NoPacket}
  /\ is_drop \in BOOLEAN
  /\ verdict \in {"none", "keep", "rate", "preempt", "follow"}

\* The inductive invariant of CountersExact.
CountInv ==
  /\ SizesInv /\ FramesInv /\ SoloInv /\ MoreTypes /\ failed = FALSE

\* The two kinds of sums are over sequences of natural numbers.
LEMMA SumTypes ==
  ASSUME NEW q \in Seq(Packet), NEW port, NEW m
  PROVE  /\ Len(q) \in Nat
         /\ FrameWeights(q, port, m) \in Seq(Int)
         /\ Len(FrameWeights(q, port, m)) = Len(q)
         /\ \A i \in 1..Len(q) : FrameWeights(q, port, m)[i] >= 0
         /\ PacketSizes(q) \in Seq(Int)
         /\ Len(PacketSizes(q)) = Len(q)
         /\ \A i \in 1..Len(q) : PacketSizes(q)[i] >= 0
<1>1. Len(q) \in Nat /\ \A i \in 1..Len(q) : q[i] \in Packet
  BY LenProperties, ElementOfSeq
<1>2. \A i \in 1..Len(q) : header(q[i]).size \in Nat
  BY <1>1, PacketFacts, FrameFacts DEF header
<1>3. \A i \in 1..Len(q) : Weight(q[i]) \in Nat
  BY DEF Weight
<1>4. /\ PacketSizes(q) \in Seq(Int) /\ Len(PacketSizes(q)) = Len(q)
      /\ \A i \in 1..Len(q) : PacketSizes(q)[i] >= 0
  BY <1>1, <1>2 DEF PacketSizes
<1>5. /\ FrameWeights(q, port, m) \in Seq(Int)
      /\ Len(FrameWeights(q, port, m)) = Len(q)
      /\ \A i \in 1..Len(q) : FrameWeights(q, port, m)[i] >= 0
  BY <1>1, <1>3 DEF FrameWeights
<1> QED
  BY <1>1, <1>4, <1>5

\* The sums when a packet is let in.
LEMMA SumsOfAppend ==
  ASSUME internal_queue \in Seq(Packet), NEW p \in Packet, NEW port, NEW m,
         internal_queue' = Append(internal_queue, p)
  PROVE  /\ Total(PacketSizes(internal_queue')) =
              Total(PacketSizes(internal_queue)) + header(p).size
         /\ Total(FrameWeights(internal_queue', port, m)) =
              Total(FrameWeights(internal_queue, port, m))
              + (IF InFrame(p, port, m) THEN Weight(p) ELSE 0)
<1> DEFINE q == internal_queue
           r == internal_queue'
<1>1. /\ r \in Seq(Packet) /\ Len(q) \in Nat /\ Len(r) = Len(q) + 1
      /\ \A i \in 1..Len(q) : r[i] = q[i]
      /\ r[Len(q) + 1] = p
  BY AppendFacts
<1> HIDE DEF q, r
<1>2. q \in Seq(Packet)
  BY DEF q
<1>3. Total(PacketSizes(r)) = Total(PacketSizes(q)) + header(p).size
  <2>1. /\ PacketSizes(q) \in Seq(Int) /\ PacketSizes(r) \in Seq(Int)
        /\ Len(PacketSizes(q)) = Len(q) /\ Len(PacketSizes(r)) = Len(q) + 1
    BY <1>1, <1>2, SumTypes
  <2>2. /\ \A i \in 1..Len(q) : PacketSizes(r)[i] = PacketSizes(q)[i]
        /\ PacketSizes(r)[Len(q) + 1] = header(p).size
    BY <1>1 DEF PacketSizes
  <2> QED
    BY <2>1, <2>2, TotalLast
<1>4. Total(FrameWeights(r, port, m)) = Total(FrameWeights(q, port, m))
        + (IF InFrame(p, port, m) THEN Weight(p) ELSE 0)
  <2> DEFINE v == FrameWeights(q, port, m)
             w == FrameWeights(r, port, m)
  <2>1. /\ v \in Seq(Int) /\ w \in Seq(Int)
        /\ Len(v) = Len(q) /\ Len(w) = Len(q) + 1
    BY <1>1, <1>2, SumTypes
  <2>2. /\ \A i \in 1..Len(q) : w[i] = v[i]
        /\ w[Len(q) + 1] = IF InFrame(p, port, m) THEN Weight(p) ELSE 0
    BY <1>1 DEF FrameWeights
  <2> HIDE DEF v, w
  <2>3. Total(w) = Total(v) + w[Len(q) + 1]
    BY <2>1, <2>2, TotalLast
  <2> QED
    BY <2>2, <2>3 DEF v, w
<1> QED
  BY <1>3, <1>4 DEF q, r

\* The sums when the front packet is taken.
LEMMA SumsOfTail ==
  ASSUME internal_queue \in Seq(Packet), internal_queue # <<>>, NEW p,
         internal_queue' = Tail(internal_queue), p = Head(internal_queue),
         NEW port, NEW m
  PROVE  /\ Total(PacketSizes(internal_queue)) =
              header(p).size + Total(PacketSizes(internal_queue'))
         /\ Total(FrameWeights(internal_queue, port, m)) =
              (IF InFrame(p, port, m) THEN Weight(p) ELSE 0)
              + Total(FrameWeights(internal_queue', port, m))
<1> DEFINE q == internal_queue
           r == internal_queue'
<1>1. /\ r \in Seq(Packet) /\ Len(q) \in Nat /\ Len(q) = Len(r) + 1
      /\ Len(r) \in Nat
      /\ \A i \in 1..Len(r) : r[i] = q[i + 1]
      /\ q[1] = p
  BY TailFacts
<1> HIDE DEF q, r
<1>2. q \in Seq(Packet)
  BY DEF q
<1>3. Total(PacketSizes(q)) = header(p).size + Total(PacketSizes(r))
  <2>1. /\ PacketSizes(q) \in Seq(Int) /\ PacketSizes(r) \in Seq(Int)
        /\ Len(PacketSizes(r)) = Len(r) /\ Len(PacketSizes(q)) = Len(r) + 1
    BY <1>1, <1>2, SumTypes
  <2>2. /\ \A i \in 1..Len(r) : PacketSizes(r)[i] = PacketSizes(q)[i + 1]
        /\ PacketSizes(q)[1] = header(p).size
    BY <1>1 DEF PacketSizes
  <2> QED
    BY <2>1, <2>2, TotalFirst
<1>4. Total(FrameWeights(q, port, m)) =
        (IF InFrame(p, port, m) THEN Weight(p) ELSE 0)
        + Total(FrameWeights(r, port, m))
  <2> DEFINE v == FrameWeights(r, port, m)
             w == FrameWeights(q, port, m)
  <2>1. /\ v \in Seq(Int) /\ w \in Seq(Int)
        /\ Len(v) = Len(r) /\ Len(w) = Len(r) + 1
    BY <1>1, <1>2, SumTypes
  <2>2. /\ \A i \in 1..Len(r) : v[i] = w[i + 1]
        /\ w[1] = IF InFrame(p, port, m) THEN Weight(p) ELSE 0
    BY <1>1 DEF FrameWeights
  <2> HIDE DEF v, w
  <2>3. Total(w) = w[1] + Total(v)
    BY <2>1, <2>2, TotalFirst
  <2> QED
    BY <2>2, <2>3 DEF v, w
<1> QED
  BY <1>3, <1>4 DEF q, r

\* Packets of a frame have its message number, and no others of the flow.
LEMMA SameFrame ==
  ASSUME NEW p \in Packet, NEW q \in Packet, q.port = p.port,
         header(q).msg_no = header(p).msg_no
  PROVE  q.frame = p.frame
<1>1. /\ p.port \in Ports /\ p.frame \in 1..Len(Flows[p.port])
      /\ q.frame \in 1..Len(Flows[p.port]) /\ p.frame \in Nat /\ q.frame \in Nat
  BY PacketFacts
<1>2. /\ Flows[p.port][p.frame].msg_no \in Nat
      /\ Flows[p.port][p.frame].msg_no = Flows[p.port][q.frame].msg_no
  BY <1>1, FrameFacts DEF header
<1>3. ~(p.frame < q.frame) /\ ~(q.frame < p.frame)
  BY <1>1, <1>2, MsgNosGrow
<1> QED
  BY <1>1, <1>3

\* A packet that arrives keeps the order in which packets have been sent; a
\* frame of one packet is not in the queue yet.
LEMMA ArrivalSolo ==
  ASSUME BaseInv, SoloInv, NEW p \in Packet, enqueue(p),
         \/ /\ sent' = [sent EXCEPT ![p.port] = <<p.frame, p.fragment>>]
            /\ Lex(sent[p.port][1], sent[p.port][2], p.frame, p.fragment)
         \/ /\ sent' = sent /\ pkt_pos(p) # "SOLO"
            /\ ~Lex(sent[p.port][1], sent[p.port][2], p.frame, p.fragment)
  PROVE  /\ SoloInv'
         /\ pkt_pos(p) = "SOLO" =>
              \A i \in 1..Len(internal_queue) :
                ~(/\ internal_queue[i].port = p.port
                  /\ internal_queue[i].frame = p.frame)
<1>t. /\ Types /\ p.port \in Ports /\ p.frame \in Nat /\ p.fragment \in Nat
      /\ sent \in [Ports -> Nat \X Nat]
  BY PacketFacts DEF BaseInv, Types
<1>q. /\ Len(internal_queue) \in Nat
      /\ \A i \in 1..Len(internal_queue) :
              /\ internal_queue[i] \in Packet
              /\ internal_queue[i].port \in Ports
              /\ internal_queue[i].frame \in Nat
              /\ internal_queue[i].fragment \in Nat
  BY <1>t, QueueFacts
<1>s. \A o \in Ports : sent[o][1] \in Nat /\ sent[o][2] \in Nat
  BY <1>t
<1>p. pkt_pos(p) = "SOLO" => p.fragment = 1
  <2>1. p.fragment \in 1..header(p).fragments
    BY PacketFacts DEF header
  <2> QED
    BY <1>t, <2>1, WeightFacts
<1>1. \A i \in 1..Len(internal_queue) :
        LET q == internal_queue[i]
        IN ~Lex(sent[q.port][1], sent[q.port][2], q.frame, q.fragment)
  BY DEF SoloInv
<1>2. /\ \A o \in Ports : o # p.port => sent'[o] = sent[o]
      /\ \/ /\ sent'[p.port] = sent[p.port]
            /\ ~Lex(sent[p.port][1], sent[p.port][2], p.frame, p.fragment)
            /\ pkt_pos(p) # "SOLO"
         \/ /\ sent'[p.port] = <<p.frame, p.fragment>>
            /\ Lex(sent[p.port][1], sent[p.port][2], p.frame, p.fragment)
  BY <1>t
<1>3. ~Lex(sent'[p.port][1], sent'[p.port][2], p.frame, p.fragment)
  <2>1. CASE sent'[p.port] = <<p.frame, p.fragment>>
    BY <1>t, <2>1 DEF Lex
  <2> QED
    BY <1>2, <2>1
<1>4. ASSUME NEW i \in 1..Len(internal_queue)
      PROVE  LET q == internal_queue[i]
             IN ~Lex(sent'[q.port][1], sent'[q.port][2], q.frame, q.fragment)
  <2> DEFINE q == internal_queue[i]
  <2>1. /\ ~Lex(sent[q.port][1], sent[q.port][2], q.frame, q.fragment)
        /\ q.port \in Ports /\ q.frame \in Nat /\ q.fragment \in Nat
    BY <1>1, <1>q
  <2> HIDE DEF q
  <2>4. ~Lex(sent'[q.port][1], sent'[q.port][2], q.frame, q.fragment)
    <3>2. CASE sent'[q.port] = sent[q.port]
      BY <2>1, <3>2
    <3>3. CASE q.port = p.port /\ sent'[p.port] = <<p.frame, p.fragment>>
               /\ Lex(sent[p.port][1], sent[p.port][2], p.frame, p.fragment)
      BY <1>t, <1>s, <2>1, <3>3, SMTT(30) DEF Lex
    <3> QED
      BY <1>2, <2>1, <3>2, <3>3
  <2> QED
    BY <2>4 DEF q
<1>5. ASSUME pkt_pos(p) = "SOLO", NEW i \in 1..Len(internal_queue),
             internal_queue[i].port = p.port, internal_queue[i].frame = p.frame
      PROVE  FALSE
  <2> DEFINE q == internal_queue[i]
  <2>1. Lex(sent[p.port][1], sent[p.port][2], p.frame, p.fragment)
    BY <1>2, <1>5
  <2>2. /\ ~Lex(sent[p.port][1], sent[p.port][2], q.frame, q.fragment)
        /\ q.frame = p.frame /\ q.fragment \in Nat
        /\ q.fragment \in 1..Flows[q.port][q.frame].fragments
    BY <1>1, <1>5, <1>q, PacketFacts
  <2>3. q.fragment >= 1 /\ p.fragment = 1
    BY <1>5, <1>p, <2>2, FrameFacts
  <2> HIDE DEF q
  <2> QED
    BY <1>t, <1>s, <2>1, <2>2, <2>3 DEF Lex
<1>6. ASSUME internal_queue' = internal_queue PROVE SoloInv'
  BY <1>4, <1>6 DEF SoloInv
<1>7. ASSUME internal_queue' = Append(internal_queue, p) PROVE SoloInv'
  <2> DEFINE n == Len(internal_queue)
  <2>1. /\ Len(internal_queue') = n + 1
        /\ \A i \in 1..n : internal_queue'[i] = internal_queue[i]
        /\ internal_queue'[n + 1] = p
    BY <1>t, <1>7, AppendFacts DEF Types
  <2>2. \A i \in 1..Len(internal_queue') :
        LET q == internal_queue'[i]
        IN ~Lex(sent'[q.port][1], sent'[q.port][2], q.frame, q.fragment)
    <3> TAKE i \in 1..Len(internal_queue')
    <3>1. CASE i \in 1..n
      BY <1>4, <2>1, <3>1
    <3>2. CASE i = n + 1
      BY <1>3, <2>1, <3>2
    <3> QED
      BY <1>q, <2>1, <3>1, <3>2
  <2>3. ASSUME NEW i \in 1..Len(internal_queue'),
               NEW j \in 1..Len(internal_queue'), i # j,
               pkt_pos(internal_queue'[i]) = "SOLO",
               internal_queue'[j].port = internal_queue'[i].port,
               internal_queue'[j].frame = internal_queue'[i].frame
        PROVE  FALSE
    <3>1. CASE i \in 1..n /\ j \in 1..n
      BY <2>1, <2>3, <3>1 DEF SoloInv
    <3>2. CASE i = n + 1 /\ j \in 1..n
      BY <1>5, <2>1, <2>3, <3>2
    <3>3. CASE i \in 1..n /\ j = n + 1
      <4>1. /\ internal_queue'[j] = p /\ internal_queue'[i] = internal_queue[i]
            /\ internal_queue[i] \in Packet
        BY <1>q, <2>1, <3>3
      <4>2. header(p).fragments = header(internal_queue[i]).fragments
        BY <2>3, <4>1 DEF header
      <4>3. pkt_pos(p) = "SOLO"
        BY <2>3, <4>1, <4>2, WeightFacts
      <4> QED
        BY <1>5, <2>3, <3>3, <4>1, <4>3
    <3> QED
      BY <1>q, <2>1, <2>3, <3>1, <3>2, <3>3
  <2> QED
    BY <2>2, <2>3 DEF SoloInv
<1> QED
  BY <1>t, <1>5, <1>6, <1>7, EnqueueEffect

\* What enqueue does to the sizes, the counters and the asserts.
LEMMA EnqueueCounts ==
  ASSUME NEW p \in Packet, enqueue(p), failed = FALSE
  PROVE  \/ UNCHANGED <<internal_queue, queue_size_in_bytes,
                        queue_size_in_packets, frame_counter, failed>>
         \/ /\ Fits(p) /\ internal_queue' = Append(internal_queue, p)
            /\ queue_size_in_bytes' = queue_size_in_bytes + header(p).size
            /\ queue_size_in_packets' = queue_size_in_packets + 1
            /\ \/ header(p).octopus /\ NotePacket(p)
               \/ ~header(p).octopus /\ UNCHANGED <<frame_counter, failed>>
BY DEF enqueue, sizeVars, frameVars

\* A packet that arrives is counted, if it is let in.
LEMMA ArrivalCounts ==
  ASSUME Types, SizesInv, FramesInv, failed = FALSE, NEW p \in Packet, enqueue(p),
         pkt_pos(p) = "SOLO" =>
           \A i \in 1..Len(internal_queue) :
             ~(/\ internal_queue[i].port = p.port
               /\ internal_queue[i].frame = p.frame)
  PROVE  SizesInv' /\ FramesInv' /\ failed' = FALSE
<1>t. internal_queue \in Seq(Packet)
  BY DEF Types
<1>p. p.port \in Ports /\ header(p).msg_no \in MsgNos(p.port)
      /\ header(p).octopus \in BOOLEAN
  BY PacketFacts, FrameFacts DEF header
<1>1. CASE UNCHANGED <<internal_queue, queue_size_in_bytes,
                       queue_size_in_packets, frame_counter, failed>>
  BY <1>1 DEF SizesInv, FramesInv
<1>2. ASSUME Fits(p), internal_queue' = Append(internal_queue, p),
             queue_size_in_bytes' = queue_size_in_bytes + header(p).size,
             queue_size_in_packets' = queue_size_in_packets + 1,
             \/ header(p).octopus /\ NotePacket(p)
             \/ ~header(p).octopus /\ UNCHANGED <<frame_counter, failed>>
      PROVE  SizesInv' /\ FramesInv' /\ failed' = FALSE
  <2>1. \A port, m :
          /\ Total(PacketSizes(internal_queue')) =
               Total(PacketSizes(internal_queue)) + header(p).size
          /\ Total(FrameWeights(internal_queue', port, m)) =
               Total(FrameWeights(internal_queue, port, m))
               + (IF InFrame(p, port, m) THEN Weight(p) ELSE 0)
    BY <1>t, <1>2, SumsOfAppend
  <2>2. SizesInv'
    <3>1. /\ Len(internal_queue') = Len(internal_queue) + 1
          /\ Total(PacketSizes(internal_queue')) =
               Total(PacketSizes(internal_queue)) + header(p).size
      BY <1>t, <1>2, <2>1, AppendFacts
    <3> QED
      BY <1>2, <3>1 DEF SizesInv, Fits, good_with
  <2>3. pkt_pos(p) = "SOLO" /\ header(p).octopus =>
          Total(FrameWeights(internal_queue, p.port, header(p).msg_no)) = 0
    <3> SUFFICES ASSUME pkt_pos(p) = "SOLO"
                 PROVE  Total(FrameWeights(internal_queue, p.port,
                                           header(p).msg_no)) = 0
      OBVIOUS
    <3> DEFINE w == FrameWeights(internal_queue, p.port, header(p).msg_no)
    <3>1. w \in Seq(Int) /\ Len(w) = Len(internal_queue)
      BY <1>t, SumTypes
    <3>2. \A i \in 1..Len(internal_queue) :
            ~InFrame(internal_queue[i], p.port, header(p).msg_no)
      <4> SUFFICES ASSUME NEW i \in 1..Len(internal_queue),
                          InFrame(internal_queue[i], p.port, header(p).msg_no)
                   PROVE  FALSE
        OBVIOUS
      <4>1. internal_queue[i] \in Packet
        BY <1>t, ElementOfSeq
      <4>2. /\ internal_queue[i].port = p.port
            /\ header(internal_queue[i]).msg_no = header(p).msg_no
        BY DEF InFrame
      <4> QED
        BY <4>1, <4>2, SameFrame
    <3>3. \A i \in 1..Len(internal_queue) : w[i] = 0
      BY <3>2 DEF FrameWeights
    <3> HIDE DEF w
    <3>4. Total(w) = 0
      BY <3>1, <3>3, TotalZero
    <3> QED
      BY <3>4 DEF w
  <2>4. CASE ~header(p).octopus /\ UNCHANGED <<frame_counter, failed>>
    <3>1. \A port, m : ~InFrame(p, port, m)
      BY <2>4 DEF InFrame
    <3>2. \A port, m : Total(FrameWeights(internal_queue, port, m)) \in Int
      BY <1>t, SumTypes, TotalType
    <3>3. \A port, m : Total(FrameWeights(internal_queue', port, m)) =
                         Total(FrameWeights(internal_queue, port, m))
      BY <2>1, <3>1, <3>2
    <3>4. FramesInv'
      BY <2>4, <3>3 DEF FramesInv
    <3> QED
      BY <2>2, <2>4, <3>4
  <2>5. CASE header(p).octopus /\ NotePacket(p)
    <3> DEFINE c == frame_counter[p.port][header(p).msg_no]
    <3>1. failed' = (pkt_pos(p) = "SOLO" /\ c # 0)
      BY <2>5 DEF NotePacket
    <3>2. c = Total(FrameWeights(internal_queue, p.port, header(p).msg_no))
      BY <1>p DEF FramesInv
    <3>3. failed' = FALSE
      BY <2>3, <2>5, <3>1, <3>2
    <3>4. Weight(p) \in Int /\ (pkt_pos(p) = "SOLO" => Weight(p) = 2)
      BY WeightFacts DEF Weight
    <3>5. ASSUME NEW port \in Ports, NEW m \in MsgNos(port)
          PROVE  frame_counter'[port][m] =
                   Total(FrameWeights(internal_queue', port, m))
      <4> DEFINE old == Total(FrameWeights(internal_queue, port, m))
                 new == Total(FrameWeights(internal_queue', port, m))
      <4>1. /\ new = old + (IF InFrame(p, port, m) THEN Weight(p) ELSE 0)
            /\ old \in Int /\ frame_counter[port][m] = old
        BY <1>t, <2>1, <3>5, SumTypes, TotalType DEF FramesInv
      <4> HIDE DEF old, new
      <4>2. CASE InFrame(p, port, m)
        <5>1. port = p.port /\ m = header(p).msg_no
          BY <4>2 DEF InFrame
        <5>2. frame_counter'[port][m] =
                IF pkt_pos(p) = "SOLO" THEN 2 ELSE old + Weight(p)
          BY <2>5, <4>1, <5>1, NoteEffect
        <5>3. pkt_pos(p) = "SOLO" => old = 0
          BY <2>3, <2>5, <5>1 DEF old
        <5>4. frame_counter'[port][m] = new
          BY <3>4, <4>1, <4>2, <5>2, <5>3
        <5> QED
          BY <5>4 DEF new
      <4>3. CASE ~InFrame(p, port, m)
        <5>1. port # p.port \/ m # header(p).msg_no
          BY <2>5, <4>3 DEF InFrame
        <5>2. frame_counter'[port][m] = frame_counter[port][m]
          <6>1. /\ \A o \in Ports :
                     o # p.port => frame_counter'[o] = frame_counter[o]
                /\ \A k \in MsgNos(p.port) :
                     k # header(p).msg_no =>
                       frame_counter'[p.port][k] = frame_counter[p.port][k]
            BY <2>5, NoteEffect
          <6> QED
            BY <3>5, <5>1, <6>1
        <5>3. frame_counter'[port][m] = new
          BY <4>1, <4>3, <5>2
        <5> QED
          BY <5>3 DEF new
      <4> QED
        BY <4>2, <4>3
    <3>6. FramesInv'
      BY <3>5 DEF FramesInv
    <3> QED
      BY <2>2, <3>3, <3>6
  <2> QED
    BY <1>2, <2>4, <2>5
<1> QED
  BY <1>1, <1>2, EnqueueCounts

\* The packet at the front is counted out, and no assert fails.
LEMMA FrontCounts ==
  ASSUME Types, SizesInv, FramesInv, SoloInv, failed = FALSE,
         internal_queue # <<>>, dequeuefront, sent' = sent
  PROVE  SizesInv' /\ FramesInv' /\ SoloInv' /\ failed' = FALSE
<1> DEFINE p == Head(internal_queue)
<1>t. internal_queue \in Seq(Packet)
  BY DEF Types
<1>1. /\ internal_queue' \in Seq(Packet) /\ Len(internal_queue) \in Nat
      /\ Len(internal_queue) > 0
      /\ Len(internal_queue') = Len(internal_queue) - 1
      /\ p = internal_queue[1] /\ p \in Packet
      /\ \A i \in 1..Len(internal_queue') :
           internal_queue'[i] = internal_queue[i + 1]
      /\ internal_queue' = Tail(internal_queue)
  <2>1. internal_queue' = Tail(internal_queue)
    BY DEF dequeuefront
  <2> QED
    BY <1>t, <2>1, TailFacts
<1>e. /\ queue_size_in_bytes' = queue_size_in_bytes - header(p).size
      /\ queue_size_in_packets' = queue_size_in_packets - 1
      /\ ~header(p).octopus => frame_counter' = frame_counter /\ failed' = failed
      /\ header(p).octopus =>
           failed' = \/ /\ pkt_pos(p) \in {"FIRST", "LAST"}
                        /\ frame_counter[p.port][header(p).msg_no] = 0
                     \/ /\ pkt_pos(p) = "SOLO"
                        /\ frame_counter[p.port][header(p).msg_no] # 2
  BY DEF dequeuefront, frameVars
<1>f. /\ \A port \in Ports :
           port # p.port => frame_counter'[port] = frame_counter[port]
      /\ \A m \in MsgNos(p.port) :
           m # header(p).msg_no =>
             frame_counter'[p.port][m] = frame_counter[p.port][m]
      /\ header(p).octopus =>
           frame_counter'[p.port][header(p).msg_no] =
             frame_counter[p.port][header(p).msg_no] - Weight(p)
  BY FrontEffect
<1>p. /\ p.port \in Ports /\ header(p).msg_no \in MsgNos(p.port)
      /\ header(p).octopus \in BOOLEAN /\ header(p).size \in Nat
      /\ Weight(p) \in Int
  BY <1>1, PacketFacts, FrameFacts DEF header, Weight
<1> HIDE DEF p
<1>2. \A port, m :
        /\ Total(PacketSizes(internal_queue)) =
             header(p).size + Total(PacketSizes(internal_queue'))
        /\ Total(FrameWeights(internal_queue, port, m)) =
             (IF InFrame(p, port, m) THEN Weight(p) ELSE 0)
             + Total(FrameWeights(internal_queue', port, m))
  BY <1>t, <1>1, SumsOfTail DEF p
<1>3. SizesInv'
  <2>1. /\ Total(PacketSizes(internal_queue)) =
             header(p).size + Total(PacketSizes(internal_queue'))
        /\ Total(PacketSizes(internal_queue')) \in Int
    BY <1>1, <1>2, SumTypes, TotalType
  <2>2. /\ queue_size_in_bytes' = Total(PacketSizes(internal_queue'))
        /\ queue_size_in_packets' = Len(internal_queue')
    BY <1>1, <1>e, <1>p, <2>1 DEF SizesInv
  <2>3. /\ queue_size_in_bytes' <= queue_size_in_bytes
        /\ queue_size_in_packets' <= queue_size_in_packets
        /\ queue_size_in_bytes' \in Int /\ queue_size_in_packets' \in Int
        /\ queue_size_in_bytes \in Int /\ queue_size_in_packets \in Int
    BY <1>1, <1>p, <2>1, <2>2 DEF SizesInv
  <2>4. good_with(queue_size_in_bytes', queue_size_in_packets')
    BY <2>3, OctopusAssumption DEF SizesInv, good_with
  <2> QED
    BY <2>2, <2>4 DEF SizesInv, good_with
<1>4. FramesInv'
  <2> SUFFICES ASSUME NEW port \in Ports, NEW m \in MsgNos(port)
               PROVE  frame_counter'[port][m] =
                        Total(FrameWeights(internal_queue', port, m))
    BY DEF FramesInv
  <2> DEFINE old == Total(FrameWeights(internal_queue, port, m))
             new == Total(FrameWeights(internal_queue', port, m))
  <2>1. /\ old = (IF InFrame(p, port, m) THEN Weight(p) ELSE 0) + new
        /\ new \in Int /\ frame_counter[port][m] = old
    BY <1>1, <1>2, SumTypes, TotalType DEF FramesInv
  <2> HIDE DEF old, new
  <2>2. CASE InFrame(p, port, m)
    <3>1. frame_counter'[port][m] = old - Weight(p)
      BY <1>f, <2>1, <2>2 DEF InFrame
    <3>2. frame_counter'[port][m] = new
      BY <1>p, <2>1, <2>2, <3>1
    <3> QED
      BY <3>2 DEF new
  <2>3. CASE ~InFrame(p, port, m)
    <3>1. frame_counter'[port][m] = frame_counter[port][m]
      BY <1>e, <1>f, <1>p, <2>3 DEF InFrame
    <3>2. frame_counter'[port][m] = new
      BY <2>1, <2>3, <3>1
    <3> QED
      BY <3>2 DEF new
  <2> QED
    BY <2>2, <2>3
<1>5. failed' = FALSE
  <2>1. CASE ~header(p).octopus
    BY <1>e, <2>1
  <2>2. CASE header(p).octopus
    <3> DEFINE m == header(p).msg_no
               c == frame_counter[p.port][m]
               rest == FrameWeights(internal_queue', p.port, m)
    <3>1. /\ c = Weight(p) + Total(rest) /\ Total(rest) \in Nat
          /\ rest \in Seq(Int) /\ Len(rest) = Len(internal_queue')
      <4>1. InFrame(p, p.port, m)
        BY <2>2 DEF InFrame
      <4>2. /\ rest \in Seq(Int) /\ Len(rest) = Len(internal_queue')
            /\ \A i \in 1..Len(internal_queue') : rest[i] >= 0
        <5>1. internal_queue' \in Seq(Packet)
          BY <1>1
        <5> HIDE DEF m
        <5> QED
          BY <5>1, SumTypes
      <4>3. Total(rest) \in Nat
        <5> HIDE DEF rest
        <5> QED
          BY <4>2, TotalAtLeast
      <4> QED
        BY <1>p, <1>2, <4>1, <4>2, <4>3 DEF FramesInv
    <3>2. CASE pkt_pos(p) \in {"FIRST", "LAST"}
      <4>1. Weight(p) = 1
        BY <3>2 DEF Weight
      <4>2. c # 0
        <5> HIDE DEF rest, c
        <5> QED
          BY <3>1, <4>1
      <4> QED
        BY <1>e, <2>2, <3>2, <4>2
    <3>3. CASE pkt_pos(p) = "SOLO"
      <4>1. \A i \in 1..Len(internal_queue') :
              ~InFrame(internal_queue'[i], p.port, m)
        <5> SUFFICES ASSUME NEW i \in 1..Len(internal_queue'),
                            InFrame(internal_queue'[i], p.port, m)
                     PROVE  FALSE
          OBVIOUS
        <5>1. /\ internal_queue'[i] = internal_queue[i + 1] /\ i + 1 # 1
              /\ i + 1 \in 1..Len(internal_queue) /\ 1 \in 1..Len(internal_queue)
              /\ internal_queue[i + 1] \in Packet
          BY <1>t, <1>1, ElementOfSeq
        <5>2. /\ internal_queue[i + 1].port = p.port
              /\ header(internal_queue[i + 1]).msg_no = m
          BY <5>1 DEF InFrame
        <5>3. internal_queue[i + 1].frame = p.frame
          BY <1>1, <5>1, <5>2, SameFrame
        <5> QED
          BY <1>1, <3>3, <5>1, <5>2, <5>3 DEF SoloInv
      <4>2. \A i \in 1..Len(internal_queue') : rest[i] = 0
        BY <4>1 DEF FrameWeights
      <4>3. Total(rest) = 0
        <5> HIDE DEF rest
        <5> QED
          BY <3>1, <4>2, TotalZero
      <4>4. Weight(p) = 2
        BY <1>1, <3>3, WeightFacts
      <4>5. c = 2
        <5> HIDE DEF rest, c
        <5> QED
          BY <3>1, <4>3, <4>4
      <4> QED
        BY <1>e, <2>2, <3>3, <4>5
    <3>4. CASE pkt_pos(p) \notin {"FIRST", "LAST", "SOLO"}
      BY <1>e, <2>2, <3>4
    <3> QED
      BY <3>2, <3>3, <3>4
  <2> QED
    BY <1>p, <2>1, <2>2
<1>6. SoloInv'
  <2>1. ASSUME NEW i \in 1..Len(internal_queue')
        PROVE  i + 1 \in 1..Len(internal_queue)
               /\ internal_queue'[i] = internal_queue[i + 1]
    BY <1>1
  <2>2. \A i \in 1..Len(internal_queue') :
          LET q == internal_queue'[i]
          IN ~Lex(sent'[q.port][1], sent'[q.port][2], q.frame, q.fragment)
    BY <2>1 DEF SoloInv
  <2>3. \A i, j \in 1..Len(internal_queue') :
          i # j /\ pkt_pos(internal_queue'[i]) = "SOLO" =>
            ~(/\ internal_queue'[j].port = internal_queue'[i].port
              /\ internal_queue'[j].frame = internal_queue'[i].frame)
    <3> TAKE i, j \in 1..Len(internal_queue')
    <3>1. /\ i + 1 \in 1..Len(internal_queue) /\ j + 1 \in 1..Len(internal_queue)
          /\ internal_queue'[i] = internal_queue[i + 1]
          /\ internal_queue'[j] = internal_queue[j + 1]
          /\ i # j => i + 1 # j + 1
      BY <2>1
    <3> QED
      BY <3>1 DEF SoloInv
  <2> QED
    BY <2>2, <2>3 DEF SoloInv
<1> QED
  BY <1>3, <1>4, <1>5, <1>6

\* Nothing is queued at the start.
LEMMA InitCounts == Init => CountInv
<1> SUFFICES ASSUME Init PROVE CountInv
  OBVIOUS
<1>1. internal_queue = <<>> /\ Len(internal_queue) = 0
      /\ internal_queue \in Seq(Packet)
  BY EmptySeq DEF Init
<1>2. \A port, m : FrameWeights(internal_queue, port, m) = <<>>
  BY <1>1 DEF FrameWeights
<1>3. PacketSizes(internal_queue) = <<>>
  BY <1>1 DEF PacketSizes
<1>4. SizesInv
  BY <1>1, <1>3, TotalEmpty, OctopusAssumption DEF SizesInv, good_with, Init
<1>5. FramesInv
  BY <1>2, TotalEmpty DEF FramesInv, Init
<1>6. SoloInv
  BY <1>1 DEF SoloInv
<1>7. IsFiniteSet(resent) /\ Cardinality(resent) = 0
  BY FS_EmptySet DEF Init
<1>8. MoreTypes
  <2>1. 0 <= Resends
    BY OctopusAssumption
  <2>2. pkt = NoPacket /\ is_drop = FALSE /\ verdict = "none"
    BY DEF Init
  <2> QED
    BY <1>7, <2>1, <2>2 DEF MoreTypes
<1> QED
  BY <1>4, <1>5, <1>6, <1>8 DEF CountInv, Init

\* Every step counts right.
LEMMA NextCounts ==
  ASSUME "SOLO" \notin Resendable
  PROVE  BaseInv /\ CountInv /\ [Next]_vars => CountInv'
<1> SUFFICES ASSUME BaseInv, CountInv, [Next]_vars PROVE CountInv'
  OBVIOUS
<1>t. Types /\ SizesInv /\ FramesInv /\ SoloInv /\ MoreTypes /\ failed = FALSE
  BY DEF BaseInv, CountInv
<1>1. ASSUME NEW port \in Ports, Arrive(port) \/ ArriveAgain(port)
      PROVE  CountInv'
  <2>1. PICK p \in Packet :
           /\ enqueue(p) /\ p.port = port
           /\ UNCHANGED callVars
           /\ \/ /\ resent' = resent
                 /\ sent' = [sent EXCEPT ![port] = <<p.frame, p.fragment>>]
                 /\ Lex(sent[port][1], sent[port][2], p.frame, p.fragment)
              \/ /\ sent' = sent
                 /\ resent' = resent \cup {<<port, p.frame, p.fragment>>}
                 /\ Cardinality(resent) < Resends /\ pkt_pos(p) \in Resendable
                 /\ ~Lex(sent[port][1], sent[port][2], p.frame, p.fragment)
    BY <1>1, ArriveFacts
  <2>2. \/ /\ sent' = [sent EXCEPT ![p.port] = <<p.frame, p.fragment>>]
           /\ Lex(sent[p.port][1], sent[p.port][2], p.frame, p.fragment)
        \/ /\ sent' = sent /\ pkt_pos(p) # "SOLO"
           /\ ~Lex(sent[p.port][1], sent[p.port][2], p.frame, p.fragment)
    BY <2>1
  <2>3. /\ SoloInv'
        /\ pkt_pos(p) = "SOLO" =>
             \A i \in 1..Len(internal_queue) :
               ~(/\ internal_queue[i].port = p.port
                 /\ internal_queue[i].frame = p.frame)
    BY <1>t, <2>1, <2>2, ArrivalSolo
  <2>4. SizesInv' /\ FramesInv' /\ failed' = FALSE
    BY <1>t, <2>1, <2>3, ArrivalCounts
  <2>5. IsFiniteSet(resent') /\ Cardinality(resent') <= Resends
    <3>1. CASE resent' = resent
      BY <1>t, <3>1 DEF MoreTypes
    <3>2. CASE /\ resent' = resent \cup {<<port, p.frame, p.fragment>>}
               /\ Cardinality(resent) < Resends
      <4>1. /\ IsFiniteSet(resent') /\ Cardinality(resent) \in Nat
            /\ \/ Cardinality(resent') = Cardinality(resent)
               \/ Cardinality(resent') = Cardinality(resent) + 1
        BY <1>t, <3>2, FS_AddElement, FS_CardinalityType DEF MoreTypes
      <4> QED
        BY <3>2, <4>1, OctopusAssumption
    <3> QED
      BY <2>1, <3>1, <3>2
  <2>6. MoreTypes'
    BY <1>t, <2>1, <2>5 DEF MoreTypes, callVars
  <2> QED
    BY <2>3, <2>4, <2>6 DEF CountInv
<1>2. ASSUME dequeuefront, internal_queue # <<>>, UNCHANGED envVars
      PROVE  CountInv'
  <2>1. sent' = sent /\ resent' = resent
    BY <1>2 DEF envVars
  <2>2. SizesInv' /\ FramesInv' /\ SoloInv' /\ failed' = FALSE
    BY <1>t, <1>2, <2>1, FrontCounts
  <2>3. /\ pkt' \in Packet /\ is_drop' \in BOOLEAN
        /\ \/ verdict' = "keep"
           \/ \E fair_share \in FairShares :
                verdict' = Verdict(Head(internal_queue), fair_share)
    BY <1>t, <1>2, FrontEffect
  <2>4. \A p, fair_share :
          Verdict(p, fair_share) \in {"keep", "rate", "preempt", "follow"}
    BY DEF Verdict
  <2>5. verdict' \in {"keep", "rate", "preempt", "follow"}
    BY <2>3, <2>4
  <2>6. MoreTypes'
    BY <1>t, <2>1, <2>3, <2>5 DEF MoreTypes
  <2> QED
    BY <2>2, <2>6 DEF CountInv
<1>3. CASE dequeue
  BY <1>2, <1>3 DEF dequeue
<1>4. CASE dequeue_next
  BY <1>2, <1>4 DEF dequeue_next
<1>5. CASE dequeue_returns
  <2>1. /\ UNCHANGED <<envVars, sizeVars, frameVars, failed>>
        /\ pkt' = NoPacket /\ is_drop' = FALSE /\ verdict' = "none"
    BY <1>5 DEF dequeue_returns
  <2> QED
    BY <1>t, <2>1 DEF envVars, sizeVars, frameVars, CountInv, SizesInv,
       FramesInv, SoloInv, MoreTypes
<1>6. CASE Tick
  BY <1>t, <1>6 DEF Tick, sizeVars, frameVars, callVars, CountInv, SizesInv,
     FramesInv, SoloInv, MoreTypes
<1>7. CASE UNCHANGED vars
  BY <1>t, <1>7 DEF vars, envVars, sizeVars, frameVars, callVars, CountInv,
     SizesInv, FramesInv, SoloInv, MoreTypes
<1> QED
  BY <1>1, <1>3, <1>4, <1>5, <1>6, <1>7 DEF Next

\* The invariant says what CountersExact says.
LEMMA CountsAreExact ==
  ASSUME BaseInv, CountInv
  PROVE  CountersExact
<1>t. /\ Types /\ SizesInv /\ FramesInv /\ MoreTypes /\ failed = FALSE
      /\ internal_queue \in Seq(Packet) /\ Len(internal_queue) \in Nat
  BY LenProperties DEF BaseInv, CountInv, Types
<1>1. FrameCounterExact
  <2> SUFFICES ASSUME NEW port \in Ports, NEW m \in MsgNos(port)
               PROVE  frame_counter[port][m] =
                 Total([i \in 1..Len(internal_queue) |->
                   IF i \in Queued(port, m) THEN Weight(internal_queue[i]) ELSE 0])
    BY DEF FrameCounterExact
  <2>1. \A i \in 1..Len(internal_queue) :
          i \in Queued(port, m) <=> InFrame(internal_queue[i], port, m)
    BY DEF Queued, InFrame
  <2>2. FrameWeights(internal_queue, port, m) =
          [i \in 1..Len(internal_queue) |->
             IF i \in Queued(port, m) THEN Weight(internal_queue[i]) ELSE 0]
    BY <2>1 DEF FrameWeights
  <2> QED
    BY <1>t, <2>2 DEF FramesInv
<1>2. \A port \in Ports : \A m \in MsgNos(port) : frame_counter[port][m] \in Nat
  <2> SUFFICES ASSUME NEW port \in Ports, NEW m \in MsgNos(port)
               PROVE  frame_counter[port][m] \in Nat
    OBVIOUS
  <2> DEFINE w == FrameWeights(internal_queue, port, m)
  <2>1. /\ w \in Seq(Int) /\ Len(w) = Len(internal_queue)
        /\ \A i \in 1..Len(internal_queue) : w[i] >= 0
    BY <1>t, SumTypes
  <2>2. frame_counter[port][m] = Total(w)
    BY <1>t DEF FramesInv
  <2> HIDE DEF w
  <2> QED
    BY <2>1, <2>2, TotalAtLeast
<1>3. queue_size_in_bytes \in Nat
  <2> DEFINE w == PacketSizes(internal_queue)
  <2>1. /\ w \in Seq(Int) /\ Len(w) = Len(internal_queue)
        /\ \A i \in 1..Len(internal_queue) : w[i] >= 0
    BY <1>t, SumTypes
  <2>2. queue_size_in_bytes = Total(w)
    BY <1>t DEF SizesInv
  <2> HIDE DEF w
  <2> QED
    BY <2>1, <2>2, TotalAtLeast
<1>4. TypeOK
  BY <1>t, <1>2, <1>3 DEF TypeOK, Types, MoreTypes, SizesInv
<1>5. queue_size_in_bytes =
        Total([i \in 1..Len(internal_queue) |-> header(internal_queue[i]).size])
  BY <1>t DEF SizesInv, PacketSizes
<1> QED
  BY <1>t, <1>1, <1>4, <1>5 DEF CountersExact, NoAssertFails, SizesInv

\* Unless a frame of one packet is sent again, for all flows, limits and fair
\* shares: no assert of the queue fails, the limits are met, and the size and
\* frame counters agree with the queue.
THEOREM CountersStayExact ==
  ASSUME "SOLO" \notin Resendable
  PROVE  Spec => []CountersExact
<1>1. Init => BaseInv /\ CountInv
  BY InitBase, InitCounts
<1>2. BaseInv /\ CountInv /\ [Next]_vars => BaseInv' /\ CountInv'
  BY NextBase, NextCounts
<1>3. BaseInv /\ CountInv => CountersExact
  BY CountsAreExact
<1> QED
  BY <1>1, <1>2, <1>3, PTL DEF Spec
==============================================================================
