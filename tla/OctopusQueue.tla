----------------------------- MODULE OctopusQueue -----------------------------
(***************************************************************************)
(* DropBitrateDequeueQueue, the router logic of Octopus                    *)
(* (src/src/packet/drop_bitrate_dequeue_queue.cc on top of                 *)
(* dropping_packet_queue.cc): frames are dropped as a whole, at the moment *)
(* their first packet comes to the front of the queue, if the sender has   *)
(* said that they may be.                                                  *)
(*                                                                         *)
(* Senders put the packets of their frames in order on a flow (one flow    *)
(* per destination port); a packet may also be sent again.  What the       *)
(* headers say of a packet (PacketHeader) is a function of its frame.  The *)
(* rate estimate of enqueue_rate_ has one use, the fair share of a         *)
(* dequeue, which is an arbitrary member of FairShares here.               *)
(***************************************************************************)
EXTENDS Integers, SequencesExt, Totals

CONSTANTS
  Flows,           \* per destination port, the frames its sender sends
  FairShares,      \* values the fair share of a flow may have
  packet_limit, byte_limit,   \* 0 for none
  Resendable,      \* the positions in a frame that may be sent again
  Resends,         \* bound: packets sent a second time
  MaxTime          \* bound: the clock

Ports == DOMAIN Flows
Priorities == 0..7
Frame == [octopus : BOOLEAN, msg_no : Nat \ {0}, fragments : Nat \ {0},
          size : Nat \ {0}, priority : Priorities, threshold : Priorities,
          preempt : BOOLEAN, slack_time : Nat, bitrate : Nat]

ASSUME OctopusAssumption ==
  /\ \A port \in Ports :
       /\ Flows[port] \in Seq(Frame)
       /\ \A i, j \in 1..Len(Flows[port]) :
            i < j => Flows[port][i].msg_no < Flows[port][j].msg_no
  /\ FairShares \subseteq Nat /\ FairShares # {}
  /\ packet_limit \in Nat /\ byte_limit \in Nat
  /\ packet_limit # 0 \/ byte_limit # 0
  /\ Resendable \subseteq {"FIRST", "MID", "LAST", "SOLO"}
  /\ Resends \in Nat /\ MaxTime \in Nat

VARIABLES
  clock,
  sent,              \* per port, the last packet sent: <<frame, fragment>>
  resent,            \* the packets sent again: <<port, frame, fragment>>
  internal_queue, queue_size_in_bytes, queue_size_in_packets,
  frame_counter,     \* per port and msg_no; 0 stands for no entry
  msg_in_drop,       \* per port; a missing entry reads as 0
  prio_to_droppers,  \* a map on the ports that have an entry
  pc, pkt, is_drop,  \* dequeue: inside the call or not, the packet in hand
  verdict,           \* history: why the packet in hand is dropped
  at_call,           \* history: the queue when dequeue was called
  returned,          \* history: what the last dequeue handed back
  delivered, dropped,  \* history: packets handed back / discarded by dequeue
  failed             \* an assert has failed or an exception been thrown

envVars == <<clock, sent, resent>>
sizeVars == <<internal_queue, queue_size_in_bytes, queue_size_in_packets>>
frameVars == <<frame_counter, msg_in_drop, prio_to_droppers>>
callVars == <<pc, pkt, is_drop, verdict, at_call, returned, delivered, dropped>>
vars == <<envVars, sizeVars, frameVars, callVars, failed>>

\* The packets of the frames, with the time they arrive at the queue.
Packet ==
  UNION {UNION {[port : {port}, frame : {f}, arrival_time : 0..MaxTime,
                 fragment : 1..Flows[port][f].fragments] :
                   f \in 1..Len(Flows[port])} : port \in Ports}
NoPacket == [port |-> 0, frame |-> 0, fragment |-> 0, arrival_time |-> 0]

header(p) == Flows[p.port][p.frame]

pkt_pos(p) ==
  IF header(p).fragments = 1 THEN "SOLO"
  ELSE IF p.fragment = 1 THEN "FIRST"
  ELSE IF p.fragment = header(p).fragments THEN "LAST" ELSE "MID"

MsgNos(port) == {Flows[port][i].msg_no : i \in 1..Len(Flows[port])}

Init ==
  /\ clock = 0 /\ sent = [port \in Ports |-> <<1, 0>>] /\ resent = {}
  /\ internal_queue = <<>>
  /\ queue_size_in_bytes = 0 /\ queue_size_in_packets = 0
  /\ frame_counter = [port \in Ports |-> [m \in MsgNos(port) |-> 0]]
  /\ msg_in_drop = [port \in Ports |-> 0]
  /\ prio_to_droppers = <<>>
  /\ pc = "idle" /\ pkt = NoPacket /\ is_drop = FALSE /\ verdict = "none"
  /\ at_call = <<>> /\ returned = NoPacket
  /\ delivered = {} /\ dropped = {} /\ failed = FALSE
------------------------------------------------------------------------------
(* enqueue.                                                                 *)

good_with(bytes, packets) ==
  /\ byte_limit # 0 => bytes <= byte_limit
  /\ packet_limit # 0 => packets <= packet_limit

\* What a packet adds to the counter of its frame: 2 when the frame is whole.
Weight(p) == CASE pkt_pos(p) \in {"FIRST", "LAST"} -> 1
               [] pkt_pos(p) = "SOLO" -> 2
               [] OTHER -> 0

\* The last packet of a preempting frame makes it a dropper of older frames.
Droppers(p) ==
  LET known == IF p.port \in DOMAIN prio_to_droppers
               THEN prio_to_droppers[p.port] ELSE [i \in Priorities |-> -1]
      h == header(p)
  IN IF h.msg_no > known[h.threshold]
     THEN [known EXCEPT ![h.threshold] = h.msg_no] ELSE known

NotePacket(p) ==
  LET h == header(p) IN
  /\ frame_counter' = [frame_counter EXCEPT ![p.port][h.msg_no] =
                         IF pkt_pos(p) = "SOLO" THEN 2 ELSE @ + Weight(p)]
  /\ prio_to_droppers' =
       IF pkt_pos(p) \in {"LAST", "SOLO"} /\ h.preempt
       THEN [port \in DOMAIN prio_to_droppers \cup {p.port} |->
               IF port = p.port THEN Droppers(p) ELSE prio_to_droppers[port]]
       ELSE prio_to_droppers
  /\ failed' = (pkt_pos(p) = "SOLO" /\ frame_counter[p.port][h.msg_no] # 0)
  /\ UNCHANGED msg_in_drop

Fits(p) ==
  good_with(queue_size_in_bytes + header(p).size, queue_size_in_packets + 1)

enqueue(p) ==
  IF Fits(p)
  THEN /\ internal_queue' = Append(internal_queue, p)
       /\ queue_size_in_bytes' = queue_size_in_bytes + header(p).size
       /\ queue_size_in_packets' = queue_size_in_packets + 1
       /\ IF header(p).octopus THEN NotePacket(p)
          ELSE UNCHANGED <<frameVars, failed>>
  ELSE UNCHANGED <<sizeVars, frameVars, failed>>

\* The packet after the last one sent on a port.
Following(port) ==
  LET f == sent[port][1] IN
  IF sent[port][2] < Flows[port][f].fragments THEN <<f, sent[port][2] + 1>>
  ELSE <<f + 1, 1>>

PacketAt(port, at) ==
  [port |-> port, frame |-> at[1], fragment |-> at[2], arrival_time |-> clock]

Arrive(port) ==
  /\ pc = "idle" /\ ~failed
  /\ Following(port)[1] <= Len(Flows[port])
  /\ enqueue(PacketAt(port, Following(port)))
  /\ sent' = [sent EXCEPT ![port] = Following(port)]
  /\ UNCHANGED <<clock, resent, callVars>>

\* A packet that has been sent is sent again.
ArriveAgain(port) ==
  /\ pc = "idle" /\ ~failed /\ Cardinality(resent) < Resends
  /\ \E f \in 1..sent[port][1] : \E k \in 1..Flows[port][f].fragments :
       /\ f < sent[port][1] \/ k <= sent[port][2]
       /\ pkt_pos(PacketAt(port, <<f, k>>)) \in Resendable
       /\ enqueue(PacketAt(port, <<f, k>>))
       /\ resent' = resent \cup {<<port, f, k>>}
  /\ UNCHANGED <<clock, sent, callVars>>
------------------------------------------------------------------------------
(* dequeue, and dequeuefront, which it calls until a packet is to be kept.  *)

\* mutant: the dropper recorded last counts, whatever its priority
AnyDropper(p) ==
  Max({-1} \cup (IF p.port \in DOMAIN prio_to_droppers
                 THEN Range(prio_to_droppers[p.port]) ELSE {0}))
latest_dropper(p) ==
  Max({-1} \cup (IF p.port \in DOMAIN prio_to_droppers
                 THEN {prio_to_droppers[p.port][i] : i \in 0..header(p).priority}
                 ELSE {0}))

\* Are both ends of the frame in the queue (the packet in hand included)?
WholeFrameQueued(p) == frame_counter[p.port][header(p).msg_no] = 2

Preempted(p) == header(p).msg_no < latest_dropper(p)

Verdict(p, fair_share) ==
  LET h == header(p)
      late == clock - p.arrival_time >= h.slack_time
  IN IF WholeFrameQueued(p)
     THEN IF h.bitrate > fair_share /\ late THEN "rate"
          ELSE IF Preempted(p) /\ late THEN "preempt" ELSE "keep"
     ELSE IF h.msg_no = msg_in_drop[p.port] THEN "follow" ELSE "keep"

\* mutant: only a drop for its rate is remembered for the rest of the frame
RememberRateOnly(v) == v = "rate"
\* Must the rest of the frame follow this packet?
Remember(v) == v \in {"rate", "preempt"}

\* mutant: a frame of one packet is counted out as one end only
CountedOutOnce(p) == IF Weight(p) > 0 THEN 1 ELSE 0
CountedOut(p) == Weight(p)

dequeuefront ==
  LET p == Head(internal_queue)
      h == header(p)
      counter == frame_counter[p.port][h.msg_no]
  IN
  /\ internal_queue' = Tail(internal_queue)
  /\ queue_size_in_bytes' = queue_size_in_bytes - h.size
  /\ queue_size_in_packets' = queue_size_in_packets - 1
  /\ pkt' = p
  /\ IF ~h.octopus
     THEN is_drop' = FALSE /\ verdict' = "keep" /\ UNCHANGED <<frameVars, failed>>
     ELSE /\ \E fair_share \in FairShares : verdict' = Verdict(p, fair_share)
          /\ is_drop' = (verdict' # "keep")
          /\ msg_in_drop' = IF Remember(verdict')
                            THEN [msg_in_drop EXCEPT ![p.port] = h.msg_no]
                            ELSE msg_in_drop
          /\ prio_to_droppers' =
               IF WholeFrameQueued(p) /\ p.port \notin DOMAIN prio_to_droppers
               THEN [port \in DOMAIN prio_to_droppers \cup {p.port} |->
                       IF port = p.port THEN [i \in Priorities |-> 0]
                       ELSE prio_to_droppers[port]]
               ELSE prio_to_droppers
          /\ frame_counter' =
               [frame_counter EXCEPT ![p.port][h.msg_no] = @ - CountedOut(p)]
          /\ failed' = \/ pkt_pos(p) \in {"FIRST", "LAST"} /\ counter = 0
                       \/ pkt_pos(p) = "SOLO" /\ counter # 2

Key(p) == <<p.port, p.frame, p.fragment>>

dequeue ==
  /\ pc = "idle" /\ ~failed /\ internal_queue # <<>>
  /\ pc' = "dequeue" /\ at_call' = internal_queue
  /\ dequeuefront
  /\ UNCHANGED <<envVars, returned, delivered, dropped>>

\* The condition under which the loop goes on to the next packet.
DropOn == header(pkt).octopus /\ is_drop

dequeue_next ==
  /\ pc = "dequeue" /\ ~failed /\ internal_queue # <<>> /\ DropOn
  /\ dropped' = dropped \cup {Key(pkt)}
  /\ dequeuefront
  /\ UNCHANGED <<envVars, pc, at_call, returned, delivered>>

\* mutant: the newest packet is handed back
NewestOfCall == Last(at_call)
\* dequeue hands back the packet in hand, even one to be dropped if the queue
\* has become empty.
HandedBack == pkt

dequeue_returns ==
  /\ pc = "dequeue" /\ ~failed
  /\ internal_queue = <<>> \/ ~DropOn
  /\ pc' = "idle" /\ returned' = HandedBack
  /\ delivered' = delivered \cup {Key(HandedBack)}
  /\ pkt' = NoPacket /\ is_drop' = FALSE /\ verdict' = "none" /\ at_call' = <<>>
  /\ UNCHANGED <<envVars, sizeVars, frameVars, dropped, failed>>

Tick ==
  /\ clock < MaxTime /\ ~failed
  /\ clock' = clock + 1
  /\ UNCHANGED <<sent, resent, sizeVars, frameVars, callVars, failed>>

Next ==
  \/ \E port \in Ports : Arrive(port) \/ ArriveAgain(port)
  \/ dequeue \/ dequeue_next \/ dequeue_returns
  \/ Tick

Spec == Init /\ [][Next]_vars
------------------------------------------------------------------------------
(* Properties.                                                              *)

\* Every variable has its type; the counters, which the code asserts to be
\* at least 0 before it reads them as unsigned, never go below.
TypeOK ==
  /\ clock \in 0..MaxTime /\ Cardinality(resent) <= Resends
  /\ internal_queue \in Seq(Packet)
  /\ queue_size_in_bytes \in Nat /\ queue_size_in_packets \in Nat
  /\ \A port \in Ports : \A m \in MsgNos(port) : frame_counter[port][m] \in Nat
  /\ msg_in_drop \in [Ports -> Nat]
  /\ DOMAIN prio_to_droppers \subseteq Ports
  /\ \A port \in DOMAIN prio_to_droppers :
       prio_to_droppers[port] \in [Priorities -> Int]
  /\ pc \in {"idle", "dequeue"} /\ pkt \in Packet \cup {NoPacket}
  /\ is_drop \in BOOLEAN /\ failed \in BOOLEAN
  /\ verdict \in {"none", "keep", "rate", "preempt", "follow"}

\* The positions of the queued packets of one frame.
Queued(port, m) ==
  {i \in 1..Len(internal_queue) :
     /\ internal_queue[i].port = port /\ header(internal_queue[i]).octopus
     /\ header(internal_queue[i]).msg_no = m}

\* frame_counter_ counts the ends of each frame that are in the queue now,
\* whatever has been refused, dropped or sent twice: a frame is taken for
\* whole neither too early nor too late, and no entry outlives its packets.
FrameCounterExact ==
  \A port \in Ports : \A m \in MsgNos(port) :
    frame_counter[port][m] =
      Total([i \in 1..Len(internal_queue) |->
               IF i \in Queued(port, m) THEN Weight(internal_queue[i]) ELSE 0])

\* No assert fails and no exception is thrown: a frame of one packet is never
\* in the queue twice, and the end of a frame always finds its counter.
NoAssertFails == ~failed

\* If no frame of one packet is sent again, no assert fails, the limits are met,
\* and the size counters and the frame counters agree with the queue.
CountersExact ==
  /\ TypeOK /\ NoAssertFails /\ FrameCounterExact
  /\ queue_size_in_packets = Len(internal_queue)
  /\ queue_size_in_bytes =
       Total([i \in 1..Len(internal_queue) |-> header(internal_queue[i]).size])
  /\ good_with(queue_size_in_bytes, queue_size_in_packets)

\* The flows on which no packet has been sent again.
SentOnce == {port \in Ports : \A r \in resent : r[1] # port}

\* Frames are dropped as a whole: once the first packet of a frame has been
\* handed on, no packet of it is dropped; once it has been dropped, the only
\* packet of it that can still go through is its last one (when it is also
\* the last one in the queue, and dequeue has nothing else to hand back).
\* This is so on every flow whose sender sends each packet once, whatever
\* the senders of the other flows do.
WholeFrames ==
  \A port \in SentOnce : \A f \in 1..Len(Flows[port]) :
    LET last == Flows[port][f].fragments IN
    /\ <<port, f, 1>> \in delivered =>
         \A k \in 1..last : <<port, f, k>> \notin dropped
    /\ <<port, f, 1>> \in dropped =>
         \A k \in 1..(last - 1) : <<port, f, k>> \notin delivered

\* A frame gives way only to a newer frame that is still to come: when it is
\* preempted, the last packet of a newer frame of the same flow, which may
\* preempt frames of its priority, is in the queue behind it.
PreemptedForNewer ==
  verdict = "preempt" /\ pc = "dequeue" /\ pkt.port \in SentOnce =>
    \E i \in 1..Len(internal_queue) :
      LET q == internal_queue[i] IN
      /\ q.port = pkt.port /\ header(q).octopus
      /\ header(q).msg_no > header(pkt).msg_no
      /\ header(q).preempt /\ header(q).threshold <= header(pkt).priority
      /\ pkt_pos(q) \in {"LAST", "SOLO"}

\* The contract sees a call of dequeue as one step.
Contract == INSTANCE PacketQueue WITH
  Packets <- Packet,
  queue <- IF pc = "idle" THEN internal_queue ELSE at_call

\* Octopus keeps the contract that the link relies on.
KeepsContract == Contract!Spec
==============================================================================
