------------------------------ MODULE LinkQueue ------------------------------
(***************************************************************************)
(* One direction of mm-link: the LinkQueue (src/src/frontend/link_queue.cc)*)
(* driven by the event loop of its ferry process (Ferry::loop in           *)
(* src/src/packet/packetshell.cc, EventLoop::internal_loop, Poller::poll). *)
(*                                                                         *)
(* The process is single-threaded, so a handler is a chain of steps linked *)
(* by pc; only the clock moves between two of them.  The link is emulated  *)
(* lazily: rationalize(now) uses up every delivery opportunity of the      *)
(* trace that is due at the time the handler started.                      *)
(*                                                                         *)
(* The queue discipline is any that meets the contract of PacketQueue.     *)
(***************************************************************************)
EXTENDS Integers, Sequences

CONSTANTS
  PACKET_SIZE,    \* bytes one delivery opportunity can carry
  Schedule,       \* the trace: times of the delivery opportunities
  Sizes,          \* sizes of the packets read from the TUN device
  MaxArrivals,    \* bound: packets read
  MaxTime,        \* bound: the clock
  MaxLag          \* bound: ms a handler takes from its timestamp() on

ASSUME LinkAssumption ==
  /\ PACKET_SIZE \in Nat \ {0}
  /\ Schedule \in Seq(Nat) /\ Len(Schedule) > 0
  /\ \A i, j \in 1..Len(Schedule) : i <= j => Schedule[i] <= Schedule[j]
  /\ Schedule[Len(Schedule)] > 0
  /\ Sizes \subseteq 1..PACKET_SIZE
  /\ MaxArrivals \in Nat /\ MaxTime \in Nat /\ MaxLag \in Nat

VARIABLES
  clock,               \* timestamp()
  pc, caller,          \* where the process is; who called rationalize
  now,                 \* the handler's timestamp
  ready,               \* poll's events that still wait for their callback
  deadline,            \* when poll times out; -1 for never
  incoming,            \* the packet read_packet was called with
  repeat,              \* repeat_, FALSE with --once
  next_delivery, base_timestamp, finished,
  this_delivery_time,
  opportunity,         \* bytes_left_in_this_delivery
  packet_queue,        \* the packets in *packet_queue_
  in_transit,          \* packet_in_transit_
  bytes_left,          \* packet_in_transit_bytes_left_
  output_queue,        \* sent packets not yet written to the sibling
  opportunities,       \* history: times of the '#' lines of the log
  departed,            \* history: the '-' lines of the log
  arrivals,            \* history: number of '+' lines of the log
  drops,               \* history: packets accounted for by 'd' lines
  unlogged             \* history: packets discarded by dequeue

procVars == <<pc, caller, now, ready, deadline, incoming>>
traceVars == <<repeat, next_delivery, base_timestamp, finished, opportunities>>
sendVars == <<this_delivery_time, opportunity, in_transit, bytes_left,
              output_queue, departed>>
queueVars == <<packet_queue, arrivals, drops, unlogged>>
vars == <<clock, procVars, traceVars, sendVars, queueVars>>

Packet == [id : Nat, size : Sizes, arrival_time : Nat]
Empty == [id |-> 0, size |-> 0, arrival_time |-> 0]   \* QueuedPacket( "", 0 )
Departure == [id : Nat, size : Sizes, arrival_time : Nat, time : Nat]

Contract == INSTANCE PacketQueue WITH
  Packets <- Packet, NoPacket <- Empty, queue <- packet_queue,
  returned <- in_transit

Init ==
  /\ clock = 0
  /\ pc = "wait_time" /\ caller = "wait_time" /\ now = 0
  /\ ready = {} /\ deadline = -1 /\ incoming = Empty
  /\ repeat \in BOOLEAN
  /\ next_delivery = 0 /\ base_timestamp = 0 /\ finished = FALSE
  /\ opportunities = <<>>
  /\ this_delivery_time = 0 /\ opportunity = 0
  /\ packet_queue = <<>> /\ in_transit = Empty /\ bytes_left = 0
  /\ output_queue = <<>> /\ departed = <<>> /\ arrivals = 0
  /\ drops = 0 /\ unlogged = 0
------------------------------------------------------------------------------
(* The trace.  next_delivery_time() is infinite once finished_ is set.     *)

next_delivery_time == Schedule[next_delivery + 1] + base_timestamp

Due(t) == ~finished /\ next_delivery_time <= t

\* mutant: the wraparound forgets to move the base of the trace
NextBaseStuck == base_timestamp
NextBase == base_timestamp + Schedule[Len(Schedule)]

\* use_a_delivery_opportunity: log the opportunity, move on in the trace.
use_a_delivery_opportunity ==
  /\ pc = "rationalize" /\ Due(now)
  /\ pc' = "send"
  /\ opportunities' = Append(opportunities, next_delivery_time)
  /\ this_delivery_time' = next_delivery_time
  /\ opportunity' = PACKET_SIZE
  /\ next_delivery' = (next_delivery + 1) % Len(Schedule)
  /\ base_timestamp' = IF next_delivery' = 0 /\ repeat THEN NextBase
                       ELSE base_timestamp
  /\ finished' = (finished \/ (next_delivery' = 0 /\ ~repeat))
  /\ UNCHANGED <<clock, caller, now, ready, deadline, incoming, repeat,
                 in_transit, bytes_left, output_queue, departed, queueVars>>
------------------------------------------------------------------------------
(* rationalize: the inner loop, one step per iteration.                    *)

\* has the packet been fully sent?
Done(left, amount) == left - amount = 0

\* mutant: what is left of the opportunity is not looked at
AmountUnbounded(left) == left
\* How many bytes of the delivery opportunity can we use?
Amount(left) == IF opportunity < left THEN opportunity ELSE left

\* Send what fits of packet p, of which left bytes are still to be sent.
Transmit(p, left) ==
  LET amount == Amount(left)
      gone == [id |-> p.id, size |-> p.size, arrival_time |-> p.arrival_time,
               time |-> this_delivery_time]
  IN /\ in_transit' = p
     /\ bytes_left' = left - amount
     /\ opportunity' = opportunity - amount
     /\ IF Done(left, amount)
        THEN /\ departed' = Append(departed, gone)
             /\ output_queue' = Append(output_queue, gone)
        ELSE UNCHANGED <<departed, output_queue>>

\* Positions that a dequeue may hand back and discard up to.
DequeueChoices ==
  {c \in (1..Len(packet_queue)) \X (1..Len(packet_queue)) : c[1] <= c[2]}

ContinuePacket ==
  /\ pc = "send" /\ opportunity > 0 /\ bytes_left > 0
  /\ Transmit(in_transit, bytes_left)
  /\ UNCHANGED <<clock, procVars, traceVars, this_delivery_time, queueVars>>

dequeue_packet ==
  /\ pc = "send" /\ opportunity > 0 /\ bytes_left = 0
  /\ \E c \in DequeueChoices :
       /\ packet_queue' = SubSeq(packet_queue, c[2] + 1, Len(packet_queue))
       /\ Transmit(packet_queue[c[1]], packet_queue[c[1]].size)
       /\ unlogged' = unlogged + c[2] - 1
  /\ UNCHANGED <<clock, procVars, traceVars, this_delivery_time,
                 arrivals, drops>>

\* The opportunity is used up, or its rest is wasted: nothing is queued.
EndOpportunity ==
  /\ pc = "send"
  /\ opportunity = 0 \/ (bytes_left = 0 /\ packet_queue = <<>>)
  /\ pc' = "rationalize"
  /\ UNCHANGED <<clock, caller, now, ready, deadline, incoming, traceVars,
                 sendVars, queueVars>>
------------------------------------------------------------------------------
(* wait_time and read_packet: a call of rationalize, then the rest.        *)

wait_time ==
  /\ pc = "wait_time"
  /\ pc' = "rationalize" /\ caller' = "wait_time" /\ now' = clock
  /\ UNCHANGED <<clock, ready, deadline, incoming, traceVars, sendVars,
                 queueVars>>

\* mutant: without a packet to send there is nothing to wait for
PollUntilPacket ==
  IF finished \/ (packet_queue = <<>> /\ bytes_left = 0) THEN -1
  ELSE clock + (next_delivery_time - now)
\* When poll times out; wait_time() of a finished link comes out negative.
PollUntil == IF finished THEN -1 ELSE clock + (next_delivery_time - now)

\* wait_time returns; poll sleeps for what it returned, from now on.
wait_time_returns ==
  /\ pc = "rationalize" /\ caller = "wait_time" /\ ~Due(now)
  /\ pc' = "poll"
  /\ deadline' = PollUntil
  /\ UNCHANGED <<clock, caller, now, ready, incoming, traceVars, sendVars,
                 queueVars>>

\* mutant: the packet is queued before the link has been emulated up to now
EnqueueAnyTime == TRUE
\* read_packet enqueues only after rationalize( now ) has returned.
EnqueueAllowed == ~Due(now)

\* mutant: only the arriving packet can be missing after an enqueue
MissingAtMostOne(q) == IF Len(q) < Len(packet_queue) + 1 THEN 1 ELSE 0
\* missing_packets, the number record_drop writes to the log
Missing(q) == Len(packet_queue) + 1 - Len(q)

read_packet_enqueues ==
  /\ pc = "rationalize" /\ caller = "read_packet" /\ EnqueueAllowed
  /\ pc' = "callbacks"
  /\ \E q \in Contract!Thinnings(Append(packet_queue, incoming)) :
       /\ packet_queue' = q
       /\ drops' = drops + Missing(q)
  /\ arrivals' = arrivals + 1
  /\ UNCHANGED <<clock, caller, now, ready, deadline, incoming, traceVars,
                 sendVars, unlogged>>
------------------------------------------------------------------------------
(* Ferry::loop: one poll, then the callbacks of the ready actions in the   *)
(* order they were added: read_packet, write_packets, exit if finished.    *)

\* The ready actions on the sibling; when_interested is asked before poll.
SiblingEvents(writable) ==
  IF ~writable THEN {}
  ELSE (IF output_queue # <<>> THEN {"write"} ELSE {})
       \cup (IF finished THEN {"exit"} ELSE {})

poll(readable, writable) ==
  /\ pc = "poll"
  /\ readable => arrivals < MaxArrivals
  /\ ready' = (IF readable THEN {"tun"} ELSE {}) \cup SiblingEvents(writable)
  /\ ready' # {}
  /\ pc' = "callbacks"
  /\ UNCHANGED <<clock, caller, now, deadline, incoming, traceVars, sendVars,
                 queueVars>>

poll_timeout ==
  /\ pc = "poll" /\ deadline >= 0 /\ clock >= deadline
  /\ pc' = "wait_time"
  /\ UNCHANGED <<clock, caller, now, ready, deadline, incoming, traceVars,
                 sendVars, queueVars>>

read_packet ==
  /\ pc = "callbacks" /\ "tun" \in ready
  /\ ready' = ready \ {"tun"}
  /\ pc' = "rationalize" /\ caller' = "read_packet" /\ now' = clock
  /\ \E s \in Sizes : incoming' =
       [id |-> arrivals + 1, size |-> s, arrival_time |-> clock]
  /\ UNCHANGED <<clock, deadline, traceVars, sendVars, queueVars>>

\* mutant: only the front of the output queue is written
WriteFront == Tail(output_queue)
\* write_packets leaves nothing behind.
WrittenOut == <<>>

write_packets ==
  /\ pc = "callbacks" /\ "tun" \notin ready /\ "write" \in ready
  /\ ready' = ready \ {"write"}
  /\ output_queue' = WrittenOut
  /\ UNCHANGED <<clock, pc, caller, now, deadline, incoming, traceVars,
                 this_delivery_time, opportunity, in_transit, bytes_left,
                 departed, queueVars>>

callbacks_done ==
  /\ pc = "callbacks" /\ ready \subseteq {"exit"}
  /\ pc' = IF ready = {"exit"} THEN "exited" ELSE "wait_time"
  /\ ready' = {}
  /\ UNCHANGED <<clock, caller, now, deadline, incoming, traceVars, sendVars,
                 queueVars>>
------------------------------------------------------------------------------
\* Time passes while the process sleeps in poll, or while a handler runs.
Tick ==
  /\ clock < MaxTime /\ pc # "exited"
  /\ pc = "poll" \/ clock < now + MaxLag
  /\ clock' = clock + 1
  /\ UNCHANGED <<procVars, traceVars, sendVars, queueVars>>

\* The steps of a handler; none of them waits for anything.
Step ==
  \/ use_a_delivery_opportunity \/ ContinuePacket \/ dequeue_packet
  \/ EndOpportunity \/ wait_time \/ wait_time_returns
  \/ read_packet_enqueues \/ read_packet \/ write_packets \/ callbacks_done

Next ==
  \/ Step \/ poll_timeout \/ Tick
  \/ \E readable, writable \in BOOLEAN : poll(readable, writable)

Spec == Init /\ [][Next]_vars

\* A handler runs to its end, poll returns when it times out or when the
\* sibling TUN device takes packets, which it does again and again.
Fairness ==
  /\ WF_vars(Step) /\ WF_vars(poll_timeout) /\ WF_vars(Tick)
  /\ SF_vars(\E readable \in BOOLEAN : poll(readable, TRUE))

FairSpec == Spec /\ Fairness
------------------------------------------------------------------------------
(* Properties.                                                             *)

ProcTypeOK ==
  /\ clock \in Nat /\ now \in Nat /\ deadline \in Int
  /\ pc \in {"wait_time", "rationalize", "send", "poll", "callbacks", "exited"}
  /\ caller \in {"wait_time", "read_packet"}
  /\ ready \subseteq {"tun", "write", "exit"}
  /\ incoming \in Packet \cup {Empty}

TraceTypeOK ==
  /\ next_delivery \in 0..(Len(Schedule) - 1) /\ base_timestamp \in Nat
  /\ repeat \in BOOLEAN /\ finished \in BOOLEAN /\ opportunities \in Seq(Nat)

SendTypeOK ==
  /\ this_delivery_time \in Nat /\ opportunity \in 0..PACKET_SIZE
  /\ in_transit \in Packet \cup {Empty} /\ bytes_left \in 0..PACKET_SIZE
  /\ output_queue \in Seq(Departure) /\ departed \in Seq(Departure)

QueueTypeOK ==
  /\ packet_queue \in Seq(Packet)
  /\ arrivals \in Nat /\ drops \in Nat /\ unlogged \in Nat

\* Every variable has the type the code gives it; the index into the trace
\* stays inside it, and counters that the code keeps unsigned never go below
\* zero.
TypeOK == ProcTypeOK /\ TraceTypeOK /\ SendTypeOK /\ QueueTypeOK

\* No packet leaves at an opportunity of the trace that had passed when the
\* packet arrived, however late the emulation catches up (the assertion on
\* arrival_time in rationalize asks for <= only).
NoTimeTravel ==
  \A i \in 1..Len(departed) : departed[i].arrival_time < departed[i].time

\* What rationalize asserts each time it sends bytes of a packet.
SendAsserts ==
  bytes_left > 0 =>
    /\ pc = "send" => in_transit.arrival_time <= this_delivery_time
    /\ bytes_left <= PACKET_SIZE
    /\ bytes_left <= in_transit.size

(* The ideal link, from the packets alone: opportunity o comes at           *)
(* OpportunityTime(o); a packet starts in what is left of the opportunity   *)
(* the one before it ended in, or, if that one has passed when it arrives,  *)
(* in the first opportunity after its arrival.                              *)

OpportunityTime(o) ==
  LET n == Len(Schedule)
  IN Schedule[((o - 1) % n) + 1] + ((o - 1) \div n) * Schedule[n]

FirstAfter(o, t) ==
  IF OpportunityTime(o) > t THEN o
  ELSE CHOOSE p \in (o + 1)..(o + (t + 2) * Len(Schedule)) :
         OpportunityTime(p) > t /\ OpportunityTime(p - 1) <= t

\* The opportunity in which p ends, and the room left in it, if the packet
\* before it ended as last says.
Serve(last, p) ==
  LET opp == FirstAfter(last.opp, p.arrival_time)
      room == (IF opp = last.opp THEN last.room ELSE PACKET_SIZE) - p.size
  IN IF room >= 0 THEN [opp |-> opp, room |-> room]
     ELSE [opp |-> opp + 1, room |-> PACKET_SIZE + room]

\* The same for each of ps.
Service(ps) ==
  LET service[k \in 0..Len(ps)] ==
        IF k = 0 THEN [opp |-> 1, room |-> PACKET_SIZE]
        ELSE Serve(service[k - 1], ps[k])
  IN service

\* The packets the link holds or has sent, oldest first.
Held == [i \in 1..Len(departed) |-> departed[i].id]
        \o (IF bytes_left > 0 THEN <<in_transit.id>> ELSE <<>>)
        \o [i \in 1..Len(packet_queue) |-> packet_queue[i].id]

\* The packet that leaves next, if the link holds one.
Upcoming ==
  IF bytes_left > 0 THEN <<in_transit>>
  ELSE IF packet_queue # <<>> THEN <<Head(packet_queue)>> ELSE <<>>

\* Catching up lazily makes no difference: every packet leaves at the very
\* opportunity the ideal link gives it, none is sent twice or overtakes
\* another, and when the process goes to sleep no packet that should have left
\* by now is still held.
IdealLink ==
  /\ \A i, j \in 1..Len(Held) : i < j => Held[i] < Held[j]
  /\ \A o \in 1..Len(opportunities) : opportunities[o] = OpportunityTime(o)
  /\ \A k \in 1..Len(departed) :
       departed[k].time = OpportunityTime(Service(departed)[k].opp)
  /\ pc = "poll" /\ ~finished /\ Upcoming # <<>> =>
       LET ps == [i \in 1..(Len(departed) + 1) |->
                    IF i <= Len(departed) THEN
                      [size |-> departed[i].size,
                       arrival_time |-> departed[i].arrival_time]
                    ELSE [size |-> Upcoming[1].size,
                          arrival_time |-> Upcoming[1].arrival_time]]
       IN OpportunityTime(Service(ps)[Len(ps)].opp) > now

\* What the manual page says of the '#' lines of the log ("An unused delivery
\* opportunity", on a trace whose times differ): no packet leaves at the
\* time of one.
LoggedOpportunityIsUnused ==
  \A k \in 1..Len(departed) : \A o \in 1..Len(opportunities) :
    departed[k].time # opportunities[o]

\* The log accounts for every packet but those the discipline discards in
\* dequeue, of which the link never hears: '+' lines = '-' lines + packets
\* in 'd' lines + packets discarded in dequeue + packets held.
LogBalances ==
  arrivals = Len(departed) + drops + unlogged + Len(packet_queue)
             + (IF bytes_left > 0 THEN 1 ELSE 0)

\* The ferry wakes up for the trace: an opportunity that has come, with the
\* longest handler run allowed for, is used.
OpportunityIsUsed ==
  (~finished /\ next_delivery_time + MaxLag <= clock) ~> (pc = "send")

\* With --once the ferry comes to its end once the trace has, and not before
\* every packet that has been sent over the link is written to the sibling.
OnceTerminates == ~repeat ~> pc = "exited" /\ output_queue = <<>>
==============================================================================
