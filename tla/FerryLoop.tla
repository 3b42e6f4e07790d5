------------------------------ MODULE FerryLoop ------------------------------
(***************************************************************************)
(* The ferries of mm-delay, mm-loss, mm-onoff and mm-meter: their queues   *)
(* (src/src/frontend/delay_queue.cc, loss_queue.cc, meter_queue.cc) in     *)
(* PacketShell::Ferry::loop, and the graph thread of mm-meter.             *)
(*                                                                         *)
(* The clock runs freely while the ferry sleeps in poll.  From one call of *)
(* wait_time to the next, work and the scheduler may take up to MaxLag.    *)
(***************************************************************************)
EXTENDS BinnedLiveGraph

CONSTANTS
  Kinds,             \* the ferries to look at
  Delay,             \* delay_ms_
  OnTimes, OffTimes, \* what the two random processes may draw
  MaxWait,           \* numeric_limits<uint16_t>::max()
  MaxLag,            \* bound: how long one round of the loop takes
  MaxPackets,        \* bound: packets that arrive
  MaxTime, LastArrival   \* bounds: of the clock, and for arrivals

\* mm-onoff refuses two mean times of 0.
ASSUME FerryAssumption ==
  /\ Kinds \subseteq {"delay", "loss", "onoff", "meter"}
  /\ {Delay, MaxWait, MaxLag, MaxPackets, MaxTime, LastArrival} \subseteq Nat
  /\ OnTimes \subseteq Nat /\ OffTimes \subseteq Nat
  /\ ~(0 \in OnTimes /\ 0 \in OffTimes)

VARIABLES
  kind,
  tun,               \* packets waiting in the TUN device
  packet_queue,      \* the packets of the queue; when they came is in read_at
  link_is_on, next_switch_time,
  loop,              \* the state of the loop, a record:
                     \*   pc          what it does next
                     \*   called      the time wait_time has read
                     \*   until       the end of the time-out of poll
                     \*   interested  pending_output() before poll
                     \*   ready       what poll has found
                     \*   wrote       has write_packets written in this round?
                     \*   thrown      "busy wait detected"
  lag,               \* time spent in this round
  quit,              \* a signal is waiting
  arrived,           \* history: number of packets so far
  read_at,           \* history: when each packet was read
  kept,              \* history: the packets not dropped, as they were read
  output             \* history: packets written and the time

queueVars == <<packet_queue, link_is_on, next_switch_time>>
worldVars == <<kind, arrived, quit, now>>
history == <<read_at, kept, output>>
vars == <<tun, queueVars, loop, lag, worldVars, history, graphVars>>

At(pc) == loop.pc = pc
GoTo(pc) == loop' = [loop EXCEPT !.pc = pc]

\* The ferry starts when a bin is about to end.
Init ==
  /\ kind \in Kinds
  /\ tun = <<>> /\ packet_queue = <<>>
  /\ link_is_on = FALSE /\ next_switch_time = 0
  /\ loop = [pc |-> "construct", called |-> 0, until |-> 0,
             interested |-> FALSE, ready |-> {}, wrote |-> FALSE,
             thrown |-> FALSE]
  /\ lag = 0 /\ quit = FALSE
  /\ arrived = 0 /\ read_at = [p \in 1..MaxPackets |-> 0]
  /\ kept = <<>> /\ output = <<>> /\ now = BinWidth - 1
  /\ GraphInit

\* The constructor of the queue; that of a graph takes two steps.
Construct ==
  /\ At("construct")
  /\ next_switch_time' = now
  /\ IF kind = "meter" THEN StartThread /\ GoTo("initialize")
                       ELSE UNCHANGED graphVars /\ GoTo("wait_time")
  /\ UNCHANGED <<tun, packet_queue, link_is_on, lag, worldVars, history>>

Initialize ==
  /\ At("initialize") /\ GoTo("wait_time")
  /\ FinishConstruction
  /\ UNCHANGED <<tun, queueVars, lag, worldVars, history>>
------------------------------------------------------------------------------
(* The queues.                                                              *)

ReleaseTime(p) == read_at[p] + (IF kind = "delay" THEN Delay ELSE 0)

Due == packet_queue # <<>> /\ ReleaseTime(Head(packet_queue)) <= now

\* mutant: the ferry asks to write as soon as there is a packet
AnyPacket == packet_queue # <<>>
pending_output == Due

UntilRelease == Max({0, ReleaseTime(Head(packet_queue)) - loop.called})

\* mutant: the on/off link sleeps through its switches
WaitNoSwitch ==
  IF packet_queue # <<>> THEN UntilRelease ELSE MaxWait
\* What wait_time returns.
WaitTime ==
  IF packet_queue # <<>> THEN UntilRelease
    ELSE IF kind = "onoff" /\ next_switch_time - loop.called < MaxWait
           THEN next_switch_time - loop.called ELSE MaxWait

\* The answers drop_packet may give.
drop_packet ==
  CASE kind = "loss" -> BOOLEAN
    [] kind = "onoff" -> {~link_is_on}
    [] OTHER -> {FALSE}
------------------------------------------------------------------------------
(* One round of the loop.                                                   *)

wait_time ==
  /\ At("wait_time")
  /\ loop' = [loop EXCEPT !.pc = "switch", !.called = now]
  /\ UNCHANGED <<tun, queueVars, lag, worldVars, history, graphVars>>

\* One turn of the loop in SwitchingLink::wait_time.
MustSwitch == kind = "onoff" /\ next_switch_time <= loop.called

switch ==
  /\ At("switch") /\ MustSwitch
  /\ link_is_on' = ~link_is_on
  /\ \E d \in IF link_is_on' THEN OnTimes ELSE OffTimes :
       next_switch_time' = next_switch_time + d
  /\ UNCHANGED <<tun, packet_queue, loop, lag, worldVars, history, graphVars>>

\* poll asks which actions are interested and goes to sleep.
poll ==
  /\ At("switch") /\ ~MustSwitch
  /\ loop' = [loop EXCEPT !.pc = "poll", !.interested = pending_output,
                          !.until = now + WaitTime]
  /\ UNCHANGED <<tun, queueVars, lag, worldVars, history, graphVars>>

Found == {e \in {"read", "write", "signal"} :
            \/ e = "read" /\ tun # <<>>
            \/ e = "write" /\ loop.interested
            \/ e = "signal" /\ quit}

poll_returns ==
  /\ At("poll") /\ Found # {}
  /\ loop' = [loop EXCEPT !.pc = "read", !.ready = Found, !.wrote = FALSE]
  /\ UNCHANGED <<tun, queueVars, lag, worldVars, history, graphVars>>

poll_timeout ==
  /\ At("poll") /\ Found = {} /\ now >= loop.until
  /\ GoTo("wait_time") /\ lag' = 0
  /\ UNCHANGED <<tun, queueVars, worldVars, history, graphVars>>

QueuePacket(drop) ==
  /\ packet_queue' = IF drop THEN packet_queue ELSE Append(packet_queue, Head(tun))
  /\ kept' = IF drop THEN kept ELSE Append(kept, Head(tun))

read_packet ==
  /\ At("read") /\ "read" \in loop.ready
  /\ tun' = Tail(tun)
  /\ read_at' = [read_at EXCEPT ![Head(tun)] = now]
  /\ \E drop \in drop_packet : QueuePacket(drop)
  /\ GoTo(IF kind = "meter" THEN "advance" ELSE "write")
  /\ UNCHANGED <<link_is_on, next_switch_time, lag, worldVars, output, graphVars>>

\* mutant: a value is added to the bin that happens to be open
AddOnly ==
  /\ At("advance") /\ GoTo("add")
  /\ UNCHANGED <<tun, queueVars, lag, worldVars, history, graphVars>>
\* add_value_now takes the lock twice.
add_value_now_advances ==
  /\ At("advance") /\ GoTo("add")
  /\ advance
  /\ UNCHANGED <<tun, queueVars, lag, worldVars, history, initialize_new_bin,
                 halt, animation_thread>>

add_value_now_adds ==
  /\ At("add") /\ GoTo("write")
  /\ add_value([id |-> Last(kept), latest |-> Bin(now)])
  /\ UNCHANGED <<tun, queueVars, lag, worldVars, history>>

skip_read ==
  /\ At("read") /\ "read" \notin loop.ready /\ GoTo("write")
  /\ UNCHANGED <<tun, queueVars, lag, worldVars, history, graphVars>>

\* One turn of the loop in write_packets.
Writes == "write" \in loop.ready /\ Due

write_packet ==
  /\ At("write") /\ Writes
  /\ loop' = [loop EXCEPT !.wrote = TRUE]
  /\ output' = Append(output, [id |-> Head(packet_queue), at |-> now])
  /\ packet_queue' = Tail(packet_queue)
  /\ UNCHANGED <<tun, link_is_on, next_switch_time, lag, worldVars, read_at,
                 kept, graphVars>>

\* The callback is over; one that has not written anything is taken for a busy
\* wait.  The signal is looked at last.
end_of_round ==
  LET busy == "write" \in loop.ready /\ ~loop.wrote
  IN /\ At("write") /\ ~Writes
     /\ loop' = [loop EXCEPT !.thrown = busy,
          !.pc = IF busy \/ "signal" \in loop.ready THEN "leave" ELSE "wait_time"]
     /\ lag' = 0
     /\ UNCHANGED <<tun, queueVars, worldVars, history, graphVars>>

\* The destructor of the queue.
leave ==
  /\ At("leave") /\ GoTo("join")
  /\ HaltThread
  /\ UNCHANGED <<tun, queueVars, lag, worldVars, history>>

join ==
  /\ At("join") /\ animation_thread \in {"none", "done"} /\ GoTo("end")
  /\ UNCHANGED <<tun, queueVars, lag, worldVars, history, graphVars>>
------------------------------------------------------------------------------
(* The rest of the world.                                                   *)

arrive ==
  /\ arrived < MaxPackets /\ now <= LastArrival
  /\ arrived' = arrived + 1 /\ tun' = Append(tun, arrived + 1)
  /\ UNCHANGED <<kind, quit, now, queueVars, loop, lag, history, graphVars>>

signal ==
  /\ ~quit /\ quit' = TRUE
  /\ UNCHANGED <<kind, arrived, now, tun, queueVars, loop, lag, history,
                 graphVars>>

animate ==
  /\ animation_loop
  /\ UNCHANGED <<tun, queueVars, loop, lag, worldVars, history,
                 initialize_new_bin, halt>>

Asleep == \/ loop.pc \in {"join", "end"}
          \/ At("poll") /\ Found = {} /\ now < loop.until

Tick ==
  /\ now < MaxTime /\ now' = now + 1
  /\ \/ Asleep /\ UNCHANGED lag
     \/ ~Asleep /\ lag < MaxLag /\ lag' = lag + 1
  /\ UNCHANGED <<kind, arrived, quit, tun, queueVars, loop, history, graphVars>>

Ferry ==
  \/ Construct \/ Initialize \/ wait_time \/ switch \/ poll \/ poll_returns
  \/ poll_timeout \/ read_packet \/ add_value_now_advances
  \/ add_value_now_adds \/ skip_read \/ write_packet \/ end_of_round \/ leave
  \/ join

Next == Ferry \/ animate \/ arrive \/ signal \/ Tick

\* The two threads run and the clock goes on.
Spec == Init /\ [][Next]_vars
             /\ WF_vars(Ferry) /\ WF_vars(animate) /\ WF_vars(Tick)
------------------------------------------------------------------------------
(* Properties.                                                              *)

TypeOK ==
  /\ kind \in Kinds
  /\ Range(tun) \cup Range(packet_queue) \cup Range(kept) \subseteq 1..MaxPackets
  /\ link_is_on \in BOOLEAN /\ {loop.interested, loop.thrown} \subseteq BOOLEAN
  /\ loop.ready \subseteq {"read", "write", "signal"}
  /\ now \in Nat /\ loop.called \in 0..now /\ lag \in 0..MaxLag
  /\ loop.until \in Nat /\ current_bin \in 0..Bin(now)
  /\ Len(data_points) = current_bin

\* What a ferry does not drop leaves it once and in the order it was read.
InOrder ==
  [i \in 1..Len(output) |-> output[i].id] \o packet_queue = kept

\* Whatever comes between the question whether there is output and the
\* callback that writes it, the poller never takes a ferry for a busy wait.
NoBusyWait == ~loop.thrown

\* Packets leave in order, none before its time, and none is still queued
\* longer after it than two rounds of the loop take: the sleep before it is
\* due, and the round that writes it; and the poller lets the ferry go on.
OnTime ==
  /\ TypeOK /\ InOrder /\ NoBusyWait
  /\ \A i \in 1..Len(output) : output[i].at >= ReleaseTime(output[i].id)
  /\ loop.pc \in {"leave", "join", "end"} \/
       \A i \in 1..Len(packet_queue) :
         now <= ReleaseTime(packet_queue[i]) + 2 * MaxLag

\* The on/off link decides with the state of the last wait_time.  It never is
\* further behind its switching process than one round of the loop takes.
SwitchedOnTime ==
  kind = "onoff" /\ At("read") => now <= next_switch_time + MaxLag

\* Each packet is metered once, in a bin between the one in which it was read
\* and the one in which its value was added, although the thread of the graph
\* may open new bins between the two critical sections of add_value_now.
MeteredOnce ==
  kind = "meter" /\ ~undefined =>
    LET bins == Append(data_points, value_this_bin)
        added == {p \in Range(kept) : loop.pc \in {"advance", "add"} => p # Last(kept)}
    IN /\ \A p \in added : \E v \in UNION Range(bins) : v.id = p
       /\ \A b, c \in 1..Len(bins) : \A v \in bins[b], w \in bins[c] :
            v.id = w.id => b = c
       /\ \A b \in 1..Len(bins) : \A v \in bins[b] :
            b - 1 \in Bin(read_at[v.id])..v.latest

\* A ferry that gets a signal ends, whatever it was doing, and with it the
\* thread of its graph.
SignalEnds == quit ~> At("end") /\ animation_thread \in {"none", "done"}
==============================================================================
