--------------------------- MODULE FerryLoopProofs ---------------------------
(***************************************************************************)
(* Proofs about FerryLoop, for every delay, time-out, bin width, schedule  *)
(* of the switching link and lag of the loop.                              *)
(***************************************************************************)
EXTENDS FerryLoop, SequenceTheorems, TLAPS

\* The packets, the states of the loop and what it keeps.
Ids == 1..MaxPackets
PCs == {"construct", "initialize", "wait_time", "switch", "poll", "read",
        "advance", "add", "write", "leave", "join", "end"}
LoopState ==
  [pc : PCs, called : Nat, until : Nat, interested : BOOLEAN,
   ready : SUBSET {"read", "write", "signal"}, wrote : BOOLEAN,
   thrown : BOOLEAN]

\* The types the proofs need; what poll has found to read is still there.
Types ==
  /\ kind \in Kinds /\ link_is_on \in BOOLEAN /\ next_switch_time \in Nat
  /\ tun \in Seq(Ids) /\ packet_queue \in Seq(Ids) /\ kept \in Seq(Ids)
  /\ output \in Seq([id : Ids, at : Nat])
  /\ loop \in LoopState /\ lag \in 0..MaxLag
  /\ arrived \in 0..MaxPackets /\ read_at \in [Ids -> Nat] /\ now \in Nat
  /\ At("read") /\ "read" \in loop.ready => tun # <<>>

\* The packets in the device are the newest ones, in order; those read so far
\* came earlier.
TunInv ==
  /\ Len(tun) <= arrived
  /\ \A i \in 1..Len(tun) : tun[i] = arrived - Len(tun) + i
  /\ \A i \in 1..Len(kept) : kept[i] <= arrived - Len(tun)

\* Packets are read one after the other.
KeptInv ==
  /\ \A i \in 1..Len(kept) : read_at[kept[i]] <= now
  /\ \A i, j \in 1..Len(kept) :
       i < j => kept[i] < kept[j] /\ read_at[kept[i]] <= read_at[kept[j]]
  /\ loop.pc \in {"construct", "initialize"} => kept = <<>>

\* What has been written and what is queued is what has been kept.
FlowInv ==
  /\ Len(kept) = Len(output) + Len(packet_queue)
  /\ \A i \in 1..Len(output) :
       kept[i] = output[i].id /\ output[i].at >= ReleaseTime(output[i].id)
  /\ \A i \in 1..Len(packet_queue) : kept[Len(output) + i] = packet_queue[i]

\* The states in which the loop has been to poll in this round.
Polled == {"poll", "read", "advance", "add", "write"}
\* How long ago a packet may have been due.
Bound == IF loop.pc \in Polled /\ ~loop.interested THEN lag ELSE MaxLag + lag

\* The ferry has called wait_time in this round, and all it has queued was
\* there by then.
SwitchInv ==
  /\ loop.called <= now
  /\ At("switch") => /\ now <= loop.called + lag
                     /\ \A i \in 1..Len(packet_queue) :
                          read_at[packet_queue[i]] <= loop.called

\* How late the ferry may be with a packet: as long as this round has taken if
\* the packet was not due at poll, else as long as two rounds.
LateInv ==
  /\ loop.pc \in Polled \cup {"wait_time", "switch"} =>
       \A i \in 1..Len(packet_queue) :
         now <= ReleaseTime(packet_queue[i]) + Bound
  /\ At("poll") /\ ~loop.interested =>
       \A i \in 1..Len(packet_queue) :
         loop.until <= ReleaseTime(packet_queue[i]) + lag

\* The callback that writes is called when there is something to write.
WriteInv ==
  /\ ~loop.thrown
  /\ loop.pc \in Polled \ {"poll"} => ("write" \in loop.ready <=> loop.interested)
  /\ loop.pc \in Polled /\ loop.interested => Due \/ (At("write") /\ loop.wrote)

\* The switching link sleeps no longer than to its next switch.
OnOffInv ==
  kind = "onoff" =>
    /\ loop.pc \in {"poll", "read"} => now <= next_switch_time + lag
    /\ At("poll") => loop.until <= next_switch_time + lag

\* Packet v is in bin b; the last bin is the open one.
InBin(b, v) ==
  \/ b \in 1..current_bin /\ v \in data_points[b]
  \/ b = current_bin + 1 /\ v \in value_this_bin

\* What is put into a bin.
Value == [id : Ids, latest : Nat]

\* The packet that has been read is not yet in a bin.
Unmetered(i) == loop.pc \in {"advance", "add"} /\ i = Len(kept)

\* There is a data point for every bin before the open one, which is not ahead
\* of the clock; a packet that is about to be metered has been read.
BinInv ==
  /\ data_points \in Seq(SUBSET Value) /\ value_this_bin \subseteq Value
  /\ current_bin \in Nat /\ current_bin <= Bin(now)
  /\ Len(data_points) = current_bin
  /\ loop.pc \in {"advance", "add"} => kept # <<>>

\* The packets in the bins are those that have been metered; each is in one
\* bin, which is not before the time it was read nor after the time it was
\* added.  The bin that is open when a packet is added is not too old for it.
MeterInv ==
  kind = "meter" =>
    /\ \A b, v : InBin(b, v) =>
         /\ \E i \in 1..Len(kept) : kept[i] = v.id /\ ~Unmetered(i)
         /\ Bin(read_at[v.id]) <= b - 1 /\ b - 1 <= v.latest
         /\ \A c, w : InBin(c, w) /\ w.id = v.id => c = b
    /\ \A i \in 1..Len(kept) :
         ~Unmetered(i) => \E b, v : InBin(b, v) /\ v.id = kept[i]
    /\ At("add") => Bin(read_at[kept[Len(kept)]]) <= current_bin
------------------------------------------------------------------------------
(* Types.                                                                   *)

\* What a constant may be.
LEMMA Constants ==
  /\ Delay \in Nat /\ MaxWait \in Nat /\ MaxLag \in Nat /\ MaxPackets \in Nat
  /\ MaxTime \in Nat /\ LastArrival \in Nat
  /\ OnTimes \subseteq Nat /\ OffTimes \subseteq Nat
  /\ BinWidth \in Nat /\ BinWidth > 0
BY FerryAssumption, GraphAssumption

\* The larger of 0 and x.
LEMMA MaxWithZero ==
  ASSUME NEW x \in Int
  PROVE  Max({0, x}) = IF x >= 0 THEN x ELSE 0
<1> DEFINE S == {0, x}
           m == IF x >= 0 THEN x ELSE 0
<1>1. m \in S /\ \A y \in S : m >= y
  OBVIOUS
<1>2. \A z \in S : (\A y \in S : z >= y) => z = m
  OBVIOUS
<1> HIDE DEF S, m
<1>3. (CHOOSE z \in S : \A y \in S : z >= y) = m
  BY <1>1, <1>2
<1>4. Max(S) = m
  BY <1>3 DEF Max
<1> QED
  BY <1>4 DEF S, m

\* The front packet of a queue.
LEMMA HeadTail ==
  ASSUME NEW S, NEW s \in Seq(S), s # <<>>
  PROVE  /\ Len(s) \in Nat /\ Len(s) > 0 /\ Head(s) = s[1] /\ Head(s) \in S
         /\ Tail(s) \in Seq(S) /\ Len(Tail(s)) = Len(s) - 1
         /\ \A i \in 1..(Len(s) - 1) : Tail(s)[i] = s[i + 1]
BY HeadTailProperties

\* The back of one.
LEMMA AppendFacts ==
  ASSUME NEW S, NEW s \in Seq(S), NEW x \in S
  PROVE  /\ Len(s) \in Nat /\ Append(s, x) \in Seq(S)
         /\ Len(Append(s, x)) = Len(s) + 1 /\ Append(s, x)[Len(s) + 1] = x
         /\ \A i \in 1..Len(s) : Append(s, x)[i] = s[i]
BY AppendProperties

\* A packet is released at a natural time.
LEMMA ReleaseType ==
  ASSUME Types, NEW p \in Ids
  PROVE  /\ ReleaseTime(p) \in Nat /\ read_at[p] \in Nat
         /\ ReleaseTime(p) >= read_at[p]
         /\ kind # "delay" => ReleaseTime(p) = read_at[p]
BY Constants DEF Types, ReleaseTime

\* What wait_time returns when the link need not switch.
LEMMA WaitFacts ==
  ASSUME Types, ~MustSwitch
  PROVE  /\ WaitTime \in Nat
         /\ packet_queue # <<>> =>
              WaitTime = IF ReleaseTime(Head(packet_queue)) >= loop.called
                         THEN ReleaseTime(Head(packet_queue)) - loop.called
                         ELSE 0
         /\ packet_queue = <<>> /\ kind = "onoff" =>
              WaitTime <= next_switch_time - loop.called
<1>1. /\ loop.called \in Nat /\ next_switch_time \in Nat /\ MaxWait \in Nat
      /\ packet_queue \in Seq(Ids)
  BY Constants DEF Types, LoopState
<1>2. CASE packet_queue # <<>>
  <2>1. ReleaseTime(Head(packet_queue)) \in Nat
    BY <1>1, <1>2, HeadTail, ReleaseType
  <2>2. WaitTime = IF ReleaseTime(Head(packet_queue)) - loop.called >= 0
                   THEN ReleaseTime(Head(packet_queue)) - loop.called ELSE 0
    BY <1>1, <1>2, <2>1, MaxWithZero DEF WaitTime, UntilRelease
  <2> QED
    BY <1>1, <1>2, <2>1, <2>2
<1>3. CASE packet_queue = <<>>
  BY <1>1, <1>3 DEF WaitTime, MustSwitch
<1> QED
  BY <1>2, <1>3

\* The types hold at the start.
LEMMA InitTypes == Init => Types
<1> SUFFICES ASSUME Init PROVE Types
  OBVIOUS
<1>1. loop \in LoopState /\ loop.pc = "construct"
  BY DEF Init, LoopState, PCs
<1>2. /\ tun \in Seq(Ids) /\ packet_queue \in Seq(Ids) /\ kept \in Seq(Ids)
      /\ output \in Seq([id : Ids, at : Nat])
  BY EmptySeq DEF Init
<1>3. read_at \in [Ids -> Nat]
  BY DEF Init, Ids
<1>4. now \in Nat /\ lag \in 0..MaxLag /\ arrived \in 0..MaxPackets
  BY Constants DEF Init
<1>5. kind \in Kinds /\ link_is_on \in BOOLEAN /\ next_switch_time \in Nat
  BY DEF Init
<1> QED
  BY <1>1, <1>2, <1>3, <1>4, <1>5 DEF Types, At

\* The steps of the ferry that change the loop and the graph only.
LoopOnly ==
  \/ wait_time \/ poll \/ poll_returns \/ poll_timeout \/ skip_read
  \/ end_of_round \/ join \/ leave \/ Initialize \/ add_value_now_advances
  \/ add_value_now_adds

\* They do not move packets.
LEMMA LoopOnlyFacts ==
  ASSUME Types, LoopOnly
  PROVE  /\ UNCHANGED <<kind, tun, packet_queue, link_is_on, next_switch_time,
                        read_at, kept, output, arrived, quit, now>>
         /\ loop' \in LoopState
         /\ lag' = lag \/ lag' = 0
         /\ loop'.pc = "read" => poll_returns
         /\ loop'.pc \notin {"construct", "initialize"}
<1> USE DEF LoopState, PCs, At, GoTo, Types
<1>1. CASE wait_time
  BY <1>1 DEF wait_time, queueVars, worldVars, history
<1>2. CASE poll
  <2>1. now + WaitTime \in Nat /\ pending_output \in BOOLEAN
    BY <1>2, WaitFacts DEF poll, pending_output, Due
  <2> QED
    BY <1>2, <2>1 DEF poll, queueVars, worldVars, history
<1>3. CASE poll_returns
  BY <1>3 DEF poll_returns, queueVars, worldVars, history, Found
<1>4. CASE poll_timeout
  BY <1>4 DEF poll_timeout, queueVars, worldVars, history
<1>5. CASE skip_read
  BY <1>5 DEF skip_read, queueVars, worldVars, history
<1>6. CASE end_of_round
  BY <1>6 DEF end_of_round, queueVars, worldVars, history
<1>7. CASE join \/ leave
  BY <1>7, ZenonT(30) DEF join, leave, queueVars, worldVars, history
<1>8. CASE Initialize
  BY <1>8 DEF Initialize, queueVars, worldVars, history
<1>9. CASE add_value_now_advances \/ add_value_now_adds
  BY <1>9, ZenonT(30) DEF add_value_now_advances, add_value_now_adds, queueVars, worldVars,
     history
<1> QED
  BY <1>1, <1>2, <1>3, <1>4, <1>5, <1>6, <1>7, <1>8, <1>9 DEF LoopOnly

\* Only the control state of the loop changes.
OnlyPc ==
  UNCHANGED <<loop.called, loop.until, loop.interested, loop.ready, loop.wrote,
              loop.thrown>>

\* The step that reads a packet puts it at the back of the queue, or drops it.
LEMMA ReadFacts ==
  ASSUME Types, read_packet
  PROVE  /\ tun # <<>> /\ tun' = Tail(tun) /\ Head(tun) \in Ids
         /\ read_at' = [read_at EXCEPT ![Head(tun)] = now]
         /\ read_at' \in [Ids -> Nat]
         /\ \/ UNCHANGED <<packet_queue, kept>> /\ kind # "meter"
            \/ /\ packet_queue' = Append(packet_queue, Head(tun))
               /\ kept' = Append(kept, Head(tun))
         /\ packet_queue' \in Seq(Ids) /\ kept' \in Seq(Ids)
         /\ OnlyPc /\ loop' \in LoopState
         /\ loop'.pc = IF kind = "meter" THEN "advance" ELSE "write"
         /\ loop.pc = "read"
         /\ UNCHANGED <<kind, link_is_on, next_switch_time, output, arrived,
                        lag, now, quit>>
         /\ UNCHANGED graphVars
<1>1. tun # <<>> /\ tun' = Tail(tun) /\ Head(tun) \in Ids /\ loop.pc = "read"
  BY HeadTail DEF Types, read_packet, At
<1>2. /\ read_at' = [read_at EXCEPT ![Head(tun)] = now]
      /\ read_at' \in [Ids -> Nat]
  BY <1>1 DEF Types, read_packet
<1>3. PICK drop \in drop_packet : QueuePacket(drop)
  BY DEF read_packet
<1>4. /\ packet_queue' = IF drop THEN packet_queue ELSE Append(packet_queue, Head(tun))
      /\ kept' = IF drop THEN kept ELSE Append(kept, Head(tun))
  BY <1>3 DEF QueuePacket
<1>5. drop \in BOOLEAN /\ (kind = "meter" => drop = FALSE)
  BY <1>3 DEF drop_packet, Types
<1>6. \/ UNCHANGED <<packet_queue, kept>> /\ kind # "meter"
      \/ /\ packet_queue' = Append(packet_queue, Head(tun))
         /\ kept' = Append(kept, Head(tun))
  BY <1>4, <1>5
<1>7. packet_queue' \in Seq(Ids) /\ kept' \in Seq(Ids)
  <2>1. packet_queue \in Seq(Ids) /\ kept \in Seq(Ids)
    BY DEF Types
  <2>2. /\ Append(packet_queue, Head(tun)) \in Seq(Ids)
        /\ Append(kept, Head(tun)) \in Seq(Ids)
    BY <1>1, <2>1, AppendFacts
  <2> QED
    BY <1>6, <2>1, <2>2
<1>8. /\ loop' \in LoopState /\ OnlyPc
      /\ loop'.pc = IF kind = "meter" THEN "advance" ELSE "write"
  BY DEF Types, read_packet, GoTo, LoopState, PCs, OnlyPc
<1>9. UNCHANGED <<kind, link_is_on, next_switch_time, output, arrived, lag, now, quit>>
  BY DEF read_packet, worldVars
<1> QED
  BY <1>1, <1>2, <1>6, <1>7, <1>8, <1>9 DEF read_packet

\* The step that writes one takes it from the front.
LEMMA WriteFacts ==
  ASSUME Types, write_packet
  PROVE  /\ packet_queue # <<>> /\ packet_queue' = Tail(packet_queue)
         /\ Head(packet_queue) \in Ids
         /\ ReleaseTime(Head(packet_queue)) <= now
         /\ output' = Append(output, [id |-> Head(packet_queue), at |-> now])
         /\ packet_queue' \in Seq(Ids) /\ output' \in Seq([id : Ids, at : Nat])
         /\ UNCHANGED <<loop.pc, loop.called, loop.until, loop.interested,
                        loop.ready, loop.thrown>>
         /\ loop'.wrote /\ loop' \in LoopState
         /\ loop.pc = "write" /\ "write" \in loop.ready
         /\ UNCHANGED <<kind, tun, link_is_on, next_switch_time, read_at, kept,
                        arrived, lag, now, quit>>
         /\ UNCHANGED graphVars
<1>1. /\ packet_queue # <<>> /\ packet_queue' = Tail(packet_queue)
      /\ ReleaseTime(Head(packet_queue)) <= now
      /\ loop.pc = "write" /\ "write" \in loop.ready
      /\ output' = Append(output, [id |-> Head(packet_queue), at |-> now])
  BY DEF write_packet, Writes, Due, At
<1>2. Head(packet_queue) \in Ids /\ packet_queue' \in Seq(Ids)
  BY <1>1, HeadTail DEF Types
<1>3. [id |-> Head(packet_queue), at |-> now] \in [id : Ids, at : Nat]
  BY <1>2 DEF Types
<1>4. output' \in Seq([id : Ids, at : Nat])
  BY <1>1, <1>3, AppendFacts DEF Types
<1>5. /\ UNCHANGED <<loop.pc, loop.called, loop.until, loop.interested,
                     loop.ready, loop.thrown>>
      /\ loop'.wrote /\ loop' \in LoopState
  BY DEF Types, write_packet, LoopState
<1> QED
  BY <1>1, <1>2, <1>4, <1>5 DEF write_packet, worldVars

\* The other steps.
LEMMA OtherFacts ==
  ASSUME Types
  PROVE  /\ Construct =>
              /\ next_switch_time' = now /\ loop.pc = "construct"
              /\ OnlyPc /\ loop' \in LoopState
              /\ loop'.pc = IF kind = "meter" THEN "initialize" ELSE "wait_time"
              /\ UNCHANGED <<kind, tun, packet_queue, link_is_on, read_at, kept,
                             output, arrived, lag, now, quit>>
         /\ switch =>
              /\ next_switch_time' \in Nat /\ link_is_on' \in BOOLEAN
              /\ loop.pc = "switch"
              /\ UNCHANGED <<kind, tun, packet_queue, loop, read_at, kept,
                             output, arrived, lag, now, quit>>
              /\ UNCHANGED graphVars
         /\ arrive =>
              /\ tun' = Append(tun, arrived + 1) /\ arrived' = arrived + 1
              /\ arrived + 1 \in Ids /\ tun' \in Seq(Ids) /\ tun' # <<>>
              /\ UNCHANGED <<kind, packet_queue, link_is_on, next_switch_time,
                             loop, read_at, kept, output, lag, now, quit>>
              /\ UNCHANGED graphVars
         /\ Tick =>
              /\ now' = now + 1 /\ lag' \in 0..MaxLag
              /\ \/ lag' = lag + 1
                 \/ /\ lag' = lag
                    /\ \/ loop.pc \in {"join", "end"}
                       \/ /\ loop.pc = "poll" /\ ~loop.interested
                          /\ now < loop.until
              /\ UNCHANGED <<kind, tun, packet_queue, link_is_on, loop,
                             next_switch_time, read_at, kept, output, arrived, quit>>
              /\ UNCHANGED graphVars
         /\ signal \/ animate \/ UNCHANGED vars =>
              UNCHANGED <<kind, tun, packet_queue, link_is_on, next_switch_time,
                          loop, read_at, kept, output, arrived, lag, now>>
<1>1. ASSUME Construct
      PROVE  /\ next_switch_time' = now /\ loop.pc = "construct"
             /\ OnlyPc /\ loop' \in LoopState
             /\ loop'.pc = IF kind = "meter" THEN "initialize" ELSE "wait_time"
             /\ UNCHANGED <<kind, tun, packet_queue, link_is_on, read_at, kept,
                            output, arrived, lag, now, quit>>
  BY <1>1, ZenonT(30) DEF Types, Construct, At, GoTo, LoopState, PCs, worldVars, history, OnlyPc
<1>2. ASSUME switch
      PROVE  /\ next_switch_time' \in Nat /\ link_is_on' \in BOOLEAN
             /\ loop.pc = "switch"
             /\ UNCHANGED <<kind, tun, packet_queue, loop, read_at, kept,
                            output, arrived, lag, now, quit>>
             /\ UNCHANGED graphVars
  <2>1. PICK d \in IF link_is_on' THEN OnTimes ELSE OffTimes :
          next_switch_time' = next_switch_time + d
    BY <1>2 DEF switch
  <2>2. next_switch_time' \in Nat
    BY <2>1, Constants DEF Types
  <2> QED
    BY <1>2, <2>2 DEF Types, switch, At, worldVars, history
<1>3. ASSUME arrive
      PROVE  /\ tun' = Append(tun, arrived + 1) /\ arrived' = arrived + 1
             /\ arrived + 1 \in Ids /\ tun' \in Seq(Ids) /\ tun' # <<>>
             /\ UNCHANGED <<kind, packet_queue, link_is_on, next_switch_time,
                            loop, read_at, kept, output, lag, now, quit>>
             /\ UNCHANGED graphVars
  <2>1. /\ tun' = Append(tun, arrived + 1) /\ arrived' = arrived + 1
        /\ arrived + 1 \in Ids
    BY <1>3, Constants DEF arrive, Types, Ids
  <2>2. tun' \in Seq(Ids) /\ tun' # <<>>
    BY <2>1, AppendFacts DEF Types
  <2> QED
    BY <1>3, <2>1, <2>2 DEF arrive, queueVars, history
<1>4. ASSUME Tick
      PROVE  /\ now' = now + 1 /\ lag' \in 0..MaxLag
             /\ \/ lag' = lag + 1
                \/ /\ lag' = lag
                   /\ \/ loop.pc \in {"join", "end"}
                      \/ /\ loop.pc = "poll" /\ ~loop.interested
                         /\ now < loop.until
             /\ UNCHANGED <<kind, tun, packet_queue, link_is_on, loop,
                            next_switch_time, read_at, kept, output, arrived, quit>>
             /\ UNCHANGED graphVars
  <2>1. Asleep => \/ loop.pc \in {"join", "end"}
                  \/ loop.pc = "poll" /\ ~loop.interested /\ now < loop.until
    BY DEF Asleep, Found, At
  <2>2. \/ Asleep /\ lag' = lag
        \/ lag' = lag + 1 /\ lag' \in 0..MaxLag
    BY <1>4, Constants DEF Tick, Types
  <2> QED
    BY <1>4, <2>1, <2>2 DEF Tick, Types, queueVars, history
<1>5. ASSUME signal \/ animate \/ UNCHANGED vars
      PROVE  UNCHANGED <<kind, tun, packet_queue, link_is_on, next_switch_time,
                         loop, read_at, kept, output, arrived, lag, now>>
  BY <1>5 DEF signal, animate, vars, queueVars, history, worldVars
<1> QED
  BY <1>1, <1>2, <1>3, <1>4, <1>5

\* Every step is one of these.
LEMMA Steps ==
  ASSUME [Next]_vars
  PROVE  \/ LoopOnly \/ Construct \/ switch \/ read_packet \/ write_packet
         \/ arrive \/ Tick \/ (signal \/ animate \/ UNCHANGED vars)
BY DEF Next, Ferry, LoopOnly

\* Every step keeps the types.
LEMMA NextTypes == Types /\ [Next]_vars => Types'
<1> SUFFICES ASSUME Types, [Next]_vars PROVE Types'
  OBVIOUS
<1>1. CASE LoopOnly
  <2>1. /\ UNCHANGED <<kind, tun, packet_queue, link_is_on, next_switch_time,
                       read_at, kept, output, arrived, now>>
        /\ loop' \in LoopState
    BY <1>1, LoopOnlyFacts
  <2>2. lag' \in 0..MaxLag
    BY <1>1, LoopOnlyFacts, Constants DEF Types
  <2>3. ASSUME loop'.pc = "read", "read" \in loop'.ready PROVE tun' # <<>>
    <3>1. poll_returns
      BY <1>1, <2>3, LoopOnlyFacts
    <3>2. "read" \in Found
      BY <2>3, <3>1 DEF poll_returns, Types, LoopState
    <3> QED
      BY <2>1, <3>2 DEF Found
  <2> QED
    BY <2>1, <2>2, <2>3 DEF Types, At
<1>2. CASE read_packet
  <2>1. tun' \in Seq(Ids) /\ loop'.pc # "read"
    <3>1. tun \in Seq(Ids) /\ tun # <<>> /\ tun' = Tail(tun)
      BY <1>2, ReadFacts DEF Types
    <3> QED
      BY <1>2, <3>1, ReadFacts, HeadTail
  <2> QED
    BY <1>2, <2>1, ReadFacts DEF Types, At
<1>3. CASE write_packet
  <2>1. loop'.pc # "read"
    BY <1>3, WriteFacts DEF Types, LoopState
  <2> QED
    BY <1>3, <2>1, WriteFacts DEF Types, At
<1>4. CASE Construct \/ switch
  BY <1>4, OtherFacts DEF Types, At
<1>5. CASE arrive
  <2>1. arrived' \in 0..MaxPackets
    <3>1. arrived' = arrived + 1 /\ arrived + 1 \in Ids
      BY <1>5, OtherFacts
    <3> QED
      BY <3>1, Constants DEF Ids
  <2> QED
    BY <1>5, <2>1, OtherFacts DEF Types, At
<1>6. CASE Tick
  BY <1>6, OtherFacts, SMTT(30) DEF Types, At
<1>7. CASE signal \/ animate \/ UNCHANGED vars
  BY <1>7, OtherFacts DEF Types, At
<1> QED
  BY <1>1, <1>2, <1>3, <1>4, <1>5, <1>6, <1>7, Steps
------------------------------------------------------------------------------
(* Packets are written once, in the order they were read, and not early.    *)

\* A step that moves no packet keeps them in order.
LEMMA NothingMoves ==
  ASSUME Types, TunInv, KeptInv, FlowInv,
         UNCHANGED <<kind, tun, packet_queue, read_at, kept, output, arrived>>,
         now' \in Nat, now' >= now,
         loop'.pc \in {"construct", "initialize"} =>
           loop.pc \in {"construct", "initialize"}
  PROVE  TunInv' /\ KeptInv' /\ FlowInv'
<1>1. TunInv'
  BY DEF TunInv
<1>2. \A i \in 1..Len(kept) : read_at[kept[i]] \in Nat
  BY ElementOfSeq DEF Types
<1>3. KeptInv'
  BY <1>2, SMTT(30) DEF KeptInv, Types
<1>4. FlowInv'
  BY DEF FlowInv, ReleaseTime
<1> QED
  BY <1>1, <1>3, <1>4

\* A packet that is read is newer than those kept.
LEMMA ReadMoves ==
  ASSUME Types, TunInv, KeptInv, FlowInv, read_packet
  PROVE  TunInv' /\ KeptInv' /\ FlowInv'
<1> DEFINE h == Head(tun)
           n == Len(kept)
           m == Len(packet_queue)
           o == Len(output)
<1>1. /\ tun \in Seq(Ids) /\ kept \in Seq(Ids) /\ packet_queue \in Seq(Ids)
      /\ output \in Seq([id : Ids, at : Nat])
      /\ arrived \in Nat /\ now \in Nat /\ read_at \in [Ids -> Nat]
      /\ \A i \in Ids : i \in Nat
      /\ n \in Nat /\ m \in Nat /\ o \in Nat
  BY Constants, LenProperties DEF Types, Ids
<1>2. /\ tun # <<>> /\ tun' = Tail(tun) /\ h \in Ids
      /\ read_at' = [read_at EXCEPT ![h] = now]
      /\ \/ UNCHANGED <<packet_queue, kept>>
         \/ packet_queue' = Append(packet_queue, h) /\ kept' = Append(kept, h)
      /\ loop'.pc \notin {"construct", "initialize"}
      /\ UNCHANGED <<kind, output, arrived, now>>
  BY ReadFacts
<1>3. /\ Len(tun) \in Nat /\ Len(tun) > 0 /\ h = tun[1]
      /\ Len(tun') = Len(tun) - 1
      /\ \A i \in 1..(Len(tun) - 1) : tun'[i] = tun[i + 1]
  BY <1>1, <1>2, HeadTail
<1> HIDE DEF h
<1>4. h = arrived - Len(tun) + 1 /\ h \in Nat /\ arrived' - Len(tun') = h
  <2>1. 1 \in 1..Len(tun)
    BY <1>3
  <2>2. tun[1] = arrived - Len(tun) + 1
    BY <2>1 DEF TunInv
  <2> QED
    BY <1>1, <1>2, <1>3, <2>2
<1>5. \A i \in 1..n : kept[i] \in Ids /\ kept[i] \in Nat /\ kept[i] < h
  <2> SUFFICES ASSUME NEW i \in 1..n
               PROVE  kept[i] \in Ids /\ kept[i] \in Nat /\ kept[i] < h
    OBVIOUS
  <2>1. kept[i] \in Ids
    BY <1>1, ElementOfSeq
  <2>2. kept[i] <= arrived - Len(tun)
    BY DEF TunInv
  <2> QED
    <3>1. kept[i] \in Nat /\ arrived \in Nat /\ Len(tun) \in Nat
      BY <1>1, <1>3, <2>1
    <3>2. kept[i] < h
      BY <1>4, <2>2, <3>1
    <3> QED
      BY <2>1, <3>1, <3>2
<1>6. /\ read_at'[h] = now
      /\ \A i \in 1..n : read_at'[kept[i]] = read_at[kept[i]]
                         /\ read_at[kept[i]] \in Nat
  BY <1>1, <1>2, <1>4, <1>5
<1>7. /\ Append(kept, h) \in Seq(Ids)
      /\ Len(Append(kept, h)) = n + 1 /\ Append(kept, h)[n + 1] = h
      /\ \A i \in 1..n : Append(kept, h)[i] = kept[i]
  BY <1>1, <1>2, AppendFacts
<1>8. /\ Len(Append(packet_queue, h)) = m + 1
      /\ Append(packet_queue, h)[m + 1] = h
      /\ \A i \in 1..m : Append(packet_queue, h)[i] = packet_queue[i]
  BY <1>1, <1>2, AppendFacts
<1>9. /\ Len(tun') <= arrived'
      /\ \A i \in 1..Len(tun') : tun'[i] = arrived' - Len(tun') + i
  <2>1. \A i \in 1..(Len(tun) - 1) : i + 1 \in 1..Len(tun)
    BY <1>3
  <2>2. \A i \in 1..(Len(tun) - 1) : tun'[i] = (arrived - Len(tun)) + (i + 1)
    BY <1>3, <2>1 DEF TunInv
  <2> QED
    BY <1>1, <1>2, <1>3, <2>2 DEF TunInv
<1>10. n = o + m /\ \A i \in 1..m : kept[o + i] = packet_queue[i] /\ o + i \in 1..n
  <2>1. n = o + m /\ \A i \in 1..m : kept[o + i] = packet_queue[i]
    BY DEF FlowInv
  <2>2. \A a, b \in Nat : \A i \in 1..b : a + i \in 1..(a + b)
    OBVIOUS
  <2>3. o \in Nat /\ m \in Nat
    BY <1>1
  <2> HIDE DEF n, m, o
  <2> QED
    BY <2>1, <2>2, <2>3
<1>11. ASSUME NEW i \in 1..o
       PROVE  /\ i \in 1..n /\ kept[i] = output[i].id
              /\ output[i].at >= ReleaseTime(output[i].id)
              /\ ReleaseTime(output[i].id)' = ReleaseTime(output[i].id)
  <2>1. i \in 1..n
    BY <1>1, <1>10
  <2>2. kept[i] = output[i].id /\ output[i].at >= ReleaseTime(output[i].id)
    BY DEF FlowInv
  <2>3. ReleaseTime(output[i].id)' = ReleaseTime(output[i].id)
    BY <1>2, <1>6, <2>1, <2>2 DEF ReleaseTime
  <2> QED
    BY <2>1, <2>2, <2>3
<1> HIDE DEF n, m, o
<1>12. CASE UNCHANGED <<packet_queue, kept>>
  <2>1. TunInv'
    BY <1>4, <1>5, <1>9, <1>12 DEF TunInv, n
  <2>2. KeptInv'
    BY <1>2, <1>6, <1>12 DEF KeptInv, n
  <2>3. FlowInv'
    BY <1>2, <1>10, <1>11, <1>12 DEF FlowInv, n, o, m
  <2> QED
    BY <2>1, <2>2, <2>3
<1>13. CASE packet_queue' = Append(packet_queue, h) /\ kept' = Append(kept, h)
  <2>1. \A i \in 1..(n + 1) :
          \/ i \in 1..n /\ kept'[i] = kept[i]
          \/ i = n + 1 /\ kept'[i] = h
    BY <1>1, <1>7, <1>13
  <2>2. \A i \in 1..(n + 1) : kept'[i] <= h
    BY <1>4, <1>5, <2>1
  <2>3. TunInv'
    BY <1>4, <1>7, <1>9, <1>13, <2>2 DEF TunInv
  <2>4. \A i \in 1..(n + 1) : read_at'[kept'[i]] <= now
    <3>1. \A i \in 1..n : read_at[kept[i]] <= now
      BY DEF KeptInv, n
    <3>2. now <= now
      BY <1>1
    <3> QED
      BY <1>6, <2>1, <3>1, <3>2
  <2>5. ASSUME NEW i \in 1..(n + 1), NEW j \in 1..(n + 1), i < j
        PROVE  kept'[i] < kept'[j] /\ read_at'[kept'[i]] <= read_at'[kept'[j]]
    <3>1. i \in 1..n /\ kept'[i] = kept[i]
      <4>1. n \in Nat
        BY <1>1 DEF n
      <4>2. i # n + 1
        BY <2>5, <4>1
      <4> QED
        BY <2>1, <4>2
    <3>2. CASE j \in 1..n
      <4>1. kept'[j] = kept[j]
        BY <1>1, <2>1, <3>2
      <4> QED
        BY <1>6, <2>5, <3>1, <3>2, <4>1 DEF KeptInv, n
    <3>3. CASE j = n + 1
      BY <1>5, <1>6, <1>7, <1>13, <2>4, <3>1, <3>3
    <3> QED
      BY <1>1, <3>2, <3>3
  <2>6. KeptInv'
    BY <1>2, <1>7, <1>13, <2>4, <2>5 DEF KeptInv
  <2>7. Len(kept') = o + (m + 1)
    BY <1>1, <1>7, <1>10, <1>13
  <2>8. \A i \in 1..o :
          /\ kept'[i] = output'[i].id
          /\ output'[i].at >= ReleaseTime(output[i].id)'
    BY <1>2, <1>7, <1>11, <1>13
  <2>9. ASSUME NEW i \in 1..(m + 1) PROVE kept'[o + i] = packet_queue'[i]
    <3>1. CASE i \in 1..m
      BY <1>7, <1>8, <1>10, <1>13, <3>1
    <3>2. CASE i = m + 1
      <4>1. o + (m + 1) = n + 1
        BY <1>1, <1>10
      <4> QED
        BY <1>7, <1>8, <1>13, <3>2, <4>1
    <3> QED
      BY <1>1, <3>1, <3>2
  <2>10. Len(output') = o /\ Len(packet_queue') = m + 1
    BY <1>2, <1>8, <1>13 DEF o
  <2>11. FlowInv'
    BY <2>7, <2>8, <2>9, <2>10 DEF FlowInv
  <2> QED
    BY <2>3, <2>6, <2>11
<1> QED
  BY <1>2, <1>12, <1>13

\* A packet that is written moves from the queue to the output.
LEMMA WriteMoves ==
  ASSUME Types, TunInv, KeptInv, FlowInv, write_packet
  PROVE  TunInv' /\ KeptInv' /\ FlowInv'
<1> DEFINE h == Head(packet_queue)
           m == Len(packet_queue)
           o == Len(output)
           e == [id |-> h, at |-> now]
<1>1. /\ packet_queue \in Seq(Ids) /\ output \in Seq([id : Ids, at : Nat])
      /\ m \in Nat /\ o \in Nat /\ now \in Nat
  BY LenProperties DEF Types
<1>2. /\ packet_queue # <<>> /\ packet_queue' = Tail(packet_queue)
      /\ h \in Ids /\ ReleaseTime(h) <= now
      /\ output' = Append(output, e)
      /\ loop'.pc = "write"
      /\ UNCHANGED <<kind, tun, read_at, kept, arrived, now>>
  BY WriteFacts
<1>3. /\ m > 0 /\ h = packet_queue[1] /\ Len(packet_queue') = m - 1
      /\ \A i \in 1..(m - 1) : packet_queue'[i] = packet_queue[i + 1]
  BY <1>1, <1>2, HeadTail
<1>4. ReleaseTime(h) \in Nat
  BY <1>2, ReleaseType
<1> HIDE DEF h
<1>5. e.id = h /\ e.at = now /\ e \in [id : Ids, at : Nat]
  BY <1>1, <1>2
<1> HIDE DEF e
<1>6. /\ Len(output') = o + 1 /\ output'[o + 1] = e
      /\ \A i \in 1..o : output'[i] = output[i]
  BY <1>1, <1>2, <1>5, AppendFacts
<1>7. TunInv' /\ KeptInv'
  BY <1>2 DEF TunInv, KeptInv
<1>8. FlowInv'
  <2>1. \A p : ReleaseTime(p)' = ReleaseTime(p)
    BY <1>2 DEF ReleaseTime
  <2>2. Len(kept) = o + m /\ kept[o + 1] = h
    BY <1>1, <1>3 DEF FlowInv
  <2>3. Len(kept') = Len(output') + Len(packet_queue')
    BY <1>1, <1>2, <1>3, <1>6, <2>2
  <2>4. \A i \in 1..(o + 1) :
          kept'[i] = output'[i].id /\ output'[i].at >= ReleaseTime(output'[i].id)
    <3> SUFFICES ASSUME NEW i \in 1..(o + 1)
                 PROVE  /\ kept[i] = output'[i].id
                        /\ output'[i].at >= ReleaseTime(output'[i].id)
      BY <1>2
    <3>1. CASE i \in 1..o
      BY <1>6, <3>1 DEF FlowInv
    <3>2. CASE i \notin 1..o
      <4>1. i = o + 1
        BY <1>1, <3>2
      <4> QED
        BY <1>1, <1>2, <1>4, <1>5, <1>6, <2>2, <4>1
    <3> QED
      BY <3>1, <3>2
  <2>5. \A i \in 1..(m - 1) : kept'[(o + 1) + i] = packet_queue'[i]
    <3> SUFFICES ASSUME NEW i \in 1..(m - 1)
                 PROVE  kept[(o + 1) + i] = packet_queue'[i]
      BY <1>2
    <3>1. i + 1 \in 1..m /\ o + (i + 1) = (o + 1) + i
      BY <1>1
    <3>2. kept[o + (i + 1)] = packet_queue[i + 1]
      BY <3>1 DEF FlowInv
    <3> QED
      BY <1>3, <3>1, <3>2
  <2> QED
    BY <1>3, <1>6, <2>1, <2>3, <2>4, <2>5 DEF FlowInv
<1> QED
  BY <1>7, <1>8

\* The packets, without the times.
BaseInv == Types /\ TunInv /\ KeptInv /\ FlowInv

\* Every step keeps the packets in order.
LEMMA NextBase == BaseInv /\ [Next]_vars => BaseInv'
<1> SUFFICES ASSUME BaseInv, [Next]_vars PROVE TunInv' /\ KeptInv' /\ FlowInv'
  BY NextTypes DEF BaseInv
<1>0. Types /\ TunInv /\ KeptInv /\ FlowInv /\ now \in Nat
  BY DEF BaseInv, Types
<1>1. CASE LoopOnly
  BY <1>0, <1>1, LoopOnlyFacts, NothingMoves
<1>2. CASE read_packet
  BY <1>0, <1>2, ReadMoves
<1>3. CASE write_packet
  BY <1>0, <1>3, WriteMoves
<1>4. CASE Construct
  BY <1>0, <1>4, OtherFacts, NothingMoves
<1>5. CASE switch
  BY <1>0, <1>5, OtherFacts, NothingMoves
<1>6. CASE arrive
  <2>1. /\ tun' = Append(tun, arrived + 1) /\ arrived' = arrived + 1
        /\ arrived + 1 \in Ids /\ tun \in Seq(Ids) /\ arrived \in Nat
        /\ UNCHANGED <<kind, packet_queue, loop, read_at, kept, output, now>>
    BY <1>0, <1>6, OtherFacts, Constants DEF Types
  <2>2. /\ Len(tun) \in Nat /\ Len(tun') = Len(tun) + 1
        /\ tun'[Len(tun) + 1] = arrived + 1
        /\ \A i \in 1..Len(tun) : tun'[i] = tun[i]
    BY <2>1, AppendFacts
  <2>3. \A i \in 1..(Len(tun) + 1) : tun'[i] = arrived - Len(tun) + i
    BY <1>0, <2>1, <2>2 DEF TunInv
  <2>4. (arrived + 1) - (Len(tun) + 1) = arrived - Len(tun)
    BY <2>1, <2>2
  <2>5. TunInv'
    BY <1>0, <2>1, <2>2, <2>3, <2>4 DEF TunInv
  <2>6. KeptInv' /\ FlowInv'
    BY <1>0, <2>1 DEF KeptInv, FlowInv, ReleaseTime
  <2> QED
    BY <2>5, <2>6
<1>7. CASE Tick
  <2>1. now' \in Nat /\ now' >= now
    BY <1>0, <1>7, OtherFacts
  <2> QED
    BY <1>0, <1>7, <2>1, OtherFacts, NothingMoves
<1>8. CASE signal \/ animate \/ UNCHANGED vars
  BY <1>0, <1>8, OtherFacts, NothingMoves
<1> QED
  BY <1>1, <1>2, <1>3, <1>4, <1>5, <1>6, <1>7, <1>8, Steps

\* The types hold, and packets are written once, in the order they were read,
\* and not early.
THEOREM BaseInvariance == Spec => []BaseInv
<1>1. Init => BaseInv
  <2> SUFFICES ASSUME Init PROVE TunInv /\ KeptInv /\ FlowInv
    BY InitTypes DEF BaseInv
  <2>1. /\ Len(tun) = 0 /\ Len(kept) = 0 /\ Len(output) = 0
        /\ Len(packet_queue) = 0 /\ kept = <<>> /\ arrived = 0
    BY EmptySeq DEF Init
  <2> QED
    BY <2>1 DEF TunInv, KeptInv, FlowInv
<1> QED
  BY <1>1, NextBase, PTL DEF Spec
------------------------------------------------------------------------------
(* The loop: when it wakes up, and what it finds then.                      *)

\* What each step does to the loop.
LEMMA LoopFields ==
  ASSUME Types
  PROVE  /\ wait_time =>
              /\ loop.pc = "wait_time" /\ loop'.pc = "switch"
              /\ loop'.called = now /\ lag' = lag
              /\ UNCHANGED <<loop.until, loop.interested, loop.ready,
                             loop.wrote, loop.thrown>>
         /\ poll =>
              /\ loop.pc = "switch" /\ ~MustSwitch /\ loop'.pc = "poll"
              /\ loop'.interested = Due /\ loop'.until = now + WaitTime
              /\ lag' = lag
              /\ UNCHANGED <<loop.called, loop.ready, loop.wrote, loop.thrown>>
         /\ poll_returns =>
              /\ loop.pc = "poll" /\ loop'.pc = "read" /\ lag' = lag
              /\ "write" \in loop'.ready <=> loop.interested
              /\ UNCHANGED <<loop.called, loop.until, loop.interested,
                             loop.thrown>>
         /\ poll_timeout =>
              /\ loop.pc = "poll" /\ ~loop.interested /\ loop'.pc = "wait_time"
              /\ lag' = 0 /\ OnlyPc
         /\ skip_read =>
              loop.pc = "read" /\ loop'.pc = "write" /\ lag' = lag /\ OnlyPc
         /\ end_of_round =>
              /\ loop.pc = "write" /\ ~("write" \in loop.ready /\ Due)
              /\ loop'.pc \in {"leave", "wait_time"} /\ lag' = 0
              /\ loop'.thrown <=> "write" \in loop.ready /\ ~loop.wrote
              /\ UNCHANGED <<loop.called, loop.until, loop.interested,
                             loop.ready, loop.wrote>>
         /\ leave \/ join =>
              loop'.pc \in {"join", "end"} /\ lag' = lag /\ OnlyPc
         /\ Initialize =>
              /\ loop.pc = "initialize" /\ loop'.pc = "wait_time"
              /\ lag' = lag /\ OnlyPc
         /\ add_value_now_advances =>
              loop.pc = "advance" /\ loop'.pc = "add" /\ lag' = lag /\ OnlyPc
         /\ add_value_now_adds =>
              loop.pc = "add" /\ loop'.pc = "write" /\ lag' = lag /\ OnlyPc
<1> USE DEF Types, LoopState, At, GoTo, OnlyPc
<1>1. ASSUME wait_time
      PROVE  /\ loop.pc = "wait_time" /\ loop'.pc = "switch"
             /\ loop'.called = now /\ lag' = lag
             /\ UNCHANGED <<loop.until, loop.interested, loop.ready,
                            loop.wrote, loop.thrown>>
  BY <1>1 DEF wait_time
<1>2. ASSUME poll
      PROVE  /\ loop.pc = "switch" /\ ~MustSwitch /\ loop'.pc = "poll"
             /\ loop'.interested = Due /\ loop'.until = now + WaitTime
             /\ lag' = lag
             /\ UNCHANGED <<loop.called, loop.ready, loop.wrote, loop.thrown>>
  BY <1>2 DEF poll, pending_output
<1>3. ASSUME poll_returns
      PROVE  /\ loop.pc = "poll" /\ loop'.pc = "read" /\ lag' = lag
             /\ "write" \in loop'.ready <=> loop.interested
             /\ UNCHANGED <<loop.called, loop.until, loop.interested,
                            loop.thrown>>
  <2>1. "write" \in Found <=> loop.interested
    BY DEF Found
  <2>2. loop'.ready = Found
    BY <1>3 DEF poll_returns
  <2> QED
    BY <1>3, <2>1, <2>2 DEF poll_returns
<1>4. ASSUME poll_timeout
      PROVE  /\ loop.pc = "poll" /\ ~loop.interested /\ loop'.pc = "wait_time"
             /\ lag' = 0 /\ OnlyPc
  BY <1>4 DEF poll_timeout, Found
<1>5. ASSUME skip_read
      PROVE  loop.pc = "read" /\ loop'.pc = "write" /\ lag' = lag /\ OnlyPc
  BY <1>5 DEF skip_read
<1>6. ASSUME end_of_round
      PROVE  /\ loop.pc = "write" /\ ~("write" \in loop.ready /\ Due)
             /\ loop'.pc \in {"leave", "wait_time"} /\ lag' = 0
             /\ loop'.thrown <=> "write" \in loop.ready /\ ~loop.wrote
             /\ UNCHANGED <<loop.called, loop.until, loop.interested,
                            loop.ready, loop.wrote>>
  BY <1>6 DEF end_of_round, Writes
<1>7. ASSUME leave \/ join
      PROVE  loop'.pc \in {"join", "end"} /\ lag' = lag /\ OnlyPc
  BY <1>7, SMTT(30) DEF leave, join
<1>8. ASSUME Initialize
      PROVE  /\ loop.pc = "initialize" /\ loop'.pc = "wait_time"
             /\ lag' = lag /\ OnlyPc
  BY <1>8 DEF Initialize
<1>9. ASSUME add_value_now_advances
      PROVE  loop.pc = "advance" /\ loop'.pc = "add" /\ lag' = lag /\ OnlyPc
  BY <1>9 DEF add_value_now_advances
<1>10. ASSUME add_value_now_adds
       PROVE  loop.pc = "add" /\ loop'.pc = "write" /\ lag' = lag /\ OnlyPc
  BY <1>10 DEF add_value_now_adds
<1> QED
  BY <1>1, <1>2, <1>3, <1>4, <1>5, <1>6, <1>7, <1>8, <1>9, <1>10

\* The numbers of the loop.
LEMMA Numbers ==
  ASSUME Types
  PROVE  /\ now \in Nat /\ lag \in Nat /\ lag <= MaxLag /\ MaxLag \in Nat
         /\ loop.called \in Nat /\ loop.until \in Nat /\ next_switch_time \in Nat
         /\ loop.interested \in BOOLEAN /\ loop.pc \in PCs
         /\ Bound \in Nat /\ lag <= Bound /\ Bound <= MaxLag + lag
<1>1. /\ now \in Nat /\ lag \in Nat /\ lag <= MaxLag /\ MaxLag \in Nat
      /\ next_switch_time \in Nat
  BY Constants DEF Types
<1>2. /\ loop.called \in Nat /\ loop.until \in Nat
      /\ loop.interested \in BOOLEAN /\ loop.pc \in PCs
  BY DEF Types, LoopState
<1> QED
  BY <1>1, <1>2 DEF Bound

\* The front packet is the first to be released.
LEMMA QueuedFacts ==
  ASSUME BaseInv, NEW i \in 1..Len(packet_queue)
  PROVE  /\ packet_queue # <<>> /\ packet_queue[i] \in Ids
         /\ read_at[packet_queue[i]] \in Nat
         /\ read_at[packet_queue[i]] <= now
         /\ ReleaseTime(packet_queue[i]) \in Nat
         /\ ReleaseTime(packet_queue[i]) >= read_at[packet_queue[i]]
         /\ kind # "delay" =>
              ReleaseTime(packet_queue[i]) = read_at[packet_queue[i]]
         /\ Head(packet_queue) \in Ids /\ Head(packet_queue) = packet_queue[1]
         /\ 1 \in 1..Len(packet_queue)
         /\ ReleaseTime(Head(packet_queue)) \in Nat
         /\ ReleaseTime(Head(packet_queue)) <= ReleaseTime(packet_queue[i])
<1> DEFINE m == Len(packet_queue)
           o == Len(output)
           h == Head(packet_queue)
<1>1. /\ packet_queue \in Seq(Ids) /\ Types /\ m \in Nat /\ o \in Nat
  BY LenProperties DEF BaseInv, Types
<1>2. packet_queue # <<>> /\ m > 0
  BY <1>1, EmptySeq
<1>3. packet_queue[i] \in Ids
  BY <1>1, ElementOfSeq
<1>4. h \in Ids /\ h = packet_queue[1] /\ 1 \in 1..m
  BY <1>1, <1>2, HeadTail
<1> HIDE DEF h
<1>5. /\ Len(kept) = o + m /\ kept[o + i] = packet_queue[i]
      /\ kept[o + 1] = h
  BY <1>4 DEF BaseInv, FlowInv
<1>6. o + i \in 1..Len(kept) /\ o + 1 \in 1..Len(kept)
  BY <1>1, <1>4, <1>5
<1>7. read_at[packet_queue[i]] <= now
  BY <1>5, <1>6 DEF BaseInv, KeptInv
<1>8. /\ read_at[packet_queue[i]] \in Nat /\ read_at[h] \in Nat
      /\ ReleaseTime(packet_queue[i]) \in Nat /\ ReleaseTime(h) \in Nat
      /\ ReleaseTime(packet_queue[i]) >= read_at[packet_queue[i]]
      /\ kind # "delay" =>
           ReleaseTime(packet_queue[i]) = read_at[packet_queue[i]]
  BY <1>1, <1>3, <1>4, ReleaseType
<1>9. read_at[h] <= read_at[packet_queue[i]]
  <2>1. CASE i = 1
    BY <1>4, <1>8, <2>1
  <2>2. CASE i # 1
    <3>1. o + 1 < o + i
      BY <1>1, <2>2
    <3> QED
      BY <1>5, <1>6, <3>1 DEF BaseInv, KeptInv
  <2> QED
    BY <2>1, <2>2
<1>10. ReleaseTime(h) <= ReleaseTime(packet_queue[i])
  BY <1>8, <1>9, Constants DEF ReleaseTime
<1> QED
  BY <1>2, <1>3, <1>4, <1>7, <1>8, <1>10 DEF h

\* The time wait_time has read is not old.
LEMMA SwitchStep ==
  ASSUME BaseInv, [Next]_vars, SwitchInv
  PROVE  SwitchInv'
<1>1. Types /\ Types' /\ now \in Nat /\ lag \in Nat /\ loop.called \in Nat
  BY NextTypes, Numbers DEF BaseInv
<1>2. CASE LoopOnly
  <2>1. UNCHANGED <<kind, packet_queue, read_at, now>>
    BY <1>1, <1>2, LoopOnlyFacts
  <2>2. CASE wait_time
    <3>1. loop'.called = now /\ lag' = lag
      BY <1>1, <2>2, LoopFields
    <3>2. \A i \in 1..Len(packet_queue) : read_at[packet_queue[i]] <= now
      BY QueuedFacts
    <3> QED
      BY <1>1, <2>1, <3>1, <3>2 DEF SwitchInv, At
  <2>3. CASE ~wait_time
    <3>1. loop'.pc # "switch" /\ loop'.called = loop.called
      BY <1>1, <1>2, <2>3, LoopFields DEF LoopOnly, OnlyPc
    <3> QED
      BY <2>1, <3>1 DEF SwitchInv, At
  <2> QED
    BY <2>2, <2>3
<1>3. CASE read_packet
  BY <1>1, <1>3, ReadFacts DEF SwitchInv, At, OnlyPc
<1>4. CASE write_packet
  BY <1>1, <1>4, WriteFacts DEF SwitchInv, At
<1>5. CASE Construct
  BY <1>1, <1>5, OtherFacts DEF SwitchInv, At, OnlyPc
<1>6. CASE switch \/ arrive \/ signal \/ animate \/ UNCHANGED vars
  BY <1>1, <1>6, OtherFacts DEF SwitchInv, At
<1>7. CASE Tick
  <2>1. /\ now' = now + 1 /\ UNCHANGED <<loop, packet_queue, read_at>>
        /\ loop.pc = "switch" => lag' = lag + 1
    BY <1>1, <1>7, OtherFacts
  <2> QED
    BY <1>1, <2>1 DEF SwitchInv, At
<1> QED
  BY <1>2, <1>3, <1>4, <1>5, <1>6, <1>7, Steps

\* What was due when the ferry asked to write is still due when it may.
LEMMA WriteStep ==
  ASSUME BaseInv, [Next]_vars, WriteInv
  PROVE  WriteInv'
<1>1. Types
  BY DEF BaseInv
<1>2. CASE LoopOnly
  <2>1. UNCHANGED <<kind, packet_queue, read_at, now>>
    BY <1>1, <1>2, LoopOnlyFacts
  <2>2. Due' <=> Due
    BY <2>1 DEF Due, ReleaseTime
  <2>3. CASE wait_time \/ Initialize \/ poll_timeout \/ leave \/ join
    BY <1>1, <2>3, LoopFields DEF WriteInv, Polled, OnlyPc
  <2>4. CASE poll
    BY <1>1, <2>2, <2>4, LoopFields DEF WriteInv, Polled
  <2>5. CASE poll_returns
    BY <1>1, <2>2, <2>5, LoopFields DEF WriteInv, Polled, At
  <2>6. CASE skip_read \/ add_value_now_advances \/ add_value_now_adds
    BY <1>1, <2>2, <2>6, LoopFields DEF WriteInv, Polled, At, OnlyPc
  <2>7. CASE end_of_round
    BY <1>1, <2>7, LoopFields DEF WriteInv, Polled, At
  <2> QED
    BY <1>2, <2>3, <2>4, <2>5, <2>6, <2>7 DEF LoopOnly
<1>3. CASE read_packet
  <2>1. /\ OnlyPc /\ loop.pc = "read" /\ loop'.pc \in {"advance", "write"}
        /\ UNCHANGED <<kind, now>>
    BY <1>1, <1>3, ReadFacts
  <2>2. Due => Due'
    <3> SUFFICES ASSUME Due PROVE Due'
      OBVIOUS
    <3> DEFINE m == Len(packet_queue)
    <3>1. packet_queue # <<>> /\ packet_queue \in Seq(Ids) /\ m \in Nat
          /\ m > 0 /\ 1 \in 1..m /\ Head(packet_queue) = packet_queue[1]
      BY <1>1, HeadTail DEF Due, Types
    <3>2. TunInv /\ KeptInv /\ FlowInv
      BY DEF BaseInv
    <3>3. packet_queue' \in Seq(Ids) /\ packet_queue'[1] = packet_queue[1]
          /\ packet_queue' # <<>>
      <4>1. CASE packet_queue' = packet_queue
        BY <3>1, <4>1
      <4>2. CASE packet_queue' # packet_queue
        <5>1. packet_queue' = Append(packet_queue, Head(tun)) /\ Head(tun) \in Ids
          BY <1>1, <1>3, <4>2, ReadFacts
        <5> QED
          BY <3>1, <5>1, AppendFacts
      <4> QED
        BY <4>1, <4>2
    <3>4. Head(packet_queue') = packet_queue[1]
      BY <3>3, HeadTail
    <3>5. read_at'[packet_queue[1]] = read_at[packet_queue[1]]
      <4>1. packet_queue[1] < Head(tun) /\ packet_queue[1] \in Ids
        <5>1. /\ Len(output) \in Nat /\ Len(tun) \in Nat /\ Len(tun) > 0
              /\ Head(tun) = tun[1] /\ arrived \in Nat
          BY <1>1, <1>3, ReadFacts, HeadTail, LenProperties DEF Types
        <5>2. Len(output) + 1 \in 1..Len(kept)
              /\ kept[Len(output) + 1] = packet_queue[1]
          BY <3>1, <3>2, <5>1 DEF FlowInv
        <5>3. packet_queue[1] <= arrived - Len(tun)
          BY <3>2, <5>2 DEF TunInv
        <5>4. packet_queue[1] \in Ids /\ packet_queue[1] \in Nat
          <6>1. packet_queue[1] \in Ids
            BY <3>1, ElementOfSeq
          <6> QED
            BY <6>1, Constants DEF Ids
        <5>5. 1 \in 1..Len(tun)
          BY <5>1
        <5>6. Head(tun) = arrived - Len(tun) + 1
          BY <3>2, <5>1, <5>5 DEF TunInv
        <5> QED
          BY <5>1, <5>3, <5>4, <5>6
      <4>2. packet_queue[1] # Head(tun)
        BY <4>1, Constants DEF Ids
      <4>3. read_at' = [read_at EXCEPT ![Head(tun)] = now]
        BY <1>1, <1>3, ReadFacts
      <4> QED
        BY <1>1, <4>1, <4>2, <4>3 DEF Types
    <3> QED
      BY <2>1, <3>1, <3>3, <3>4, <3>5 DEF Due, ReleaseTime
  <2> QED
    BY <2>1, <2>2 DEF WriteInv, Polled, At, OnlyPc
<1>4. CASE write_packet
  BY <1>1, <1>4, WriteFacts DEF WriteInv, Polled, At
<1>5. CASE Construct
  BY <1>1, <1>5, OtherFacts DEF WriteInv, Polled, At, OnlyPc
<1>6. CASE switch \/ arrive \/ signal \/ animate \/ UNCHANGED vars
  <2>1. UNCHANGED <<kind, packet_queue, read_at, now, loop>>
    BY <1>1, <1>6, OtherFacts
  <2>2. Due' <=> Due
    BY <2>1 DEF Due, ReleaseTime
  <2> QED
    BY <2>1, <2>2 DEF WriteInv, Polled, At
<1>7. CASE Tick
  <2>1. UNCHANGED <<kind, packet_queue, read_at, loop>> /\ now' = now + 1
    BY <1>1, <1>7, OtherFacts
  <2>2. Due => Due'
    <3> SUFFICES ASSUME Due PROVE Due'
      OBVIOUS
    <3>1. ReleaseTime(Head(packet_queue)) \in Nat /\ now \in Nat
      BY <1>1, HeadTail, ReleaseType DEF Due, Types
    <3>2. ReleaseTime(Head(packet_queue))' = ReleaseTime(Head(packet_queue))
      BY <2>1 DEF ReleaseTime
    <3> QED
      BY <2>1, <3>1, <3>2 DEF Due
  <2> QED
    BY <2>1, <2>2 DEF WriteInv, Polled, At
<1> QED
  BY <1>2, <1>3, <1>4, <1>5, <1>6, <1>7, Steps

\* Reading a packet leaves those queued as they are.
LEMMA ReadKeeps ==
  ASSUME BaseInv, read_packet
  PROVE  /\ \A i \in 1..Len(kept) :
              /\ kept[i] \in Ids /\ kept[i] < Head(tun)
              /\ read_at'[kept[i]] = read_at[kept[i]]
         /\ \A i \in 1..Len(packet_queue) :
              ReleaseTime(packet_queue[i]) =
                read_at'[packet_queue[i]] + (IF kind = "delay" THEN Delay ELSE 0)
         /\ read_at'[Head(tun)] = now
<1>1. /\ Types /\ kept \in Seq(Ids) /\ tun \in Seq(Ids) /\ arrived \in Nat
      /\ read_at \in [Ids -> Nat] /\ output \in Seq([id : Ids, at : Nat])
      /\ packet_queue \in Seq(Ids)
  BY DEF BaseInv, Types
<1>2. /\ tun # <<>> /\ Head(tun) \in Ids
      /\ read_at' = [read_at EXCEPT ![Head(tun)] = now]
  BY <1>1, ReadFacts
<1>3. /\ Len(tun) \in Nat /\ Len(tun) > 0 /\ Head(tun) = tun[1]
  BY <1>1, <1>2, HeadTail
<1>4. Head(tun) = arrived - Len(tun) + 1
  <2>1. 1 \in 1..Len(tun)
    BY <1>3
  <2> QED
    BY <1>3, <2>1 DEF BaseInv, TunInv
<1>5. ASSUME NEW i \in 1..Len(kept)
      PROVE  /\ kept[i] \in Ids /\ kept[i] < Head(tun)
             /\ read_at'[kept[i]] = read_at[kept[i]]
  <2>1. kept[i] \in Ids /\ kept[i] \in Nat
    <3>1. kept[i] \in Ids
      BY <1>1, ElementOfSeq
    <3> QED
      BY <3>1, Constants DEF Ids
  <2>2. kept[i] <= arrived - Len(tun)
    BY DEF BaseInv, TunInv
  <2>3. arrived \in Nat
    BY <1>1
  <2>4. kept[i] < Head(tun) /\ kept[i] # Head(tun)
    BY <1>3, <1>4, <2>1, <2>2, <2>3
  <2> QED
    BY <1>1, <1>2, <2>1, <2>4
<1>6. ASSUME NEW i \in 1..Len(packet_queue)
      PROVE  read_at'[packet_queue[i]] = read_at[packet_queue[i]]
  <2>1. /\ Len(kept) = Len(output) + Len(packet_queue)
        /\ kept[Len(output) + i] = packet_queue[i]
    BY DEF BaseInv, FlowInv
  <2>2. Len(output) \in Nat /\ Len(packet_queue) \in Nat
    BY <1>1, LenProperties
  <2>3. Len(output) + i \in 1..Len(kept)
    BY <2>1, <2>2
  <2> QED
    BY <1>5, <2>1, <2>3
<1>7. read_at'[Head(tun)] = now
  BY <1>1, <1>2
<1> QED
  BY <1>5, <1>6, <1>7 DEF ReleaseTime

\* No packet waits longer than its round and the one before.
LEMMA LateStep ==
  ASSUME BaseInv, [Next]_vars, SwitchInv, WriteInv, LateInv
  PROVE  LateInv'
<1> DEFINE m == Len(packet_queue)
           R(i) == ReleaseTime(packet_queue[i])
           active == Polled \cup {"wait_time", "switch"}
<1>1. Types /\ Types'
  BY NextTypes DEF BaseInv
<1>2. /\ now \in Nat /\ lag \in Nat /\ lag <= MaxLag /\ MaxLag \in Nat
      /\ loop.called \in Nat /\ loop.until \in Nat
      /\ loop.interested \in BOOLEAN
      /\ Bound \in Nat /\ lag <= Bound /\ Bound <= MaxLag + lag
  BY <1>1, Numbers
<1>3. \A i \in 1..m : R(i) \in Nat
  BY QueuedFacts
<1>4. loop.pc \in active => \A i \in 1..m : now <= R(i) + Bound
  BY DEF LateInv
<1> HIDE DEF R, m
<1>5. ASSUME UNCHANGED <<kind, packet_queue, read_at>>,
             loop'.pc \in active => \A i \in 1..m : now' <= R(i) + Bound',
             loop'.pc = "poll" /\ ~loop'.interested =>
               \A i \in 1..m : loop'.until <= R(i) + lag'
      PROVE  LateInv'
  <2>1. Len(packet_queue') = m
    BY <1>5 DEF m
  <2>2. \A i \in 1..m : ReleaseTime(packet_queue[i])' = R(i)
    BY <1>5 DEF R, ReleaseTime
  <2> QED
    BY <1>5, <2>1, <2>2 DEF LateInv, At
<1>6. CASE LoopOnly
  <2>1. UNCHANGED <<kind, packet_queue, read_at, now>>
    BY <1>1, <1>6, LoopOnlyFacts
  <2>2. CASE wait_time
    <3>1. loop.pc = "wait_time" /\ loop'.pc = "switch" /\ lag' = lag
      BY <1>1, <2>2, LoopFields
    <3>2. Bound' = Bound
      BY <3>1 DEF Bound, Polled
    <3> QED
      BY <1>4, <1>5, <2>1, <3>1, <3>2
  <2>3. CASE poll
    <3>1. /\ loop.pc = "switch" /\ ~MustSwitch /\ loop'.pc = "poll" /\ lag' = lag
          /\ loop'.interested = Due /\ loop'.until = now + WaitTime
      BY <1>1, <2>3, LoopFields
    <3>2. ASSUME ~Due, NEW i \in 1..m
          PROVE  now <= R(i) + lag /\ now + WaitTime <= R(i) + lag
      <4> DEFINE h == ReleaseTime(Head(packet_queue))
      <4>1. packet_queue # <<>> /\ h \in Nat /\ h <= R(i) /\ R(i) \in Nat
        BY <1>3, QueuedFacts DEF m, R
      <4>2. ~(h <= now)
        BY <3>2, <4>1 DEF Due
      <4>3. WaitTime = IF h >= loop.called THEN h - loop.called ELSE 0
        BY <1>1, <3>1, <4>1, WaitFacts
      <4>4. loop.called <= now /\ now <= loop.called + lag
        BY <3>1 DEF SwitchInv, At
      <4> HIDE DEF h
      <4> QED
        BY <1>2, <4>1, <4>2, <4>3, <4>4, SMTT(30)
    <3>3. Bound' = IF Due THEN Bound ELSE lag
      BY <3>1 DEF Bound, Polled
    <3> QED
      BY <1>4, <1>5, <2>1, <3>1, <3>2, <3>3
  <2>4. CASE poll_returns \/ skip_read \/ add_value_now_advances
               \/ add_value_now_adds
    <3>1. /\ loop.pc \in Polled /\ loop'.pc \in Polled \ {"poll"} /\ lag' = lag
          /\ loop'.interested = loop.interested
      BY <1>1, <2>4, LoopFields DEF Polled, OnlyPc
    <3>2. Bound' = Bound
      BY <3>1 DEF Bound
    <3> QED
      BY <1>4, <1>5, <2>1, <3>1, <3>2 DEF Polled
  <2>5. CASE poll_timeout
    <3>1. /\ loop.pc = "poll" /\ ~loop.interested /\ loop'.pc = "wait_time"
          /\ lag' = 0
      BY <1>1, <2>5, LoopFields
    <3>2. Bound = lag /\ Bound' = MaxLag
      BY <1>2, <3>1 DEF Bound, Polled
    <3>3. loop.pc \in active
      BY <3>1 DEF Polled
    <3>4. \A i \in 1..m : now <= R(i) + MaxLag
      BY <1>2, <1>3, <1>4, <3>2, <3>3
    <3> QED
      BY <1>5, <2>1, <3>1, <3>2, <3>4
  <2>6. CASE end_of_round
    <3>1. /\ loop.pc = "write" /\ ~("write" \in loop.ready /\ Due)
          /\ loop'.pc \in {"leave", "wait_time"} /\ lag' = 0
      BY <1>1, <2>6, LoopFields
    <3>2. Bound' = MaxLag
      BY <1>2, <3>1 DEF Bound, Polled
    <3>3. ASSUME NEW i \in 1..m PROVE now <= R(i) + MaxLag
      <4> DEFINE h == ReleaseTime(Head(packet_queue))
      <4>1. packet_queue # <<>> /\ h \in Nat /\ h <= R(i) /\ R(i) \in Nat
        BY <1>3, QueuedFacts DEF m, R
      <4>2. "write" \in loop.ready <=> loop.interested
        BY <3>1 DEF WriteInv, Polled
      <4>3. CASE loop.interested
        <5>1. ~(h <= now)
          BY <3>1, <4>1, <4>2, <4>3 DEF Due
        <5> HIDE DEF h
        <5> QED
          BY <1>2, <4>1, <5>1
      <4>4. CASE ~loop.interested
        <5>1. Bound = lag /\ loop.pc \in active
          BY <3>1, <4>4 DEF Bound, Polled
        <5>2. now <= R(i) + lag
          BY <1>4, <5>1
        <5> QED
          BY <1>2, <4>1, <5>2
      <4> QED
        BY <4>3, <4>4
    <3> QED
      BY <1>5, <2>1, <3>1, <3>2, <3>3
  <2>7. CASE leave \/ join
    <3>1. loop'.pc \in {"join", "end"}
      BY <1>1, <2>7, LoopFields
    <3> QED
      BY <1>5, <2>1, <3>1 DEF Polled
  <2>8. CASE Initialize
    <3>1. loop.pc = "initialize" /\ loop'.pc = "wait_time"
      BY <1>1, <2>8, LoopFields
    <3>2. m = 0
      <4>1. kept = <<>> /\ Len(kept) = Len(output) + Len(packet_queue)
        BY <3>1 DEF BaseInv, KeptInv, FlowInv
      <4>2. Len(output) \in Nat /\ Len(packet_queue) \in Nat
        BY <1>1, LenProperties DEF Types
      <4> QED
        BY <4>1, <4>2, EmptySeq DEF m
    <3> QED
      BY <1>5, <2>1, <3>1, <3>2
  <2> QED
    BY <1>6, <2>2, <2>3, <2>4, <2>5, <2>6, <2>7, <2>8 DEF LoopOnly
<1>7. CASE read_packet
  <2>1. /\ loop.pc = "read" /\ loop'.pc \in {"advance", "write"} /\ OnlyPc
        /\ lag' = lag /\ now' = now /\ kind' = kind
    BY <1>1, <1>7, ReadFacts
  <2>2. Bound' = Bound /\ loop.pc \in active
    BY <2>1 DEF Bound, Polled, OnlyPc
  <2>3. ASSUME NEW i \in 1..Len(packet_queue')
        PROVE  now <= ReleaseTime(packet_queue[i])' + Bound
    <3>1. CASE i \in 1..m /\ packet_queue'[i] = packet_queue[i]
      <4>1. ReleaseTime(packet_queue[i])' = R(i)
        BY <1>7, <2>1, <3>1, ReadKeeps DEF ReleaseTime, R, m
      <4> QED
        BY <1>4, <2>2, <3>1, <4>1
    <3>2. CASE packet_queue'[i] = Head(tun)
      <4>1. ReleaseTime(packet_queue[i])' =
              now + (IF kind = "delay" THEN Delay ELSE 0)
        BY <1>7, <2>1, <3>2, ReadKeeps DEF ReleaseTime
      <4> QED
        BY <1>2, <4>1, Constants
    <3>3. \/ i \in 1..m /\ packet_queue'[i] = packet_queue[i]
          \/ packet_queue'[i] = Head(tun)
      <4>1. packet_queue \in Seq(Ids) /\ m \in Nat
        BY <1>1, LenProperties DEF Types, m
      <4>2. CASE packet_queue' = packet_queue
        BY <4>2 DEF m
      <4>3. CASE packet_queue' # packet_queue
        <5>1. packet_queue' = Append(packet_queue, Head(tun)) /\ Head(tun) \in Ids
          BY <1>1, <1>7, <4>3, ReadFacts
        <5>2. /\ Len(packet_queue') = m + 1 /\ packet_queue'[m + 1] = Head(tun)
              /\ \A j \in 1..m : packet_queue'[j] = packet_queue[j]
          BY <4>1, <5>1, AppendFacts DEF m
        <5> QED
          BY <4>1, <5>2
      <4> QED
        BY <4>2, <4>3
    <3> QED
      BY <3>1, <3>2, <3>3
  <2> QED
    BY <2>1, <2>2, <2>3 DEF LateInv, At
<1>8. CASE write_packet
  <2>1. /\ loop.pc = "write" /\ loop'.pc = "write"
        /\ loop'.interested = loop.interested
        /\ UNCHANGED <<lag, now, kind, read_at>> /\ packet_queue # <<>>
        /\ packet_queue' = Tail(packet_queue)
    BY <1>1, <1>8, WriteFacts
  <2>2. Bound' = Bound /\ loop.pc \in active
    BY <2>1 DEF Bound, Polled
  <2>3. /\ m \in Nat /\ Len(packet_queue') = m - 1
        /\ \A i \in 1..(m - 1) : packet_queue'[i] = packet_queue[i + 1]
    BY <1>1, <2>1, HeadTail DEF Types, m
  <2>4. ASSUME NEW i \in 1..Len(packet_queue')
        PROVE  now <= ReleaseTime(packet_queue[i])' + Bound
    <3>1. i + 1 \in 1..m /\ packet_queue'[i] = packet_queue[i + 1]
      BY <2>3
    <3>2. ReleaseTime(packet_queue[i])' = R(i + 1)
      BY <2>1, <3>1 DEF ReleaseTime, R
    <3> QED
      BY <1>4, <2>2, <3>1, <3>2
  <2> QED
    BY <2>1, <2>2, <2>4 DEF LateInv, At
<1>9. CASE Construct
  <2>1. /\ UNCHANGED <<kind, packet_queue, read_at>> /\ loop.pc = "construct"
        /\ loop'.pc \in {"initialize", "wait_time"}
    BY <1>1, <1>9, OtherFacts
  <2>2. m = 0
    <3>1. kept = <<>> /\ Len(kept) = Len(output) + Len(packet_queue)
      BY <2>1 DEF BaseInv, KeptInv, FlowInv
    <3>2. Len(output) \in Nat /\ Len(packet_queue) \in Nat
      BY <1>1, LenProperties DEF Types
    <3> QED
      BY <3>1, <3>2, EmptySeq DEF m
  <2> QED
    BY <1>5, <2>1, <2>2
<1>10. CASE switch \/ arrive \/ signal \/ animate \/ UNCHANGED vars
  <2>1. UNCHANGED <<kind, packet_queue, read_at, loop, lag, now>>
    BY <1>1, <1>10, OtherFacts
  <2>2. Bound' = Bound
    BY <2>1 DEF Bound
  <2> QED
    BY <1>5, <2>1, <2>2 DEF LateInv, At, m, R
<1>11. CASE Tick
  <2>1. /\ UNCHANGED <<kind, packet_queue, read_at, loop>> /\ now' = now + 1
        /\ \/ lag' = lag + 1
           \/ lag' = lag /\ loop.pc \in {"join", "end"}
           \/ /\ lag' = lag /\ loop.pc = "poll" /\ ~loop.interested
              /\ now < loop.until
    BY <1>1, <1>11, OtherFacts
  <2>2. CASE lag' = lag + 1
    <3>1. Bound' = Bound + 1
      BY <1>2, <2>1, <2>2 DEF Bound
    <3>2. loop.pc \in active => \A i \in 1..m : now' <= R(i) + Bound'
      BY <1>2, <1>3, <1>4, <2>1, <3>1
    <3>3. loop.pc = "poll" /\ ~loop.interested =>
            \A i \in 1..m : loop.until <= R(i) + lag
      BY DEF LateInv, At, m, R
    <3>4. loop.pc = "poll" /\ ~loop.interested =>
            \A i \in 1..m : loop.until <= R(i) + lag'
      BY <1>2, <1>3, <2>2, <3>3
    <3> QED
      BY <1>5, <2>1, <3>2, <3>4
  <2>3. CASE loop.pc \in {"join", "end"}
    BY <1>5, <2>1, <2>3 DEF Polled
  <2>4. CASE lag' = lag /\ loop.pc = "poll" /\ ~loop.interested /\ now < loop.until
    <3>1. \A i \in 1..m : loop.until <= R(i) + lag
      BY <2>4 DEF LateInv, At, m, R
    <3>2. \A i \in 1..m : now + 1 <= R(i) + lag
      BY <1>2, <1>3, <2>4, <3>1
    <3>3. Bound' = lag
      BY <2>1, <2>4 DEF Bound, Polled
    <3> QED
      BY <1>5, <2>1, <2>4, <3>1, <3>2, <3>3
  <2> QED
    BY <2>1, <2>2, <2>3, <2>4
<1> QED
  BY <1>6, <1>7, <1>8, <1>9, <1>10, <1>11, Steps

\* The switching link is woken for its next switch.
LEMMA OnOffStep ==
  ASSUME BaseInv, [Next]_vars, SwitchInv, OnOffInv
  PROVE  OnOffInv'
<1>1. Types
  BY DEF BaseInv
<1>2. /\ now \in Nat /\ lag \in Nat /\ loop.called \in Nat /\ loop.until \in Nat
      /\ next_switch_time \in Nat
  BY <1>1, Numbers
<1> SUFFICES ASSUME kind' = "onoff"
             PROVE  /\ loop'.pc \in {"poll", "read"} =>
                         now' <= next_switch_time' + lag'
                    /\ loop'.pc = "poll" => loop'.until <= next_switch_time' + lag'
  BY DEF OnOffInv, At
<1>3. CASE LoopOnly
  <2>1. UNCHANGED <<kind, packet_queue, read_at, now, next_switch_time>>
    BY <1>1, <1>3, LoopOnlyFacts
  <2>2. CASE poll
    <3>1. /\ loop.pc = "switch" /\ ~MustSwitch /\ lag' = lag
          /\ loop'.until = now + WaitTime
      BY <1>1, <2>2, LoopFields
    <3>2. now <= loop.called + lag /\ loop.called <= now
      BY <3>1 DEF SwitchInv, At
    <3>3. loop.called < next_switch_time
      BY <1>2, <2>1, <3>1 DEF MustSwitch
    <3>4. WaitTime \in Nat /\ WaitTime <= next_switch_time - loop.called
      <4>1. CASE packet_queue = <<>>
        BY <1>1, <2>1, <3>1, <4>1, WaitFacts
      <4>2. CASE packet_queue # <<>>
        <5> DEFINE h == ReleaseTime(Head(packet_queue))
        <5>1. 1 \in 1..Len(packet_queue)
          BY <1>1, <4>2, HeadTail DEF Types
        <5>2. h = read_at[packet_queue[1]] /\ h \in Nat
          BY <2>1, <5>1, QueuedFacts
        <5>3. h <= loop.called
          BY <3>1, <5>1, <5>2 DEF SwitchInv, At
        <5>4. WaitTime = IF h >= loop.called THEN h - loop.called ELSE 0
          BY <1>1, <3>1, <4>2, WaitFacts
        <5> HIDE DEF h
        <5> QED
          BY <1>2, <3>3, <5>2, <5>3, <5>4
      <4> QED
        BY <4>1, <4>2
    <3> QED
      BY <1>2, <2>1, <3>1, <3>2, <3>3, <3>4
  <2>3. CASE poll_returns
    BY <1>1, <2>1, <2>3, LoopFields DEF OnOffInv, At
  <2>4. CASE ~poll /\ ~poll_returns
    BY <1>1, <1>3, <2>4, LoopFields DEF LoopOnly
  <2> QED
    BY <2>2, <2>3, <2>4
<1>4. CASE read_packet
  BY <1>1, <1>4, ReadFacts
<1>5. CASE write_packet
  BY <1>1, <1>5, WriteFacts
<1>6. CASE Construct \/ switch
  BY <1>1, <1>6, OtherFacts
<1>7. CASE arrive \/ signal \/ animate \/ UNCHANGED vars
  BY <1>1, <1>7, OtherFacts DEF OnOffInv, At
<1>8. CASE Tick
  <2>1. /\ UNCHANGED <<kind, loop, next_switch_time>> /\ now' = now + 1
        /\ \/ lag' = lag + 1
           \/ lag' = lag /\ loop.pc \in {"join", "end"}
           \/ lag' = lag /\ loop.pc = "poll" /\ now < loop.until
    BY <1>1, <1>8, OtherFacts
  <2> QED
    BY <1>2, <2>1 DEF OnOffInv, At
<1> QED
  BY <1>3, <1>4, <1>5, <1>6, <1>7, <1>8, Steps

\* The times.
TimeInv == SwitchInv /\ WriteInv /\ LateInv /\ OnOffInv

\* The loop wakes up for every release and every switch, and a callback that
\* is called has something to write.
THEOREM TimeInvariance == Spec => []TimeInv
<1>1. Init => TimeInv
  <2> SUFFICES ASSUME Init PROVE TimeInv
    OBVIOUS
  <2>1. /\ loop.pc = "construct" /\ loop.called = 0 /\ ~loop.thrown
        /\ now \in Nat
    BY Constants DEF Init
  <2>2. SwitchInv /\ OnOffInv
    BY <2>1 DEF SwitchInv, OnOffInv, At
  <2>3. WriteInv /\ LateInv
    BY <2>1 DEF WriteInv, LateInv, At, Polled
  <2> QED
    BY <2>2, <2>3 DEF TimeInv
<1>2. BaseInv /\ TimeInv /\ [Next]_vars => TimeInv'
  BY SwitchStep, WriteStep, LateStep, OnOffStep DEF TimeInv
<1> QED
  BY <1>1, <1>2, BaseInvariance, PTL DEF Spec

\* The on/off link never is further behind its switching process than one
\* round of the loop takes.
THEOREM LinkSwitchesOnTime == Spec => []SwitchedOnTime
<1>1. BaseInv /\ TimeInv => SwitchedOnTime
  <2> SUFFICES ASSUME BaseInv, TimeInv, kind = "onoff", At("read")
               PROVE  now <= next_switch_time + MaxLag
    BY DEF SwitchedOnTime
  <2>1. now <= next_switch_time + lag
    BY DEF TimeInv, OnOffInv, At
  <2>2. /\ now \in Nat /\ lag \in Nat /\ lag <= MaxLag /\ MaxLag \in Nat
        /\ next_switch_time \in Nat
    BY Numbers DEF BaseInv
  <2> QED
    BY <2>1, <2>2
<1> QED
  BY <1>1, BaseInvariance, TimeInvariance, PTL
------------------------------------------------------------------------------
(* The graph of mm-meter.                                                   *)

\* Later times are in later bins.
LEMMA BinGrows ==
  ASSUME NEW a \in Nat, NEW b \in Nat, a <= b
  PROVE  Bin(a) \in Nat /\ Bin(b) \in Nat /\ Bin(a) <= Bin(b)
BY Constants DEF Bin

\* What advance does: the open bin is closed, and no value moves.
LEMMA AdvanceFacts ==
  ASSUME BinInv, now \in Nat, advance
  PROVE  /\ data_points' \in Seq(SUBSET Value) /\ value_this_bin' \subseteq Value
         /\ current_bin' = Bin(now) /\ Len(data_points') = current_bin'
         /\ current_bin <= current_bin' /\ current_bin' \in Nat
         /\ \A b, v : InBin(b, v)' <=> InBin(b, v)
<1> DEFINE cur == current_bin
           bins == Bin(now) - cur
           new == [b \in 1..bins |-> IF b = 1 THEN value_this_bin ELSE {}]
<1>1. /\ data_points \in Seq(SUBSET Value) /\ value_this_bin \subseteq Value
      /\ cur \in Nat /\ cur <= Bin(now) /\ Len(data_points) = cur
      /\ Bin(now) \in Nat /\ bins \in Nat
  BY BinGrows, SMTT(30) DEF BinInv
<1>2. /\ current_bin' = Bin(now) /\ data_points' = data_points \o new
      /\ value_this_bin' = IF bins > 0 THEN {} ELSE value_this_bin
  BY DEF advance, ValueAfter
<1> HIDE DEF bins
<1>3. new \in Seq(SUBSET Value) /\ Len(new) = bins
  <2>1. \A b \in 1..bins : new[b] \in SUBSET Value
    BY <1>1
  <2> QED
    BY <1>1, <2>1, IsASeq DEF new
<1>4. /\ data_points' \in Seq(SUBSET Value)
      /\ Len(data_points') = cur + bins
      /\ \A i \in 1..(cur + bins) :
           data_points'[i] = IF i <= cur THEN data_points[i] ELSE new[i - cur]
  <2> HIDE DEF new
  <2> QED
    BY <1>1, <1>2, <1>3, ConcatProperties, ZenonT(30)
<1>5. cur + bins = Bin(now)
  BY <1>1 DEF bins
<1>6. ASSUME NEW i \in 1..(cur + bins), ~(i <= cur)
      PROVE  data_points'[i] = IF i = cur + 1 THEN value_this_bin ELSE {}
  <2>1. i - cur \in 1..bins
    BY <1>1, <1>6
  <2>2. new[i - cur] = IF i - cur = 1 THEN value_this_bin ELSE {}
    BY <2>1
  <2> HIDE DEF new
  <2> QED
    BY <1>1, <1>4, <1>6, <2>2
<1> HIDE DEF new
<1>7. ASSUME NEW b, NEW v PROVE InBin(b, v)' <=> InBin(b, v)
  <2>1. CASE bins = 0
    <3>1. current_bin' = cur /\ value_this_bin' = value_this_bin
      BY <1>1, <1>2, <1>5, <2>1
    <3>2. \A i \in 1..cur : data_points'[i] = data_points[i]
      BY <1>1, <1>4, <2>1
    <3> QED
      BY <3>1, <3>2 DEF InBin
  <2>2. CASE bins > 0
    <3>1. value_this_bin' = {} /\ current_bin' = cur + bins
      BY <1>2, <1>5, <2>2
    <3>2. InBin(b, v)' <=> b \in 1..(cur + bins) /\ v \in data_points'[b]
      BY <3>1 DEF InBin
    <3>3. CASE b \in 1..cur
      <4>1. b \in 1..(cur + bins) /\ b <= cur /\ b # cur + 1
        BY <1>1, <3>3
      <4> QED
        BY <1>4, <3>2, <3>3, <4>1 DEF InBin
    <3>4. CASE b = cur + 1
      <4>1. b \in 1..(cur + bins) /\ ~(b <= cur) /\ b \notin 1..cur
        BY <1>1, <2>2, <3>4
      <4> QED
        BY <1>6, <3>2, <3>4, <4>1 DEF InBin
    <3>5. CASE b \notin 1..cur /\ b # cur + 1
      <4>1. b \in 1..(cur + bins) => ~(b <= cur)
        BY <1>1, <3>5
      <4> QED
        BY <1>6, <3>2, <3>5, <4>1 DEF InBin
    <3> QED
      BY <3>3, <3>4, <3>5
  <2> QED
    BY <1>1, <2>1, <2>2
<1>8. value_this_bin' \subseteq Value
  BY <1>1, <1>2
<1> QED
  BY <1>1, <1>2, <1>4, <1>5, <1>7, <1>8

\* The steps that change the bins.
LEMMA GraphSteps ==
  ASSUME Types, [Next]_vars
  PROVE  \/ /\ UNCHANGED <<current_bin, data_points, value_this_bin>>
            /\ ~add_value_now_advances /\ ~add_value_now_adds
         \/ Construct /\ StartThread /\ kind = "meter"
         \/ advance /\ (animate \/ add_value_now_advances)
         \/ add_value_now_adds
<1>1. CASE add_value_now_advances
  BY <1>1 DEF add_value_now_advances
<1>2. CASE add_value_now_adds
  BY <1>2
<1>3. CASE Construct
  <2>1. ~add_value_now_advances /\ ~add_value_now_adds
    BY <1>3 DEF Construct, add_value_now_advances, add_value_now_adds, At
  <2> QED
    BY <1>3, <2>1 DEF Construct, graphVars
<1>4. CASE animate
  <2>1. \/ ~add_value_now_advances /\ ~add_value_now_adds
        \/ add_value_now_advances
        \/ add_value_now_adds
    OBVIOUS
  <2> QED
    BY <1>1, <1>2, <1>4, <2>1 DEF animate, animation_loop
<1>5. CASE /\ ~add_value_now_advances /\ ~add_value_now_adds
           /\ ~Construct /\ ~animate
  <2>1. CASE LoopOnly
    BY <1>5, <2>1 DEF LoopOnly, wait_time, poll, poll_returns, poll_timeout,
       skip_read, end_of_round, join, leave, Initialize, graphVars,
       FinishConstruction, HaltThread
  <2>2. CASE read_packet
    BY <1>5, <2>2 DEF read_packet, graphVars
  <2>3. CASE write_packet
    BY <1>5, <2>3 DEF write_packet, graphVars
  <2>4. CASE switch \/ arrive \/ Tick
    BY <1>5, <2>4 DEF switch, arrive, Tick, graphVars
  <2>5. CASE signal \/ UNCHANGED vars
    BY <1>5, <2>5 DEF signal, vars, graphVars
  <2> QED
    BY <1>5, <2>1, <2>2, <2>3, <2>4, <2>5, Steps
<1> QED
  BY <1>1, <1>2, <1>3, <1>4, <1>5

\* The value that is added to the open bin.
LEMMA AddFacts ==
  ASSUME Types, BinInv, add_value_now_adds
  PROVE  /\ [id |-> kept[Len(kept)], latest |-> Bin(now)] \in Value
         /\ value_this_bin' =
              value_this_bin \cup {[id |-> kept[Len(kept)], latest |-> Bin(now)]}
         /\ UNCHANGED <<current_bin, data_points, kept, read_at, now, kind>>
         /\ loop.pc = "add" /\ loop'.pc = "write"
         /\ Len(kept) \in 1..Len(kept)
<1>1. loop.pc = "add" /\ loop'.pc = "write"
  BY LoopFields
<1>2. kept # <<>> /\ kept \in Seq(Ids) /\ now \in Nat
  BY <1>1 DEF BinInv, Types
<1>3. Len(kept) \in 1..Len(kept) /\ kept[Len(kept)] \in Ids
  <2>1. Len(kept) \in Nat /\ Len(kept) > 0
    BY <1>2, HeadTail
  <2>2. Len(kept) \in 1..Len(kept)
    BY <2>1
  <2> QED
    BY <1>2, <2>2, ElementOfSeq
<1>4. Bin(now) \in Nat
  BY <1>2, BinGrows
<1>5. [id |-> kept[Len(kept)], latest |-> Bin(now)] \in Value
  BY <1>3, <1>4 DEF Value
<1>6. UNCHANGED <<kept, read_at, now, kind>>
  BY DEF add_value_now_adds, worldVars, history
<1>7. /\ value_this_bin' =
           value_this_bin \cup {[id |-> kept[Len(kept)], latest |-> Bin(now)]}
      /\ UNCHANGED <<current_bin, data_points>>
  BY DEF add_value_now_adds, add_value, Last
<1> QED
  BY <1>1, <1>3, <1>5, <1>6, <1>7

\* The bins keep up with the clock.
LEMMA BinStep ==
  ASSUME BaseInv, [Next]_vars, BinInv
  PROVE  BinInv'
<1>1. Types /\ now \in Nat
  BY DEF BaseInv, Types
<1>2. now' \in Nat /\ Bin(now) <= Bin(now)' /\ Bin(now)' \in Nat
      /\ Bin(now) \in Nat
  <2>1. now' \in Nat /\ now <= now'
    <3>1. now' = now \/ now' = now + 1
      BY <1>1, Steps, LoopOnlyFacts, ReadFacts, WriteFacts, OtherFacts
    <3> QED
      BY <1>1, <3>1
  <2> QED
    BY <1>1, <2>1, BinGrows DEF Bin
<1>3. loop'.pc \in {"advance", "add"} => kept' # <<>>
  <2>1. CASE read_packet
    <3>1. kept' # <<>> \/ loop'.pc = "write"
      <4>1. CASE kind = "meter"
        <5>1. kept' = Append(kept, Head(tun)) /\ Head(tun) \in Ids
          BY <1>1, <2>1, <4>1, ReadFacts
        <5>2. kept \in Seq(Ids)
          BY <1>1 DEF Types
        <5> QED
          BY <5>1, <5>2, AppendProperties
      <4>2. CASE kind # "meter"
        BY <1>1, <2>1, <4>2, ReadFacts
      <4> QED
        BY <4>1, <4>2
    <3> QED
      BY <3>1
  <2>2. CASE LoopOnly
    <3>1. loop'.pc \in {"advance", "add"} => loop.pc = "advance"
      BY <1>1, <2>2, LoopFields DEF LoopOnly
    <3>2. kept' = kept
      BY <1>1, <2>2, LoopOnlyFacts
    <3> QED
      BY <3>1, <3>2 DEF BinInv
  <2>3. CASE write_packet
    BY <1>1, <2>3, WriteFacts DEF BinInv
  <2>4. CASE Construct
    BY <1>1, <2>4, OtherFacts
  <2>5. CASE switch \/ arrive \/ Tick \/ signal \/ animate \/ UNCHANGED vars
    BY <1>1, <2>5, OtherFacts DEF BinInv
  <2> QED
    BY <2>1, <2>2, <2>3, <2>4, <2>5, Steps
<1>4. CASE UNCHANGED <<current_bin, data_points, value_this_bin>>
  BY <1>2, <1>3, <1>4 DEF BinInv
<1>5. CASE Construct /\ StartThread
  <2>1. /\ current_bin' = Bin(now) /\ data_points' = [b \in 1..Bin(now) |-> {}]
        /\ value_this_bin' = value_this_bin
    BY <1>5 DEF StartThread
  <2>2. data_points' \in Seq(SUBSET Value) /\ Len(data_points') = Bin(now)
    <3>1. \A b \in 1..Bin(now) : {} \in SUBSET Value
      OBVIOUS
    <3> QED
      BY <1>2, <2>1, <3>1, IsASeq
  <2> QED
    BY <1>2, <1>3, <2>1, <2>2 DEF BinInv
<1>6. CASE advance
  <2>1. /\ data_points' \in Seq(SUBSET Value) /\ value_this_bin' \subseteq Value
        /\ current_bin' = Bin(now) /\ Len(data_points') = current_bin'
    BY <1>1, <1>6, AdvanceFacts
  <2> QED
    BY <1>2, <1>3, <2>1 DEF BinInv
<1>7. CASE add_value_now_adds
  <2>1. UNCHANGED <<current_bin, data_points>> /\ value_this_bin' \subseteq Value
    BY <1>1, <1>7, AddFacts DEF BinInv
  <2> QED
    BY <1>2, <1>3, <2>1 DEF BinInv
<1> QED
  BY <1>1, <1>4, <1>5, <1>6, <1>7, GraphSteps

\* Every data point is the value of a bin that has ended.
THEOREM BinInvariance == Spec => []BinInv
<1>1. Init => BinInv
  <2> SUFFICES ASSUME Init PROVE BinInv
    OBVIOUS
  <2>1. /\ data_points = <<>> /\ value_this_bin = {} /\ current_bin = 0
        /\ loop.pc = "construct" /\ now \in Nat
    BY Constants DEF Init, GraphInit
  <2>2. Bin(now) \in Nat
    BY <2>1, BinGrows
  <2>3. data_points \in Seq(SUBSET Value) /\ Len(data_points) = 0
    BY <2>1, EmptySeq
  <2> QED
    BY <2>1, <2>2, <2>3 DEF BinInv
<1>2. BaseInv /\ BinInv /\ [Next]_vars => BinInv'
  BY BinStep
<1> QED
  BY <1>1, <1>2, BaseInvariance, PTL DEF Spec

\* Packets leave in order, none before its time, and none is queued longer
\* after it than two rounds of the loop take; no ferry is taken for a busy
\* wait.  For every delay, lag and schedule.
THEOREM PacketsLeaveOnTime == Spec => []OnTime
<1>1. BaseInv /\ TimeInv /\ BinInv => OnTime
  <2> SUFFICES ASSUME BaseInv, TimeInv, BinInv PROVE OnTime
    OBVIOUS
  <2>1. Types /\ FlowInv
    BY DEF BaseInv
  <2>2. TypeOK
    <3>1. /\ Range(tun) \subseteq Ids /\ Range(packet_queue) \subseteq Ids
          /\ Range(kept) \subseteq Ids
      <4>1. ASSUME NEW s \in Seq(Ids) PROVE Range(s) \subseteq Ids
        <5>1. DOMAIN s = 1..Len(s) /\ \A i \in 1..Len(s) : s[i] \in Ids
          BY LenProperties, ElementOfSeq
        <5> QED
          BY <5>1 DEF Range
      <4> QED
        BY <2>1, <4>1 DEF Types
    <3>2. /\ kind \in Kinds /\ link_is_on \in BOOLEAN /\ now \in Nat
          /\ lag \in 0..MaxLag
      BY <2>1 DEF Types
    <3>3. /\ loop.interested \in BOOLEAN /\ loop.thrown \in BOOLEAN
          /\ loop.ready \subseteq {"read", "write", "signal"}
          /\ loop.until \in Nat /\ loop.called \in Nat
      BY <2>1 DEF Types, LoopState
    <3>4. loop.called \in 0..now
      BY <3>2, <3>3 DEF TimeInv, SwitchInv
    <3>5. current_bin \in 0..Bin(now) /\ Len(data_points) = current_bin
      <4>1. Bin(now) \in Nat
        BY <3>2, BinGrows
      <4> QED
        BY <4>1 DEF BinInv
    <3> QED
      BY <3>1, <3>2, <3>3, <3>4, <3>5 DEF TypeOK, Ids
  <2>3. InOrder
    <3> DEFINE ids == [i \in 1..Len(output) |-> output[i].id]
    <3>1. /\ output \in Seq([id : Ids, at : Nat]) /\ packet_queue \in Seq(Ids)
          /\ kept \in Seq(Ids) /\ Len(output) \in Nat /\ Len(packet_queue) \in Nat
      BY <2>1, LenProperties DEF Types
    <3>2. ids \in Seq(Ids) /\ Len(ids) = Len(output)
          /\ \A i \in 1..Len(output) : ids[i] = output[i].id
      <4>1. \A i \in 1..Len(output) : output[i].id \in Ids
        <5>1. \A i \in 1..Len(output) : output[i] \in [id : Ids, at : Nat]
          BY <3>1, ElementOfSeq
        <5> QED
          BY <5>1
      <4> QED
        BY <3>1, <4>1, IsASeq
    <3> HIDE DEF ids
    <3> DEFINE all == ids \o packet_queue
    <3>3. /\ all \in Seq(Ids) /\ Len(all) = Len(output) + Len(packet_queue)
          /\ \A i \in 1..Len(all) :
               all[i] = IF i <= Len(output) THEN ids[i]
                        ELSE packet_queue[i - Len(output)]
      <4>1. ids \in Seq(Ids) /\ packet_queue \in Seq(Ids)
        BY <3>1, <3>2
      <4>2. /\ all \in Seq(Ids) /\ Len(all) = Len(ids) + Len(packet_queue)
            /\ \A i \in 1..(Len(ids) + Len(packet_queue)) :
                 all[i] = IF i <= Len(ids) THEN ids[i]
                          ELSE packet_queue[i - Len(ids)]
        BY <4>1, ConcatProperties
      <4> QED
        BY <3>2, <4>2
    <3> HIDE DEF all
    <3>4. Len(all) = Len(kept)
      BY <2>1, <3>3 DEF FlowInv
    <3>5. ASSUME NEW i \in 1..Len(kept) PROVE all[i] = kept[i]
      <4>1. CASE i <= Len(output)
        <5>1. i \in 1..Len(output)
          BY <3>1, <4>1
        <5>2. kept[i] = output[i].id
          BY <2>1, <5>1 DEF FlowInv
        <5> QED
          BY <3>2, <3>3, <3>4, <4>1, <5>1, <5>2
      <4>2. CASE ~(i <= Len(output))
        <5>1. Len(kept) = Len(output) + Len(packet_queue)
          BY <2>1 DEF FlowInv
        <5>2. /\ i - Len(output) \in 1..Len(packet_queue)
              /\ Len(output) + (i - Len(output)) = i
          BY <3>1, <4>2, <5>1
        <5>3. kept[Len(output) + (i - Len(output))] = packet_queue[i - Len(output)]
          BY <2>1, <5>2 DEF FlowInv
        <5> QED
          BY <3>3, <3>4, <4>2, <5>2, <5>3
      <4> QED
        BY <4>1, <4>2
    <3>6. all = kept
      BY <3>1, <3>3, <3>4, <3>5, SeqEqual
    <3> QED
      BY <3>6 DEF InOrder, all, ids
  <2>4. NoBusyWait
    BY DEF TimeInv, WriteInv, NoBusyWait
  <2>5. \A i \in 1..Len(output) : output[i].at >= ReleaseTime(output[i].id)
    BY <2>1 DEF FlowInv
  <2>6. ASSUME loop.pc \notin {"leave", "join", "end"},
               NEW i \in 1..Len(packet_queue)
        PROVE  now <= ReleaseTime(packet_queue[i]) + 2 * MaxLag
    <3>1. /\ now \in Nat /\ MaxLag \in Nat /\ lag \in Nat /\ lag <= MaxLag
          /\ Bound \in Nat /\ Bound <= MaxLag + lag /\ loop.pc \in PCs
      BY <2>1, Numbers
    <3>2. ReleaseTime(packet_queue[i]) \in Nat
      BY QueuedFacts
    <3>3. CASE loop.pc \in {"construct", "initialize"}
      <4>1. kept = <<>> /\ Len(kept) = Len(output) + Len(packet_queue)
        BY <3>3 DEF BaseInv, KeptInv, FlowInv
      <4>2. Len(output) \in Nat /\ Len(packet_queue) \in Nat /\ Len(kept) = 0
        BY <2>1, <4>1, LenProperties, EmptySeq DEF Types
      <4> QED
        BY <4>1, <4>2
    <3>4. CASE loop.pc \notin {"construct", "initialize"}
      <4>1. loop.pc \in Polled \cup {"wait_time", "switch"}
        BY <2>6, <3>1, <3>4 DEF PCs, Polled
      <4>2. now <= ReleaseTime(packet_queue[i]) + Bound
        BY <4>1 DEF TimeInv, LateInv
      <4> QED
        BY <3>1, <3>2, <4>2
    <3> QED
      BY <3>3, <3>4
  <2> QED
    BY <2>2, <2>3, <2>4, <2>5, <2>6 DEF OnTime
<1> QED
  BY <1>1, BaseInvariance, TimeInvariance, BinInvariance, PTL

\* If neither the packets nor the bins they are in change, nothing does.
LEMMA MeterKept ==
  ASSUME MeterInv, UNCHANGED kind, UNCHANGED <<kept, read_at>>,
         \A b, v : InBin(b, v)' <=> InBin(b, v),
         \A i : Unmetered(i)' <=> Unmetered(i),
         loop'.pc = "add" => Bin(read_at[kept[Len(kept)]]) <= current_bin'
  PROVE  MeterInv'
<1> SUFFICES ASSUME kind = "meter"
             PROVE  /\ \A b, v : InBin(b, v) =>
                         /\ \E i \in 1..Len(kept) : kept[i] = v.id /\ ~Unmetered(i)
                         /\ Bin(read_at[v.id]) <= b - 1 /\ b - 1 <= v.latest
                         /\ \A c, w : InBin(c, w) /\ w.id = v.id => c = b
                    /\ \A i \in 1..Len(kept) : ~Unmetered(i) =>
                         \E b, v : InBin(b, v) /\ v.id = kept[i]
  BY DEF MeterInv, At, Bin
<1> QED
  BY DEF MeterInv

\* A packet that is read is not in a bin yet.
LEMMA MeterRead ==
  ASSUME BaseInv, BinInv, MeterInv, read_packet
  PROVE  MeterInv'
<1> DEFINE n == Len(kept)
           h == Head(tun)
<1>1. Types /\ kept \in Seq(Ids) /\ n \in Nat
  BY LenProperties DEF BaseInv, Types
<1> SUFFICES ASSUME kind = "meter", kind' = "meter" PROVE MeterInv'
  BY <1>1, ReadFacts DEF MeterInv
<1>2. /\ kept' = Append(kept, h) /\ h \in Ids
      /\ loop.pc = "read" /\ loop'.pc = "advance"
      /\ UNCHANGED <<current_bin, data_points, value_this_bin>>
  BY <1>1, ReadFacts DEF graphVars
<1>3. /\ Len(kept') = n + 1 /\ kept'[n + 1] = h
      /\ \A i \in 1..n : kept'[i] = kept[i]
  BY <1>1, <1>2, AppendFacts
<1>4. \A b, v : InBin(b, v)' <=> InBin(b, v)
  BY <1>2 DEF InBin
<1>5. \A i : ~Unmetered(i) /\ (Unmetered(i)' <=> i = n + 1)
  BY <1>2, <1>3 DEF Unmetered
<1>6. \A i \in 1..n : i \in 1..(n + 1) /\ i # n + 1
  BY <1>1
<1> HIDE DEF n
<1>7. ASSUME NEW b, NEW v, InBin(b, v)
      PROVE  /\ \E i \in 1..(n + 1) : kept'[i] = v.id /\ ~Unmetered(i)'
             /\ Bin(read_at'[v.id]) <= b - 1 /\ b - 1 <= v.latest
             /\ \A c, w : InBin(c, w) /\ w.id = v.id => c = b
  <2>1. /\ \E i \in 1..n : kept[i] = v.id
        /\ Bin(read_at[v.id]) <= b - 1 /\ b - 1 <= v.latest
        /\ \A c, w : InBin(c, w) /\ w.id = v.id => c = b
    BY <1>7 DEF MeterInv, n
  <2>2. PICK i \in 1..n : kept[i] = v.id
    BY <2>1
  <2>3. read_at'[v.id] = read_at[v.id]
    BY <2>2, ReadKeeps DEF n
  <2>4. kept'[i] = v.id /\ ~Unmetered(i)'
    BY <1>3, <1>5, <1>6, <2>2
  <2> QED
    BY <1>6, <2>1, <2>3, <2>4
<1>8. ASSUME NEW i \in 1..(n + 1), ~Unmetered(i)'
      PROVE  \E b, v : InBin(b, v) /\ v.id = kept'[i]
  <2>1. i \in 1..n
    BY <1>1, <1>5, <1>8
  <2>2. \E b, v : InBin(b, v) /\ v.id = kept[i]
    BY <1>5, <2>1 DEF MeterInv, n
  <2> QED
    BY <1>3, <2>1, <2>2
<1>9. loop'.pc # "add"
  BY <1>2
<1>10. (\A b, v : InBin(b, v) =>
         /\ \E i \in 1..Len(kept) : kept[i] = v.id /\ ~Unmetered(i)
         /\ Bin(read_at[v.id]) <= b - 1 /\ b - 1 <= v.latest
         /\ \A c, w : InBin(c, w) /\ w.id = v.id => c = b)'
  BY <1>3, <1>4, <1>7 DEF Bin
<1>11. (\A i \in 1..Len(kept) :
         ~Unmetered(i) => \E b, v : InBin(b, v) /\ v.id = kept[i])'
  BY <1>3, <1>4, <1>8
<1> QED
  BY <1>9, <1>10, <1>11 DEF MeterInv, At

\* The packet read last is added to the open bin.
LEMMA MeterAdd ==
  ASSUME BaseInv, BinInv, MeterInv, add_value_now_adds
  PROVE  MeterInv'
<1> DEFINE n == Len(kept)
           new == [id |-> kept[n], latest |-> Bin(now)]
           open == current_bin + 1
<1>1. Types /\ kept \in Seq(Ids)
  BY DEF BaseInv, Types
<1>2. /\ value_this_bin' = value_this_bin \cup {new} /\ new \in Value
      /\ UNCHANGED <<current_bin, data_points>> /\ UNCHANGED <<kept, read_at>>
      /\ UNCHANGED kind /\ loop.pc = "add" /\ loop'.pc = "write" /\ n \in 1..n
  BY <1>1, AddFacts
<1> SUFFICES ASSUME kind = "meter" PROVE MeterInv'
  BY <1>2 DEF MeterInv
<1>3. new.id = kept[n] /\ new.latest = Bin(now)
  OBVIOUS
<1> HIDE DEF new
<1>4. \A b, v : InBin(b, v)' <=> InBin(b, v) \/ (b = open /\ v = new)
  BY <1>2 DEF InBin
<1>5. \A i : ~Unmetered(i)' /\ (Unmetered(i) <=> i = n)
  BY <1>2 DEF Unmetered
<1>6. /\ Bin(read_at[kept[n]]) <= current_bin /\ current_bin <= Bin(now)
      /\ current_bin \in Nat
  BY <1>2 DEF MeterInv, BinInv, At
<1>7. ASSUME NEW b, NEW v, InBin(b, v) PROVE v.id # kept[n]
  <2>1. PICK i \in 1..n : kept[i] = v.id /\ i # n
    BY <1>5, <1>7 DEF MeterInv
  <2>2. i < n
    BY <1>2, <2>1
  <2>3. kept[i] < kept[n] /\ kept[i] \in Nat
    <3>1. kept[i] \in Ids
      BY <1>1, ElementOfSeq
    <3>2. kept[i] < kept[n]
      BY <1>2, <2>2 DEF BaseInv, KeptInv
    <3> QED
      BY <3>1, <3>2, Constants DEF Ids
  <2> QED
    BY <2>1, <2>3
<1>8. open - 1 = current_bin
  BY <1>6
<1> HIDE DEF n, open
<1>9. ASSUME NEW b, NEW v, InBin(b, v)'
      PROVE  /\ \E i \in 1..n : kept[i] = v.id /\ ~Unmetered(i)'
             /\ Bin(read_at[v.id]) <= b - 1 /\ b - 1 <= v.latest
             /\ \A c, w : InBin(c, w)' /\ w.id = v.id => c = b
  <2>1. CASE InBin(b, v)
    <3>1. /\ \E i \in 1..n : kept[i] = v.id
          /\ Bin(read_at[v.id]) <= b - 1 /\ b - 1 <= v.latest
          /\ \A c, w : InBin(c, w) /\ w.id = v.id => c = b
      BY <2>1 DEF MeterInv, n
    <3>2. v.id # new.id
      BY <1>3, <1>7, <2>1
    <3> QED
      BY <1>4, <1>5, <3>1, <3>2
  <2>2. CASE b = open /\ v = new
    <3>1. \A c, w : InBin(c, w)' /\ w.id = v.id => c = b
      BY <1>3, <1>4, <1>7, <2>2
    <3> QED
      BY <1>2, <1>3, <1>5, <1>6, <1>8, <2>2, <3>1
  <2> QED
    BY <1>4, <1>9, <2>1, <2>2
<1>10. ASSUME NEW i \in 1..n PROVE \E b, v : InBin(b, v)' /\ v.id = kept[i]
  <2>1. CASE i = n
    BY <1>3, <1>4, <2>1
  <2>2. CASE i # n
    <3>1. \E b, v : InBin(b, v) /\ v.id = kept[i]
      BY <1>5, <2>2 DEF MeterInv, n
    <3> QED
      BY <1>4, <3>1
  <2> QED
    BY <2>1, <2>2
<1>11. (\A b, v : InBin(b, v) =>
         /\ \E i \in 1..Len(kept) : kept[i] = v.id /\ ~Unmetered(i)
         /\ Bin(read_at[v.id]) <= b - 1 /\ b - 1 <= v.latest
         /\ \A c, w : InBin(c, w) /\ w.id = v.id => c = b)'
  BY <1>2, <1>9 DEF Bin, n
<1>12. (\A i \in 1..Len(kept) :
         ~Unmetered(i) => \E b, v : InBin(b, v) /\ v.id = kept[i])'
  BY <1>2, <1>10 DEF n
<1> QED
  BY <1>2, <1>11, <1>12 DEF MeterInv, At

\* Every step meters each packet once.
LEMMA MeterStep ==
  ASSUME BaseInv, BinInv, MeterInv, [Next]_vars
  PROVE  MeterInv'
<1>1. Types /\ now \in Nat
  BY DEF BaseInv, Types
<1>2. CASE read_packet
  BY <1>2, MeterRead
<1>3. CASE add_value_now_adds
  BY <1>3, MeterAdd
<1>4. CASE add_value_now_advances
  <2>1. /\ loop.pc = "advance" /\ loop'.pc = "add"
        /\ UNCHANGED <<kind, kept, read_at>> /\ advance
    BY <1>1, <1>4, LoopFields DEF add_value_now_advances, worldVars, history
  <2>2. (\A b, v : InBin(b, v)' <=> InBin(b, v)) /\ current_bin' = Bin(now)
    BY <1>1, <2>1, AdvanceFacts
  <2>3. \A i : Unmetered(i)' <=> Unmetered(i)
    BY <2>1 DEF Unmetered
  <2>4. Bin(read_at[kept[Len(kept)]]) <= Bin(now)
    <3>1. kept # <<>> /\ kept \in Seq(Ids)
      BY <1>1, <2>1 DEF BinInv, Types
    <3>2. Len(kept) \in 1..Len(kept)
      <4>1. Len(kept) \in Nat /\ Len(kept) > 0
        BY <3>1, HeadTail
      <4> QED
        BY <4>1
    <3>3. kept[Len(kept)] \in Ids
      BY <3>1, <3>2, ElementOfSeq
    <3>4. read_at[kept[Len(kept)]] \in Nat
      BY <1>1, <3>3 DEF Types
    <3>5. read_at[kept[Len(kept)]] <= now
      BY <3>2 DEF BaseInv, KeptInv
    <3> QED
      BY <1>1, <3>4, <3>5, BinGrows
  <2> QED
    BY <2>1, <2>2, <2>3, <2>4, MeterKept
<1>5. CASE animate
  <2>1. UNCHANGED <<kind, kept, read_at, loop>>
    BY <1>1, <1>5, OtherFacts
  <2>2. \A i : Unmetered(i)' <=> Unmetered(i)
    BY <2>1 DEF Unmetered
  <2>3. /\ \A b, v : InBin(b, v)' <=> InBin(b, v)
        /\ current_bin \in Nat /\ current_bin' \in Nat
        /\ current_bin <= current_bin'
    <3>1. CASE advance
      BY <1>1, <3>1, AdvanceFacts DEF BinInv
    <3>2. CASE ~advance
      <4>1. UNCHANGED <<current_bin, data_points, value_this_bin>>
        BY <1>5, <3>2 DEF animate, animation_loop
      <4> QED
        BY <4>1 DEF InBin, BinInv
    <3> QED
      BY <3>1, <3>2
  <2>4. kind = "meter" /\ loop.pc = "add" =>
          Bin(read_at[kept[Len(kept)]]) <= current_bin'
    <3> SUFFICES ASSUME kind = "meter", loop.pc = "add"
                 PROVE  Bin(read_at[kept[Len(kept)]]) <= current_bin'
      OBVIOUS
    <3>1. Bin(read_at[kept[Len(kept)]]) <= current_bin
      BY DEF MeterInv, At
    <3>2. Bin(read_at[kept[Len(kept)]]) \in Nat
      <4>1. kept # <<>> /\ kept \in Seq(Ids)
        BY <1>1 DEF BinInv, Types
      <4>2. Len(kept) \in 1..Len(kept)
        <5>1. Len(kept) \in Nat /\ Len(kept) > 0
          BY <4>1, HeadTail
        <5> QED
          BY <5>1
      <4>3. kept[Len(kept)] \in Ids
        BY <4>1, <4>2, ElementOfSeq
      <4>4. read_at[kept[Len(kept)]] \in Nat
        BY <1>1, <4>3 DEF Types
      <4> QED
        BY <4>4, BinGrows, SMTT(30)
    <3> QED
      BY <2>3, <3>1, <3>2
  <2>5. CASE kind = "meter"
    BY <2>1, <2>2, <2>3, <2>4, <2>5, MeterKept
  <2>6. CASE kind # "meter"
    BY <2>1, <2>6 DEF MeterInv
  <2> QED
    BY <2>5, <2>6
<1>6. CASE Construct
  <2>1. /\ loop.pc = "construct" /\ loop'.pc \in {"initialize", "wait_time"}
        /\ UNCHANGED <<kind, kept, read_at>>
    BY <1>1, <1>6, OtherFacts
  <2> SUFFICES ASSUME kind = "meter" PROVE MeterInv'
    BY <2>1 DEF MeterInv
  <2>2. kept = <<>> /\ Len(kept) = 0
    BY <2>1, EmptySeq DEF BaseInv, KeptInv
  <2>3. \A b, v : ~InBin(b, v)
    BY <2>2 DEF MeterInv
  <2>4. current_bin' = Bin(now) /\ data_points' = [b \in 1..Bin(now) |-> {}]
        /\ value_this_bin' = value_this_bin
    BY <1>6 DEF Construct, StartThread
  <2>5. value_this_bin = {}
    BY <2>3 DEF InBin
  <2>6. \A b, v : ~InBin(b, v)'
    BY <2>4, <2>5 DEF InBin
  <2>7. kept' = <<>> /\ Len(kept') = 0
    BY <2>1, <2>2
  <2> QED
    BY <2>1, <2>6, <2>7 DEF MeterInv, At
<1>7. CASE /\ ~read_packet /\ ~add_value_now_adds /\ ~add_value_now_advances
           /\ ~animate /\ ~Construct
  <2>1. UNCHANGED <<current_bin, data_points, value_this_bin>>
    BY <1>1, <1>7, GraphSteps
  <2>2. \A b, v : InBin(b, v)' <=> InBin(b, v)
    BY <2>1 DEF InBin
  <2>3. /\ UNCHANGED <<kind, kept, read_at>>
        /\ \/ loop'.pc = loop.pc
           \/ {loop.pc, loop'.pc} \cap {"advance", "add"} = {}
    <3>1. CASE LoopOnly
      <4>1. UNCHANGED <<kind, kept, read_at>>
        BY <1>1, <3>1, LoopOnlyFacts
      <4>2. CASE leave \/ join
        <5>1. loop.pc \in {"leave", "join"} /\ loop'.pc \in {"join", "end"}
          BY <1>1, <4>2, LoopFields DEF leave, join, At
        <5> QED
          BY <4>1, <5>1
      <4>3. CASE ~leave /\ ~join
        <5>1. /\ loop.pc \in {"wait_time", "switch", "poll", "read", "write",
                              "initialize"}
              /\ loop'.pc \in {"switch", "poll", "read", "wait_time", "write",
                               "leave"}
          BY <1>1, <1>7, <3>1, <4>3, LoopFields DEF LoopOnly
        <5> QED
          BY <4>1, <5>1
      <4> QED
        BY <4>2, <4>3
    <3>2. CASE write_packet
      BY <1>1, <3>2, WriteFacts
    <3>3. CASE switch \/ arrive \/ Tick \/ signal \/ UNCHANGED vars
      BY <1>1, <3>3, OtherFacts
    <3> QED
      BY <1>7, <3>1, <3>2, <3>3, Steps
  <2>4. \A i : Unmetered(i)' <=> Unmetered(i)
    BY <2>3 DEF Unmetered
  <2>5. CASE kind = "meter"
    <3>1. loop'.pc = "add" => Bin(read_at[kept[Len(kept)]]) <= current_bin'
      BY <2>1, <2>3, <2>5 DEF MeterInv, At
    <3> QED
      BY <2>2, <2>3, <2>4, <3>1, MeterKept
  <2>6. CASE kind # "meter"
    BY <2>3, <2>6 DEF MeterInv
  <2> QED
    BY <2>5, <2>6
<1> QED
  BY <1>2, <1>3, <1>4, <1>5, <1>6, <1>7

\* Each packet is metered once, in a bin between the one in which it was read
\* and the one in which its value was added, however the two threads
\* interleave; for every bin width.
THEOREM PacketsMeteredOnce == Spec => []MeteredOnce
<1>1. Init => MeterInv
  <2> SUFFICES ASSUME Init PROVE MeterInv
    OBVIOUS
  <2>1. /\ Len(kept) = 0 /\ loop.pc = "construct" /\ current_bin = 0
        /\ value_this_bin = {}
    BY EmptySeq DEF Init, GraphInit
  <2>2. \A b, v : ~InBin(b, v)
    BY <2>1 DEF InBin
  <2> QED
    BY <2>1, <2>2 DEF MeterInv, At
<1>2. BaseInv /\ BinInv /\ MeterInv /\ [Next]_vars => MeterInv'
  BY MeterStep
<1>3. BaseInv /\ BinInv /\ MeterInv => MeteredOnce
  <2> SUFFICES ASSUME BaseInv, BinInv, MeterInv, kind = "meter" PROVE MeteredOnce
    BY DEF MeteredOnce
  <2> DEFINE bins == Append(data_points, value_this_bin)
             added == {p \in Range(kept) :
                         loop.pc \in {"advance", "add"} => p # Last(kept)}
  <2>1. /\ data_points \in Seq(SUBSET Value) /\ value_this_bin \in SUBSET Value
        /\ current_bin \in Nat /\ Len(data_points) = current_bin
    BY DEF BinInv
  <2>2. /\ bins \in Seq(SUBSET Value) /\ Len(bins) = current_bin + 1
        /\ bins[current_bin + 1] = value_this_bin
        /\ \A b \in 1..current_bin : bins[b] = data_points[b]
    BY <2>1, AppendFacts
  <2> HIDE DEF bins
  <2>3. \A b, v : InBin(b, v) <=> b \in 1..Len(bins) /\ v \in bins[b]
    BY <2>1, <2>2 DEF InBin
  <2>4. DOMAIN bins = 1..Len(bins) /\ kept \in Seq(Ids) /\ DOMAIN kept = 1..Len(kept)
    BY <2>2, LenProperties DEF BaseInv, Types
  <2>5. ASSUME NEW p \in added PROVE \E v \in UNION Range(bins) : v.id = p
    <3>1. PICK i \in 1..Len(kept) : p = kept[i]
      BY <2>4, <2>5 DEF Range
    <3>2. ~Unmetered(i)
      BY <2>5, <3>1 DEF Unmetered, Last
    <3>3. PICK b, v : InBin(b, v) /\ v.id = kept[i]
      BY <3>2 DEF MeterInv
    <3>4. bins[b] \in Range(bins) /\ v \in bins[b]
      BY <2>3, <2>4, <3>3 DEF Range
    <3> QED
      BY <3>1, <3>3, <3>4
  <2>6. ASSUME NEW b \in 1..Len(bins), NEW c \in 1..Len(bins),
               NEW v \in bins[b], NEW w \in bins[c], v.id = w.id
        PROVE  b = c
    BY <2>3, <2>6 DEF MeterInv
  <2>7. ASSUME NEW b \in 1..Len(bins), NEW v \in bins[b]
        PROVE  b - 1 \in Bin(read_at[v.id])..v.latest
    <3>1. Bin(read_at[v.id]) <= b - 1 /\ b - 1 <= v.latest
      BY <2>3 DEF MeterInv
    <3>2. v \in Value
      BY <2>2, ElementOfSeq
    <3>3. v.latest \in Nat /\ v.id \in Ids
      BY <3>2 DEF Value
    <3>4. Bin(read_at[v.id]) \in Nat
      BY <3>3, BinGrows, SMTT(30) DEF BaseInv, Types
    <3> QED
      BY <2>1, <2>2, <3>1, <3>3, <3>4
  <2> QED
    BY <2>5, <2>6, <2>7 DEF MeteredOnce, bins
<1> QED
  BY <1>1, <1>2, <1>3, BaseInvariance, BinInvariance, PTL DEF Spec
==============================================================================
