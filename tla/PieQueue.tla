------------------------------ MODULE PieQueue -------------------------------
(***************************************************************************)
(* PIEPacketQueue (src/src/packet/pie_packet_queue.cc), which drops        *)
(* arrivals with a probability that it computes from the delay of the      *)
(* queue, every t_update_ ms; there is no timer, so that the updates that  *)
(* are due are made up for at the next call.                               *)
(*                                                                         *)
(* Times, sizes and thresholds are scaled down.  The probability is an     *)
(* integer, in the unit alpha_ / 128 = 1/1024 of its smallest step, and    *)
(* the decay by 2% rounds down.                                            *)
(***************************************************************************)
EXTENDS DroppingQueue

CONSTANTS
  qdelay_ref, max_burst,         \* the arguments of the queue
  t_update, dq_threshold, PACKET_SIZE,
  PieSizes,                      \* sizes of the packets
  MaxTime                        \* bound on the clock

ASSUME PieAssumption ==
  /\ {qdelay_ref, max_burst, t_update, PACKET_SIZE} \subseteq Nat \ {0}
  /\ dq_threshold \in Nat /\ MaxTime \in Nat /\ PieSizes \subseteq Sizes

VARIABLES
  now,             \* timestamp()
  pie,             \* the state of the controller
  timer,           \* history: the controller, had it a timer
  measured         \* history: has a rate been measured?

pieVars == <<now, pie, timer, measured>>

Invalid == -1      \* DQ_COUNT_INVALID
One == 1024        \* probability 1
WORD == 65536      \* 2^32, scaled down

PieInit ==
  /\ now = 0
  /\ pie = [drop_prob |-> 0, burst_allowance |-> 0, qdelay_old |-> 0,
            current_qdelay |-> 0, dq_count |-> Invalid, dq_tstamp |-> 0,
            avg_dq_rate |-> 0, last_update |-> 0]
  /\ timer = pie /\ measured = FALSE
------------------------------------------------------------------------------
(* calculate_drop_prob.                                                     *)

\* mutant: the difference stays unsigned
Unsigned(n) == n % WORD
\* An unsigned difference, cast to int.
Signed(n) == LET u == n % WORD IN IF u >= WORD \div 2 THEN u - WORD ELSE u

\* What an update adds to the probability.
Adjustment(r) ==
  (Signed(r.current_qdelay - qdelay_ref)
     + 10 * Signed(r.current_qdelay - r.qdelay_old))
    * (IF r.drop_prob <= 10 THEN 1           \* less than 0.01
       ELSE IF r.drop_prob <= 102 THEN 4     \* less than 0.1
       ELSE 8)

Calm(r) == /\ r.current_qdelay < qdelay_ref \div 2
           /\ r.qdelay_old < qdelay_ref \div 2

\* The delay that many bytes have at the rate measured.
Delayed(r, bytes) ==
  [r EXCEPT !.qdelay_old = r.current_qdelay,
            !.current_qdelay = IF r.avg_dq_rate > 0
                               THEN bytes \div r.avg_dq_rate ELSE 0]

\* The probability for that delay.
Adjusted(r, bytes) ==
  LET prob == r.drop_prob + Adjustment(r)
      clamped == Min({Max({prob, 0}), One})
      decays == /\ r.current_qdelay = 0 /\ r.qdelay_old = 0
                /\ prob <= One /\ bytes = 0
  IN [r EXCEPT
        !.drop_prob = IF decays THEN (clamped * 98) \div 100 ELSE clamped,
        !.burst_allowance = Max({0, r.burst_allowance - t_update}),
        !.last_update = r.last_update + t_update]

\* The measurement starts afresh when the queue has been calm.
Rested(r) ==
  IF r.drop_prob = 0 /\ Calm(r) /\ r.avg_dq_rate > 0
    THEN [r EXCEPT !.dq_count = Invalid, !.avg_dq_rate = 0,
                   !.burst_allowance = max_burst]
    ELSE r

\* One turn of the loop, with that many bytes in the queue.
Update(r, bytes) == Rested(Adjusted(Delayed(r, bytes), bytes))

\* The number of turns: updates are due while more than t_update has passed.
Periods(r) == Max({0, (now - r.last_update - 1) \div t_update})

calculate_drop_prob(r, bytes) ==
  LET after[n \in 0..Periods(r)] ==
        IF n = 0 THEN r ELSE Update(after[n - 1], bytes)
  IN after[Periods(r)]
------------------------------------------------------------------------------
\* The answers drop_early may give.
drop_early(r) ==
  IF \/ r.burst_allowance > 0
     \/ r.qdelay_old < qdelay_ref \div 2 /\ r.drop_prob <= 204   \* 0.2
     \/ queue_size_in_bytes < 2 * PACKET_SIZE
    THEN {FALSE}
    ELSE {b \in BOOLEAN : IF b THEN r.drop_prob > 0 ELSE r.drop_prob < One}

\* mutant: the packet is counted before the updates are made up for
BytesWithPacket(p) == queue_size_in_bytes + p.size
\* The occupancy that the updates made up for at an enqueue look at.
BytesAtEnqueue(p) == queue_size_in_bytes

pie_enqueue ==
  /\ ~failed /\ offered < MaxPackets
  /\ UNCHANGED <<config, returned, now, timer, measured>>
  /\ \E s \in PieSizes :
       LET p == [id |-> offered + 1, size |-> s]
           r == calculate_drop_prob(pie, BytesAtEnqueue(p))
       IN /\ pie' = r
          /\ \E early \in drop_early(r) :
               IF Fits(p) /\ ~early
                 THEN accept(p)
                 ELSE UNCHANGED <<internal_queue, queue_size_in_bytes,
                                  queue_size_in_packets>>
  /\ offered' = offered + 1
  /\ failed' = ~good'

\* The dequeue rate is sampled over dq_threshold bytes.
Sampled(r, bytes) ==
  LET dtime == now - r.dq_tstamp
      sample == r.dq_count \div dtime
  IN IF r.dq_count > dq_threshold /\ dtime > 0
       THEN [r EXCEPT
               !.avg_dq_rate = IF @ = 0 THEN sample
                               ELSE (@ - @ \div 8) + sample \div 8,
               !.dq_count = IF bytes < dq_threshold THEN Invalid ELSE 0,
               !.dq_tstamp = IF bytes < dq_threshold THEN @ ELSE now,
               !.burst_allowance = Max({0, @ - dtime})]
       ELSE r

\* The rest of dequeue, with what is left in the queue.
Measured(r, size, bytes) ==
  LET begun == IF bytes >= dq_threshold /\ r.dq_count = Invalid
                 THEN [r EXCEPT !.dq_tstamp = now, !.dq_count = 0] ELSE r
  IN IF begun.dq_count = Invalid THEN begun
     ELSE Sampled([begun EXCEPT !.dq_count = @ + size], bytes)

\* If updates are due at a dequeue, they are made with the state it leaves,
\* which no timer would have seen; the timer of the history starts afresh.
pie_dequeue ==
  /\ dequeue
  /\ LET r == Measured(pie, returned'.size, queue_size_in_bytes')
     IN /\ pie' = calculate_drop_prob(r, queue_size_in_bytes')
        /\ timer' = pie'
        /\ measured' = (measured \/ r.avg_dq_rate # pie.avg_dq_rate)
  /\ UNCHANGED now

Tick ==
  /\ now < MaxTime /\ now' = now + 1
  /\ timer' = IF now' - timer.last_update > t_update
                THEN Update(timer, queue_size_in_bytes) ELSE timer
  /\ UNCHANGED <<vars, pie, measured>>

PieNext == pie_enqueue \/ pie_dequeue \/ Tick
------------------------------------------------------------------------------
(* Properties.                                                              *)

\* No packet is dropped early before the rate of the link has been measured:
\* whatever is queued and however much time passes, the probability stays 0.
DropsNeedRate == config.policy = "pie" /\ pie.drop_prob > 0 => measured

\* The updates made up for at an enqueue give what a timer would have given,
\* as the comment in calculate_drop_prob says of them, since the last dequeue.
AsWithTimer ==
  config.policy = "pie" =>
    calculate_drop_prob(pie, queue_size_in_bytes) = timer
==============================================================================
