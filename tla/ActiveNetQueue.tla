--------------------------- MODULE ActiveNetQueue ----------------------------
(***************************************************************************)
(* DropActiveNetQueue (src/src/packet/drop_activenet_queue.cc): when the   *)
(* queue is full, an arrival of priority 1 clears older frames of priority *)
(* 2 and above out of it.                                                  *)
(*                                                                         *)
(* The queue takes the bytes at a fixed place of every packet for a        *)
(* header, whatever sender, flow or protocol it belongs to: any packet may *)
(* have any header, and two frames may well have the same number.          *)
(***************************************************************************)
EXTENDS DroppingQueue

CONSTANTS
  FrameSize,       \* size of the packets
  Headers          \* the headers that packets may carry

Header == [udp : BOOLEAN, msg_no : Nat, priority : 0..7,
           pkt_pos : {"FIRST", "MID", "LAST", "SOLO"}]

ASSUME ActiveNetAssumption == FrameSize \in Sizes /\ Headers \subseteq Header

VARIABLES
  log_file,        \* was the queue given a log file?
  msg_in_drop,
  header,          \* the headers of the packets offered so far
  sent,            \* history: the packets handed back
  cut              \* history: the packets cleared out

anetVars == <<log_file, msg_in_drop, header, sent, cut>>

AnetInit ==
  /\ log_file \in BOOLEAN /\ msg_in_drop = -1
  /\ header = <<>> /\ sent = {} /\ cut = {}
------------------------------------------------------------------------------
\* mutant: any packet of an old frame may be the first to go
StaleAnywhere(h, dropper_msg) == h.priority >= 2 /\ h.msg_no < dropper_msg
\* Does a frame that is to go begin here?
Stale(h, dropper_msg) ==
  /\ h.priority >= 2 /\ h.msg_no < dropper_msg
  /\ h.pkt_pos \in {"FIRST", "SOLO"}

\* One turn of the loop: packet p is erased or kept.
Sweep(acc, p, dropper_msg) ==
  LET h == header[p.id]
  IN IF Stale(h, dropper_msg)
       THEN [acc EXCEPT !.msg = h.msg_no, !.stale = TRUE, !.cut = @ \cup {p.id}]
     ELSE IF acc.msg = h.msg_no
       THEN [acc EXCEPT !.cut = @ \cup {p.id}]
       ELSE [acc EXCEPT !.kept = Append(@, p)]

\* The clean-up goes once through the queue.
dropStaleFrames(dropper_msg) ==
  LET swept[n \in 0..Len(internal_queue)] ==
        IF n = 0
        THEN [kept |-> <<>>, msg |-> msg_in_drop, cut |-> {}, stale |-> FALSE]
        ELSE Sweep(swept[n - 1], internal_queue[n], dropper_msg)
  IN swept[Len(internal_queue)]

\* The bytes left by the clean-up.
BytesLeft(kept) == queue_size_in_bytes - (Bytes(internal_queue) - Bytes(kept))

\* Without a log file the clean-up writes to a null stream.
EnqueueUdp(p, h) ==
  LET clean == ~Fits(p) /\ h.priority = 1
      swept == dropStaleFrames(h.msg_no)
      kept == IF clean THEN swept.kept ELSE internal_queue
      bytes == IF clean THEN BytesLeft(kept) ELSE queue_size_in_bytes
      packets == queue_size_in_packets - (Len(internal_queue) - Len(kept))
      fits == good_with(bytes + p.size, packets + 1)
  IN /\ internal_queue' = IF fits THEN Append(kept, p) ELSE kept
     /\ queue_size_in_bytes' = IF fits THEN bytes + p.size ELSE bytes
     /\ queue_size_in_packets' = IF fits THEN packets + 1 ELSE packets
     /\ msg_in_drop' = IF clean THEN swept.msg ELSE msg_in_drop
     /\ cut' = IF clean THEN cut \cup swept.cut ELSE cut
     /\ failed' = (clean /\ swept.stale /\ ~log_file)

anet_enqueue ==
  /\ ~failed /\ offered < MaxPackets
  /\ \E h \in Headers :
       LET p == [id |-> offered + 1, size |-> FrameSize]
       IN /\ header' = Append(header, h)
          /\ IF h.udp THEN EnqueueUdp(p, h)
             ELSE accept(p) /\ UNCHANGED <<msg_in_drop, cut, failed>>
  /\ offered' = offered + 1
  /\ UNCHANGED <<config, returned, log_file, sent>>

anet_dequeue ==
  /\ dequeue
  /\ sent' = sent \cup {returned'.id}
  /\ UNCHANGED <<log_file, msg_in_drop, header, cut>>

AnetNext == anet_enqueue \/ anet_dequeue
------------------------------------------------------------------------------
(* Properties.                                                              *)

\* The queue exceeds its limits only by packets that are not UDP and have
\* come since the last UDP packet in it was accepted.
OverfilledByOthers ==
  config.policy = "activenet" =>
    \A n \in 1..Len(internal_queue) :
      header[internal_queue[n].id].udp =>
        good_with(Bytes(SubSeq(internal_queue, 1, n)), n)

\* The ferry dies of an assert or of the missing log file only if other
\* traffic has overfilled the queue, which no UDP packet ever does, or frames
\* were cleared without a log.
DiesOnlyOverfilled ==
  /\ OverfilledByOthers
  /\ failed => /\ config.policy = "activenet"
               /\ \/ ~log_file
                  \/ \E i \in 1..offered : ~header[i].udp

\* Packet c looks like the beginning of a frame, and an urgent packet of a
\* newer one has come after it.
GivesWay(c) ==
  /\ header[c].pkt_pos \in {"FIRST", "SOLO"} /\ header[c].priority >= 2
  /\ \E d \in (c + 1)..offered :
       /\ header[d].udp /\ header[d].priority = 1
       /\ header[d].msg_no > header[c].msg_no

\* A frame whose first packet was handed to the link loses a later packet only
\* to the number it shares: another packet that begins a frame of that number
\* (of another flow, not UDP, or sent again) was cut because it gave way.
\* Nothing else tears a frame, although msg_in_drop_ outlives the clean-up
\* that has set it and meets packets that came long after.
FrameNotTorn ==
  config.policy = "activenet" =>
    \A i \in sent, j \in cut :
      header[i].pkt_pos = "FIRST" /\ header[i].msg_no = header[j].msg_no =>
        \E c \in cut \ {i} : GivesWay(c) /\ header[c].msg_no = header[i].msg_no
==============================================================================
