------------------------ MODULE MC_QueueDisciplines -------------------------
(* The instance of QueueDisciplines that TLC checks.                       *)
EXTENDS QueueDisciplines

\* Without a limit, with both, with a packet limit.
Disciplines ==
  {[policy |-> "infinite", packet_limit |-> 0, byte_limit |-> 0],
   [policy |-> "droptail", packet_limit |-> 3, byte_limit |-> 5],
   [policy |-> "drophead", packet_limit |-> 3, byte_limit |-> 0],
   [policy |-> "pie", packet_limit |-> 4, byte_limit |-> 6],
   [policy |-> "activenet", packet_limit |-> 0, byte_limit |-> 3]}

\* Frames 1 and 2, urgent or not, of one flow or of several; and packets that
\* are not UDP but look like the beginning or the end of frame 1.
AnyHeaders ==
  [udp : {TRUE}, msg_no : {1, 2}, priority : {1, 2}, pkt_pos : {"FIRST", "MID"}]
    \cup [udp : {FALSE}, msg_no : {1}, priority : {2}, pkt_pos : {"SOLO", "LAST"}]
=============================================================================
