-------------------------- MODULE MC_DroppingQueue --------------------------
(* The instances of DroppingQueue that TLC checks.                         *)
EXTENDS DroppingQueue

\* Drop head with a byte limit: one arrival may displace several packets.
HeadByBytes ==
  {[policy |-> "drophead", packet_limit |-> 0, byte_limit |-> 4]}
=============================================================================
