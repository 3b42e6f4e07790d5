-------------------------- MODULE QueueDisciplines ---------------------------
(* The disciplines that bound the queue, behind the one interface that      *)
(* get_packet_queue of mm-link hands to the link.                           *)
EXTENDS PieQueue, ActiveNetQueue

allVars == <<vars, pieVars, anetVars>>

AllInit == Init /\ PieInit /\ AnetInit

Plain == config.policy \in {"infinite", "droptail", "drophead"}

AllNext ==
  \/ Plain /\ Next /\ UNCHANGED <<pieVars, anetVars>>
  \/ config.policy = "pie" /\ PieNext /\ UNCHANGED anetVars
  \/ config.policy = "activenet" /\ AnetNext /\ UNCHANGED pieVars

AllSpec == AllInit /\ [][AllNext]_allVars

\* Whatever mix of sizes, calls and drops has led there, between any two calls
\* the counters, which the log of the link and its drop count rely on, agree
\* with the queue, drop head holds the packets offered last, and every
\* discipline but ActiveNet meets both limits.
QueueSound ==
  /\ TypeOK /\ CountersExact /\ NewestSurvives
  /\ config.policy # "activenet" => WithinLimits
==============================================================================
